------------------------------ MODULE MCRomTools ------------------------------
(***************************************************************************)
(* Up to four images of up to three bytes and some of more, in one chunk   *)
(* or in several; i wraps at nine, the number of files at eight, and there *)
(* is a case of ten.                                                       *)
(***************************************************************************)
EXTENDS RomTools

MCRoms ==
  UNION { [1 .. k -> {0, 1, 2, Missing}] : k \in 1 .. 4 }
  \cup { <<5, 6>>, <<5, 5>>, <<6, 4>>, <<4, 4, 2, 2>>, <<10>>, <<4, 4, 4>>, <<3, 3, 3>>, <<3, 3, 2>>,
         <<3, 2, 3>>, <<2, 3, 3>>, <<1, 1, 1, 2, 2, 2>>, <<1, 1, 1, 2, 3, 3>>,
         <<1, 1, 1, 2, Missing, 2>>, <<1, 1, 1, 1, 1, Missing>>,
         <<1, 2, 1, 1, 1, 1, 1, 1, 1, 1>> }
=============================================================================
