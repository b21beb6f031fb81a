--------------------------- MODULE MCCentfsImage ---------------------------
(***************************************************************************)
(* Images of three sectors (one of a single sector, which is too short for *)
(* the scan), with and without padding, with sectors that were not dumped  *)
(* and data that looks like padding.                                       *)
(***************************************************************************)
EXTENDS CentfsImage

L(pitch, sectors, bad, lead) ==
  [pitch |-> pitch, sectors |-> sectors, bad |-> bad, lead |-> lead]

MCImages ==
  { L(pitch, 3, bad, lead) :
      pitch \in {512, 1024}, bad \in {{}, {0}, {1, 2}}, lead \in {0, 2} }
  \union { L(768, 3, {2}, 0), L(640, 3, {}, 0), L(400, 1, {}, 0) }
  \union { L(400, 3, {}, lead) : lead \in {0, 111, 112, 399} }
=============================================================================
