--------------------------- MODULE MCCentfsMatch ---------------------------
(***************************************************************************)
(* Names of up to three characters and all patterns of up to four.  The    *)
(* byte after the name is one that occurs in patterns or one that does not.*)
(***************************************************************************)
EXTENDS CentfsMatch, SequencesExt

CONSTANTS Letters, Other, MaxPattern

MCNames    == [1 .. NameBytes -> Letters \union {Space}]
MCPatterns == BoundedSeq(Letters \union {Star, Dot, Space}, MaxPattern)
MCBeyond   == Letters \union {Other}
=============================================================================
