------------------------------- MODULE DiskFile -------------------------------
(***************************************************************************)
(* Files of disk sectors, as the small tools read them with fread: a file  *)
(* is a sequence of slots of 16 bytes, the size of a directory entry.  Of  *)
(* a slot only those bytes exist that steer a program.                     *)
(***************************************************************************)
EXTENDS Integers, Sequences, FiniteSetsExt

CONSTANTS
  Slots,           \* slots in a native sector, 400 / 16
  Pitch            \* slots in a sector of a CCDP dump, 512 / 16

ASSUME SectorAssumption == Slots \in Nat \ {0} /\ Pitch \in Nat /\ Pitch > Slots

(* name stands for the first ten bytes, seed and encrypted for the words   *)
(* at 6 and 4, link for the word at 13.                                    *)
Slot(name, encrypted, seed, link) ==
  [name |-> name, encrypted |-> encrypted, seed |-> seed, link |-> link]
Word       == 0 .. 65535
Contents   == [ name : STRING, encrypted : Word, seed : Word, link : Word ]
Zeros      == Slot("", 0, 0, 0)
IsEnd(s)   == s.name = "848d"
IsText(s)  == s.name \notin {"", "848d", "ff"}     \* printable, with the high bit
IsFF(s)    == s.name = "ff"

Overwrite(buffer, data) ==
  [k \in DOMAIN buffer |-> IF k <= Len(data) THEN data[k] ELSE buffer[k]]

(* What fread finds: the slots of block n, fewer or none at the file's end. *)
Block(file, size, n) == SubSeq(file, n * size + 1, Min({Len(file), (n + 1) * size}))
=============================================================================
