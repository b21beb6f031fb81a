------------------------------- MODULE RomTools -------------------------------
(***************************************************************************)
(* The ROM headers as the Makefiles build them: romcat prints the images   *)
(* of the microcode ROMs, interleaved, into a pipe that rom2include reads. *)
(***************************************************************************)
EXTENDS Rom2Include, SequencesExt

CONSTANTS
  Roms,            \* sequences of file lengths
  Strides, WordSizes

ASSUME RomAssumption ==
  /\ IModulus \in Nat \ {0} /\ FileModulus \in Nat \ {0} /\ PipeSize \in Nat \ {0} /\ MaxErrors \in Nat
  /\ Strides \subseteq 1 .. 8 /\ WordSizes \subseteq 1 .. 8
  /\ Roms \subseteq Seq(Nat \cup {Missing}) /\ Missing \notin Nat

romVars == <<cat, pipe, failures, include>>

RomInit ==
  /\ files \in Roms
  /\ named # 0 /\ stride \in { s \in Strides : named % s = 0 } /\ ws \in WordSizes
  /\ failures = 0 /\ CatInit /\ IncludeInit

Cat     == CatStep /\ UNCHANGED include
Include == IncludeStep /\ UNCHANGED cat

RomNext == Cat \/ Include

(* Two processes, which the system runs in turn.                           *)
RomSpec == RomInit /\ [][RomNext]_romVars /\ WF_romVars(Cat) /\ WF_romVars(Include)

(***************************************************************************)
(* Properties.                                                             *)
(***************************************************************************)
Chunk(k)  == SubSeq(files, k * stride + 1, (k + 1) * stride)
Whole(k)  == \A f \in 1 .. stride : Chunk(k)[f] # Missing
Even(k)   == \A f \in 1 .. stride : Chunk(k)[f] = Chunk(k)[1]

(* The rows of a chunk, up to the first byte that a file does not have.    *)
Rows(k) ==
  LET ends == Min({ Chunk(k)[f] * stride + f - 1 : f \in 1 .. stride })
  IN [b \in 1 .. ends |-> <<k * stride + ((b - 1) % stride), (b - 1) \div stride>>]

(* The chunks before a missing file, and all their rows.                   *)
Opened == { k \in 0 .. Len(files) \div stride - 1 : \A j \in 0 .. k : Whole(j) }
Bytes  == FlattenSeq([k \in 1 .. Cardinality(Opened) |-> Rows(k - 1)])

(* What the counts of the two programs can hold: no file is left out, and  *)
(* i of romcat does not mix up the files, with chunks that end with a row, *)
(* but for the last, and no wrap in the middle of a row; and the words are *)
(* fewer than i of rom2include can count.                                  *)
InRange ==
  /\ Len(files) < FileModulus
  /\ \A k \in Opened : k + 1 < Len(files) \div stride => Even(k)
  /\ Len(Bytes) < IModulus \/ IModulus % stride = 0
  /\ Len(Bytes) \div ws < IModulus

(* The header holds the bytes of the ROMs row by row: as long as no read   *)
(* fails its words are the beginning of them, in order, through the pipe   *)
(* and over all chunks, with a comma between any two; in the end they are  *)
(* all of them, a last word cut short included, and ROMSIZE is the number  *)
(* of the others.                                                          *)
Printed == FlattenSeq(array) \o word
Begun   == Len(array) + IF word = <<>> THEN 0 ELSE 1

WordsAreRows ==
  failures = 0 /\ InRange =>
    /\ Len(Printed) <= Len(Bytes) /\ Printed = SubSeq(Bytes, 1, Len(Printed))
    /\ \A k \in 1 .. Len(array) - 1 : Len(array[k]) = ws
    /\ commas = 2 .. Begun
    /\ cpc = "done" /\ ipc = "done" => Printed = Bytes /\ n = Len(Bytes) \div ws

(* A read error is reported by one of the two if each chunk is one file.   *)
(* With more the file that ends a chunk is another one than the file that  *)
(* failed, and nobody is told.                                             *)
ErrorIsReported ==
  stride = 1 /\ failures > 0 /\ cpc \in {"done", "failed"} /\ ipc # "read"
    => "failed" \in {cpc, ipc}

(* Both programs end, whatever the lengths, as errors do not go on for     *)
(* ever: neither waits for the other for good.                             *)
ToolsSettle == <>(cpc \in {"done", "failed"} /\ ipc \in {"done", "failed"})
=============================================================================
