------------------------------ MODULE Rom2Include ------------------------------
(***************************************************************************)
(* rom2include.c: bytes from standard input become the words of an array   *)
(* in a C header, followed by a define of their number.                    *)
(***************************************************************************)
EXTENDS RomCat

VARIABLES
  ws,              \* --word-size
  word, array,     \* the bytes of the word begun, and the initialisers printed
  commas,          \* those of them that a comma stands before
  n,               \* i of this program: the words counted
  ierr,            \* ferror of its input
  ipc              \* "read", "done" or "failed"

include == <<ws, word, array, commas, n, ierr, ipc>>

IncludeInit ==
  /\ word = <<>> /\ array = <<>> /\ commas = {} /\ n = 0 /\ ierr = FALSE /\ ipc = "read"

(* The comma is left out where the count is zero, not only at the first.   *)
PrintByte(b) ==
  /\ commas' = IF word = <<>> /\ n # 0 THEN commas \cup {Len(array) + 1} ELSE commas
  /\ IF Len(word) + 1 < ws
     THEN word' = Append(word, b) /\ UNCHANGED <<array, n>>
     ELSE /\ array' = Append(array, Append(word, b)) /\ word' = <<>>
          /\ n' = (n + 1) % IModulus

TakeByte ==
  /\ ipc = "read" /\ pipe # <<>>
  /\ PrintByte(Head(pipe)) /\ pipe' = Tail(pipe)
  /\ UNCHANGED <<failures, ws, ierr, ipc>>

TakeError ==
  /\ ipc = "read" /\ failures < MaxErrors
  /\ PrintByte(FF) /\ ierr' = TRUE /\ failures' = failures + 1
  /\ UNCHANGED <<pipe, ws, ipc>>

(* A word cut short stands in the array and is not counted.                *)
Done ==
  /\ ipc = "read" /\ pipe = <<>> /\ cpc \in {"done", "failed"}
  /\ array' = IF word = <<>> THEN array ELSE Append(array, word)
  /\ word' = <<>> /\ ipc' = IF ierr THEN "failed" ELSE "done"
  /\ UNCHANGED <<pipe, failures, ws, commas, n, ierr>>

IncludeStep == TakeByte \/ TakeError \/ Done
=============================================================================
