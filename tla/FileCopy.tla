------------------------------ MODULE FileCopy ------------------------------
(***************************************************************************)
(* What extracting one file promises: its blocks are written once each, in *)
(* the order of the file, and the copy counts as complete only when all of *)
(* them are there.  The device may break the copy at any moment; from then *)
(* on nothing that is written is a block of the file.                      *)
(***************************************************************************)
EXTENDS Naturals, Sequences

CONSTANTS
  Content,     \* the blocks of the file
  Junk         \* stands for anything else

VARIABLES
  out,         \* the blocks written
  phase

vars == <<out, phase>>

Init == out = <<>> /\ phase = "copying"

Copy ==
  /\ phase = "copying"
  /\ Len(out) < Len(Content)
  /\ out' = Append(out, Content[Len(out) + 1])
  /\ UNCHANGED phase

Finish ==
  /\ phase = "copying"
  /\ out = Content
  /\ phase' = "complete"
  /\ UNCHANGED out

(* The device fails on a list sector, or on a block that is written all    *)
(* the same.                                                               *)
Break ==
  /\ phase = "copying"
  /\ phase' = "broken"
  /\ out' \in {out, Append(out, Junk)}

Garble ==
  /\ phase = "broken"
  /\ out' = Append(out, Junk)
  /\ UNCHANGED phase

Next == Copy \/ Finish \/ Break \/ Garble

Spec == Init /\ [][Next]_vars
=============================================================================
