---------------------------- MODULE ReturnStack ----------------------------
(***************************************************************************)
(* What the stack of a microprogram sequencer promises: the Depth most     *)
(* recent addresses, the latest first.  Pushing one forgets the oldest;    *)
(* popping one does not erase it, it becomes the oldest.                   *)
(***************************************************************************)
EXTENDS Naturals, Sequences

CONSTANTS Depth, Address

VARIABLE stack

Init == stack = [k \in 1 .. Depth |-> 0]

Push == \E a \in Address : stack' = <<a>> \o SubSeq(stack, 1, Depth - 1)

Pop == stack' = Append(Tail(stack), Head(stack))

Next == Push \/ Pop

Spec == Init /\ [][Next]_stack
=============================================================================
