---------------------------- MODULE Am2909Calls ----------------------------
(***************************************************************************)
(* Subroutine calls of a microprogram on an Am2909: pushing is a call (the *)
(* table am2909_ops names it JSR), popping with the top of the stack as    *)
(* the source a return (RTS).  `pending' remembers the calls that have not *)
(* returned, as far as the four words of the stack can.                    *)
(***************************************************************************)
EXTENDS Am2909, Sequences

VARIABLE pending

Calls(p)   == p.FE_ = 0 /\ p.PUP = 1
Returns(p) == p.FE_ = 0 /\ p.PUP = 0

Kept   == IF Len(pending) < 4 THEN Len(pending) ELSE 3
Called == <<uPC>> \o SubSeq(pending, 1, Kept)

CallsInit == Init /\ pending = <<>>

CallsStep(p) ==
  /\ clock_edge_LH(p)
  /\ pending' = CASE Calls(p) -> Called
                  [] Returns(p) /\ pending # <<>> -> Tail(pending)
                  [] OTHER -> pending

CallsNext == \E p \in Ports : CallsStep(p)

CallsSpec == CallsInit /\ [][CallsNext]_<<vars, pending>>

(* What a return finds on the stack is the address that followed the last  *)
(* call not yet returned from, with up to four calls under way.            *)
ReturnsNest == pending # <<>> => STK[SP] = pending[1]

(* The inductive invariant: the same of all the calls under way.           *)
Pending ==
  /\ pending \in Seq(Nibble)
  /\ Len(pending) <= 4
  /\ \A k \in 1 .. Len(pending) : stack[k] = pending[k]

CallsInv == TypeOK /\ Pending
=============================================================================
