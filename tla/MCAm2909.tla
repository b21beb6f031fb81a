------------------------------ MODULE MCAm2909 ------------------------------
(***************************************************************************)
(* A slice of two bits with some of its pins held: addresses come from the *)
(* pins Di as 0 or 2, Ri follows Di as on an Am2911, and ORi can set bit 0; *)
(* pins are held where they make no difference to the stack.               *)
(***************************************************************************)
EXTENDS Am2909Calls

MCPorts == {p \in Am2911Pins \union {q \in Pins : q.Ri = q.Di /\ q.ORi = 1} :
              /\ p.Di \in {0, 2}
              /\ p.FE_ = 1  => p.PUP = 0
              /\ p.RE_ = 0  => p.S \in {"AR", "Di"}
              /\ p.Cn = 0   => p.S = "uPC" /\ p.FE_ = 1
              /\ p.ORi = 1  => p.S = "Di" /\ p.OE_ = 0 /\ p.ZERO_ = 1
              /\ p.ZERO_ = 0 => p.S = "uPC" /\ p.OE_ = 0
              /\ p.OE_ = 1  => p.S = "uPC"
              /\ p.Di # 0   => p.S \in {"AR", "Di"} /\ p.OE_ = 0}
=============================================================================
