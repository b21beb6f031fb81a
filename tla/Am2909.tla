------------------------------- MODULE Am2909 -------------------------------
(***************************************************************************)
(* The Am2909/Am2911 microprogram sequencer slice: am2909_update at a      *)
(* rising clock edge (at any other time it does nothing).                  *)
(*                                                                         *)
(* The macros I_, S_ and oS_, which the repository uses but does not hold, *)
(* stand for a field of the device, the value on one of its pins, and that *)
(* value or a default when the pin is not connected.                       *)
(***************************************************************************)
EXTENDS Naturals

CONSTANTS
  Top,           \* the largest address of a slice: 0xf; smaller for TLC
  Ports          \* what may be on the pins at a clock edge

Nibble == 0 .. Top
Bit    == {0, 1}
Pins   == [ S : {"uPC", "AR", "STK0", "Di"}, FE_ : Bit, PUP : Bit,
            Di : Nibble, Ri : Nibble, RE_ : Bit, Cn : Bit,
            ORi : Nibble, ZERO_ : Bit, OE_ : Bit ]

(* On an Am2911 the pins Ri are those of Di, and ORi are not there (0).    *)
Am2911Pins == {p \in Pins : p.Ri = p.Di /\ p.ORi = 0}

ASSUME SliceAssumption ==
  /\ Top \in {1, 3, 7, 15}
  /\ Ports \subseteq Pins

VARIABLES
  uPC,           \* the microprogram counter: the address after the last one
  AR,            \* the address register
  SP, STK,       \* the stack, a circular buffer
  Y,             \* the address on the output pins
  Co             \* the carry out

vars == <<uPC, AR, SP, STK, Y, Co>>

Init ==
  /\ uPC = 0 /\ AR = 0
  /\ SP = 0 /\ STK = [k \in 0 .. 3 |-> 0]
  /\ Y \in Nibble /\ Co \in Bit     \* pins, not initialised by am2909_init

(* a | b, of four bits.                                                    *)
Or(a, b) ==
  LET bit(k) == IF (a \div 2 ^ k) % 2 = 1 \/ (b \div 2 ^ k) % 2 = 1 THEN 2 ^ k ELSE 0
  IN bit(0) + bit(1) + bit(2) + bit(3)

Latch(p) == IF p.RE_ = 0 THEN p.Ri ELSE AR

(* The address that comes next: tuPC, or uPC when the outputs are off.     *)
Source(p) ==
  CASE p.S = "uPC"  -> uPC
    [] p.S = "AR"   -> Latch(p)
    [] p.S = "STK0" -> STK[SP]
    [] p.S = "Di"   -> p.Di

Selected(p) == IF p.ZERO_ = 0 THEN 0 ELSE Or(Source(p), p.ORi)

(* Faulty variants stand before the definition they vary.                  *)
StackStepNextAddress(p) ==      \* the address after the jump pushed
  CASE p.FE_ = 0 /\ p.PUP = 1 ->
         /\ SP' = (SP + 1) % 4
         /\ STK' = [STK EXCEPT ![(SP + 1) % 4] = uPC']
    [] p.FE_ = 0 /\ p.PUP = 0 ->
         /\ SP' = IF SP # 0 THEN SP - 1 ELSE 3
         /\ UNCHANGED STK
    [] p.FE_ = 1 -> UNCHANGED <<SP, STK>>

StackStepErases(p) ==           \* a word popped is cleared
  CASE p.FE_ = 0 /\ p.PUP = 1 ->
         /\ SP' = (SP + 1) % 4
         /\ STK' = [STK EXCEPT ![(SP + 1) % 4] = uPC]
    [] p.FE_ = 0 /\ p.PUP = 0 ->
         /\ SP' = IF SP # 0 THEN SP - 1 ELSE 3
         /\ STK' = [STK EXCEPT ![SP] = 0]
    [] p.FE_ = 1 -> UNCHANGED <<SP, STK>>

StackStepUnwrapped(p) ==        \* the wrap of SP forgotten
  CASE p.FE_ = 0 /\ p.PUP = 1 ->
         /\ SP' = SP + 1
         /\ STK' = [STK EXCEPT ![(SP + 1) % 4] = uPC]
    [] p.FE_ = 0 /\ p.PUP = 0 ->
         /\ SP' = IF SP # 0 THEN SP - 1 ELSE 3
         /\ UNCHANGED STK
    [] p.FE_ = 1 -> UNCHANGED <<SP, STK>>

StackStep(p) ==
  CASE p.FE_ = 0 /\ p.PUP = 1 ->
         /\ SP' = (SP + 1) % 4
         /\ STK' = [STK EXCEPT ![(SP + 1) % 4] = uPC]
    [] p.FE_ = 0 /\ p.PUP = 0 ->
         /\ SP' = IF SP # 0 THEN SP - 1 ELSE 3
         /\ UNCHANGED STK
    [] p.FE_ = 1 -> UNCHANGED <<SP, STK>>

CountCarryLate(p) ==            \* the carry taken from the new counter
  LET a == IF p.OE_ = 1 THEN uPC ELSE Selected(p)
  IN /\ uPC' = (a + p.Cn) % (Top + 1)
     /\ Co' = IF p.Cn = 1 /\ (a + 1) % (Top + 1) = Top THEN 1 ELSE 0

Count(p) ==
  LET a == IF p.OE_ = 1 THEN uPC ELSE Selected(p)
  IN /\ uPC' = (a + p.Cn) % (Top + 1)
     /\ Co' = IF p.Cn = 1 /\ a = Top THEN 1 ELSE 0

clock_edge_LH(p) ==
  /\ AR' = Latch(p)
  /\ Y' = IF p.OE_ = 1 THEN Y ELSE Selected(p)
  /\ Count(p)
  /\ StackStep(p)

Next == \E p \in Ports : clock_edge_LH(p)

Spec == Init /\ [][Next]_vars

(***************************************************************************)
(* Properties.                                                             *)
(***************************************************************************)
TypeOK ==
  /\ uPC \in Nibble /\ AR \in Nibble
  /\ SP \in 0 .. 3 /\ STK \in [0 .. 3 -> Nibble]
  /\ Y \in Nibble /\ Co \in Bit

(* The circular buffer of am2909_clock_edge_LH is a stack of the last four *)
(* addresses pushed.                                                       *)
stack == [k \in 1 .. 4 |-> STK[(SP + 5 - k) % 4]]
Abstract == INSTANCE ReturnStack WITH stack <- stack, Depth <- 4, Address <- Nibble
ImplementsReturnStack == Abstract!Spec

(* A slice and its carry count without loss from the address put out (or   *)
(* the counter, when the outputs are off), so that slices can be chained.  *)
CarryIsExact ==
  [][\E a \in {uPC, Y'}, c \in Bit : uPC' + (Top + 1) * Co' = a + c]_vars
=============================================================================
