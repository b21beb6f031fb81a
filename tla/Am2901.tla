-------------------------------- MODULE Am2901 --------------------------------
(***************************************************************************)
(* One Am2901 ALU slice: am2901_update in each of the four states of the   *)
(* clock.  ALU_am2901.c and ALU_am2901_core.c hold the same operators; the *)
(* steps and their order are those of ALU_am2901.c, the only file with a   *)
(* driver (see Am2901Chain).                                               *)
(*                                                                         *)
(* The pins of a slice are variables of this module, so that slices are    *)
(* wired by giving the pins of two instances the same variable.  Y, which  *)
(* only shows A or F, and F3, the top bit of F, are not written down.      *)
(***************************************************************************)
EXTENDS Integers

CONSTANT Reg               \* the register addresses: 0 .. 15; fewer for TLC

Bit    == {0, 1}
Nibble == 0 .. 15

(* The nine bits of an instruction, decoded.                               *)
Sources      == {"AQ", "AB", "ZQ", "ZB", "ZA", "DA", "DQ", "DZ"}
Functions8   == {"ADD", "SUBR", "SUBS", "OR", "AND", "NOTRS", "EXOR", "EXNOR"}
Destinations == {"QREG", "NOP", "RAMA", "RAMF", "RAMQD", "RAMD", "RAMQU", "RAMU"}

Instruction == [ src : Sources, func : Functions8, dest : Destinations,
                 rA : Reg, rB : Reg ]

VARIABLES
  clk,                     \* the state of the clock line
  inst,                    \* the instruction on the pins
  D, Cn,                   \* input pins: data, carry in
  Co, look, FZ,            \* output pins: carry out, [P_, G_, OVR], zero
  RAM0, RAM3, Q0, Q3,      \* tristate pins of the two shifters
  RAM, A, B, Q, F,         \* the registers, their latches, the result
  dest                     \* the destination decoded last ("none" at first)

internal == <<RAM, A, B, Q, F, dest>>

InitSlice ==
  /\ RAM = [r \in Reg |-> 0]
  /\ A = 0 /\ B = 0 /\ Q = 0 /\ F = 0
  /\ dest = "none"

(***************************************************************************)
(* Bits.  The weight of a bit, 1, 2, 4 or 8, names it.                     *)
(***************************************************************************)
Has(n, w)    == (n \div w) % 2 = 1
AsBit(b)     == IF b THEN 1 ELSE 0
Not(n)       == 15 - n
Join(b, c, d, e) == AsBit(b) + 2 * AsBit(c) + 4 * AsBit(d) + 8 * AsBit(e)
And(m, n) == Join(Has(m, 1) /\ Has(n, 1), Has(m, 2) /\ Has(n, 2),
                  Has(m, 4) /\ Has(n, 4), Has(m, 8) /\ Has(n, 8))
Or(m, n)  == Join(Has(m, 1) \/ Has(n, 1), Has(m, 2) \/ Has(n, 2),
                  Has(m, 4) \/ Has(n, 4), Has(m, 8) \/ Has(n, 8))

(***************************************************************************)
(* What a destination asks for: the table am2901_destinations.             *)
(***************************************************************************)
RAM_EN(d)    == d \in Destinations \ {"QREG", "NOP"}
Q_EN(d)      == d \in {"QREG", "RAMQD", "RAMQU"}
ShiftsDown(d) == d \in {"RAMQD", "RAMD"}     \* drives RAM0 and Q0
ShiftsUp(d)  == d \in {"RAMQU", "RAMU"}      \* drives RAM3 and Q3

(* Faulty variants stand before the definition they vary.                  *)
ShiftedUnmasked(n, d, low, high, kept) ==     \* the mask 0xf forgotten
  IF ShiftsDown(d) THEN n \div 2 + 8 * high
  ELSE IF ShiftsUp(d) THEN 2 * n + low
  ELSE kept

(* A nibble moved one bit down or up, or kept.                             *)
Shifted(n, d, low, high, kept) ==
  IF ShiftsDown(d) THEN n \div 2 + 8 * high
  ELSE IF ShiftsUp(d) THEN (2 * n + low) % 16
  ELSE kept

(***************************************************************************)
(* The operands and the function.                                          *)
(***************************************************************************)
Rmux == CASE inst.src \in {"AQ", "AB"}             -> A
          [] inst.src \in {"ZQ", "ZB", "ZA"}       -> 0
          [] inst.src \in {"DA", "DQ", "DZ"}       -> D

Smux == CASE inst.src \in {"AQ", "ZQ", "DQ"}       -> Q
          [] inst.src \in {"AB", "ZB"}             -> B
          [] inst.src \in {"ZA", "DA"}             -> A
          [] inst.src = "DZ"                       -> 0

Arithmetic == {"ADD", "SUBR", "SUBS"}

RNotForExor ==                 \* EXOR left out of the switch
  IF inst.func \in {"SUBR", "NOTRS"} THEN Not(Rmux) ELSE Rmux

R == IF inst.func \in {"SUBR", "NOTRS", "EXOR"} THEN Not(Rmux) ELSE Rmux
S == IF inst.func = "SUBS" THEN Not(Smux) ELSE Smux

P(w) == Has(R, w) \/ Has(S, w)
G(w) == Has(R, w) /\ Has(S, w)
Pall == P(1) /\ P(2) /\ P(4) /\ P(8)
Gany == G(1) \/ G(2) \/ G(4) \/ G(8)

(* The carries into bits 1, 2 and 3, and out of the slice.                 *)
C1 == G(1) \/ (P(1) /\ Cn = 1)
C2Adjacent == G(2) \/ (P(1) /\ C1)    \* the propagate bit of the stage before

C2 == G(2) \/ (P(2) /\ C1)
C3 == G(4) \/ (P(4) /\ C2)
C4 == G(8) \/ (P(8) /\ C3)

Function ==
  CASE inst.func \in Arithmetic       -> (R + S + Cn) % 16
    [] inst.func = "OR"               -> Or(R, S)
    [] inst.func \in {"AND", "NOTRS"} -> And(R, S)
    [] inst.func \in {"EXOR", "EXNOR"} -> Or(And(R, S), And(Not(R), Not(S)))

Generates == G(8) \/ (P(8) /\ G(4)) \/ (P(8) /\ P(4) /\ G(2))
ExG       == Generates \/ Pall

CarryOut ==
  CASE inst.func \in Arithmetic       -> C4
    [] inst.func = "OR"               -> ~Pall \/ Cn = 1
    [] inst.func \in {"AND", "NOTRS"} -> Gany \/ Cn = 1
    [] inst.func \in {"EXOR", "EXNOR"} -> ~(ExG /\ (G(1) \/ Cn = 0))

(* ~P(k) | (~G(k) & ~P(k-1)) | ... of the exclusive functions, k = 2 or 3. *)
Ex2 == \/ ~P(4) \/ (~G(4) /\ ~P(2)) \/ (~G(4) /\ ~G(2) /\ ~P(1))
       \/ (~G(4) /\ ~G(2) /\ ~G(1) /\ Cn = 1)
Ex3 == \/ ~P(8) \/ (~G(8) /\ ~P(4)) \/ (~G(8) /\ ~G(4) /\ ~P(2))
       \/ (~G(8) /\ ~G(4) /\ ~G(2) /\ ~P(1))
       \/ (~G(8) /\ ~G(4) /\ ~G(2) /\ ~G(1) /\ Cn = 1)

Overflow ==
  CASE inst.func \in Arithmetic            -> C3 # C4
    [] inst.func \in {"OR", "AND", "NOTRS"} -> CarryOut
    [] inst.func \in {"EXOR", "EXNOR"}     -> Ex2 # Ex3

Propagate_ ==
  CASE inst.func \in Arithmetic            -> ~Pall
    [] inst.func \in {"OR", "AND", "NOTRS"} -> FALSE
    [] inst.func \in {"EXOR", "EXNOR"}     -> Gany

GenerateShort ==               \* without the term of the lowest bit
  CASE inst.func \in Arithmetic       -> ~Generates
    [] inst.func = "OR"               -> Pall
    [] inst.func \in {"AND", "NOTRS"} -> ~Gany
    [] inst.func \in {"EXOR", "EXNOR"} -> ExG

Generate_ ==
  CASE inst.func \in Arithmetic       ->
         ~(Generates \/ (P(8) /\ P(4) /\ P(2) /\ G(1)))
    [] inst.func = "OR"               -> Pall
    [] inst.func \in {"AND", "NOTRS"} -> ~Gany
    [] inst.func \in {"EXOR", "EXNOR"} -> ExG

(***************************************************************************)
(* The steps of the four clock states.                                     *)
(***************************************************************************)
clock_state_edge_HL ==
  /\ A' = RAM[inst.rA] /\ B' = RAM[inst.rB]
  /\ UNCHANGED <<RAM, Q, F, dest, Co, look>>

clock_state_setup_L_Early ==   \* RAM written before the function is decoded
  /\ F' = Function
  /\ Co' = AsBit(CarryOut)
  /\ look' = [P_ |-> AsBit(Propagate_), G_ |-> AsBit(Generate_),
              OVR |-> AsBit(Overflow)]
  /\ RAM' = IF RAM_EN(dest)
            THEN [RAM EXCEPT ![inst.rB] = Shifted(F, dest, RAM0, RAM3, F)]
            ELSE RAM
  /\ UNCHANGED <<A, B, Q, dest>>

clock_state_setup_L ==
  /\ F' = Function
  /\ Co' = AsBit(CarryOut)
  /\ look' = [P_ |-> AsBit(Propagate_), G_ |-> AsBit(Generate_),
              OVR |-> AsBit(Overflow)]
  /\ RAM' = IF RAM_EN(dest)
            THEN [RAM EXCEPT ![inst.rB] = Shifted(F', dest, RAM0, RAM3, F')]
            ELSE RAM
  /\ UNCHANGED <<A, B, Q, dest>>

clock_state_edge_LH ==
  /\ Q' = IF Q_EN(dest) THEN Shifted(Q, dest, Q0, Q3, F) ELSE Q
  /\ UNCHANGED <<RAM, A, B, F, dest, Co, look>>

clock_state_setup_H ==
  /\ dest' = inst.dest
  /\ UNCHANGED <<RAM, A, B, Q, F, Co, look>>

DrivePinsSwapped ==            \* the other end of Q on the pin
  /\ Q0'   = IF ShiftsDown(dest') THEN Q' \div 8 ELSE Q0
  /\ Q3'   = IF ShiftsUp(dest') THEN Q' \div 8 ELSE Q3
  /\ RAM0' = IF ShiftsDown(dest') THEN F' % 2 ELSE RAM0
  /\ RAM3' = IF ShiftsUp(dest') THEN F' \div 8 ELSE RAM3
  /\ FZ'   = IF F' # 0 THEN 0 ELSE FZ          \* an open collector

DrivePinsPullUp ==             \* FZ driven both ways
  /\ Q0'   = IF ShiftsDown(dest') THEN Q' % 2 ELSE Q0
  /\ Q3'   = IF ShiftsUp(dest') THEN Q' \div 8 ELSE Q3
  /\ RAM0' = IF ShiftsDown(dest') THEN F' % 2 ELSE RAM0
  /\ RAM3' = IF ShiftsUp(dest') THEN F' \div 8 ELSE RAM3
  /\ FZ'   = IF F' # 0 THEN 0 ELSE 1

(* The pins driven at the end of am2901_update, in every clock state.      *)
DrivePins ==
  /\ Q0'   = IF ShiftsDown(dest') THEN Q' % 2 ELSE Q0
  /\ Q3'   = IF ShiftsUp(dest') THEN Q' \div 8 ELSE Q3
  /\ RAM0' = IF ShiftsDown(dest') THEN F' % 2 ELSE RAM0
  /\ RAM3' = IF ShiftsUp(dest') THEN F' \div 8 ELSE RAM3
  /\ FZ'   = IF F' # 0 THEN 0 ELSE FZ          \* an open collector

Update ==
  /\ CASE clk = "HL" -> clock_state_edge_HL
       [] clk = "LO" -> clock_state_setup_L
       [] clk = "LH" -> clock_state_edge_LH
       [] clk = "HI" -> clock_state_setup_H
  /\ DrivePins

SliceTypeOK ==
  /\ RAM \in [Reg -> Nibble]
  /\ A \in Nibble /\ B \in Nibble /\ Q \in Nibble /\ F \in Nibble
  /\ dest \in Destinations \cup {"none"}
  /\ Co \in Bit /\ FZ \in Bit
  /\ look \in [P_ : Bit, G_ : Bit, OVR : Bit]
  /\ RAM0 \in Bit /\ RAM3 \in Bit /\ Q0 \in Bit /\ Q3 \in Bit
=============================================================================
