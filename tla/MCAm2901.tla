------------------------------- MODULE MCAm2901 -------------------------------
(***************************************************************************)
(* Two slices with two registers, running every program of three           *)
(* instructions from a small set: loads of a byte into RAM or Q, every     *)
(* function with every kind of destination, and operands from registers,   *)
(* from Q and from the data pins.                                          *)
(***************************************************************************)
EXTENDS Am2901Chain

I(src, func, dest, a, b, d, c) ==
  [src |-> src, func |-> func, dest |-> dest, rA |-> a, rB |-> b,
   D |-> d, Cin |-> c]

MCReg == 0 .. 1

Loads == { I("DZ", "OR", "RAMF", 0, 0, d, 0) : d \in {90, 143} }
         \cup { I("DZ", "OR", "QREG", 0, 1, 184, 0) }

Shifts == { I("DA", "ADD", dest, 0, 1, 119, 1) :
              dest \in {"RAMQD", "RAMD", "RAMQU", "RAMU"} }

Others == { I("AQ", func, "RAMA", 0, 1, 0, 0) : func \in {"SUBR", "EXNOR"} }
          \cup { I("DA", func, "RAMF", 1, 0, 60, 1) : func \in {"SUBS", "AND", "NOTRS"} }
          \cup { I("AB", "EXOR", "RAMF", 0, 0, 0, 0), I("ZQ", "OR", "RAMF", 0, 1, 0, 0),
                 I("DQ", "ADD", "RAMF", 0, 1, 113, 1), I("ZB", "SUBS", "NOP", 0, 1, 0, 1),
                 I("ZA", "EXOR", "NOP", 1, 1, 0, 0) }

MCProgram == Loads \cup Shifts \cup Others

(* Every line was low, or every line was high.                             *)
MCLeftover == { [l \in Line |-> b] : b \in Bit }
=============================================================================
