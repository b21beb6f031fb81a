---------------------------- MODULE MCCpu6Microword ----------------------------
(***************************************************************************)
(* Words that differ from an idle one in one bit, for every bit that the   *)
(* tables of the chips around the ALU name, and ALU instructions with      *)
(* every function, every destination and every pair of operands.           *)
(***************************************************************************)
EXTENDS Cpu6Microword

MCReg == 0 .. 15

Field(value, at) == { at + k : k \in BitsOf(value) }

(* The ALU part of a word: register numbers and the three octal codes.     *)
ALU(a, b, dest, func, src) ==
  Field(a, 47) \cup Field(b, 43) \cup Field(dest, 40)
    \cup Field(func, 37) \cup Field(src, 34)

Idle == ALU(0, 0, 1, 3, 7)                         \* NOP of D
Chips == { Idle \cup {b} : b \in 0 .. 23 \cup {33} } \cup { Idle \cup (0 .. 3), Idle \cup (24 .. 32) }
Latches == { ALU(0, b, 1, 3, 7) \cup Field(3, 7) : b \in {6, 9} }

(* Every destination, every function and every pair of operands;          *)
(* the shifter's multiplexers take each of their inputs.                   *)
Alu == { ALU(0, 1, k, (k + 5) % 8, (5 * k + 2) % 8) \cup Field(k % 4, 51) : k \in 0 .. 7 }
       \cup { ALU(1, 0, k, (9 - k) % 8, (k + 1) % 8) : k \in {0, 3, 4, 5, 7} }

MCuCode == {Idle} \cup Chips \cup Latches \cup Alu
MCInputs == { [Cin |-> 0, D |-> 9, OE_ |-> 0], [Cin |-> 1, D |-> 6, OE_ |-> 1] }
=============================================================================
