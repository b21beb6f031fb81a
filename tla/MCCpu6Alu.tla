----------------------------- MODULE MCCpu6Alu -----------------------------
(***************************************************************************)
(* The byte operations, over operands at the boundaries and counts on both *)
(* sides of the width.                                                     *)
(***************************************************************************)
EXTENDS Cpu6Alu

MCOperand == {0, 1, 85, 127, 128, 255}
MCCount   == {0, 1, 6, 7, 8}
=============================================================================
