CONSTANTS
  Reg <- MCReg
  Program <- MCProgram
  Length = 3
  Leftover <- MCLeftover

SPECIFICATION Spec
\* The driver stops after the last instruction.
CHECK_DEADLOCK FALSE

INVARIANTS
  TypeOK
  ZeroFlagIsSound
  ResultIsStored
PROPERTIES
  SumIsExact
  FunctionsAsNamed
  LookaheadAgrees
  ShiftsCross
