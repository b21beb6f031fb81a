SPECIFICATION Spec
CONSTANTS
  Reg <- MCReg
  uCode <- MCuCode
  Inputs <- MCInputs
  Unset = {1}
  MaxWords = 3
\* The microinstructions are bounded.
CHECK_DEADLOCK FALSE
INVARIANTS
  ShiftersAreDriven
  OutputsAreCurrent
PROPERTIES
  LatchKeepsItsBits
  ListensAsCommented
  CoreIsSlice
