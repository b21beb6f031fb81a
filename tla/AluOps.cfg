SPECIFICATION AluSpec
CONSTANTS
  W = 8
  Operand <- MCOperand
  Count <- MCCount
PROPERTIES
  ArithmeticIsExact
  ShiftsAreExact
