SPECIFICATION Spec
CONSTANTS
  NameBytes = 3
  MaxPattern = 4
  Letters = {"a", "b", "c"}
  Other = "0x05"
  Star = "*"
  Dot = "."
  Space = " "
  Nul = "0"
  Names <- MCNames
  Patterns <- MCPatterns
  Beyond <- MCBeyond
INVARIANTS NoFalseMatch NoMissedMatch
