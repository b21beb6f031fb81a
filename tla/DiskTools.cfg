SPECIFICATION Spec
CONSTANTS
  Slots = 3
  Pitch = 4
  MaxRefused = 1
  StdioBuffer = 4
  DirentSlots = 2
  LinkSlot = 2
  CountModulus = 80
  Counts = {10, 100}
  Firsts = {0, 16}
  Dumps <- MCDumps
\* Both tools end.
CHECK_DEADLOCK FALSE
INVARIANTS
  BlocksInPlace
  ListsBootDirectory
  ListsChain
  RepackedAlike
PROPERTY ToolsSettle
