SPECIFICATION RomSpec
CONSTANTS
  IModulus = 9
  FileModulus = 8
  PipeSize = 2
  MaxErrors = 1
  Missing = Missing
  FF = FF
  Strides = {1, 2, 3}
  WordSizes = {1, 2, 3}
  Roms <- MCRoms
\* Both programs end.
CHECK_DEADLOCK FALSE
INVARIANTS
  WordsAreRows
  ErrorIsReported
PROPERTY ToolsSettle
