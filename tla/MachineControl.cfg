SPECIFICATION Spec
CONSTANTS
  Ops <- MCOps
  Images <- MCImages
  Counters = {0, 192}
  MaxCalls = 4
\* The calls are bounded.
CHECK_DEADLOCK FALSE
PROPERTIES
  BanksKeepApart
  FrameIsTaken
