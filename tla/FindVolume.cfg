SPECIFICATION FindSpec
CONSTANTS
  Junk = Junk
  NoSector = 2147483647
  MaxJunk = 5
  IdxModulus = 30
  BaseDir = 16
  Commands <- MCCommands
  Sectors <- MCSectors
  AList <- MCAList
  StackEntries <- MCStackEntries
  StackIncrements = {0, 1}
  Header <- MCHeader
  Dirents <- MCDirents
  NoName <- MCNoName
  Patterns <- MCPatterns
  Volume <- MCVolume
INVARIANTS SearchIsExact DamageIsLast DepthFollowsPattern
PROPERTY SearchSettles
