SPECIFICATION Spec
CONSTANTS
  MCAbsolute = FALSE
  MCBlk = 2
  Junk = Junk
  MaxJunk = 9
  Sectors <- MCSectors
  AList <- MCAList
  StackEntries <- MCStackEntries
  Source <- MCSource
  Chain <- MCChain
  Mark <- MCMark
  Content <- MCContent
INVARIANTS TypeOK FaithfulCopy InsideSector
PROPERTIES ImplementsFileCopy CopySettles
