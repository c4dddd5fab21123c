CONSTANTS
  Follow <- MCFollow
  Arrivals <- MCArrivals
  BufferCap = 15
  N = 3
SPECIFICATION MCSpec
INVARIANTS
  TypeOK
  LengthIsArchitectural
  BufferAgrees
  Restartable
  BranchesEndBlocks
  StringsArchitectural
  FoldedRunsAlikeOtherwise
PROPERTIES
  OwnBytesOnly
CHECK_DEADLOCK FALSE
