CONSTANTS
  Follow <- MCFollow
  Arrivals <- MCArrivals
  BufferCap = 15
  N = 3
SPECIFICATION MCSpec
INVARIANTS
  RepCopiesAll
CHECK_DEADLOCK FALSE
