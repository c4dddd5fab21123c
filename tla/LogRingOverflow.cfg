CONSTANTS
  Producers = {p1}
  N = 2
  Spins = 2
  MaxEmits = 3
SPECIFICATION FairSpec
PROPERTIES
  OverflowDropsOldest
CHECK_DEADLOCK FALSE
