CONSTANTS
  Producers = {p1, p2}
  N = 2
  Spins = 2
  MaxEmits = 4
SPECIFICATION FairSpec
INVARIANTS
  TypeOK
  PrintedInOrder
  OneWriter
  ShutdownDrains
PROPERTIES
  EventuallyPrinted
  EmitReturns
CHECK_DEADLOCK FALSE
