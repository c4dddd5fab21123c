CONSTANTS
  Addr <- LruAddr
  LineOf <- LruPageOf
  PageOf <- LruPageOf
  RegionOf <- LruPageOf
  SlotL1 <- LruSlot
  SlotL2 <- LruSlot
  Ways = 2
  Accesses <- LruAccesses
  PrivateRanges <- MCStackOnly
  ProtRanges = {}
  Entry = 0
  Stack <- MCStack
  InitReadable = {0, 1, 2}
  TargetLive = FALSE
  TargetMayFail = TRUE
  MaxVersion = 3
SPECIFICATION Spec
INVARIANTS
  OwnBytesCoherent
PROPERTIES
  WriteIsolated
CHECK_DEADLOCK FALSE
