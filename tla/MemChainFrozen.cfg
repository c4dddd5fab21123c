CONSTANTS
  Addr <- MCAddr
  LineOf <- MCLineOf
  PageOf <- MCPageOf
  RegionOf <- MCRegionOf
  SlotL1 <- MCSlotL1
  SlotL2 <- MCSlotL2
  Ways = 1
  Accesses <- MCAccesses
  PrivateRanges <- MCPrivateRanges
  ProtRanges <- MCProtRanges
  Entry = 0
  Stack <- MCStack
  InitReadable = {0, 2}
  TargetLive = FALSE
  TargetMayFail = FALSE
  MaxVersion = 4
SPECIFICATION Spec
INVARIANTS
  Coherent
PROPERTIES
  FlatMemorySpec
CHECK_DEADLOCK FALSE
