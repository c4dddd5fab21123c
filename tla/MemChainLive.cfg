CONSTANTS
  Addr <- MCAddr
  LineOf <- MCLineOf
  PageOf <- MCPageOf
  RegionOf <- MCRegionOf
  SlotL1 <- MCSlotL1
  SlotL2 <- MCSlotL2
  Ways = 1
  Accesses <- MCAccesses
  PrivateRanges <- MCStackOnly
  ProtRanges = {}
  Entry = 0
  Stack <- MCStack
  InitReadable = {0, 2}
  TargetLive = TRUE
  TargetMayFail = FALSE
  MaxVersion = 4
SPECIFICATION Spec
INVARIANTS
  TypeOK
  EntriesWhole
  AgeOrder
  NotBehindGuest
PROPERTIES
  GuestNeverGoesBack
CHECK_DEADLOCK FALSE
