CONSTANTS
  Base = 4
  Size = 14
  Granule = 2
  Modulus = 32
  Requests <- MCWords
  Pointers <- MCWords
  HeapBase = 4
  HeapSize = 10
  Align = 2
  Classes = 3
  HeapRequests = {0, 2, 3, 9}
  Junk = {4}
SPECIFICATION MCSpec
INVARIANTS
  TypeOK
  Tiled
  Coalesced
  HeapBlocksApart
  HeapNoneLeaked
  HeapRoomy
PROPERTIES
  AllocatorSpec
