CONSTANTS
  Addr <- MCAddr
  Writable <- MCWritable
  CodeRange <- MCWritable
  StubRegion <- MCStubs
  Bound <- MCBound
  Stops = {2}
  Breakpoints = {3}
  Cpus = {c1}
  Listener = TRUE
  Recovery = TRUE
  BlockMax = 3
  Layers = 0
  Budgets = {2}
  InitCode <- MCInitCode
  MaxStack = 1
SPECIFICATION Spec
PROPERTIES
  ExecutesCurrentCode
CHECK_DEADLOCK FALSE
