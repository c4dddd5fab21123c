CONSTANTS
  Regs = {r1, r2}
  MaxInsns = 2
  Held = {2, 3}
  Bases = {1}
  Loaded = 2
SPECIFICATION Spec
INVARIANTS
  FoldedRunsAlike
CHECK_DEADLOCK FALSE
