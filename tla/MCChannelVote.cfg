CONSTANTS
  r1 = r1
  r2 = r2
  r3 = r3
  r4 = r4
  Ranks <- Group
  MaxChunks = 2
SPECIFICATION Spec
INVARIANTS GroupDecision
CHECK_DEADLOCK FALSE
