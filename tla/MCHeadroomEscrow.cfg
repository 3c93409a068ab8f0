CONSTANTS
  r1 = r1
  r2 = r2
  r3 = r3
  r4 = r4
  Ranks <- Cohort
  MaxLayers = 3
SYMMETRY Interchangeable
SPECIFICATION Spec
INVARIANTS EscrowHeld FreedOnce GroupArmed ReductionsMatch GateHonoured ReleasedAfterAttention
