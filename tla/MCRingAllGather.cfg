CONSTANTS
  W = 4
  MaxCalls = 2
SPECIFICATION FairSpec
INVARIANTS GatherExact NoSlotRace BoundedSkew
PROPERTIES ImplementsBarrier CallsReturn
