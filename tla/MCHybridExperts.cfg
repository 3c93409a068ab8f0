CONSTANTS
  Layers <- Names
  Kinds <- Mixes
  Sizes = {4, 16}
  Planned = 10
  MaxCalls = 4
SPECIFICATION Spec
INVARIANTS OutputExact GraphsIntact RetryIsClean
