CONSTANTS
  r1 = r1
  r2 = r2
  Requests <- States
  MaxReqs = 2
  Steps = 3
  MaxLen = 5
  MaxPrompt = 2
  MaxCalls = 3
SYMMETRY Interchangeable
SPECIFICATION Spec
INVARIANTS DraftsExact PrefixIntact LengthsBounded
