CONSTANTS
  Threshold = 1
  Batches <- AllBatches
  Configs <- Deployed
  MinRows = 4
  MaxRows = 9
  MinPrefill = 3
  A2AMax = 2
  VirtualBlock = 4
  MaxBlocks = 6
  MaxPad = 1
  MaxLen = 2
SPECIFICATION Spec
INVARIANTS VerificationQueryOwned
