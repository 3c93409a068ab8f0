CONSTANTS
  Threshold = 1
  Batches <- AllBatches
  Configs <- Processes
  MinRows = 4
  MaxRows = 9
  MinPrefill = 3
  A2AMax = 2
  VirtualBlock = 4
  MaxBlocks = 6
  MaxPad = 1
  MaxLen = 3
  W = 3
  MaxBatched = 5
  Capacity = 4
  Fp8Rows = 3
  Modes = {"sync", "async", "fp8"}
  Programs <- Steps
  r1 = r1
  r2 = r2
  r3 = r3
  MaxSends = 2
SPECIFICATION LayerSpec
CHECK_DEADLOCK FALSE
INVARIANTS BatchOrdered SplitSound EntryAccepts ShortRowsQueryOwned OutputExact NoStreamRace SplitOnlyByRaise SlabsOutliveUse
PROPERTIES BatchDispatched CallsReturn VoteSettles
