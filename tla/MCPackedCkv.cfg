CONSTANTS
  W = 2
  PageRecords = 2
  PoolPages = 4
  ActiveCapacity = 3
  MaxPacked = 6
  Phases = {TRUE, FALSE}
  Layers = 2
  TopK <- SelectedIds
  Workloads <- TwoBatches
SPECIFICATION PackedSpec
INVARIANTS ReadsExact CollectivesMatch
