CONSTANTS
  MaxGrid = 3
  Resident = 3
  TopK = 2
  MaxTokens = 2
  Experts = 3
  BlockSize = 2
  MaxRoutes = 4
  CallBound = 2
  Routings <- TopkIds
  TierMap <- Tiers
  Shapes <- Tilings
  Workspaces <- SharedBy
SPECIFICATION FairSpec
INVARIANTS BarrierSeparates PackExact CallExact WorkspaceClean
PROPERTIES CallReturns
