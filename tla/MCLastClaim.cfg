CONSTANTS
  Claims = {c1}
  PoolIDs = {p1}
  ForeignPools = {}
  PageSize = 1
  Faults = {"lost"}
  None = None
  MaxAttempts = 1
  MaxRestarts = 0
SPECIFICATION FairSpec
PROPERTY EveryOrphanIsCollected
CHECK_DEADLOCK FALSE
