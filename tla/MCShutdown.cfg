CONSTANTS
  Claims = {c1}
  PoolIDs = {p1}
  ForeignPools = {}
  PageSize = 1
  Faults = {"cancel"}
  None = None
  MaxAttempts = 1
  MaxRestarts = 1
SPECIFICATION Spec
PROPERTY FailedCreateLeavesNoPool
CHECK_DEADLOCK FALSE
