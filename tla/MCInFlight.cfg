CONSTANTS
  Claims = {c1}
  PoolIDs = {p1}
  ForeignPools = {}
  PageSize = 1
  Faults = {}
  None = None
  MaxAttempts = 1
  MaxRestarts = 0
SPECIFICATION Spec
PROPERTY PoolWithNodeClaimIsNoOrphan
CHECK_DEADLOCK FALSE
