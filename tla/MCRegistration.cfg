CONSTANTS
  Claims = {c1}
  PoolIDs = {p1, p2}
  ForeignPools = {}
  PageSize = 2
  Faults = {"lost", "edit"}
  None = None
  MaxAttempts = 2
SPECIFICATION FairSpec
INVARIANT TypeOK
INVARIANT RegisteredNodeIsUntainted
PROPERTY LaunchedNodeRegisters
CHECK_DEADLOCK FALSE
