CONSTANTS
  Claims = {c1}
  PoolIDs = {p1}
  ForeignPools = {}
  PageSize = 1
  Faults = {"api"}
  None = None
  MaxAttempts = 1
SPECIFICATION FairSpec
PROPERTY TaintResolves
CHECK_DEADLOCK FALSE
