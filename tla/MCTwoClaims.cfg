CONSTANTS
  Claims = {c1, c2}
  PoolIDs = {p1, p2}
  ForeignPools = {}
  PageSize = 2
  Faults = {"edit"}
  None = None
  MaxAttempts = 1
  MaxRestarts = 0
SPECIFICATION Spec
SYMMETRY Sym
INVARIANT NoPoolIsLost
INVARIANT NoPoolHasTwoClaims
PROPERTY NodeInServiceIsKept
CHECK_DEADLOCK FALSE
