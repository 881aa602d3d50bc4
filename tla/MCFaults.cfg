CONSTANTS
  Claims = {c1}
  PoolIDs = {p0, p1, p2, p3}
  ForeignPools = {p0}
  PageSize = 4
  Faults = {"api", "lost", "cancel", "crash", "edit"}
  None = None
  MaxAttempts = 2
  MaxRestarts = 1
SPECIFICATION Spec
SYMMETRY Sym
INVARIANT TypeOK
INVARIANT IInv
INVARIANT ForeignPoolsUntouched
INVARIANT FinalizedClaimLeavesNoPool
PROPERTY NodeInServiceIsKept
PROPERTY KeepsLedger
CHECK_DEADLOCK FALSE
