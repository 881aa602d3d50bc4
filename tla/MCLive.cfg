CONSTANTS
  Claims = {c1}
  PoolIDs = {p1, p2}
  ForeignPools = {}
  PageSize = 2
  Faults = {"lost", "cancel", "crash", "edit"}
  None = None
  MaxAttempts = 2
  MaxRestarts = 1
SPECIFICATION FairSpec
PROPERTY CreateReturns
PROPERTY DeletionCompletes
PROPERTY OrphansArePursued
PROPERTY OrphansAreCollected
CHECK_DEADLOCK FALSE
