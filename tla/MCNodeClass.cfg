CONSTANTS
  Regions = {nyc1, sfo3}
  ClassNames = {d1}
  Tags = {t1}
  Nodes = {s1}
  ClusterRegion = nyc1
  MaxEvents = 4
  NoClass = NoClass
SPECIFICATION FairSpec
INVARIANT TypeOK
PROPERTY StatusJudgesCurrentRegion
PROPERTY StatusSettles
PROPERTY RepeatedVerdictWritesNothing
PROPERTY ComesToRest
PROPERTY DriftIsNoticed
PROPERTY KeepsClassLedger
CHECK_DEADLOCK FALSE
