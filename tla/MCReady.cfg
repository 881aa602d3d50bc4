CONSTANTS
  Regions = {nyc1, sfo3}
  ClassNames = {d1}
  Tags = {t1}
  Nodes = {}
  ClusterRegion = nyc1
  MaxEvents = 2
  NoClass = NoClass
SPECIFICATION FairSpec
PROPERTY ReadyFollowsRegion
CHECK_DEADLOCK FALSE
