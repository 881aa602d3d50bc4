CONSTANTS
  Regions = {nyc1, sfo3}
  ClassNames = {d1}
  Tags = {t1, t2}
  Nodes = {s1}
  ClusterRegion = nyc1
  MaxEvents = 2
  NoClass = NoClass
SPECIFICATION FairSpec
PROPERTY TagDriftIsNoticed
CHECK_DEADLOCK FALSE
