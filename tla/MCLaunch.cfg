CONSTANTS
  Sizes = {"small", "large"}
  Regions = {"nyc1", "sfo3"}
  Offers <- MCOffers
  MaxChanges = 1
  Callers = {w1, w2}
  ClusterRegion = "nyc1"
  ClassRegions = {"nyc1"}
  Cpu <- MCCpu
  Memory <- MCMemory
  NoSize = NoSize
SPECIFICATION FairSpec
INVARIANT TypeOK
INVARIANT AnswerIsOneReading
INVARIANT NoPriceIsMadeUp
INVARIANT PodsFit
PROPERTY EmptyCatalogueIsNotKept
PROPERTY SmallestFitIsLaunched
CHECK_DEADLOCK FALSE
