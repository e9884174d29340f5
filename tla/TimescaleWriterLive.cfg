SPECIFICATION FairSpec
CONSTANTS
  a = a  b = b  c = c  t1 = t1  t2 = t2
  Ids <- MCIds
  NumRegions = 2
  RegionOf <- MCRegionOf
  Receivers = {t1}
  MaxQueue = 1
  BatchSize = 1
  SeenCap = 2
  MaxArrivals = 4
INVARIANTS
  CacheConsistent
  NoDoubleCount
  SeenWasTaken
PROPERTIES
  ShutdownCompletes
  EventuallyFlushed
