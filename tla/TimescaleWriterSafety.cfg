SPECIFICATION Spec
CONSTANTS
  a = a  b = b  c = c  t1 = t1  t2 = t2
  Ids <- MCIds
  NumRegions = 2
  RegionOf <- MCRegionOf
  Receivers = {t1, t2}
  MaxQueue = 3
  BatchSize = 2
  SeenCap = 6
  MaxArrivals = 4
INVARIANTS
  TypeOK
  MemoryBounded
  RegionOrder
  MetricsAccount
  RoundRobinFair
