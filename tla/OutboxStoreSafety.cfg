SPECIFICATION Spec
CONSTANTS
  Ids <- MCIds
  NumBuckets = 2
  BucketOf <- MCBucketOf
  Temp <- MCTemp
  Poison = {"p"}
  Batches <- MCBatches
  MaxFlushes = 3
  MaxCrashes = 2
INVARIANTS AckedKept AggregatesObserved
PROPERTY ImplementsLog
