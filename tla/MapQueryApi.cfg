SPECIFICATION FairSpec
CONSTANTS
  t1 = t1
  t2 = t2
  Observations <- MCObservations
  Comparisons <- MCComparisons
  Baselines <- MCBaselines
  Located = {"q25"}
  KnownCities = {"south:b"}
  UnknownRoute = "route.unknown"
  Mixes <- MCMixes
  Threads <- MCThreads
  HistoryLimit = 1
  ComparisonLimit = 1
  Batches <- MCBatches
  MaxRequests = 2
INVARIANTS AnswersOwnRequest AnswersAreCurrent RouteRiskBounded
PROPERTIES RowsComplete ShutdownCompletes
