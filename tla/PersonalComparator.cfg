SPECIFICATION FairSpec
CONSTANTS
  RingBound = 1
  Readings <- MCReadings
  MaxEvents = 4
INVARIANTS ArrivalOrder EveryEventAccounted ActuatedExactly
PROPERTIES EventuallyCompared SetupFailureExits
