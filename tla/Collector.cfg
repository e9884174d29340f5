SPECIFICATION FairSpec
CONSTANTS
  Cities <- MCCities
  a = a
  b = b
  MaxQueueSize = 2
  Points = 1
  MaxPackets = 2
INVARIANTS TypeOK CityOrder PacketsAccounted
PROPERTIES KeepsGoing ShutdownCompletes
