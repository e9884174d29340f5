SPECIFICATION RingSpec
CONSTANTS
  i1 = i1
  i2 = i2
  i3 = i3
  Items <- MCItems
  Capacity = 4
  Nullopt = Nullopt
  NoItem = NoItem
INVARIANT SlotsNotShared
PROPERTY ImplementsFifo
