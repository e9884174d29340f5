SPECIFICATION FairSpec
CONSTANTS
  Conns = 2
  MaxMessages = 3
  MaxRestarts = 2
  MaxShort = 1
INVARIANTS FramesPure AtMostOnce LossHasCause
PROPERTY ShutdownCompletes
