SPECIFICATION Spec
CONSTANTS
  t1 = t1
  t2 = t2
  Threads <- MCSender
  Fds = {3, 4, 5}
  MaxMessages = 5
  MaxResets = 3
INVARIANTS SocketNotLeakedOrStale FailsOnlyForCause
