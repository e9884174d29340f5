SPECIFICATION Spec
CONSTANTS
  t1 = t1
  t2 = t2
  Threads <- MCClients
  Fds = {3, 4, 5, 6}
  MaxMessages = 2
  MaxResets = 0
INVARIANT ClientsNotCoupled
