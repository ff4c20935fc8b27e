\* A node whose warmup() may raise: the request is made again.
CONSTANTS
  a = a
  b = b
  c = c
  Clients = {c1}
  Order <- Chain
  Roots <- ChainRoots
  MayFail = {"warm"}
  Disciplines <- MayOverlapDelete
  MaxRequests = 3
SPECIFICATION Spec
INVARIANTS RunningIsStarted
CHECK_DEADLOCK FALSE
