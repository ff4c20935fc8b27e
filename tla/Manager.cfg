\* Starts and stops overlap, deletions may, warmups are made alone.
CONSTANTS
  a = a
  b = b
  c = c
  Clients = {c1, c2, c3}
  Order <- Chain
  Roots <- ChainRoots
  MayFail = {"build", "warm"}
  Disciplines <- MayOverlapDelete
  MaxRequests = 7
SPECIFICATION Spec
SYMMETRY ClientSymmetry
INVARIANTS TypeOK   RunningOnceLinked
 
CHECK_DEADLOCK FALSE
