\* A source and a sink, queues of one.
CONSTANTS
  a = a
  b = b
  c = c
  Pipe = pipe
  Nodes = {a, b}
  Dest <- PairDest
  Layers <- PairLayers
  Sources = {a}
  Fails = {}
  MaxQueue = 1
  JoinMayTimeOut = FALSE
  SourceEnd = {}
  MaxData = 2
  MaxGen = 1
  MaxControl = 1
  UserSignals = {}
  MaxSignals = 0
SPECIFICATION FairSpec
INVARIANTS TypeOK 
PROPERTIES LinkABSpec
CHECK_DEADLOCK FALSE
