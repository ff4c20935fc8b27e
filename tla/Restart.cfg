\* One source, a layer of two sinks, started twice.
CONSTANTS
  a = a
  b = b
  c = c
  Pipe = pipe
  Nodes = {a, b, c}
  Dest <- ForkDest
  Layers <- ForkLayers
  Sources = {a}
  Fails = {}
  MaxQueue = 1
  JoinMayTimeOut = FALSE
  SourceEnd = {}
  MaxData = 1
  MaxGen = 2
  MaxControl = 1
  UserSignals = {}
  MaxSignals = 0
SPECIFICATION Spec
INVARIANTS QuietAfterStop 
PROPERTIES RestartIsInert
CHECK_DEADLOCK FALSE
