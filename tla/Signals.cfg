\* A signal put to any node at any time; a source that ends by itself.
CONSTANTS
  a = a
  b = b
  c = c
  Pipe = pipe
  Nodes = {a, b}
  Dest <- PairDest
  Layers <- PairLayers
  Sources = {a}
  Fails = {}
  MaxQueue = 1
  JoinMayTimeOut = FALSE
  SourceEnd = {"STOP_PROPAGATE"}
  MaxData = 1
  MaxGen = 1
  MaxControl = 2
  UserSignals = {"START", "SUSPEND"}
  MaxSignals = 1
SPECIFICATION Spec
INVARIANTS OnceThrough Drained PropagateDrains
CHECK_DEADLOCK FALSE
