\* A node whose update() raises, with queues that fill up; joins with their
\* time limit.
CONSTANTS
  a = a
  b = b
  c = c
  Pipe = pipe
  Nodes = {a}
  Dest <- SoloDest
  Layers <- SoloLayers
  Sources = {a}
  Fails = {a}
  MaxQueue = 1
  JoinMayTimeOut = TRUE
  SourceEnd = {}
  MaxData = 4
  MaxGen = 1
  MaxControl = 1
  UserSignals = {}
  MaxSignals = 0
SPECIFICATION FairSpec
PROPERTIES CallsReturn
CHECK_DEADLOCK FALSE
