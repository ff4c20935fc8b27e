\* Batches through a warp node.
CONSTANTS
  Kinds = {"warp"}
  Restarted = {}
  MaxStarts = 1
  MaxProcs = 1
  BlockSize = 1
  MaxSamples = 0
  MaxConns = 0
  MaxEvents = 0
  QueueSize = 1
  MaxRequests = 0
  Exchange <- BatchExchange
  DataSize = 1
  MaxSequence = 1
  MaxChunks = 1
  MaxLength = 1
  MaxUpdates = 1
SPECIFICATION Spec
INVARIANTS EveryTypeReturns
CHECK_DEADLOCK FALSE
