\* A STOP among the messages of a node that makes batches of two.
CONSTANTS
  a = a
  b = b
  x = x
  y = y
  z = z
  Origins = {a, b}
  Pipe = pipe
  MaxQueue = 1
  Topics = {x, y, z}
  MaxMessages = 5
  Setups <- BatchSetups
  TelemetryBatch = 2
  MaxRows = 4
  MaxWriters = 2
  MaxTopics = 2
  MaxHistory = 2
  Included = {x}
  Excluded = {}
  BlockSize = 2
  Keep = 2
  BufferSize = 2
SPECIFICATION FairSpec
PROPERTIES StopTaken
CHECK_DEADLOCK FALSE
