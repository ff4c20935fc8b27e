\* Passthrough and batches of two; summaries of two topics out of three, speech
\* in windows of two blocks of two samples; the writer of the telemetry started twice.
CONSTANTS
  a = a
  b = b
  x = x
  y = y
  z = z
  Origins = {a, b}
  Pipe = pipe
  MaxQueue = 1
  Topics = {x, y, z}
  MaxMessages = 5
  Setups <- PlainSetups
  TelemetryBatch = 2
  MaxRows = 4
  MaxWriters = 2
  MaxTopics = 2
  MaxHistory = 2
  Included = {x}
  Excluded = {}
  BlockSize = 2
  Keep = 2
  BufferSize = 2
SPECIFICATION FairSpec
INVARIANTS TypeOK BufferConserves RowsOnce  WordsKeepPlace
PROPERTIES StopsEnd
CHECK_DEADLOCK FALSE
