SPECIFICATION Spec
CONSTANTS
  a = a
  b = b
  c = c
  v = v
  w = w
  bye = bye
  None = None
  Bye = bye
  Size <- Sizes
  Inbound <- OneArrival
  Writes = {w}
  Malformed = {a}
  Unsendable = {}
  Transitions = {a, w}
  QueueItems = 2
  QueueBytes = 3
  HasSink = TRUE
  SinkFails = FALSE
  HasDisconnect = TRUE
  HalfCloser = TRUE
  Acts = {"shut down", "expire shutdown", "hang up", "end context", "time out"}
INVARIANTS
  DisconnectIsLast
  CaptureIsComplete
  DoneMeansOver
  CapacityIsKept
CHECK_DEADLOCK FALSE
PROPERTY KeepsPromises
