SPECIFICATION ServedSpec
CONSTANTS
  a = a
  b = b
  c = c
  v = v
  w = w
  bye = bye
  None = None
  Bye = bye
  Size <- Sizes
  Inbound <- TwoArrivals
  Writes = {}
  Malformed = {}
  Unsendable = {}
  Transitions = {a, w}
  QueueItems = 2
  QueueBytes = 3
  HasSink = TRUE
  SinkFails = FALSE
  HasDisconnect = TRUE
  HalfCloser = TRUE
  Acts = {"shut down", "time out"}
PROPERTIES
  ShutdownEnds
CHECK_DEADLOCK FALSE
