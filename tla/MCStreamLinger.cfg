SPECIFICATION ServedSpec
CONSTANTS
  a = a
  b = b
  c = c
  v = v
  w = w
  bye = bye
  None = None
  Bye = bye
  Size <- Sizes
  Inbound <- OneArrival
  Writes = {}
  Malformed = {}
  Unsendable = {}
  Transitions = {a, w}
  QueueItems = 2
  QueueBytes = 3
  HasSink = FALSE
  SinkFails = FALSE
  HasDisconnect = TRUE
  HalfCloser = TRUE
  Acts = {"shut down", "hang up"}
PROPERTIES
  LingerReadsOn
CHECK_DEADLOCK FALSE
