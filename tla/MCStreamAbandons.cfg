SPECIFICATION Spec
CONSTANTS
  a = a
  b = b
  c = c
  v = v
  w = w
  bye = bye
  None = None
  Bye = bye
  Size <- Sizes
  Inbound <- TwoArrivals
  Writes = {}
  Malformed = {}
  Unsendable = {}
  Transitions = {a, w}
  QueueItems = 2
  QueueBytes = 2
  HasSink = FALSE
  SinkFails = FALSE
  HasDisconnect = TRUE
  HalfCloser = TRUE
  Acts = {"close"}
INVARIANT NoArrivalAbandoned
CHECK_DEADLOCK FALSE
