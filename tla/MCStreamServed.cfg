SPECIFICATION ServedSpec
CONSTANTS
  a = a
  b = b
  c = c
  v = v
  w = w
  bye = bye
  None = None
  Bye = bye
  Size <- Sizes
  Inbound <- SmallAndLarge
  Writes = {v, w}
  Malformed = {}
  Unsendable = {v}
  Transitions = {a, w}
  QueueItems = 2
  QueueBytes = 3
  HasSink = FALSE
  SinkFails = FALSE
  HasDisconnect = TRUE
  HalfCloser = TRUE
  Acts = {"shut down", "time out"}
PROPERTIES
  ShutdownEnds
  AcceptedWriteAnswered
  OversizeEnds
CHECK_DEADLOCK FALSE
