SPECIFICATION FairSpec
CONSTANTS
  a = a
  b = b
  c = c
  v = v
  w = w
  bye = bye
  None = None
  Bye = bye
  Size <- Sizes
  Inbound <- OneArrival
  Writes = {w}
  Malformed = {}
  Unsendable = {}
  Transitions = {a, w}
  QueueItems = 2
  QueueBytes = 3
  HasSink = TRUE
  SinkFails = TRUE
  HasDisconnect = TRUE
  HalfCloser = TRUE
  Acts = {"close"}
PROPERTIES
  StopEnds
  WritesReturn
  KeepsBudgetProtocol
CHECK_DEADLOCK FALSE
