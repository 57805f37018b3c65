SPECIFICATION Spec
CONSTANTS
  a = a
  b = b
  c = c
  v = v
  w = w
  bye = bye
  None = None
  Bye = bye
  Size <- Sizes
  Inbound <- ThreeArrivals
  Writes = {w}
  Malformed = {}
  Unsendable = {}
  Transitions = {a, w}
  QueueItems = 2
  QueueBytes = 7
  HasSink = FALSE
  SinkFails = FALSE
  HasDisconnect = FALSE
  HalfCloser = FALSE
  Acts = {"close", "cancel write", "shut down"}
INVARIANTS
  TypeOK
  OneFrameInFlight
  ReadInOrder
  TransitionsCommitted
  WriteTellsTheTruth
  CapacityIsKept
CHECK_DEADLOCK FALSE
