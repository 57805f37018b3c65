CONSTANTS
  Observations <- Login
  FrameBytes = 2
  WireBytes = 3
  BodyBytes = 4
  FlushBytes = 8
  FlushInterval = 2
  DiskFails = TRUE
  Damages = FALSE
  MaxCalls = 4
  Sizes = {0, 1, 2, 5}
  MaxRecords = 3
  MaxBytes = 4
  MaxOffered = 6
  MaxFetches = 4
  MaxClock = 0
SPECIFICATION RecordingsSpec
INVARIANTS
  ReaderTellsTheTruth
  ReplayFollowsTheTape
  RingIsTheEndOfTheLog
PROPERTIES
  CaptureKeepsUp
  FetchKeepsATree
CHECK_DEADLOCK FALSE
