CONSTANTS
  Starters <- TwoStarters
  Closers <- OneCloser
  Shutters <- TwoShutters
  Waiters <- OneWaiter
  SessionControls = {"state"}
  TransportControls = {"cipher1", "cipher2"}
  Snapshots = {"snapshot1"}
SPECIFICATION CallsSpec
INVARIANTS
  OneRun
  DoneMeansInterrupted
  AnswersAreTrue
PROPERTIES
  EveryCallReturns
CHECK_DEADLOCK FALSE
