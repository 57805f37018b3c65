SPECIFICATION FairSpec
CONSTANTS
  Requests <- MCRequests
  Need <- MCNeed
  MaxItems = 2
  MaxBytes = 3
INVARIANTS
  CapacityAddsUp
  QueueIsWaiting
PROPERTIES
  NoBarging
  WakesWhatFits
  EveryWaiterAnswered
CHECK_DEADLOCK FALSE
