CONSTANTS
  WireUnits = 4
  Settings <- TheSettings
  Thresholds <- TheThresholds
  MaxInFlight = 6
SPECIFICATION PartsSpec
INVARIANTS
  EndsUnderstandEachOther
  DoneMeansAgreed
  RefusalIsLearned
  SessionsInStep
PROPERTIES
  LoginsReturn
CHECK_DEADLOCK FALSE
