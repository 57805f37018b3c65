SPECIFICATION Spec
CONSTANTS
  Requests <- MCRequests
  Need <- MCNeed
  MaxItems = 2
  MaxBytes = 3
INVARIANT HeadDoesNotFit
CHECK_DEADLOCK FALSE
