SPECIFICATION CodecsSpec
INVARIANTS
  ReadsAsWritten
  ReadsNothingElse
CHECK_DEADLOCK FALSE
