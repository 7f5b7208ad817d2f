SPECIFICATION FairSpec
CONSTANTS
  Callers = {1, 2}
  Control = 1
  MaxGenerations = 3
  StopBlock = 3
  Threshold = 2
  MaxUsage = 3
  MaxFailures = 1
INVARIANTS BoundOnThisStream CutReportsReason HeldRAVWasAccepted
PROPERTIES SettledBeforeOk CallersReturn StreamLeavesNothing
CHECK_DEADLOCK FALSE
