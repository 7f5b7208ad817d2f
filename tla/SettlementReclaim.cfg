SPECIFICATION FairSpec
CONSTANTS
  Keys = {k1}
  Daemon = Daemon
  Manuals = {}
  None = None
  Values = {1, 2}
  MinValue = 1
  MaxAttempts = 2
  ListLimit = 1
  Reclaim = TRUE
  MaxAccepts = 1
  MaxManual = 0
  MaxFailures = 0
  MaxCrashes = 1
PROPERTIES StalePendingEventuallyReclaimed
