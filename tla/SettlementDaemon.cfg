SPECIFICATION FairSpec
CONSTANTS
  Keys = {k1, k2}
  Daemon = Daemon
  Manuals = {}
  None = None
  Values = {1, 2, 3}
  MinValue = 2
  MaxAttempts = 2
  ListLimit = 1
  Reclaim = TRUE
  MaxAccepts = 3
  MaxManual = 0
  MaxFailures = 2
  MaxCrashes = 1
INVARIANTS AttemptsBounded AttemptHoldsRecord
PROPERTIES CollectibleEventuallyAttempted
