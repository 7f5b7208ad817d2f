SPECIFICATION Spec
CONSTANTS
  Keys = {k1}
  Daemon = Daemon
  Manuals = {c1, c2}
  None = None
  Values = {1, 2}
  MinValue = 1
  MaxAttempts = 2
  ListLimit = 1
  Reclaim = TRUE
  MaxAccepts = 3
  MaxManual = 2
  MaxFailures = 1
  MaxCrashes = 1
INVARIANTS TypeOK CollectedIsSettled
SYMMETRY ManualSymmetry
