SPECIFICATION Spec
CONSTANTS
  Streams = {s1}
  Meters = {m1}
  Unaries = {u1}
  States = {o1, o2, o3}
  None = None
  InitialRAV = 0
  Threshold = 1
  EventsCap = 1
  Costs = {1}
  Balances = {1}
  Values = {1, 2}
  Strays <- NoMessages
  RepoFails = TRUE
  MaxUsage = 2
  MaxAttempts = 1
  MaxRestarts = 1
INVARIANTS RAVCoversBaseline
PROPERTIES TerminatedIsFinal
SYMMETRY HeapSymmetry
CHECK_DEADLOCK FALSE
