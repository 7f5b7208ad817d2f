SPECIFICATION Spec
CONSTANTS
  Streams = {s1, s2}
  Meters = {m1}
  Unaries = {}
  States = {o1, o2, o3}
  None = None
  InitialRAV = 0
  Threshold = 1
  EventsCap = 1
  Costs = {1}
  Balances = {1}
  Values = {1, 2}
  Strays <- SomeStrays
  RepoFails = FALSE
  MaxUsage = 2
  MaxAttempts = 1
  MaxRestarts = 0
INVARIANTS NoControlStateOrphaned BoundStreamOwnsLiveState FundsStopOnlyAfterTermination ExactAccounting
SYMMETRY HeapSymmetry
CHECK_DEADLOCK FALSE
