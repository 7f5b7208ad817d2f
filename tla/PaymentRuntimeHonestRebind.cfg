SPECIFICATION Spec
CONSTANTS
  Streams = {s1, s2}
  Meters = {m1}
  Unaries = {}
  States = {o1, o2, o3}
  None = None
  InitialRAV = 0
  Threshold = 1
  EventsCap = 4
  Costs = {1}
  Balances = {9}
  Values = {1, 2}
  Strays <- NoMessages
  RepoFails = FALSE
  MaxUsage = 2
  MaxAttempts = 0
  MaxRestarts = 0
INVARIANT HonestConsumerNotRejected
CHECK_DEADLOCK FALSE
