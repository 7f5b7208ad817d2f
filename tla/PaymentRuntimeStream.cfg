SPECIFICATION FairSpec
CONSTANTS
  Streams = {s1}
  Meters = {m1, m2}
  Unaries = {}
  States = {o1, o2, o3}
  None = None
  InitialRAV = 0
  Threshold = 1
  EventsCap = 2
  Costs = {1, 2}
  Balances = {1, 9}
  Values = {}
  Strays <- NoMessages
  RepoFails = FALSE
  MaxUsage = 3
  MaxAttempts = 1
  MaxRestarts = 0
INVARIANTS TypeOK ExactAccounting OneRequestInFlight HonestConsumerNotRejected ResponsesFit
PROPERTIES ImplementsLedger UsageEventuallyPaid
CHECK_DEADLOCK FALSE
