SPECIFICATION FairSpec
CONSTANTS
  Streams = {k1, k2}
  Jobs = {j1, j2}
  s1 = s1
  p1 = p1
  p2 = p2
  Sessions = {s1}
  Payers = {p1, p2}
  PayerOf <- MCPayerOf
  DefaultMaxConcurrentSessions = 2
  DefaultMaxWorkersPerSession = 1
  PerPayerOverrides <- MCPerPayerOverrides
  NoStream = NoStream
  NoWorker = NoWorker
  MaxFailures = 1
INVARIANTS TypeOK QuotaAccounting AdmissionBounded NoWorkerOrphaned
PROPERTIES EndedSessionStopsStream ClosedSessionHasNoWorkers
CHECK_DEADLOCK FALSE
