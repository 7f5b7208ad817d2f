SPECIFICATION FairPipeSpec
CONSTANTS
  Clients = {c1, c2, r}
  Handlers = {c1, c2}
  Reporter = r
  MaxEvents = 2
  BufferSize = 1
  Sessions = {s1}
  NoSession = NoSession
  Keys = {w1, w2}
  Payers = {p1}
  MaxWorkers = 1
  Values = {1, 2}
  Costs = {1}
  NoRow = NoRow
  NoWorker = NoWorker
  Loads <- MCLoads
  MaxFailures = 1
INVARIANTS ReadCoversBaseline BilledAtMostOnce
PROPERTIES ImplementsRepository CallsEnd BufferedEventReported
CHECK_DEADLOCK FALSE
