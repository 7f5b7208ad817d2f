SPECIFICATION Spec
CONSTANTS
  Decimals = 1
  Word = 16
  Cmds = {1, 2}
  Loads <- MCLoads
  ThawPeriod = 1
  MaxFailures = 1
  Requests = {1, 2}
  Payer = "payer"
  Delegate = "delegate"
  TTL = 2
  IdleLimit = 2
  MaxFlight = 1
  MaxSessions = 3
  DefaultPricing <- MCDefaultPricing
  Operators = {1, 2, 3}
  Threshold = 1
  DefaultLimit = 2
  MaxLimit = 2
INVARIANTS CommandReportsItsEffect CommandsActOnWhatTheyRead AdmittedSignerWasAuthorized SelectionIsJustified
PROPERTIES ShownCollectedIsSettled
CHECK_DEADLOCK FALSE
