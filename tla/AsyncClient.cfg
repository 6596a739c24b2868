CONSTANTS
  r1 = r1
  r2 = r2
  r3 = r3
  N = 2
  Requests = {r1, r2, r3}
  Attempts <- MixedAttempts
  Unencodable = {r3}
  IsTcp = TRUE
  MaxTxn = 3
  Capacity = 2
  BatchMax = 2
  MaxConnects = 1
  MaxDisconnects = 1
  None = None
SPECIFICATION Spec
INVARIANTS InFlightExact RetryBudget ResponseMatchesRequest
PROPERTY ImplementsLedger
CHECK_DEADLOCK FALSE
