CONSTANTS
  N = 2
  Requests <- TcpRequests
  IsTcp = TRUE
  ResponseTimeout = 1
  RetryAttempts = 2
  RetryDelays <- Growing
  RxCapacity = 2
  None = None
  U32Max = 15
  MaxShift = 3
  Horizon = 5
  LongestDelay = 3
SPECIFICATION MCSpec
INVARIANTS ExactlyOneOutcome CacheCovers OverdueBounded RetryBudget ResponseMatchesRequest
PROPERTIES NoEarlyRetry ImplementsLedger
