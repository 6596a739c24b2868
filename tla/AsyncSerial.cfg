CONSTANTS
  r1 = r1
  r2 = r2
  r3 = r3
  N = 1
  Requests = {r1, r2, r3}
  Attempts <- MixedAttempts
  Unencodable = {}
  IsTcp = FALSE
  MaxTxn = 1
  Capacity = 7
  BatchMax = 1
  MaxConnects = 1
  MaxDisconnects = 0
  None = None
SPECIFICATION LiveSpec
INVARIANT FirstTryInOrder
PROPERTY EventuallyReleased
CHECK_DEADLOCK FALSE
