CONSTANTS
  Clients <- MCClients
  Requests <- ThreeRequests
  NDown = 2
  Route <- MCRoute
  NUp = 2
  TxnSize = 2
  NPending = 2
  TxnMod = 3
  ResponseTimeout = 1
  RxCapacity = 2
  LateJoin = TRUE
  None = None
  Horizon = 1
SPECIFICATION MCSpec
INVARIANT AnswerToOwner
