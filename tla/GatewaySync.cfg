CONSTANTS
  Clients <- MCClients
  Requests <- MCRequests
  NDown = 2
  Route <- MCRoute
  NUp = 2
  TxnSize = 2
  NPending = 1
  TxnMod = 3
  ResponseTimeout = 1
  RxCapacity = 1
  LateJoin = FALSE
  None = None
  Horizon = 1
SPECIFICATION MCLiveSpec
INVARIANTS HeldOnce TxnMapExact AnswerToOwner
PROPERTY EventuallySettled
