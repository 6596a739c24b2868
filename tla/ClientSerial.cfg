CONSTANTS
  N = 1
  Requests <- SerialRequests
  IsTcp = FALSE
  ResponseTimeout = 1
  RetryAttempts = 1
  RetryDelays <- OneUnit
  RxCapacity = 1
  None = None
  U32Max = 15
  MaxShift = 3
  Horizon = 3
  LongestDelay = 1
SPECIFICATION MCLiveSpec
INVARIANT TypeOK
PROPERTY EventuallyReported
