CONSTANTS
  Requests <- BusRequests
  Own = 1
  IsSerial = TRUE
  QueueDepth = 1
  RxCapacity = 2
  MaxSendRetries = 1
  RetryInterval = 1
  Turnaround = 2
  Deadline = 1
  StrictMode = FALSE
  RejectPolicy = FALSE
  PriorityQueue = TRUE
  BroadcastWrites = TRUE
  Garbage = Garbage
  MaxTime = 2
SPECIFICATION MCLiveSpec
INVARIANTS ForeignUntouched TurnaroundKept
PROPERTY EventuallyEnded
