CONSTANTS
  Requests <- MixedRequests
  Own = 1
  IsSerial = FALSE
  QueueDepth = 2
  RxCapacity = 2
  MaxSendRetries = 1
  RetryInterval = 1
  Turnaround = 1
  Deadline = 1
  StrictMode = TRUE
  RejectPolicy = TRUE
  PriorityQueue = TRUE
  BroadcastWrites = FALSE
  Garbage = Garbage
  MaxTime = 2
SPECIFICATION MCSpec
INVARIANTS Truthful HeldOnce RetryDiscipline
