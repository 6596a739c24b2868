CONSTANTS
  TcpSessions = {tcp}
  SerialSessions = {rtu}
  Frames <- MixedFrames
  BroadcastWrites = TRUE
  CounterMax = 2
  MaxFrames <- MixedMax
  MaxConnections = 1
  None = None
SPECIFICATION LiveSpec
INVARIANTS NoLostWrite CountersExact
PROPERTY EventuallyDone
CHECK_DEADLOCK FALSE
