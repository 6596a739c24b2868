CONSTANTS
  Sessions <- MCSessions
  WsSessions = {"ws", "late"}
  RawSessions = {"raw"}
  SerialSessions = {"serial"}
  MaxSessions = 1
  Requests <- MCRequests
  Channels = {1}
  Route <- MCRoute
  None = None
SPECIFICATION LiveSpec
INVARIANTS SharedHeldExactly AnswerIsOwn
PROPERTY EventuallyBack
CHECK_DEADLOCK FALSE
