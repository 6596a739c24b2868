CONSTANTS
  Calls = {r1, r2}
  Serial = FALSE
  MaxTxn = 2
  CountMod = 8
  MaxResets = 2
  Overlap = FALSE
  None = None
SPECIFICATION FairSpec
INVARIANTS HeldOnce ResponseMatchesRequest CountExact ReconnectServes
PROPERTY DiscardedSettle
CHECK_DEADLOCK FALSE
