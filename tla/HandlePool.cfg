CONSTANTS
  Threads = {t1, t2, t3}
  Kinds = {"tcp", "rtu"}
  Capacity <- Slots
  Instances = {c1, c2, c3, c4, c5}
  HookKinds = {"mutex", "nothing"}
  MaxDepth = 3
  None = None
SPECIFICATION Spec
SYMMETRY Symmetry
INVARIANTS ExclusiveUse HandlesSound RaceFree WaitsInOrder
