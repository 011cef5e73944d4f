SPECIFICATION ObjectsSpec
CONSTANTS
  Threads = {a, b, c}
  None = None
  MAX = 3
  Ops = {"rdlock", "timedwrlock"}
  MaxDepth = 1
  MaxCalls = 2
INVARIANTS RwlockSound OnceSound BarrierSound
PROPERTIES BarrierOwnerLast NobodyStuck
CHECK_DEADLOCK FALSE
