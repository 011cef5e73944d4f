SPECIFICATION Spec
CONSTANTS
  Threads = {a, b, c}
  Free = free
  Busy = busy
  Unusable = unusable
  Types <- AllTypes
  Ops = {"lock", "timedlock", "trylock"}
  INT_MAX = 1
  EintrValid = TRUE
SYMMETRY Symmetry
INVARIANTS HoldExact WaitersExact NoLostWakeup
PROPERTY UnrecoverableForever
CHECK_DEADLOCK FALSE
