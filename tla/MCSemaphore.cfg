SPECIFICATION Spec
CONSTANTS
  Threads = {t1, t2, t3}
  SEM_VALUE_MAX = 1
  InitialValue = 0
  EintrValid = TRUE
  Timeouts = {"none", "timed", "invalid"}
  MaxPosts = 2
  MaxCancels = 1
SYMMETRY Symmetry
INVARIANTS Conservation WaitersExact NoLostWakeup TokensCovered
PROPERTY FlagLoweredByPost
CHECK_DEADLOCK FALSE
