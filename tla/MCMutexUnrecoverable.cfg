SPECIFICATION FairSpec
CONSTANTS
  Threads = {a, b, c}
  Free = free
  Busy = busy
  Unusable = unusable
  Types <- TypesRobust
  Ops = {"lock"}
  INT_MAX = 1
  EintrValid = FALSE
PROPERTY UnrecoverableReported
CHECK_DEADLOCK FALSE
