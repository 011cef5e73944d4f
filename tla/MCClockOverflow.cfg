SPECIFICATION Spec
CONSTANTS
  NSEC = 4
  LLONG_MAX = 7
  POLL = 3
  Ops = {"join", "wait"}
  MaxSec = 2
  MaxTime = 14
  Offsets = {0}
INVARIANT NoEarlyTimeout
CHECK_DEADLOCK FALSE
