SPECIFICATION ProgressSpec
CONSTANTS
  Threads = {t1, t2, t3}
  Main = t1
  INT_MIN <- MinInt
  Spins = 1
  Free = free
  MaxDepth = 1
  SEM_VALUE_MAX = 1
  MaxPosts = 2
  Busy = busy
  Unusable = unusable
  INT_MAX = 1
  Nobody = nobody
INVARIANTS MutualExclusion CountExact NoLostWakeup ListLockSound
PROPERTIES   WaitersServed
CHECK_DEADLOCK FALSE
