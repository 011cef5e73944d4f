SPECIFICATION Spec
CONSTANTS
  a = a
  b = b
  Main = main
  Threads = {main, a}
  Nobody = nobody
  Attrs <- AttrsTwo
  Ops = {"clockjoin"}
INVARIANT LastJoinNonBlocking
CHECK_DEADLOCK FALSE
