SPECIFICATION Spec
CONSTANTS
  a = a
  b = b
  Main = main
  Threads = {main, a, b}
  Nobody = nobody
  Attrs <- AttrsAll
  Ops = {"join", "timedjoin", "tryjoin", "clockjoin", "detach", "kill"}
SYMMETRY Symmetry
INVARIANTS ListSound NoUseAfterUnmap NeedLocksSound KillHitsLiveThread
  JoinSound LastThreadAlone
CHECK_DEADLOCK FALSE
