SPECIFICATION FairSpec
CONSTANTS
  a = a
  b = b
  c = c
  None = None
  Threads = {a, b, c}
  Waits <- WaitsLive
  Signals <- SignalsLive
  Cancelable = {}
  Requeue = TRUE
  MaxCalls = 2
PROPERTY SignaledReturns
CHECK_DEADLOCK FALSE
