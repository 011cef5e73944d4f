SPECIFICATION Spec
CONSTANTS
  a = a
  b = b
  c = c
  None = None
  Threads = {a, b, c}
  Waits <- WaitsClock
  Signals <- SignalsOne
  Cancelable = {}
  Requeue = TRUE
  MaxCalls = 2
INVARIANT ClockWaitKeepsSignal
CHECK_DEADLOCK FALSE
