SPECIFICATION Spec
CONSTANTS
  a = a
  b = b
  c = c
  None = None
  Threads = {a, b, c}
  Waits <- WaitsPair
  Signals <- SignalsPair
  Cancelable = {a}
  Requeue = TRUE
  MaxCalls = 3
INVARIANTS MutexExact ListSound FramesAlive WakeOrder WaitersExact NoStrayRequeue
CHECK_DEADLOCK FALSE
