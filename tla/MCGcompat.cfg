SPECIFICATION GcompatSpec
CONSTANTS
  NSEC = 4
  LLONG_MAX = 7
  POLL = 3
  Ops = {"join", "wait"}
  MaxSec = 2
  MaxTime = 14
  Offsets = {0, 3, 5}
  Memory = 18
  Blocks = {1, 6, 11}
  Header = 2
  Alignment = 2
  ChunkSize = 5
  Slack = 2
  SIZE_MAX = 63
  Lengths = {1, 3, 62, 63}
  MaxObjects = 3
INVARIANTS DeadlineSound WaitEndsByDeadline ObjectsIntact ChunksAccounted
PROPERTY SleepEndsByDeadline
CHECK_DEADLOCK FALSE
