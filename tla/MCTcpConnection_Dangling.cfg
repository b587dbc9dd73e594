CONSTANTS
  Threads = {t1}
  ThreadOps = {"send", "shutdown"}
  MaxBytes = 1
  MaxMessages = 0
  highWaterMark = 2
SPECIFICATION Spec
INVARIANTS
  NoDanglingConnection
\* A connection that has ended takes no further step.
CHECK_DEADLOCK FALSE
