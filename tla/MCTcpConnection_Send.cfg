CONSTANTS
  Threads = {t1}
  ThreadOps = {"send"}
  MaxBytes = 3
  MaxMessages = 0
  highWaterMark = 2
SPECIFICATION Spec
INVARIANTS
  SendOrder
  ToldOnce
\* A connection that has ended takes no further step.
CHECK_DEADLOCK FALSE
