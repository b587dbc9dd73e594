CONSTANTS
  Threads = {t1}
  ThreadOps = {"send"}
  MaxBytes = 1
  MaxMessages = 0
  highWaterMark = 2
SPECIFICATION Spec
PROPERTIES
  GivesUpWriting
\* A connection that has ended takes no further step.
CHECK_DEADLOCK FALSE
