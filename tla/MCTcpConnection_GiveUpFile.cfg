CONSTANTS
  Threads = {}
  ThreadOps = {}
  MaxBytes = 2
  MaxMessages = 0
  highWaterMark = 2
SPECIFICATION EndingFairSpec
PROPERTY GivesUpFile
\* A connection that has ended takes no further step.
CHECK_DEADLOCK FALSE
