CONSTANTS
  Threads = {t1}
  ThreadOps = {"shutdown"}
  MaxBytes = 1
  MaxMessages = 1
  highWaterMark = 2
SPECIFICATION FairSpec
PROPERTIES
  CloseCompletes
  DownIsCalled
  ShutdownSendsFin
\* A connection that has ended takes no further step.
CHECK_DEADLOCK FALSE
