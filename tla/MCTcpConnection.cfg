CONSTANTS
  Threads = {t1}
  ThreadOps = {"sendFile", "shutdown"}
  MaxBytes = 2
  MaxMessages = 1
  highWaterMark = 2
SPECIFICATION Spec
INVARIANTS
  TypeOK
  WriteInterest
  NothingCutOff
  SendOrder
  RemovedBeforeDestroyed
  RegisteredWithInterest
PROPERTY RefinesConnectionLife
\* A connection that has ended takes no further step.
CHECK_DEADLOCK FALSE
