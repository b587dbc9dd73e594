CONSTANTS
  LoopThread = loopThread
  Threads = {t1, t2}
  WakeupChannel = wakeup
  Channels = {c1}
  Functors = {f1, f2}
SPECIFICATION PromptSpec
INVARIANTS
  TypeOK
  NoLostWakeup
  QuitWakesPoll
PROPERTIES
  PromptlyRun
  QuitStops
  RefinesTaskQueue
\* loop() may return and every thread may have nothing left to do.
CHECK_DEADLOCK FALSE
