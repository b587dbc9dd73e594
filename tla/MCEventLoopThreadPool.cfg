CONSTANTS
  numThreads = 3
  SelfQuitters = {1}
  MaxAssigned = 2
SPECIFICATION Spec
INVARIANTS
  TypeOK
  StartedIsReady
  ThreadEndsFirst
  RoundRobin
PROPERTIES
  StartEnds
  JoinEnds
\* The pool may be destroyed, or serve without another connection; and
\* start() waits for ever for a loop that quit before it looked.
CHECK_DEADLOCK FALSE
