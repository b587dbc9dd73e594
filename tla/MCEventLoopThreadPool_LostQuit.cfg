CONSTANTS
  numThreads = 1
  SelfQuitters = {}
  MaxAssigned = 1
SPECIFICATION Spec
PROPERTY DestructionEnds
CHECK_DEADLOCK FALSE
