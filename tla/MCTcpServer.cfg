CONSTANTS
  ThreadNums = {0, 2}
  MaxClients = 3
  MaxFds = 2
SPECIFICATION Spec
INVARIANTS
  TypeOK
  ChannelsAgree
PROPERTIES
  RefinesConnectionLife
  HungUpIsReleased
  AcceptResumes
  DestructionReleasesAll
\* Once the server is gone nothing is left to do.
CHECK_DEADLOCK FALSE
