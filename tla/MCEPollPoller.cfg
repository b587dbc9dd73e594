CONSTANTS
  Channels = {c1, c2}
  Fds = {f1, f2}
  None = None
  kInitEventListSize = 1
SPECIFICATION Spec
INVARIANTS
  TypeOK
  EpollAgrees
  EpollCtlSucceeds
  SizeBounded
PROPERTY NoStarvation
