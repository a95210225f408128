SPECIFICATION FairSpec
CONSTANTS
  Align = 2
  MaxBytes = 6
  NObjs = 3
  GrowthDiv = 8
  MemTop = 54
  MaxLive = 2
  Threads = {t1, t2}
  NoThread = NoThread
  Requests <- MCRequests
  Bases <- MCBases
CONSTRAINT FewLive
INVARIANT
  TypeOK
PROPERTIES
  ImplementsPool
  EndsSoon
  LockReleased
