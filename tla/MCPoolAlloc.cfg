SPECIFICATION Spec
CONSTANTS
  Align = 2
  MaxBytes = 6
  NObjs = 2
  GrowthDiv = 8
  MemTop = 54
  MaxLive = 2
  Requests <- MCRequests
  Bases <- MCBases
CONSTRAINT FewLive
INVARIANTS
  TypeOK
  ClientMemoryPrivate
  FreeMemoryDisjoint
  Aligned
  AllBacked
  NoByteLost
PROPERTY ImplementsContract
