SPECIFICATION FairSpec
CONSTANTS
  NoThread = NoThread
  p1 = p1
  p2 = p2
  c1 = c1
  c2 = c2
  k1 = k1
  Threads <- Workers
  Calls <- WorkersCalls
  MaxPushes = 4
INVARIANTS
  NoLostWakeup
  BlockedForWantOfItems
PROPERTY ImplementsFairQueue
CHECK_DEADLOCK FALSE
