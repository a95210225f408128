SPECIFICATION Spec
CONSTANTS
  NoThread = NoThread
  p1 = p1
  p2 = p2
  c1 = c1
  c2 = c2
  k1 = k1
  Threads <- Everybody
  Calls <- EverybodyCalls
  MaxPushes = 3
INVARIANTS
  TypeOK
  EachItemOnce
PROPERTY ImplementsQueue
CHECK_DEADLOCK FALSE
