SPECIFICATION Spec
CONSTANTS
  W = 2
  IntBits = 1
  ObjWords = 1
  MaxFree = 2
  MaxWaste = 36
  MaxLive = 7
  Ids = {c1, c2, c3}
  Others = {8}
SYMMETRY IdSymmetry
INVARIANTS
  TypeOK
  FreeListInOrder
  BitsMatchObjects
  UsesCounted
  ObjectsPrivate
  NoWideShift
  IndicesValid
  SizeFollowsChunks
PROPERTY GrowsOnlyWhenFull
