SPECIFICATION Spec
CONSTANTS
  W = 4
  IntBits = 2
  ObjWords = 1
  MaxFree = 2
  MaxWaste = 36
  MaxLive = 4
  Ids = {c1, c2, c3}
  Others = {}
INVARIANT EachBitOneObject
