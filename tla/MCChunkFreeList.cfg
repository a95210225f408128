SPECIFICATION Spec
CONSTANTS
  Size = 2
  Word = 2
  Chunk = 3
  MemTop = 15
  Bases = {1, 6, 7}
INVARIANTS
  TypeOK
  EachObjectOnce
PROPERTIES
  ImplementsStore
  ImplementsContract
