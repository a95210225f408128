SPECIFICATION Spec
CONSTANTS
  Threads = {t1, t2, t3}
  Types = {T1, T2}
  Addresses = {a1}
INVARIANTS
  TypeOK
  GoesBackAsItCame
  WordBounded
PROPERTY FirstAnswerStands
SYMMETRY Symmetry
