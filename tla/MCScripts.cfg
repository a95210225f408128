SPECIFICATION ScriptSpec
CONSTANTS
  Align = 8
  MaxBytes = 128
  NObjs = 20
  GrowthDiv = 16
  MemTop = 25400
  Scripts <- RightScripts
  Requests <- Sizes
  Bases <- Places
CHECK_DEADLOCK FALSE
INVARIANTS
  FiguresAsDocumented
  ListsAsDocumented
PROPERTY SideBySide
