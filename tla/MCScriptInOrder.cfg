SPECIFICATION ScriptSpec
CONSTANTS
  Align = 8
  MaxBytes = 128
  NObjs = 20
  GrowthDiv = 16
  MemTop = 25400
  Scripts <- InOrder
  Requests <- Sizes
  Bases <- Places
CHECK_DEADLOCK FALSE
PROPERTY SideBySide
