SPECIFICATION Spec
CONSTANTS
  None = None
  Key = {1}
  NumLevels = 3
  MaxMemCompactLevel = 1
  L0Trigger = 1
  LevelLimit = 2
  TargetFileSize = 1
  GrandparentLimit = 1
  ExpandLimit = 10
  Reader = {}
  RangeBegin = {1}
  RangeEnd = {1}
  MaxSeq = 3
  MaxDeletes = 0
  MaxOps = 1
  MaxFile = 7
  CutInsideKey = TRUE
  FlushDuringManual = FALSE
INVARIANTS
  GetSeesHistory
CHECK_DEADLOCK FALSE
