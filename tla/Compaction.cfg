SPECIFICATION Spec
CONSTANTS
  None = None
  Key = {1, 2}
  NumLevels = 3
  MaxMemCompactLevel = 1
  L0Trigger = 2
  LevelLimit = 2
  TargetFileSize = 1
  GrandparentLimit = 1
  ExpandLimit = 10
  Reader = {r1}
  RangeBegin = {1}
  RangeEnd = {2}
  MaxSeq = 3
  MaxDeletes = 1
  MaxOps = 2
  MaxFile = 7
  CutInsideKey = FALSE
  FlushDuringManual = FALSE
INVARIANTS
  FilesPresent
  LevelsDisjoint
  GetSeesHistory
  ScanSeesHistory
CHECK_DEADLOCK FALSE
