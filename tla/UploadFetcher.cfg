CONSTANTS
  None = None
  Length = 7
  ChunkSize = 8
  DemandBuffer = 3
  Granularity = 2
  Slack = 2
  PauseAnytime = FALSE
  KeepsLastByte = FALSE
  MaxFaults = 2
  MaxPauses = 1
  MaxCrashes = 1
SPECIFICATION Spec
INVARIANTS
  SuccessMeansStored
  ChunksInRange
  OneAnswer
PROPERTIES
  UploadEnds
CHECK_DEADLOCK FALSE
