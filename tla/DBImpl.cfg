SPECIFICATION Spec
CONSTANTS
  None = None
  Call = {c1, c2, c3}
  Kind = {"sync", "async", "compact"}
  WriteBufferSize = 0
  L0Compaction = 1
  L0Slowdown = 1
  L0Stop = 1
  ManualLevels = 1
  ManualRounds = 1
  MaxKeys = 1
  MaxFaults = 1
INVARIANTS
  SleepersAreLed
  WaitersAreServed
  AnsweredMeansApplied
  SyncMeansSynced
  ErrorsAreSticky
  Level0Bounded
PROPERTIES
  CallsReturn
  CloseEnds
