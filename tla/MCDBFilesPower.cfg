SPECIFICATION Spec
CONSTANTS
  Batch = {b1, b2}
  Torn = Torn
  WriteBufferSize = 0
  Faults = {"sync", "log", "table", "open"}
  Power = TRUE
  MaxFile = 11
  MaxFaults = 1
  MaxCrashes = 2
  MaxCompactions = 1
SYMMETRY Symmetry
INVARIANTS
  AckedVisible
  TablesPresent
  SequencesDistinct
  Reopens
PROPERTIES
  Implements
CHECK_DEADLOCK FALSE
