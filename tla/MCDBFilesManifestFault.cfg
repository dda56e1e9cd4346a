SPECIFICATION Spec
CONSTANTS
  Batch = {b1, b2, b3}
  Torn = Torn
  WriteBufferSize = 0
  Faults = {"append", "manifest"}
  Power = TRUE
  MaxFile = 14
  MaxFaults = 2
  MaxCrashes = 1
  MaxCompactions = 0
SYMMETRY Symmetry
INVARIANTS
  OnlyDoubtLoses
CHECK_DEADLOCK FALSE
