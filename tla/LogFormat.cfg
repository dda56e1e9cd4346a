SPECIFICATION Spec
CONSTANTS
  BlockSize = 5
  HeaderSize = 2
  Sizes = {0, 2, 7}
  MaxRecords = 3
  MaxDamage = 1
  Offsets = {0, 4, 6}
INVARIANTS
  ReadBack
PROPERTIES
  ReaderEnds
CHECK_DEADLOCK FALSE
