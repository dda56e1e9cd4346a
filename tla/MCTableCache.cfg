SPECIFICATION Spec
CONSTANTS
  None = None
  Client = {c1, c2}
  Handle = {h1, h2, h3, h4}
  Capacity = 1
  Existing = 1
  MaxFile = 4
SYMMETRY Symmetry
INVARIANTS
  CacheConsistent
  OpenTablesBounded
  OpenTablesExist
CHECK_DEADLOCK FALSE
