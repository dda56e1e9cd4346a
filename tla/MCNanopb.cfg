CONSTANTS
  Types <- MCTypes
  Root = "root"
  Word = 10
  Long = 18
  Message <- MCMessage
  Opening <- MCOpening
  Byte = {0, 1, 2, 8, 10, 16, 26, 34, 42, 58, 66, 95, 128, 255}
  MaxWire = 6
  MaxSize = {14, 56}
SPECIFICATION Spec
INVARIANTS
  RoundTrip
  DecodedIsSound
CHECK_DEADLOCK FALSE
