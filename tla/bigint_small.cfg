SPECIFICATION Spec
CONSTANTS
  LONG_BIT = 4
  NIBBLE_BIT = 2
  MaxChunks = 2
  Strings <- MCStrings
  NULL = NULL
  Crashed = Crashed
INVARIANTS Canonical  HexRoundTrip
CHECK_DEADLOCK FALSE
