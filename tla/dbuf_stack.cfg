SPECIFICATION Spec
CONSTANTS
  Byte = {x, y}
  Junk = Junk
  WordSize = 2
  Limit = 6
  InitialSizes = {0, 1, 3, 9}
  GrowSizes = {0, 1, 4, 5}
  Counts = {0, 1, 2, 3}
INVARIANTS WithinMemory HoldsPushed
 
CHECK_DEADLOCK FALSE
