SPECIFICATION Spec
CONSTANTS
  x1 = x1
  x2 = x2
  NULL = NULL
  Paths = {x1}
  Blobs = {b1}
  MaxEpoch = 2
  MaxTerm = 3
INVARIANTS
  FallbackWritten
CHECK_DEADLOCK FALSE
