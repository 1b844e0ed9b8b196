SPECIFICATION Spec
CONSTANTS
  x1 = x1
  x2 = x2
  NULL = NULL
  Paths = {x1, x2}
  Blobs = {b1}
  MaxEpoch = 4
  MaxTerm = 3
SYMMETRY PathSymmetry
INVARIANTS
  LocalReceiptMeansCopy
  SecondCopyInTime
CHECK_DEADLOCK FALSE
