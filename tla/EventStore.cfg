SPECIFICATION Spec
CONSTANTS
  p1 = p1
  p2 = p2
  k1 = k1
  k2 = k2
  a1 = a1
  a2 = a2
  NULL = NULL
  Processes = {p1, p2}
  Keys = {k1, k2}
  Aggregates = {a1, a2}
SYMMETRY StoreSymmetry
INVARIANTS
  TypeOK
  CommittedVerifies
  OneCommandPerKey
  AnswersOnRecord
PROPERTIES
  ImplementsLedger
