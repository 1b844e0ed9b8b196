SPECIFICATION Spec
CONSTANTS
  m1 = m1
  m2 = m2
  m3 = m3
  p1 = p1
  p2 = p2
  s1 = s1
  s2 = s2
  h1 = h1
  h2 = h2
  o1 = o1
  o2 = o2
  NULL = NULL
  Memories = {m1, m2, m3}
  Statements = {s1, s2}
  Hashes = {h1, h2}
  Origins = {o1}
  Candidates <- MCCandidates
  Processes = {p1, p2}
  MaxVersion <- MCMax
  MaxTime = 1
SYMMETRY MemorySymmetry
INVARIANTS
  TypeOK
  IndexHoldsAccepted
  ReplacedStaysReplaced
  ReviewAdmitsNoConflict
  ConflictsStand
  LoopLeavesNothing
PROPERTIES
  LoopSparesRevalidated
