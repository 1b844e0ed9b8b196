SPECIFICATION Spec
CONSTANTS
  m1 = m1
  m2 = m2
  m3 = m3
  p1 = p1
  p2 = p2
  s1 = s1
  s2 = s2
  h1 = h1
  h2 = h2
  o1 = o1
  o2 = o2
  NULL = NULL
  Memories = {m1}
  Statements = {s1}
  Hashes = {h1}
  Origins = {o1, o2}
  Candidates <- MCOneCandidate
  Processes = {p1}
  MaxVersion <- MCMax
  MaxTime = 0
INVARIANTS
  IndexVerifies
