SPECIFICATION ContextSpec
CONSTANTS
  m1 = m1
  m2 = m2
  s1 = s1
  h1 = h1
  o1 = o1
  NULL = NULL
  Memories = {m1, m2}
  Statements = {s1}
  Hashes = {h1, h2}
  Origins = {o1}
  Candidates <- MCCandidates
  Processes = {p1, p2}
  Assembler = p1
  MaxVersion <- MCMax
  MaxTime = 1
  Sections <- MCSections
  Section <- MCSection
  Tokens <- MCTokens
  Cut <- MCCut
  Budgets <- MCBudgets
  Granted <- MCGranted
  MaxPacks = 1
INVARIANTS
  PacksWithinBudget
  TruncationIsSaid
  SelectedWereCurrent
  PacksWithinGrant
