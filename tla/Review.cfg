SPECIFICATION ReviewSpec
CONSTANTS
  c1 = c1
  c2 = c2
  NULL = NULL
  Tasks = {t1}
  Actions = {a1}
  MaxAttempts = 2
  MaxRevision = 2
  MaxTime = 1
  SuppliedTimes = {}
  Callers = {c1, c2}
  Reviewers = {checker}
  MaxManifests = 1
  MaxReviews = 2
SYMMETRY CallerSymmetry
INVARIANTS
  AcceptedWorkPasses
  ClosingRecordsAgree
PROPERTIES
  DecisionsOnNewestRun
CHECK_DEADLOCK FALSE
