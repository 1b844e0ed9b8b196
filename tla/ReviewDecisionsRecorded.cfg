SPECIFICATION ReviewSpec
CONSTANTS
  c1 = c1
  c2 = c2
  NULL = NULL
  Tasks = {t1}
  Actions = {a1}
  MaxAttempts = 2
  MaxRevision = 2
  MaxTime = 1
  SuppliedTimes = {}
  Callers = {c1}
  Reviewers = {checker}
  MaxManifests = 2
  MaxReviews = 2
INVARIANTS
  DecisionsRecorded
CHECK_DEADLOCK FALSE
