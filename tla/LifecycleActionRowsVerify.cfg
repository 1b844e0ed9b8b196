SPECIFICATION Spec
CONSTANTS
  a1 = a1
  a2 = a2
  NULL = NULL
  Tasks = {t1}
  Actions = {a1}
  MaxAttempts = 2
  MaxRevision = 2
  MaxTime = 2
  SuppliedTimes = {}
INVARIANTS
  ActionRowsVerify
