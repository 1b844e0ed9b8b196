SPECIFICATION FairSpec
CONSTANTS
  a1 = a1
  a2 = a2
  NULL = NULL
  Tasks = {t1}
  Actions = {a1, a2}
  MaxAttempts = 2
  MaxRevision = 2
  MaxTime = 2
  SuppliedTimes = {2}
INVARIANTS
  TypeOK
  TaskRowsVerify
  ReviewedWorkCompleted
  UnknownHoldsTask
  LiveAttemptWithinCeiling
PROPERTIES
  TerminalTasksFinal
  ImplementsLease
  OutboxForward
  NoStrandedTask
