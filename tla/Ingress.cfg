SPECIFICATION FairSpec
CONSTANTS
  NULL = NULL
  Objectives = {o1}
  Tasks = {t1, t2}
  OperatorTasks = {t2}
  Contents = {c1, c2}
  Bodies = {b1, b2}
  MaxRevision = 2
  Messages = {m1}
  Envelopes = {e1, e2}
  Processes = {p1, p2}
INVARIANTS
  TypeOK
  PinsResolve
  MappedAsCreated
PROPERTIES
  ImplementsInbox
  CreatedIsMapped
