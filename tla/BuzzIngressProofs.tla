-------------------------- MODULE BuzzIngressProofs --------------------------
(***************************************************************************)
(* Theorems about Objective and BuzzIngress, for every set of objectives,  *)
(* messages, deliveries and processes: what a task pins stays resolvable,  *)
(* a mapping leads to the task made for its message, and ingesting         *)
(* implements Inbox.                                                       *)
(***************************************************************************)
EXTENDS BuzzIngress, TLAPS

-----------------------------------------------------------------------------
(* The inductive invariant.                                                *)

\* The history of an objective has every revision up to the one in force, and
\* none beyond it.
HistoryKept ==
    \A o \in Objectives :
        /\ objective[o].status = "none" <=> objective[o].revision = 0
        /\ \A r \in 1 .. objective[o].revision : revisions[o][r] \in Contents
        /\ \A r \in RevisionNumbers :
              r > objective[o].revision => revisions[o][r] = NULL

\* What the store recorded under the key of a message is its task.
CreatedIsTask ==
    \A m \in Messages :
        created[m] # NULL =>
            /\ task[created[m].task] # NULL
            /\ [objective |-> task[created[m].task].objective,
                body |-> task[created[m].task].body] = created[m].fields

\* A call past its creation carries the task made for its message.
AdaptersAgree ==
    \A p \in Processes :
        /\ adapter[p].step # "idle" => adapter[p].delivery \in Deliveries
        /\ adapter[p].step \in {"map", "answer"} =>
              /\ adapter[p].task \in Tasks
              /\ created[adapter[p].delivery.message] =
                    [fields |-> adapter[p].delivery.fields, task |-> adapter[p].task]

\* A mapping vouches for the delivery it was made from.
MappingAgrees ==
    \A m \in Messages :
        mapping[m] # NULL =>
            /\ mapping[m].delivery.message = m
            /\ created[m] = [fields |-> mapping[m].delivery.fields,
                             task |-> mapping[m].task]

IngressInv ==
    /\ TypeOK
    /\ HistoryKept
    /\ PinsResolve
    /\ CreatedIsTask
    /\ AdaptersAgree
    /\ MappingAgrees

-----------------------------------------------------------------------------
(* Objectives and tasks.                                                   *)

\* What Objective's own invariant is.
ObjectiveInv == ObjectiveTypeOK /\ HistoryKept /\ PinsResolve

\* What no step does to the rows of objectives: a revision on record is not
\* written again, the number in force does not go back, and an objective that
\* has been closed keeps its row.
ObjectivesStand ==
    \A o \in Objectives :
        /\ objective[o].revision <= objective'[o].revision
        /\ objective[o].status \in Closed => objective'[o] = objective[o]
        /\ \A r \in RevisionNumbers :
              revisions[o][r] # NULL => revisions'[o][r] = revisions[o][r]

LEMMA ObjectiveParts ==
  ASSUME ObjectiveTypeOK, NEW o \in Objectives
  PROVE  /\ objective[o] \in ObjectiveRows
         /\ objective[o].status \in Statuses
         /\ objective[o].revision \in 0 .. MaxRevision
         /\ objective[o].revision \in Nat
         /\ revisions[o] \in [RevisionNumbers -> Contents \cup {NULL}]
  BY BoundAssumption DEF ObjectiveTypeOK, ObjectiveRows

LEMMA TaskParts ==
  ASSUME ObjectiveTypeOK, NEW t \in Tasks, task[t] # NULL
  PROVE  /\ task[t] \in TaskRows
         /\ task[t].objective \in Objectives
         /\ task[t].body \in Bodies
         /\ task[t].revision \in RevisionNumbers
         /\ task[t].revision \in Nat
         /\ task[t].revision >= 1
  BY BoundAssumption DEF ObjectiveTypeOK, TaskRows, RevisionNumbers

LEMMA UpToNext ==
  ASSUME NEW r \in Nat
  PROVE  \A n \in 1 .. r + 1 : n = r + 1 \/ n \in 1 .. r
  OBVIOUS

\* A revision written beyond those in force disturbs no pin.
LEMMA RevisionWritten ==
  ASSUME ObjectiveInv, NEW o \in Objectives, NEW c \in Contents,
         NEW s \in Statuses, s # "none",
         objective[o].status \notin Closed,
         objective[o].revision < MaxRevision,
         objective' = [objective EXCEPT ![o] =
                         [status |-> s, revision |-> objective[o].revision + 1]],
         revisions' = [revisions EXCEPT ![o][objective[o].revision + 1] = c],
         UNCHANGED task
  PROVE  ObjectiveInv' /\ ObjectivesStand
  <1> DEFINE r == objective[o].revision
  <1>1. /\ r = objective[o].revision /\ r < MaxRevision
        /\ r \in Nat /\ r + 1 \in RevisionNumbers /\ r + 1 \in 0 .. MaxRevision
        /\ revisions[o] \in [RevisionNumbers -> Contents \cup {NULL}]
        /\ objective \in [Objectives -> ObjectiveRows]
        /\ revisions \in [Objectives -> [RevisionNumbers -> Contents \cup {NULL}]]
    BY ObjectiveParts, BoundAssumption
    DEF RevisionNumbers, ObjectiveInv, ObjectiveTypeOK
  <1> HIDE DEF r
  <1>2. /\ objective'[o] = [status |-> s, revision |-> r + 1]
        /\ \A p \in Objectives : p # o => objective'[p] = objective[p]
        /\ objective' \in [Objectives -> ObjectiveRows]
    BY <1>1 DEF ObjectiveRows
  <1>3. /\ revisions'[o][r + 1] = c
        /\ \A n \in RevisionNumbers : n # r + 1 => revisions'[o][n] = revisions[o][n]
        /\ \A p \in Objectives : p # o => revisions'[p] = revisions[p]
        /\ revisions' \in [Objectives -> [RevisionNumbers -> Contents \cup {NULL}]]
    BY <1>1
  <1>4. ObjectiveTypeOK'
    BY <1>2, <1>3 DEF ObjectiveInv, ObjectiveTypeOK
  <1>5. HistoryKept'
    <2> SUFFICES ASSUME NEW p \in Objectives
                 PROVE  /\ objective'[p].status = "none" <=> objective'[p].revision = 0
                        /\ \A n \in 1 .. objective'[p].revision :
                              revisions'[p][n] \in Contents
                        /\ \A n \in RevisionNumbers :
                              n > objective'[p].revision => revisions'[p][n] = NULL
      BY DEF HistoryKept
    <2>1. CASE p = o
      <3>1. \A n \in 1 .. r : revisions[o][n] \in Contents /\ n \in RevisionNumbers
        BY <1>1, BoundAssumption DEF ObjectiveInv, HistoryKept, RevisionNumbers
      <3>2. \A n \in 1 .. r + 1 : n = r + 1 \/ n \in 1 .. r
        BY <1>1, UpToNext
      <3>3. \A n \in 1 .. r + 1 : revisions'[o][n] \in Contents
        BY <1>1, <1>3, <3>1, <3>2
      <3>4. \A n \in RevisionNumbers : n > r + 1 => revisions'[o][n] = NULL
        <4> SUFFICES ASSUME NEW n \in RevisionNumbers, n > r + 1
                     PROVE  revisions'[o][n] = NULL
          OBVIOUS
        <4>1. n > r /\ n # r + 1
          BY <1>1, BoundAssumption DEF RevisionNumbers
        <4>2. revisions[o][n] = NULL
          BY <1>1, <4>1 DEF ObjectiveInv, HistoryKept
        <4>3. QED
          BY <1>3, <4>1, <4>2
      <3>5. QED
        BY <1>1, <1>2, <2>1, <3>3, <3>4
    <2>2. CASE p # o
      BY <1>2, <1>3, <2>2 DEF ObjectiveInv, HistoryKept
    <2>3. QED
      BY <2>1, <2>2
  <1>6. PinsResolve'
    <2> SUFFICES ASSUME NEW t \in Tasks, task[t] # NULL
                 PROVE  /\ task[t].revision <= objective'[task[t].objective].revision
                        /\ task[t].digest = Digest(task[t].objective, task[t].revision)'
      BY DEF PinsResolve
    <2>1. /\ task[t].objective \in Objectives
          /\ task[t].revision \in RevisionNumbers /\ task[t].revision \in Nat
          /\ task[t].revision <= objective[task[t].objective].revision
          /\ task[t].digest = Digest(task[t].objective, task[t].revision)
      BY TaskParts DEF ObjectiveInv, PinsResolve
    <2>2. objective[task[t].objective].revision \in Nat
      BY <2>1, ObjectiveParts DEF ObjectiveInv
    <2>3. revisions'[task[t].objective][task[t].revision]
             = revisions[task[t].objective][task[t].revision]
      BY <1>1, <1>3, <2>1, <2>2
    <2>4. QED
      BY <1>1, <1>2, <2>1, <2>2, <2>3 DEF Digest
  <1>7. ObjectivesStand
    <2> SUFFICES ASSUME NEW p \in Objectives
                 PROVE  /\ objective[p].revision <= objective'[p].revision
                        /\ objective[p].status \in Closed => objective'[p] = objective[p]
                        /\ \A n \in RevisionNumbers :
                              revisions[p][n] # NULL => revisions'[p][n] = revisions[p][n]
      BY DEF ObjectivesStand
    <2>1. CASE p = o
      <3>1. r + 1 > r /\ r <= r + 1
        BY <1>1
      <3>2. revisions[o][r + 1] = NULL
        BY <1>1, <3>1 DEF ObjectiveInv, HistoryKept
      <3>3. QED
        BY <1>1, <1>2, <1>3, <2>1, <3>1, <3>2
    <2>2. CASE p # o
      <3>1. objective[p].revision <= objective[p].revision
        BY ObjectiveParts DEF ObjectiveInv
      <3>2. QED
        BY <1>2, <1>3, <2>2, <3>1
    <2>3. QED
      BY <2>1, <2>2
  <1>8. QED
    BY <1>4, <1>5, <1>6, <1>7 DEF ObjectiveInv

\* The commands on objectives.
LEMMA ObjectiveStep ==
  ASSUME ObjectiveInv, ObjectiveNext
  PROVE  ObjectiveInv' /\ ObjectivesStand /\ UNCHANGED task
  <1>1. PICK o \in Objectives :
          \/ \E c \in Contents : CreateObjective(o, c) \/ ReviseObjective(o, c)
          \/ \E s \in Statuses : SetObjectiveStatus(o, s)
    BY DEF ObjectiveNext
  <1>2. ASSUME NEW c \in Contents, CreateObjective(o, c)
        PROVE  ObjectiveInv' /\ ObjectivesStand /\ UNCHANGED task
    <2>1. /\ objective[o].revision = 0 /\ 0 < MaxRevision /\ 0 + 1 = 1
          /\ objective[o].status \notin Closed
      BY <1>2, BoundAssumption DEF CreateObjective, ObjectiveInv, HistoryKept, Closed
    <2>2. "proposed" \in Statuses /\ "proposed" # "none"
      BY DEF Statuses
    <2>3. QED
      BY <1>2, <2>1, <2>2, RevisionWritten DEF CreateObjective
  <1>3. ASSUME NEW c \in Contents, ReviseObjective(o, c)
        PROVE  ObjectiveInv' /\ ObjectivesStand /\ UNCHANGED task
    <2> DEFINE s == objective[o].status
    <2>1. /\ s \in Statuses /\ s # "none" /\ s \notin Closed
          /\ objective[o].revision < MaxRevision
      BY <1>3, ObjectiveParts DEF ReviseObjective, ObjectiveInv
    <2>2. [objective EXCEPT ![o].revision = objective[o].revision + 1]
             = [objective EXCEPT ![o] = [status |-> s,
                                         revision |-> objective[o].revision + 1]]
      <3>1. objective[o] \in ObjectiveRows
        BY ObjectiveParts DEF ObjectiveInv
      <3>2. [objective[o] EXCEPT !.revision = objective[o].revision + 1]
               = [status |-> s, revision |-> objective[o].revision + 1]
        BY <3>1 DEF ObjectiveRows
      <3>3. QED
        BY <3>2
    <2>3. QED
      BY <1>3, <2>1, <2>2, RevisionWritten DEF ReviseObjective, NewRevision
  <1>4. ASSUME NEW s \in Statuses, SetObjectiveStatus(o, s)
        PROVE  ObjectiveInv' /\ ObjectivesStand /\ UNCHANGED task
    <2>1. /\ objective \in [Objectives -> ObjectiveRows]
          /\ objective[o].status # "none"
          /\ objective[o].status \notin Closed
          /\ s # "none"
          /\ objective' = [objective EXCEPT ![o].status = s]
          /\ UNCHANGED <<revisions, task>>
      BY <1>4 DEF SetObjectiveStatus, NextStatuses, Closed, ObjectiveInv, ObjectiveTypeOK
    <2>2. /\ objective' \in [Objectives -> ObjectiveRows]
          /\ objective'[o].status = s
          /\ \A p \in Objectives : objective'[p].revision = objective[p].revision
          /\ \A p \in Objectives : p # o => objective'[p] = objective[p]
      BY <2>1 DEF ObjectiveRows
    <2>3. ObjectiveTypeOK'
      BY <2>1, <2>2 DEF ObjectiveInv, ObjectiveTypeOK
    <2>4. HistoryKept'
      BY <2>1, <2>2 DEF ObjectiveInv, HistoryKept
    <2>5. PinsResolve'
      <3> SUFFICES ASSUME NEW t \in Tasks, task[t] # NULL
                   PROVE  /\ task[t].revision <= objective'[task[t].objective].revision
                          /\ task[t].digest
                               = Digest(task[t].objective, task[t].revision)'
        BY <2>1 DEF PinsResolve
      <3>1. task[t].objective \in Objectives
        BY TaskParts DEF ObjectiveInv
      <3>2. QED
        BY <2>1, <2>2, <3>1 DEF ObjectiveInv, PinsResolve, Digest
    <2>6. ObjectivesStand
      <3>1. \A p \in Objectives : objective[p].revision <= objective[p].revision
        BY ObjectiveParts DEF ObjectiveInv
      <3>2. QED
        BY <2>1, <2>2, <3>1 DEF ObjectivesStand
    <2>7. QED
      BY <2>1, <2>3, <2>4, <2>5, <2>6 DEF ObjectiveInv
  <1>5. QED
    BY <1>1, <1>2, <1>3, <1>4

\* A task is created pinned to a revision the history has.
LEMMA CreateTaskStep ==
  ASSUME ObjectiveInv, NEW t \in Tasks, NEW f \in Fields, CreateTask(t, f)
  PROVE  /\ ObjectiveInv'
         /\ task[t] = NULL
         /\ task'[t] # NULL
         /\ [objective |-> task'[t].objective, body |-> task'[t].body] = f
         /\ \A u \in Tasks : u # t => task'[u] = task[u]
  <1> DEFINE o == f.objective
             r == objective[f.objective].revision
             row == [objective |-> o, body |-> f.body, revision |-> r,
                     digest |-> Digest(o, r)]
  <1>1. /\ o \in Objectives /\ f.body \in Bodies
        /\ f = [objective |-> o, body |-> f.body]
    BY DEF Fields
  <1>2. /\ task' = [task EXCEPT ![t] = row]
        /\ UNCHANGED <<objective, revisions>>
        /\ task[t] = NULL
        /\ task \in [Tasks -> TaskRows \cup {NULL}]
    BY DEF CreateTask, TaskPinned, ObjectiveInv, ObjectiveTypeOK
  <1>3. r \in RevisionNumbers /\ r \in Nat /\ r <= r /\ r \in 1 .. r
    <2>1. objective[o].status # "none"
      BY DEF CreateTask, Open
    <2>2. r \in 0 .. MaxRevision /\ r # 0
      BY <1>1, <2>1, ObjectiveParts DEF ObjectiveInv, HistoryKept
    <2>3. QED
      BY <2>2, BoundAssumption DEF RevisionNumbers
  <1>4. Digest(o, r) \in Digests
    BY <1>1, <1>3 DEF Digest, Digests, ObjectiveInv, HistoryKept
  <1>5. row \in TaskRows /\ row # NULL
    BY <1>1, <1>3, <1>4, ObjectiveNullAssumption DEF TaskRows
  <1>6. /\ task'[t] = row
        /\ \A u \in Tasks : u # t => task'[u] = task[u]
    BY <1>2
  <1>7. ObjectiveTypeOK'
    BY <1>2, <1>5 DEF ObjectiveInv, ObjectiveTypeOK
  <1>8. HistoryKept'
    BY <1>2 DEF ObjectiveInv, HistoryKept
  <1>9. PinsResolve'
    <2> SUFFICES ASSUME NEW u \in Tasks, task'[u] # NULL
                 PROVE  /\ task'[u].revision <= objective[task'[u].objective].revision
                        /\ task'[u].digest = Digest(task'[u].objective, task'[u].revision)
      BY <1>2 DEF PinsResolve, Digest
    <2>1. CASE u = t
      BY <1>3, <1>6, <2>1
    <2>2. CASE u # t
      BY <1>6, <2>2 DEF ObjectiveInv, PinsResolve
    <2>3. QED
      BY <2>1, <2>2
  <1>10. QED
    BY <1>1, <1>2, <1>5, <1>6, <1>7, <1>8, <1>9 DEF ObjectiveInv

-----------------------------------------------------------------------------
(* Ingesting.                                                              *)

LEMMA InitInv == Init => IngressInv
  <1> SUFFICES ASSUME Init PROVE IngressInv
    OBVIOUS
  <1>1. ObjectiveTypeOK
    BY BoundAssumption DEF Init, ObjectiveInit, ObjectiveTypeOK, ObjectiveRows, Statuses
  <1>2. TypeOK
    BY <1>1 DEF Init, TypeOK, Adapters, Idle
  <1>3. HistoryKept
    <2>1. \A o \in Objectives :
             objective[o].status = "none" /\ objective[o].revision = 0
      BY DEF Init, ObjectiveInit
    <2>2. \A r \in 1 .. 0 : FALSE
      OBVIOUS
    <2>3. \A o \in Objectives, r \in RevisionNumbers : revisions[o][r] = NULL
      BY DEF Init, ObjectiveInit
    <2>4. QED
      BY <2>1, <2>2, <2>3 DEF HistoryKept
  <1>4. QED
    BY <1>2, <1>3 DEF Init, ObjectiveInit, IngressInv, PinsResolve, CreatedIsTask,
       AdaptersAgree, MappingAgrees, Idle

LEMMA DeliveryParts ==
  ASSUME NEW d \in Deliveries
  PROVE  d.message \in Messages /\ d.fields \in Fields
  BY DEF Deliveries

LEMMA CreationParts ==
  ASSUME NEW c \in Creations
  PROVE  /\ c # NULL /\ c.fields \in Fields /\ c.task \in Tasks /\ c.task # NULL
         /\ c = [fields |-> c.fields, task |-> c.task]
  BY IngressAssumption DEF Creations

LEMMA IngressIsObjective ==
  IngressInv <=> /\ ObjectiveInv
                 /\ created \in [Messages -> Creations \cup {NULL}]
                 /\ mapping \in [Messages -> [delivery : Deliveries, task : Tasks]
                                               \cup {NULL}]
                 /\ adapter \in [Processes -> Adapters]
                 /\ told \subseteq Messages \X Tasks
                 /\ CreatedIsTask
                 /\ AdaptersAgree
                 /\ MappingAgrees
  BY DEF IngressInv, ObjectiveInv, TypeOK

\* Where a call is, after a step that moves it.
LEMMA AdapterMoved ==
  ASSUME IngressInv, NEW p \in Processes, NEW step \in {"create", "map", "answer"},
         NEW d \in Deliveries, NEW t \in Tasks \cup {NULL}, Goes(p, step, d, t)
  PROVE  /\ adapter' \in [Processes -> Adapters]
         /\ adapter'[p] = [step |-> step, delivery |-> d, task |-> t]
         /\ \A q \in Processes : q # p => adapter'[q] = adapter[q]
  BY DEF Goes, Adapters, IngressInv, TypeOK

\* A call that moves on with the task made for its message.
LEMMA MovedInv ==
  ASSUME IngressInv, NEW p \in Processes, NEW step \in {"create", "map", "answer"},
         NEW d \in Deliveries, NEW t \in Tasks \cup {NULL}, Goes(p, step, d, t),
         step # "create" =>
            t \in Tasks /\ created[d.message] = [fields |-> d.fields, task |-> t],
         UNCHANGED <<objectiveVars, created>>,
         told' \subseteq Messages \X Tasks,
         mapping' \in [Messages -> [delivery : Deliveries, task : Tasks] \cup {NULL}],
         MappingAgrees'
  PROVE  IngressInv'
  <1>1. /\ adapter' \in [Processes -> Adapters]
        /\ adapter'[p] = [step |-> step, delivery |-> d, task |-> t]
        /\ \A q \in Processes : q # p => adapter'[q] = adapter[q]
    BY AdapterMoved
  <1>2. ObjectiveInv'
    BY IngressIsObjective
    DEF objectiveVars, ObjectiveInv, ObjectiveTypeOK, HistoryKept, PinsResolve, Digest
  <1>3. CreatedIsTask'
    BY DEF objectiveVars, IngressInv, CreatedIsTask
  <1>4. AdaptersAgree'
    BY <1>1 DEF IngressInv, AdaptersAgree
  <1>5. created' \in [Messages -> Creations \cup {NULL}]
    BY DEF IngressInv, TypeOK
  <1>6. QED
    BY <1>1, <1>2, <1>3, <1>4, <1>5 DEF IngressInv, ObjectiveInv, TypeOK

\* A call that ends, by an error, a crash or its answer.
LEMMA EndedInv ==
  ASSUME IngressInv, NEW p \in Processes,
         adapter' = [adapter EXCEPT ![p] = Idle],
         UNCHANGED <<objectiveVars, created, mapping>>,
         told' \subseteq Messages \X Tasks
  PROVE  IngressInv'
  <1>1. /\ adapter' \in [Processes -> Adapters]
        /\ adapter'[p].step = "idle"
        /\ \A q \in Processes : q # p => adapter'[q] = adapter[q]
    BY DEF Idle, Adapters, IngressInv, TypeOK
  <1>2. ObjectiveInv'
    BY IngressIsObjective
    DEF objectiveVars, ObjectiveInv, ObjectiveTypeOK, HistoryKept, PinsResolve, Digest
  <1>3. CreatedIsTask' /\ MappingAgrees'
    BY DEF objectiveVars, IngressInv, CreatedIsTask, MappingAgrees
  <1>4. AdaptersAgree'
    BY <1>1 DEF IngressInv, AdaptersAgree
  <1>5. QED
    BY <1>1, <1>2, <1>3, <1>4 DEF IngressInv, ObjectiveInv, TypeOK

\* The step of a call that makes the task of its message.
LEMMA MakeTaskInv ==
  ASSUME IngressInv, NEW p \in Processes, NEW t \in Tasks, MakeTask(p, t)
  PROVE  /\ IngressInv'
         /\ \A m \in Messages : created[m] # NULL => created[m].task # t
  <1> DEFINE d == adapter[p].delivery
             m == d.message
             rec == [fields |-> d.fields, task |-> t]
  <1>1. /\ d \in Deliveries /\ m \in Messages /\ d.fields \in Fields
        /\ created[m] = NULL
        /\ created \in [Messages -> Creations \cup {NULL}]
        /\ created' = [created EXCEPT ![m] = rec]
        /\ CreateTask(t, d.fields)
        /\ Goes(p, "map", d, t)
        /\ UNCHANGED <<mapping, told>>
    BY DeliveryParts DEF MakeTask, At, IngressInv, AdaptersAgree, TypeOK
  <1>2. rec \in Creations /\ rec # NULL
    BY <1>1, IngressAssumption DEF Creations
  <1>3. /\ created'[m] = rec
        /\ \A n \in Messages : n # m => created'[n] = created[n]
        /\ created' \in [Messages -> Creations \cup {NULL}]
    BY <1>1, <1>2
  <1>4. /\ ObjectiveInv'
        /\ task[t] = NULL
        /\ task'[t] # NULL
        /\ [objective |-> task'[t].objective, body |-> task'[t].body] = d.fields
        /\ \A u \in Tasks : u # t => task'[u] = task[u]
    BY <1>1, CreateTaskStep, IngressIsObjective
  <1>5. /\ adapter' \in [Processes -> Adapters]
        /\ adapter'[p] = [step |-> "map", delivery |-> d, task |-> t]
        /\ \A q \in Processes : q # p => adapter'[q] = adapter[q]
    BY <1>1, AdapterMoved
  <1>6. ASSUME NEW n \in Messages, created[n] # NULL
        PROVE  created[n].task \in Tasks /\ created[n].task # t
    <2>1. created[n] \in Creations
      BY <1>1, <1>6
    <2>2. task[created[n].task] # NULL
      BY <1>6 DEF IngressInv, CreatedIsTask
    <2>3. QED
      BY <1>4, <2>1, <2>2, CreationParts
  <1> HIDE DEF d, m, rec
  <1>7. CreatedIsTask'
    <2> SUFFICES ASSUME NEW n \in Messages, created'[n] # NULL
                 PROVE  /\ task'[created'[n].task] # NULL
                        /\ [objective |-> task'[created'[n].task].objective,
                            body |-> task'[created'[n].task].body]
                              = created'[n].fields
      BY DEF CreatedIsTask
    <2>1. CASE n = m
      BY <1>3, <1>4, <2>1 DEF rec
    <2>2. CASE n # m
      BY <1>3, <1>4, <1>6, <2>2 DEF IngressInv, CreatedIsTask
    <2>3. QED
      BY <2>1, <2>2
  <1>8. AdaptersAgree'
    <2> SUFFICES ASSUME NEW q \in Processes
                 PROVE  /\ adapter'[q].step # "idle" => adapter'[q].delivery \in Deliveries
                        /\ adapter'[q].step \in {"map", "answer"} =>
                              /\ adapter'[q].task \in Tasks
                              /\ created'[adapter'[q].delivery.message] =
                                    [fields |-> adapter'[q].delivery.fields,
                                     task |-> adapter'[q].task]
      BY DEF AdaptersAgree
    <2>1. CASE q = p
      BY <1>1, <1>3, <1>5, <2>1 DEF rec, m
    <2>2. CASE q # p
      <3>1. adapter'[q] = adapter[q]
        BY <1>5, <2>2
      <3>2. ASSUME adapter[q].step \in {"map", "answer"}
            PROVE  created'[adapter[q].delivery.message]
                      = created[adapter[q].delivery.message]
        <4>1. /\ adapter[q].delivery \in Deliveries
              /\ adapter[q].task \in Tasks
              /\ created[adapter[q].delivery.message] =
                    [fields |-> adapter[q].delivery.fields, task |-> adapter[q].task]
          BY <3>2 DEF IngressInv, AdaptersAgree
        <4>2. created[adapter[q].delivery.message] # NULL
          BY <4>1, DeliveryParts, IngressAssumption DEF Creations
        <4>3. QED
          BY <1>1, <1>3, <4>1, <4>2, DeliveryParts
      <3>3. QED
        BY <3>1, <3>2 DEF IngressInv, AdaptersAgree
    <2>3. QED
      BY <2>1, <2>2
  <1>9. MappingAgrees'
    <2>1. \A n \in Messages : mapping[n] # NULL => created[n] # NULL
      <3> SUFFICES ASSUME NEW n \in Messages, mapping[n] # NULL
                   PROVE  created[n] # NULL
        OBVIOUS
      <3>1. mapping[n].delivery \in Deliveries /\ mapping[n].task \in Tasks
        BY DEF IngressInv, TypeOK
      <3>2. created[n] = [fields |-> mapping[n].delivery.fields,
                          task |-> mapping[n].task]
        BY DEF IngressInv, MappingAgrees
      <3>3. QED
        BY <3>1, <3>2, DeliveryParts, IngressAssumption DEF Creations
    <2>2. \A n \in Messages : mapping[n] # NULL => created'[n] = created[n]
      BY <1>1, <1>3, <2>1
    <2>3. QED
      BY <1>1, <2>2 DEF IngressInv, MappingAgrees
  <1>10. IngressInv'
    BY <1>1, <1>3, <1>4, <1>5, <1>7, <1>8, <1>9 DEF IngressInv, ObjectiveInv, TypeOK
  <1>11. QED
    BY <1>6, <1>10

LEMMA StepInv ==
  ASSUME IngressInv, [Next]_vars
  PROVE  IngressInv'
  <1>1. CASE OperatorStep
    <2>1. UNCHANGED ingressVars
      BY <1>1 DEF OperatorStep
    <2>2. ObjectiveInv' /\ \A t \in Tasks : task[t] # NULL => task'[t] = task[t]
      <3>1. CASE ObjectiveNext
        BY <3>1, ObjectiveStep, IngressIsObjective
      <3>2. CASE \E t \in OperatorTasks, f \in Fields : CreateTask(t, f)
        BY <3>2, CreateTaskStep, IngressIsObjective, IngressAssumption
      <3>3. QED
        BY <1>1, <3>1, <3>2 DEF OperatorStep
    <2>3. CreatedIsTask'
      <3>1. \A m \in Messages : created[m] # NULL => created[m].task \in Tasks
        BY CreationParts DEF IngressInv, TypeOK
      <3>2. QED
        BY <2>1, <2>2, <3>1 DEF ingressVars, IngressInv, CreatedIsTask
    <2>4. AdaptersAgree' /\ MappingAgrees'
      BY <2>1 DEF ingressVars, IngressInv, AdaptersAgree, MappingAgrees
    <2>5. QED
      BY <2>1, <2>2, <2>3, <2>4 DEF ingressVars, IngressInv, ObjectiveInv, TypeOK
  <1>2. ASSUME NEW p \in Processes, NEW d \in Deliveries, Receive(p, d)
        PROVE  IngressInv'
    <2>1. /\ UNCHANGED <<objectiveVars, created, mapping, told>>
          /\ told' \subseteq Messages \X Tasks
          /\ mapping' \in [Messages -> [delivery : Deliveries, task : Tasks] \cup {NULL}]
          /\ MappingAgrees'
      BY <1>2 DEF Receive, IngressInv, TypeOK, MappingAgrees
    <2>2. CASE Goes(p, "create", d, NULL)
      BY <2>1, <2>2, MovedInv
    <2>3. CASE /\ mapping[d.message] # NULL
               /\ mapping[d.message].delivery = d
               /\ Goes(p, "answer", d, mapping[d.message].task)
      <3>1. mapping[d.message].task \in Tasks
        BY <2>3, DeliveryParts DEF IngressInv, TypeOK
      <3>2. created[d.message] = [fields |-> d.fields, task |-> mapping[d.message].task]
        BY <2>3, DeliveryParts DEF IngressInv, MappingAgrees
      <3>3. QED
        BY <2>1, <2>3, <3>1, <3>2, MovedInv
    <2>4. QED
      BY <1>2, <2>2, <2>3 DEF Receive
  <1>3. ASSUME NEW p \in Processes, NEW t \in Tasks, MakeTask(p, t)
        PROVE  IngressInv'
    BY <1>3, MakeTaskInv
  <1>4. ASSUME NEW p \in Processes, FoundTask(p)
        PROVE  IngressInv'
    <2> DEFINE d == adapter[p].delivery
    <2>1. /\ d \in Deliveries
          /\ created[d.message] # NULL
          /\ created[d.message].fields = d.fields
          /\ Goes(p, "map", d, created[d.message].task)
          /\ UNCHANGED <<objectiveVars, created, mapping, told>>
          /\ told' \subseteq Messages \X Tasks
          /\ mapping' \in [Messages -> [delivery : Deliveries, task : Tasks] \cup {NULL}]
          /\ MappingAgrees'
      BY <1>4 DEF FoundTask, At, IngressInv, AdaptersAgree, MappingAgrees, TypeOK
    <2> HIDE DEF d
    <2>2. created[d.message] \in Creations
      BY <2>1, DeliveryParts DEF IngressInv, TypeOK
    <2>3. /\ created[d.message].task \in Tasks
          /\ created[d.message]
               = [fields |-> d.fields, task |-> created[d.message].task]
      BY <2>1, <2>2, CreationParts
    <2>4. QED
      BY <2>1, <2>3, MovedInv
  <1>5. ASSUME NEW p \in Processes, Raise(p)
        PROVE  IngressInv'
    <2>1. told' \subseteq Messages \X Tasks
      BY <1>5 DEF Raise, IngressInv, TypeOK
    <2>2. QED
      BY <1>5, <2>1, EndedInv DEF Raise
  <1>6. ASSUME NEW p \in Processes, RecordMapping(p)
        PROVE  IngressInv'
    <2> DEFINE d == adapter[p].delivery
               t == adapter[p].task
    <2>1. /\ d \in Deliveries /\ t \in Tasks
          /\ created[d.message] = [fields |-> d.fields, task |-> t]
          /\ Goes(p, "answer", d, t)
          /\ UNCHANGED <<objectiveVars, created, told>>
          /\ told' \subseteq Messages \X Tasks
          /\ mapping' = [mapping EXCEPT ![d.message] = [delivery |-> d, task |-> t]]
          /\ mapping \in [Messages -> [delivery : Deliveries, task : Tasks] \cup {NULL}]
      BY <1>6 DEF RecordMapping, Mapped, At, IngressInv, AdaptersAgree, TypeOK
    <2> HIDE DEF d, t
    <2>2. [delivery |-> d, task |-> t] \in [delivery : Deliveries, task : Tasks]
      BY <2>1
    <2>3. mapping' \in [Messages -> [delivery : Deliveries, task : Tasks] \cup {NULL}]
      BY <2>1, <2>2
    <2>4. MappingAgrees'
      <3>1. /\ mapping'[d.message] = [delivery |-> d, task |-> t]
            /\ \A m \in Messages : m # d.message => mapping'[m] = mapping[m]
        BY <2>1, DeliveryParts
      <3>2. QED
        BY <2>1, <3>1 DEF IngressInv, MappingAgrees
    <2>5. QED
      BY <2>1, <2>3, <2>4, MovedInv
  <1>7. ASSUME NEW p \in Processes, Answer(p)
        PROVE  IngressInv'
    <2>1. adapter[p].delivery.message \in Messages /\ adapter[p].task \in Tasks
      BY <1>7, DeliveryParts DEF Answer, At, IngressInv, AdaptersAgree
    <2>2. told' \subseteq Messages \X Tasks
      BY <1>7, <2>1 DEF Answer, IngressInv, TypeOK
    <2>3. QED
      BY <1>7, <2>2, EndedInv DEF Answer
  <1>8. CASE UNCHANGED vars
    BY <1>8
    DEF vars, objectiveVars, ingressVars, IngressInv, TypeOK, ObjectiveTypeOK,
        HistoryKept, PinsResolve, Digest, CreatedIsTask, AdaptersAgree, MappingAgrees
  <1>9. QED
    BY <1>1, <1>2, <1>3, <1>4, <1>5, <1>6, <1>7, <1>8
    DEF Next, ProcessStep, Create, Map, CreateRefused, MappingCollides, Crash

LEMMA InvHolds == Spec => []IngressInv
  BY InitInv, StepInv, PTL DEF Spec

\* The mapped task is the one made for the message, and as the mapping says.
LEMMA InvMapped == IngressInv => MappedAsCreated
  <1> SUFFICES ASSUME IngressInv, NEW m \in Messages, mapping[m] # NULL
               PROVE  LET t == mapping[m].task IN
                      /\ created[m] = [fields |-> mapping[m].delivery.fields, task |-> t]
                      /\ [objective |-> task[t].objective, body |-> task[t].body]
                            = created[m].fields
    BY DEF MappedAsCreated
  <1>1. /\ mapping[m].delivery \in Deliveries /\ mapping[m].task \in Tasks
        /\ created[m] = [fields |-> mapping[m].delivery.fields,
                         task |-> mapping[m].task]
    BY DEF IngressInv, TypeOK, MappingAgrees
  <1>2. created[m] # NULL
    BY <1>1, DeliveryParts, IngressAssumption DEF Creations
  <1>3. QED
    BY <1>1, <1>2 DEF IngressInv, CreatedIsTask

-----------------------------------------------------------------------------
(* Implementing Inbox.                                                     *)

LEMMA InboxInit == Init => AbstractInbox!Init
  BY DEF Init, AbstractInbox!Init

\* accepted of Inbox, as this module has it.
Made == [m \in Messages |-> IF created[m] = NULL THEN NULL ELSE created[m].task]

LEMMA InboxStep ==
  ASSUME IngressInv, IngressInv', [Next]_vars
  PROVE  [AbstractInbox!Next]_AbstractInbox!inboxVars
  <1>1. ASSUME UNCHANGED <<created, told>>
        PROVE  UNCHANGED AbstractInbox!inboxVars
    BY <1>1 DEF AbstractInbox!inboxVars
  <1>2. ASSUME NEW p \in Processes, NEW t \in Tasks, MakeTask(p, t)
        PROVE  AbstractInbox!Next
    <2> DEFINE m == adapter[p].delivery.message
    <2>1. /\ m \in Messages
          /\ created[m] = NULL
          /\ created \in [Messages -> Creations \cup {NULL}]
          /\ created' = [created EXCEPT ![m] = [fields |-> adapter[p].delivery.fields,
                                                task |-> t]]
          /\ UNCHANGED told
          /\ adapter[p].delivery.fields \in Fields
      BY <1>2, DeliveryParts DEF MakeTask, At, IngressInv, AdaptersAgree, TypeOK
    <2>2. \A n \in Messages : created[n] # NULL => created[n].task # t
      BY <1>2, MakeTaskInv
    <2> HIDE DEF m
    <2>3. [fields |-> adapter[p].delivery.fields, task |-> t] # NULL
      BY <2>1, IngressAssumption DEF Creations
    <2>4. Made' = [Made EXCEPT ![m] = t]
      BY <2>1, <2>3 DEF Made
    <2>5. Made[m] = NULL /\ \A n \in Messages : Made[n] # t
      BY <2>1, <2>2, IngressAssumption DEF Made
    <2>6. AbstractInbox!Accept(m, t)
      BY <2>1, <2>4, <2>5 DEF AbstractInbox!Accept, Made
    <2>7. QED
      BY <2>1, <2>6 DEF AbstractInbox!Next
  <1>3. ASSUME NEW p \in Processes, Answer(p)
        PROVE  AbstractInbox!Next
    <2> DEFINE m == adapter[p].delivery.message
    <2>1. /\ m \in Messages
          /\ adapter[p].task \in Tasks
          /\ created[m] = [fields |-> adapter[p].delivery.fields,
                           task |-> adapter[p].task]
          /\ adapter[p].delivery.fields \in Fields
          /\ told' = told \cup {<<m, adapter[p].task>>}
          /\ UNCHANGED created
      BY <1>3, DeliveryParts DEF Answer, At, IngressInv, AdaptersAgree
    <2> HIDE DEF m
    <2>2. created[m] # NULL
      BY <2>1, IngressAssumption DEF Creations
    <2>3. Made[m] = adapter[p].task /\ Made[m] # NULL
      BY <2>1, <2>2, IngressAssumption DEF Made
    <2>4. AbstractInbox!Tell(m)
      BY <2>1, <2>3 DEF AbstractInbox!Tell, Made
    <2>5. QED
      BY <2>1, <2>4 DEF AbstractInbox!Next
  <1>4. CASE OperatorStep
    BY <1>1, <1>4 DEF OperatorStep, ingressVars
  <1>5. ASSUME NEW p \in Processes,
               \/ \E d \in Deliveries : Receive(p, d)
               \/ FoundTask(p) \/ CreateRefused(p)
               \/ RecordMapping(p) \/ MappingCollides(p) \/ Crash(p)
        PROVE  UNCHANGED AbstractInbox!inboxVars
    BY <1>1, <1>5 DEF Receive, FoundTask, CreateRefused, RecordMapping,
                      MappingCollides, Crash, Raise
  <1>6. CASE UNCHANGED vars
    BY <1>1, <1>6 DEF vars, ingressVars
  <1>7. QED
    BY <1>2, <1>3, <1>4, <1>5, <1>6 DEF Next, ProcessStep, Create, Map

-----------------------------------------------------------------------------

\* What no step does to any row: objectives stand as above; a task keeps the
\* revision, digest and contents it was created with; what is on record under
\* a key of the store, and the mapping of a message, stay as they were written.
RowsStand ==
    /\ ObjectivesStand
    /\ \A t \in Tasks : task[t] # NULL => task'[t] = task[t]
    /\ \A m \in Messages :
          /\ created[m] # NULL => created'[m] = created[m]
          /\ mapping[m] # NULL => mapping'[m] = mapping[m]

LEMMA StepStands ==
  ASSUME IngressInv, [Next]_vars
  PROVE  RowsStand
  <1>1. ASSUME UNCHANGED <<objective, revisions>>
        PROVE  ObjectivesStand
    <2>1. \A o \in Objectives : objective[o].revision <= objective[o].revision
      BY ObjectiveParts DEF IngressInv, TypeOK
    <2>2. QED
      BY <1>1, <2>1 DEF ObjectivesStand
  <1>2. ASSUME UNCHANGED <<objectiveVars, created, mapping>>
        PROVE  RowsStand
    BY <1>1, <1>2 DEF objectiveVars, RowsStand
  <1>3. CASE OperatorStep
    <2>1. ObjectivesStand /\ \A t \in Tasks : task[t] # NULL => task'[t] = task[t]
      <3>1. CASE ObjectiveNext
        BY <3>1, ObjectiveStep, IngressIsObjective
      <3>2. ASSUME NEW t \in OperatorTasks, NEW f \in Fields, CreateTask(t, f)
            PROVE  ObjectivesStand /\ \A u \in Tasks : task[u] # NULL => task'[u] = task[u]
        BY <1>1, <3>2, CreateTaskStep, IngressIsObjective, IngressAssumption
        DEF CreateTask
      <3>3. QED
        BY <1>3, <3>1, <3>2 DEF OperatorStep
    <2>2. QED
      BY <1>3, <2>1 DEF OperatorStep, ingressVars, RowsStand
  <1>4. ASSUME NEW p \in Processes, NEW t \in Tasks, MakeTask(p, t)
        PROVE  RowsStand
    <2> DEFINE d == adapter[p].delivery
               rec == [fields |-> d.fields, task |-> t]
    <2>1. d \in Deliveries /\ d.fields \in Fields
      BY <1>4, DeliveryParts DEF MakeTask, At, IngressInv, AdaptersAgree
    <2>2. /\ created[d.message] = NULL
          /\ created' = [created EXCEPT ![d.message] = rec]
          /\ created \in [Messages -> Creations \cup {NULL}]
          /\ CreateTask(t, d.fields)
          /\ UNCHANGED <<objective, revisions, mapping>>
      BY <1>4 DEF MakeTask, CreateTask, IngressInv, TypeOK
    <2> HIDE DEF d, rec
    <2>3. \A u \in Tasks : task[u] # NULL => task'[u] = task[u]
      BY <2>1, <2>2, CreateTaskStep, IngressIsObjective
    <2>4. \A m \in Messages : created[m] # NULL => created'[m] = created[m]
      BY <2>2
    <2>5. QED
      BY <1>1, <2>2, <2>3, <2>4 DEF RowsStand
  <1>5. ASSUME NEW p \in Processes, RecordMapping(p)
        PROVE  RowsStand
    <2> DEFINE m == adapter[p].delivery.message
    <2>1. /\ mapping[m] \in {NULL, Mapped(p)}
          /\ mapping' = [mapping EXCEPT ![m] = Mapped(p)]
          /\ UNCHANGED <<objectiveVars, created>>
          /\ mapping \in [Messages -> [delivery : Deliveries, task : Tasks] \cup {NULL}]
      BY <1>5 DEF RecordMapping, IngressInv, TypeOK
    <2>2. \A n \in Messages : mapping[n] # NULL => mapping'[n] = mapping[n]
      BY <2>1
    <2>3. QED
      BY <1>1, <2>1, <2>2 DEF objectiveVars, RowsStand
  <1>6. ASSUME NEW p \in Processes,
               \/ \E d \in Deliveries : Receive(p, d)
               \/ FoundTask(p) \/ CreateRefused(p)
               \/ MappingCollides(p) \/ Answer(p) \/ Crash(p)
        PROVE  RowsStand
    BY <1>2, <1>6 DEF Receive, FoundTask, CreateRefused, MappingCollides, Answer,
                      Crash, Raise
  <1>7. CASE UNCHANGED vars
    BY <1>2, <1>7 DEF vars, ingressVars
  <1>8. QED
    BY <1>3, <1>4, <1>5, <1>6, <1>7 DEF Next, ProcessStep, Create, Map

\* Every reachable state has the types the tables declare.
THEOREM TypeCorrect == Spec => []TypeOK
  <1>1. IngressInv => TypeOK
    BY DEF IngressInv
  <1>2. QED
    BY <1>1, InvHolds, PTL

\* A task refers to a revision of its objective the history still holds,
\* whatever commands on objectives and tasks came since.
THEOREM PinsStayResolved == Spec => []PinsResolve
  <1>1. IngressInv => PinsResolve
    BY DEF IngressInv
  <1>2. QED
    BY <1>1, InvHolds, PTL

\* A mapping names the task made for its message, with the contents of the
\* delivery it vouches for.
THEOREM MappingsTrue == Spec => []MappedAsCreated
  BY InvMapped, InvHolds, PTL

\* No command on an objective, no task made, no delivery, redelivery or crash
\* rewrites what is on record: the revisions of an objective, the row of a
\* closed one, the pin of a task, the record of a creation, a mapping.
THEOREM RecordsStand == Spec => [][RowsStand]_vars
  <1>1. IngressInv /\ [Next]_vars => RowsStand
    BY StepStands
  <1>2. QED
    BY <1>1, InvHolds, PTL DEF Spec

\* Any number of processes ingesting any deliveries, and dying anywhere,
\* implement Inbox: one task for a message, and every answer names it.
THEOREM IngressImplementsInbox == Spec => ImplementsInbox
  <1>1. Init => AbstractInbox!Init
    BY InboxInit
  <1>2. IngressInv /\ IngressInv' /\ [Next]_vars
          => [AbstractInbox!Next]_AbstractInbox!inboxVars
    BY InboxStep
  <1>3. QED
    BY <1>1, <1>2, InvHolds, PTL DEF Spec, ImplementsInbox, AbstractInbox!Spec

=============================================================================
