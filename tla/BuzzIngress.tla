---------------------------- MODULE BuzzIngress ----------------------------
(***************************************************************************)
(* BuzzAdapter.ingest_task of src/src/city2core/adapters.py, over the      *)
(* objectives and tasks of Core.                                           *)
(*                                                                         *)
(* Ingesting a message is a read and two transactions: the read of its     *)
(* mapping, create_task under the key buzz:message:<id>, and the insertion *)
(* of the mapping under the key buzz:mapping:<id>.  A process may die      *)
(* between any two, the message may be delivered again, changed or not,    *)
(* and another process may be ingesting it too.  Messages that fail the    *)
(* owner, channel and A0 checks are refused before any of this.            *)
(***************************************************************************)
EXTENDS Objective

CONSTANTS
    Messages,     \* Buzz message ids
    Envelopes,    \* channel, thread and time of a delivery
    Processes,    \* processes with an adapter
    OperatorTasks \* bound: the ids operators use up, the others are left

VARIABLES
    created,    \* the record under buzz:message:<id>: fields and task, or NULL
    mapping,    \* the row of interface_messages, or NULL
    adapter,    \* the call each process is in
    told        \* the answers given: <<message, task>>

ingressVars == <<created, mapping, adapter, told>>
vars == <<objectiveVars, ingressVars>>

-----------------------------------------------------------------------------

\* message_profile: what a delivery must agree on with the one mapped.
Deliveries == [message : Messages, fields : Fields, envelope : Envelopes]

\* What the store keeps under the key of a message.
Creations == [fields : Fields, task : Tasks]

ASSUME IngressAssumption ==
    /\ OperatorTasks \subseteq Tasks
    /\ NULL \notin Tasks \cup Creations

Idle == [step |-> "idle", delivery |-> NULL, task |-> NULL]

Adapters ==
    [step : {"idle", "create", "map", "answer"},
     delivery : Deliveries \cup {NULL}, task : Tasks \cup {NULL}]

At(p, step) == adapter[p].step = step

Goes(p, step, d, t) ==
    adapter' = [adapter EXCEPT ![p] =
                  [step |-> step, delivery |-> d, task |-> t]]

Raise(p) ==
    /\ adapter' = [adapter EXCEPT ![p] = Idle]
    /\ UNCHANGED <<objectiveVars, created, mapping, told>>

Init ==
    /\ ObjectiveInit
    /\ created = [m \in Messages |-> NULL]
    /\ mapping = [m \in Messages |-> NULL]
    /\ adapter = [p \in Processes |-> Idle]
    /\ told = {}

-----------------------------------------------------------------------------

\* The read of the mapping, outside any transaction.  A delivery that differs
\* from the one mapped raises, and changes nothing.
Receive(p, d) ==
    LET prior == mapping[d.message] IN
    /\ At(p, "idle")
    /\ \/ prior = NULL /\ Goes(p, "create", d, NULL)
       \/ /\ prior # NULL
          /\ prior.delivery = d
          /\ Goes(p, "answer", d, prior.task)
    /\ UNCHANGED <<objectiveVars, created, mapping, told>>

MakeTask_Unrecorded(p, t) ==
    LET d == adapter[p].delivery IN
    /\ At(p, "create")
    /\ created[d.message] = NULL
    /\ t \notin OperatorTasks
    /\ CreateTask(t, d.fields)
    /\ Goes(p, "map", d, t)
    /\ UNCHANGED <<created, mapping, told>>

\* create_task under the key of the message: a new task, pinned now.
MakeTask(p, t) ==
    LET d == adapter[p].delivery IN
    /\ At(p, "create")
    /\ created[d.message] = NULL
    /\ t \notin OperatorTasks
    /\ CreateTask(t, d.fields)
    /\ created' = [created EXCEPT ![d.message] = [fields |-> d.fields, task |-> t]]
    /\ Goes(p, "map", d, t)
    /\ UNCHANGED <<mapping, told>>

FoundTask_AnyFields(p) ==
    LET d == adapter[p].delivery IN
    /\ At(p, "create")
    /\ created[d.message] # NULL
    /\ Goes(p, "map", d, created[d.message].task)
    /\ UNCHANGED <<objectiveVars, created, mapping, told>>

FoundTask_OnlyOpen(p) ==
    LET d == adapter[p].delivery IN
    /\ At(p, "create")
    /\ created[d.message] # NULL
    /\ created[d.message].fields = d.fields
    /\ Open(d.fields.objective)
    /\ Goes(p, "map", d, created[d.message].task)
    /\ UNCHANGED <<objectiveVars, created, mapping, told>>

\* The key was used for the same fields: the store answers with its record
\* before it looks at the objective, which may be closed by now.
FoundTask(p) ==
    LET d == adapter[p].delivery IN
    /\ At(p, "create")
    /\ created[d.message] # NULL
    /\ created[d.message].fields = d.fields
    /\ Goes(p, "map", d, created[d.message].task)
    /\ UNCHANGED <<objectiveVars, created, mapping, told>>

\* The objective is closed, or the key was used for other fields.
CreateRefused(p) ==
    LET d == adapter[p].delivery IN
    /\ At(p, "create")
    /\ \/ created[d.message] = NULL /\ ~Open(d.fields.objective)
       \/ created[d.message] # NULL /\ created[d.message].fields # d.fields
    /\ Raise(p)

Mapped(p) == [delivery |-> adapter[p].delivery, task |-> adapter[p].task]

\* record_mapping, or the record of the same command under its key.
RecordMapping(p) ==
    LET m == adapter[p].delivery.message IN
    /\ At(p, "map")
    /\ mapping[m] \in {NULL, Mapped(p)}
    /\ mapping' = [mapping EXCEPT ![m] = Mapped(p)]
    /\ Goes(p, "answer", adapter[p].delivery, adapter[p].task)
    /\ UNCHANGED <<objectiveVars, created, told>>

\* Another process mapped another delivery of the message meanwhile.
MappingCollides(p) ==
    /\ At(p, "map")
    /\ mapping[adapter[p].delivery.message] \notin {NULL, Mapped(p)}
    /\ Raise(p)

Answer(p) ==
    /\ At(p, "answer")
    /\ told' = told \cup {<<adapter[p].delivery.message, adapter[p].task>>}
    /\ adapter' = [adapter EXCEPT ![p] = Idle]
    /\ UNCHANGED <<objectiveVars, created, mapping>>

Crash(p) ==
    /\ ~At(p, "idle")
    /\ Raise(p)

\* Operators create tasks and move objectives with keys of their own.
OperatorStep ==
    /\ \/ ObjectiveNext
       \/ \E t \in OperatorTasks, f \in Fields : CreateTask(t, f)
    /\ UNCHANGED ingressVars

Create(p) == FoundTask(p) \/ CreateRefused(p) \/ \E t \in Tasks : MakeTask(p, t)

Map(p) == RecordMapping(p) \/ MappingCollides(p)

ProcessStep(p) == Create(p) \/ Map(p) \/ Answer(p)

Next ==
    \/ OperatorStep
    \/ \E p \in Processes :
          \/ ProcessStep(p)
          \/ Crash(p)
          \/ \E d \in Deliveries : Receive(p, d)

Spec == Init /\ [][Next]_vars

\* The message a task was made for is delivered to p again, and p gets on
\* with it.
Redeliver(p, m, e) ==
    /\ created[m] # NULL
    /\ Receive(p, [message |-> m, fields |-> created[m].fields, envelope |-> e])

Refind(p, m) == At(p, "create") /\ adapter[p].delivery.message = m /\ FoundTask(p)

Remap(p, m) == At(p, "map") /\ adapter[p].delivery.message = m /\ RecordMapping(p)

\* Senders deliver a message until it is answered, and a process does not die
\* in the middle of every attempt.
FairSpec ==
    /\ Spec
    /\ \A p \in Processes : WF_vars(ProcessStep(p))
    /\ \A p \in Processes, m \in Messages :
          /\ SF_vars(\E e \in Envelopes : Redeliver(p, m, e))
          /\ SF_vars(Refind(p, m))
          /\ SF_vars(Remap(p, m))

-----------------------------------------------------------------------------
(* Properties.                                                             *)

TypeOK ==
    /\ ObjectiveTypeOK
    /\ created \in [Messages -> Creations \cup {NULL}]
    /\ mapping \in [Messages -> [delivery : Deliveries, task : Tasks] \cup {NULL}]
    /\ adapter \in [Processes -> Adapters]
    /\ told \subseteq Messages \X Tasks

\* The mapping of a message, written by whichever process came last, leads to
\* the one task made for it, made from the fields the mapping vouches for.
MappedAsCreated ==
    \A m \in Messages :
        mapping[m] # NULL =>
            LET t == mapping[m].task IN
            /\ created[m] = [fields |-> mapping[m].delivery.fields, task |-> t]
            /\ [objective |-> task[t].objective, body |-> task[t].body]
                  = created[m].fields

\* ingest_task, with its crashes, redeliveries and races, does what Inbox
\* says: one task for a message, and every answer names it.
AbstractInbox ==
    INSTANCE Inbox WITH
        accepted <- [m \in Messages |->
                       IF created[m] = NULL THEN NULL ELSE created[m].task]

ImplementsInbox == AbstractInbox!Spec

\* A task whose process died before the mapping was written is mapped by a
\* later delivery of its message, even when its objective closed in between.
CreatedIsMapped ==
    \A m \in Messages : created[m] # NULL ~> mapping[m] # NULL

=============================================================================
