---------------------------- MODULE TaskLifecycle ----------------------------
(***************************************************************************)
(* The task, run and action rows of City2 Core and the commands of         *)
(* src/src/city2core/core.py that write them.                              *)
(*                                                                         *)
(* Every public method of Core is one Store.command transaction, so each   *)
(* is one action here: its guard is the conjunction of the checks the      *)
(* method makes before its first write, and a call that fails a check      *)
(* raises, rolls back and is no step.  The transaction machinery itself    *)
(* (versions, deduplication, the event log, crashes) is module EventStore. *)
(* A command names the aggregate version it read; a stale one raises, so   *)
(* the steps here are those of callers whose read was current.             *)
(***************************************************************************)
EXTENDS Naturals

CONSTANTS
    Tasks,          \* task ids
    Actions,        \* operation_idempotency_key values; each names one action
    NULL,           \* SQL NULL
    MaxAttempts,    \* bound: the largest max_attempts a task revision carries
    MaxRevision,    \* bound: reviewers request changes MaxRevision - 1 times
    MaxTime,        \* bound: the clock stops here
    SuppliedTimes   \* values callers pass as expire_lease(now=...)

Attempts  == 1 .. MaxAttempts
Revisions == 1 .. MaxRevision
Times     == 0 .. MaxTime

(***************************************************************************)
(* new_id and token_urlsafe give each lease a run id and a fencing token   *)
(* never used before; both are written as the pair (task, attempt) of the  *)
(* lease they were made for.                                               *)
(***************************************************************************)
RunIds == Tasks \X Attempts
Tokens == RunIds

ASSUME BoundsAssumption ==
    /\ MaxAttempts \in Nat \ {0}
    /\ MaxRevision \in Nat \ {0}
    /\ MaxTime \in Nat
    /\ SuppliedTimes \subseteq Nat

ASSUME NullAssumption ==
    /\ NULL \notin RunIds
    /\ NULL \notin Tasks
    /\ NULL \notin Nat

VARIABLES
    task,       \* the tasks table
    run,        \* the runs table
    action,     \* the actions table
    now         \* utc_now()

vars == <<task, run, action, now>>

-----------------------------------------------------------------------------
(* Row types.  State and status "none" stand for a row not inserted yet.   *)

TaskTerminal == {"accepted", "rejected", "cancelled", "failed_terminal"}

Leased == {"leased", "running"}

TaskStates ==
    {"none", "proposed", "awaiting_approval", "ready", "leased", "running",
     "review", "changes_requested", "accepted", "rejected",
     "cancellation_requested", "cancelled", "expired",
     "needs_reconciliation", "failed_terminal"}

RunStatuses ==
    {"none", "leased", "running", "review", "completed", "failed", "expired",
     "cancelled", "completed_after_cancel"}

ActionStates ==
    {"none", "prepared", "dispatched", "confirmed", "unknown", "failed",
     "compensated"}

Uncertain  == {"dispatched", "unknown"}
Unresolved == Uncertain \cup {"prepared"}

\* task_sha256 is either the digest of the task revision (NULL here) or that
\* of the envelope of the run it names.
TaskRows ==
    [state : TaskStates, revision : Revisions, attempts : 0 .. MaxAttempts,
     max : Attempts, current : RunIds \cup {NULL}, fence : Tokens \cup {NULL},
     expires : Times \cup {NULL}, sha : RunIds \cup {NULL}]

RunRows == [status : RunStatuses, revision : Revisions]

\* rowProof: the provider_operation_id and evidence columns are not NULL;
\* recordProof: record_json carries them.
ActionRows ==
    [state : ActionStates, task : Tasks \cup {NULL}, run : RunIds \cup {NULL},
     rowProof : BOOLEAN, recordProof : BOOLEAN]

NoTask ==
    [state |-> "none", revision |-> 1, attempts |-> 0, max |-> 1,
     current |-> NULL, fence |-> NULL, expires |-> NULL, sha |-> NULL]

NoAction ==
    [state |-> "none", task |-> NULL, run |-> NULL,
     rowProof |-> FALSE, recordProof |-> FALSE]

Init ==
    /\ task = [t \in Tasks |-> NoTask]
    /\ run = [r \in RunIds |-> [status |-> "none", revision |-> 1]]
    /\ action = [a \in Actions |-> NoAction]
    /\ now = 0

-----------------------------------------------------------------------------
(* The queries the commands make.                                          *)

RunsOf(t) == {n \in Attempts : run[<<t, n>>].status # "none"}

\* ORDER BY attempt_number DESC LIMIT 1
IsLatestRun(t, n) == n \in RunsOf(t) /\ \A m \in RunsOf(t) : m <= n

LatestRunCompleted(t) ==
    \E n \in Attempts : IsLatestRun(t, n) /\ run[<<t, n>>].status = "completed"

TaskHasAction(t, states) ==
    \E a \in Actions : action[a].task = t /\ action[a].state \in states

RunHasAction(r, states) ==
    \E a \in Actions : action[a].run = r /\ action[a].state \in states

\* _require_current_lease
CurrentLease(t, r, tok) ==
    /\ task[t].current = r
    /\ task[t].fence = tok
    /\ task[t].expires # NULL
    /\ task[t].expires > now

-----------------------------------------------------------------------------
(* What the commands write.  Released (clear_lease) also drops the current *)
(* run; Fenced (clear_fence) keeps it.                                     *)
(*                                                                         *)
(* An operator X_Y is X with the mistake Y in it; no action uses it.       *)
(* PROJECT.json says which property must catch it when it stands in for X. *)

Proposed(ceiling) ==
    [NoTask EXCEPT !.state = "proposed", !.max = ceiling]

LeasedAs(row, r, expiry) ==
    [row EXCEPT !.state = "leased", !.attempts = r[2], !.sha = r,
                !.current = r, !.fence = r, !.expires = expiry]

Revised(row, ceiling) ==
    [row EXCEPT !.state = "ready", !.revision = row.revision + 1,
                !.max = ceiling, !.sha = NULL]

Moved(row, s) == [row EXCEPT !.state = s]

Fenced_KeepsExpiry(row, s) ==
    [row EXCEPT !.state = s, !.fence = NULL]

Fenced(row, s) ==
    [row EXCEPT !.state = s, !.fence = NULL, !.expires = NULL]

Released(row, s) ==
    [row EXCEPT !.state = s, !.current = NULL, !.fence = NULL,
                !.expires = NULL]

\* run_status of _transition_in_tx: the current run of t, unless its late
\* result was quarantined.
SettleCurrentRun(t, status) ==
    run' = [r \in RunIds |->
              IF r = task[t].current /\ run[r].status # "completed_after_cancel"
              THEN [run[r] EXCEPT !.status = status]
              ELSE run[r]]

-----------------------------------------------------------------------------
(* Planning: from a proposal to a ready task.                              *)

CreateTask(t, ceiling) ==
    /\ task[t].state = "none"
    /\ task' = [task EXCEPT ![t] = Proposed(ceiling)]
    /\ UNCHANGED <<run, action, now>>

SetTaskReady(t) ==
    /\ task[t].state \in {"proposed", "awaiting_approval", "expired"}
    /\ task' = [task EXCEPT ![t] = Moved(@, "ready")]
    /\ UNCHANGED <<run, action, now>>

RequestTaskApproval(t) ==
    /\ task[t].state = "proposed"
    /\ task' = [task EXCEPT ![t] = Moved(@, "awaiting_approval")]
    /\ UNCHANGED <<run, action, now>>

-----------------------------------------------------------------------------
(* Leases and runs.                                                        *)

MayLease_OneOver(t) ==
    /\ task[t].state \in {"ready", "expired"}
    /\ task[t].attempts <= task[t].max

MayLease(t) ==
    /\ task[t].state \in {"ready", "expired"}
    /\ task[t].attempts + 1 <= task[t].max

LeaseTask(t, expiry) ==
    LET r == <<t, task[t].attempts + 1>>
    IN  /\ expiry > now
        /\ MayLease(t)
        /\ run' = [run EXCEPT ![r] =
                     [status |-> "leased", revision |-> task[t].revision]]
        /\ task' = [task EXCEPT ![t] = LeasedAs(@, r, expiry)]
        /\ UNCHANGED <<action, now>>

StartRun(t, r, tok) ==
    /\ CurrentLease(t, r, tok)
    /\ task[t].state = "leased"
    /\ task' = [task EXCEPT ![t] = Moved(@, "running")]
    /\ SettleCurrentRun(t, "running")
    /\ UNCHANGED <<action, now>>

\* The checks every result passes.  The lease's expiry is not among them: a
\* late result counts until expire_lease has run.
ResultAdmissible_AnyOwnRun(t, r, tok) ==
    /\ run[r].status # "none"
    /\ r[1] = t
    /\ tok = r

ResultAdmissible(t, r, tok) ==
    /\ run[r].status # "none"
    /\ r[1] = t
    /\ tok = r
    /\ task[t].current = r

NextStateAfterResult_LastAttempt(t, r, outcome) ==
    IF RunHasAction(r, Uncertain) THEN "needs_reconciliation"
    ELSE IF outcome = "completed" \/ task[t].attempts = task[t].max
         THEN "review"
    ELSE "ready"

NextStateAfterResult(t, r, outcome) ==
    IF RunHasAction(r, Uncertain) THEN "needs_reconciliation"
    ELSE IF outcome = "completed" THEN "review"
    ELSE IF task[t].attempts < task[t].max THEN "ready"
    ELSE "failed_terminal"

RecordResult(t, r, tok, outcome) ==
    /\ ResultAdmissible(t, r, tok)
    /\ task[t].state = "running"
    /\ run' = [run EXCEPT ![r].status = outcome]
    /\ task' = [task EXCEPT ![t] =
                  Released(@, NextStateAfterResult(t, r, outcome))]
    /\ UNCHANGED <<action, now>>

QuarantineResult(t, r, tok) ==
    /\ ResultAdmissible(t, r, tok)
    /\ task[t].state = "cancellation_requested"
    /\ run' = [run EXCEPT ![r].status = "completed_after_cancel"]
    /\ UNCHANGED <<task, action, now>>

SubmitResult(t, r, tok, outcome) ==
    \/ RecordResult(t, r, tok, outcome)
    \/ QuarantineResult(t, r, tok)

\* asOf is the caller's now argument, or the clock when there is none.
ExpireLease(t, replaySafe, asOf) ==
    LET next == IF TaskHasAction(t, Uncertain) \/ ~replaySafe
                THEN "needs_reconciliation"
                ELSE IF task[t].attempts >= task[t].max
                     THEN "failed_terminal"
                     ELSE "ready"
    IN  /\ task[t].state \in Leased
        /\ task[t].expires # NULL
        /\ task[t].expires <= asOf
        /\ task' = [task EXCEPT ![t] = Released(@, next)]
        /\ SettleCurrentRun(t, "expired")
        /\ UNCHANGED <<action, now>>

-----------------------------------------------------------------------------
(* Cancellation.                                                           *)

RequestCancellation(t) ==
    /\ \/ /\ task[t].state \in
                {"proposed", "awaiting_approval", "ready", "expired"}
          /\ task' = [task EXCEPT ![t] = Released(@, "cancelled")]
       \/ /\ task[t].state \in Leased
          /\ task' = [task EXCEPT ![t] = Fenced(@, "cancellation_requested")]
    /\ UNCHANGED <<run, action, now>>

ConfirmCancellation(t) ==
    /\ task[t].state = "cancellation_requested"
    /\ ~TaskHasAction(t, Unresolved)
    /\ task' = [task EXCEPT ![t] = Released(@, "cancelled")]
    /\ SettleCurrentRun(t, "cancelled")
    /\ UNCHANGED <<action, now>>

-----------------------------------------------------------------------------
(* Review, revision and reconciliation.  The unresolved findings a review  *)
(* must disposition are module Review's business.                          *)

ReviewTask(t, decision) ==
    /\ task[t].state = "review"
    /\ decision = "changes_requested" => task[t].revision < MaxRevision
    /\ task' = [task EXCEPT ![t] = Moved(@, decision)]
    /\ UNCHANGED <<run, action, now>>

ReviseTask(t, ceiling) ==
    /\ task[t].state = "changes_requested"
    /\ RunsOf(t) # {}
    /\ task[t].revision < MaxRevision
    /\ task' = [task EXCEPT ![t] = Revised(@, ceiling)]
    /\ UNCHANGED <<run, action, now>>

ResumeAfterReconciliation(t) ==
    /\ task[t].state = "needs_reconciliation"
    /\ ~TaskHasAction(t, Unresolved)
    /\ task' = [task EXCEPT ![t] =
                  IF LatestRunCompleted(t) THEN Moved(@, "review")
                                           ELSE Released(@, "ready")]
    /\ UNCHANGED <<run, action, now>>

-----------------------------------------------------------------------------
(* The action outbox.                                                      *)

PrepareAction(a, t, r, tok) ==
    /\ CurrentLease(t, r, tok)
    /\ task[t].state = "running"
    /\ action[a].state = "none"
    /\ action' = [action EXCEPT ![a] =
                    [NoAction EXCEPT !.state = "prepared", !.task = t,
                                     !.run = r]]
    /\ UNCHANGED <<task, run, now>>

\* _action_transition: the record keeps the proof it already had, the row's
\* columns are overwritten with what this command's details carry.
ActionMoved(row, s, proof) ==
    [row EXCEPT !.state = s, !.rowProof = proof, !.recordProof = @ \/ proof]

DispatchFrom_Retry == {"prepared", "unknown"}

DispatchFrom == {"prepared"}

\* No task, lease or token is looked at.
BeginActionDispatch(a) ==
    /\ action[a].state \in DispatchFrom
    /\ action' = [action EXCEPT ![a] = ActionMoved(@, "dispatched", FALSE)]
    /\ UNCHANGED <<task, run, now>>

OutcomeFrom_DispatchedOnly(outcome) ==
    CASE outcome \in {"confirmed", "failed"} -> Uncertain
      [] outcome = "unknown"     -> {"dispatched"}
      [] outcome = "compensated" -> {"confirmed"}

OutcomeFrom(outcome) ==
    CASE outcome = "confirmed"   -> Uncertain
      [] outcome = "failed"      -> Unresolved
      [] outcome = "unknown"     -> {"dispatched"}
      [] outcome = "compensated" -> {"confirmed"}

\* escalate: the event and the row update an unknown outcome adds.
Escalated_LiveOnly(row) ==
    IF row.state \in Leased THEN Fenced(row, "needs_reconciliation") ELSE row

Escalated_Always(row) ==
    IF row.state = "needs_reconciliation"
    THEN row
    ELSE Fenced(row, "needs_reconciliation")

Escalated(row) ==
    IF row.state \in TaskTerminal \cup {"needs_reconciliation"}
    THEN row
    ELSE Fenced(row, "needs_reconciliation")

ReconcileAction(a, outcome, proof) ==
    /\ outcome = "confirmed" => proof
    /\ action[a].state \in OutcomeFrom(outcome)
    /\ action' = [action EXCEPT ![a] = ActionMoved(@, outcome, proof)]
    /\ task' = IF outcome = "unknown"
               THEN [task EXCEPT ![action[a].task] = Escalated(@)]
               ELSE task
    /\ UNCHANGED <<run, now>>

-----------------------------------------------------------------------------

Tick ==
    /\ now < MaxTime
    /\ now' = now + 1
    /\ UNCHANGED <<task, run, action>>

\* Nothing is left to do: every task is closed and every action settled.
Closed ==
    /\ \A t \in Tasks : task[t].state \in TaskTerminal
    /\ \A a \in Actions : action[a].state \notin Unresolved
    /\ UNCHANGED vars

Plan(t) ==
    \/ \E ceiling \in Attempts : CreateTask(t, ceiling)
    \/ SetTaskReady(t)
    \/ RequestTaskApproval(t)

Work(t) ==
    \/ \E expiry \in Times : LeaseTask(t, expiry)
    \/ \E r \in RunIds, tok \in Tokens :
          \/ StartRun(t, r, tok)
          \/ \E outcome \in {"completed", "failed"} :
                SubmitResult(t, r, tok, outcome)
          \/ \E a \in Actions : PrepareAction(a, t, r, tok)

Operate(t) ==
    \/ \E safe \in BOOLEAN, asOf \in {now} \cup SuppliedTimes :
          ExpireLease(t, safe, asOf)
    \/ RequestCancellation(t)
    \/ ConfirmCancellation(t)
    \/ ResumeAfterReconciliation(t)

Check(t) ==
    \/ \E d \in {"accepted", "rejected", "changes_requested"} : ReviewTask(t, d)
    \/ \E ceiling \in Attempts : ReviseTask(t, ceiling)

Deliver(a) ==
    \/ BeginActionDispatch(a)
    \/ \E outcome \in {"confirmed", "failed", "unknown", "compensated"},
          proof \in BOOLEAN : ReconcileAction(a, outcome, proof)

Next ==
    \/ \E t \in Tasks : Plan(t) \/ Work(t) \/ Operate(t) \/ Check(t)
    \/ \E a \in Actions : Deliver(a)
    \/ Tick
    \/ Closed

Spec == Init /\ [][Next]_vars

(***************************************************************************)
(* Core has no scheduler: whoever calls it decides what happens.  FairSpec *)
(* is the least that must be assumed of people for work to end.  Workers   *)
(* may stop anywhere, and no one need ever lease, start, report, dispatch  *)
(* or confirm; but time passes, and an operator who can expire a lease,    *)
(* settle an action as failed, resume, cancel, confirm a cancellation,     *)
(* accept or revise eventually does.                                       *)
(***************************************************************************)
Attended(t) ==
    /\ WF_vars(ExpireLease(t, FALSE, now))
    /\ WF_vars(ResumeAfterReconciliation(t))
    /\ WF_vars(RequestCancellation(t))
    /\ WF_vars(ConfirmCancellation(t))
    /\ WF_vars(ReviewTask(t, "accepted"))
    /\ WF_vars(\E ceiling \in Attempts : ReviseTask(t, ceiling))

FairSpec ==
    /\ Spec
    /\ WF_vars(Tick)
    /\ \A t \in Tasks : Attended(t)
    /\ \A a \in Actions : WF_vars(ReconcileAction(a, "failed", FALSE))

-----------------------------------------------------------------------------
(* Properties.                                                             *)

TypeOK ==
    /\ task \in [Tasks -> TaskRows]
    /\ run \in [RunIds -> RunRows]
    /\ action \in [Actions -> ActionRows]
    /\ now \in Times

IsLatestRunOfRevision(t, n) ==
    /\ n \in RunsOf(t)
    /\ run[<<t, n>>].revision = task[t].revision
    /\ \A m \in RunsOf(t) :
          run[<<t, m>>].revision = task[t].revision => m <= n

\* What verify_integrity demands of the task rows each time the database is
\* opened: the attempts counted are the runs there are; task_sha256 is the
\* envelope of the revision's latest run; a leased or running task carries
\* exactly that run and its token, any other no lease at all.  Were a command
\* to leave a row that fails this, Core could not be started again.
TaskRowsVerify ==
    \A t \in Tasks :
      /\ RunsOf(t) = 1 .. task[t].attempts
      /\ \A n \in Attempts :
            IsLatestRunOfRevision(t, n) <=> task[t].sha = <<t, n>>
      /\ task[t].state \in Leased =>
            /\ task[t].sha # NULL
            /\ task[t].current = task[t].sha
            /\ task[t].fence = task[t].sha
            /\ task[t].expires # NULL
      /\ task[t].state \notin Leased =>
            task[t].fence = NULL /\ task[t].expires = NULL

Reviewed == {"review", "changes_requested", "accepted", "rejected"}

NewestCompleted(t) ==
    task[t].state \in Reviewed =>
      /\ task[t].attempts \in Attempts
      /\ run[<<t, task[t].attempts>>].status = "completed"

\* The verdicts of a review, and the state that asks for one, rest on work
\* that came in under its lease: the newest run completed.  No order of late
\* results, expiries, cancellations and reconciliations gets an unfinished or
\* a quarantined run reviewed.
ReviewedWorkCompleted ==
    \A t \in Tasks : NewestCompleted(t)

\* A task that may go on has no action whose outcome is unknown: such an
\* action keeps its task in needs_reconciliation, or the task is closed.
UnknownHoldsTask ==
    \A a \in Actions :
      action[a].state = "unknown" =>
        task[action[a].task].state \in TaskTerminal \cup {"needs_reconciliation"}

\* Nobody works on an attempt beyond the ceiling of the revision in force,
\* though a revision may lower the ceiling below the attempts already made.
LiveAttemptWithinCeiling ==
    \A t \in Tasks :
      task[t].state \in Leased => task[t].attempts <= task[t].max

\* Closed tasks stay as they are, whatever late results, expiries and action
\* outcomes still arrive for them.
TerminalTasksFinal ==
    [][\A t \in Tasks :
         task[t].state \in TaskTerminal => task'[t] = task[t]]_vars

SettledRun ==
    {"completed", "failed", "expired", "cancelled", "completed_after_cancel"}

\* A run's status changes only while the run is its task's newest attempt and
\* the one the task names, and never after the run has settled: a worker whose
\* lease was lost, superseded or cancelled can no longer alter that of its own
\* run or of another's.
SupersededRunsInert ==
    [][\A r \in RunIds :
         (run[r].status # "none" /\ run'[r] # run[r]) =>
            /\ run[r].status \notin SettledRun
            /\ task[r[1]].current = r
            /\ task[r[1]].attempts = r[2]]_vars

\* To its workers a task is a lease, and Core keeps the promises Lease makes,
\* whatever operators, reviewers, the outbox and the clock do to the task in
\* the meantime: no attempt is granted while one holds the task, only the
\* holder's run changes its status, and it changes no more once it has ended.
AbstractLease ==
    INSTANCE Lease WITH
        granted <- [t \in Tasks |-> task[t].attempts],
        holder <- [t \in Tasks |-> task[t].current],
        record <- [r \in RunIds |-> run[r].status]

ImplementsLease == AbstractLease!Spec

ActionRank(s) ==
    CASE s = "none" -> 0
      [] s = "prepared" -> 1
      [] s = "dispatched" -> 2
      [] s = "unknown" -> 3
      [] s = "confirmed" -> 4
      [] s \in {"failed", "compensated"} -> 5

\* A side effect is handed to its provider at most once: an action only ever
\* moves forward, so one that was dispatched, in doubt or settled is never
\* prepared or dispatched again, under its own task or another.
OutboxForward ==
    [][\A a \in Actions :
         action'[a] # action[a] =>
           /\ ActionRank(action'[a].state) > ActionRank(action[a].state)
           /\ action[a].state # "none" => action'[a].run = action[a].run]_vars

\* Whatever a worker leaves behind when it stops - a lease, a started run, a
\* prepared or dispatched action, a result no one reviewed - the commands of
\* an operator are enough to close the task: no state is a dead end.
NoStrandedTask ==
    \A t \in Tasks :
      task[t].state # "none" ~> task[t].state \in TaskTerminal

-----------------------------------------------------------------------------
(***************************************************************************)
(* The strengthening that makes the invariants above inductive.            *)
(***************************************************************************)

\* Attempts are counted without gaps, and every run was made for a revision
\* the task has had.
RunsCounted(t) ==
    /\ task[t].state = "none" => task[t].attempts = 0
    /\ \A n \in Attempts :
          /\ run[<<t, n>>].status # "none" <=> n <= task[t].attempts
          /\ run[<<t, n>>].status # "none" =>
                run[<<t, n>>].revision <= task[t].revision

\* The run a task names is its newest and has not settled, except for a late
\* result quarantined while the task was being cancelled; and no task at rest
\* names one.
CurrentIsNewest(t) ==
    task[t].current # NULL =>
      /\ task[t].attempts \in Attempts
      /\ task[t].current = <<t, task[t].attempts>>
      /\ run[<<t, task[t].attempts>>].status \in
            {"leased", "running", "completed_after_cancel"}
      /\ task[t].state \in
            Leased \cup {"cancellation_requested", "needs_reconciliation"}
      /\ task[t].state \in Leased =>
            run[<<t, task[t].attempts>>].status = task[t].state

\* task_sha256 names the newest run exactly when that run is of the revision
\* in force.
EnvelopeIsNewest(t) ==
    \/ /\ task[t].sha = NULL
       /\ \A n \in RunsOf(t) : run[<<t, n>>].revision < task[t].revision
    \/ /\ task[t].attempts \in Attempts
       /\ task[t].sha = <<t, task[t].attempts>>
       /\ run[<<t, task[t].attempts>>].revision = task[t].revision

LeaseComplete(t) ==
    /\ task[t].state \in Leased =>
          /\ task[t].attempts <= task[t].max
          /\ task[t].sha # NULL
          /\ task[t].current = task[t].sha
          /\ task[t].fence = task[t].sha
          /\ task[t].expires # NULL
    /\ task[t].state \notin Leased =>
          task[t].fence = NULL /\ task[t].expires = NULL

RowCoherent(t) ==
    /\ RunsCounted(t)
    /\ CurrentIsNewest(t)
    /\ EnvelopeIsNewest(t)
    /\ LeaseComplete(t)
    /\ NewestCompleted(t)

\* Action rows are inserted with the task and run they belong to.
ActionsOwned ==
    \A a \in Actions :
      action[a].state # "none" =>
        /\ action[a].task \in Tasks
        /\ action[a].run \in RunIds

LifecycleInv ==
    /\ TypeOK
    /\ \A t \in Tasks : RowCoherent(t)
    /\ ActionsOwned
    /\ UnknownHoldsTask

-----------------------------------------------------------------------------
(* What the documents say and the code does not do.                        *)

\* verify_integrity on the actions table: the row's provider columns are those
\* of the record.  A compensated action breaks it, and the database no longer
\* opens.
ActionRowsVerify ==
    \A a \in Actions : action[a].rowProof = action[a].recordProof

=============================================================================
