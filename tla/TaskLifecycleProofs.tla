------------------------- MODULE TaskLifecycleProofs -------------------------
(***************************************************************************)
(* Theorems about TaskLifecycle, for every set of tasks and actions and    *)
(* every value of the bounds.                                              *)
(***************************************************************************)
EXTENDS TaskLifecycle, TLAPS

USE BoundsAssumption

-----------------------------------------------------------------------------
(* The row operators keep the row types.                                   *)

\* A task row that changes its state, loses its lease or its current run is
\* still a task row.
LEMMA TaskRowTypes ==
  ASSUME NEW row \in TaskRows, NEW s \in TaskStates
  PROVE  /\ Moved(row, s) \in TaskRows
         /\ Fenced(row, s) \in TaskRows
         /\ Released(row, s) \in TaskRows
  BY DEF TaskRows, Moved, Fenced, Released

\* The row a new task is inserted with is a task row.
LEMMA ProposedType ==
  ASSUME NEW ceiling \in Attempts
  PROVE  Proposed(ceiling) \in TaskRows
  <1>1. NoTask \in TaskRows
    BY DEF NoTask, TaskRows, TaskStates, Revisions, Attempts
  <1>2. QED
    BY <1>1 DEF Proposed, TaskRows, TaskStates

\* A lease writes a task row.
LEMMA LeasedType ==
  ASSUME NEW row \in TaskRows, NEW t \in Tasks, NEW n \in Attempts,
         NEW expiry \in Times
  PROVE  LeasedAs(row, <<t, n>>, expiry) \in TaskRows
  <1> DEFINE r == <<t, n>>
  <1>1. r \in RunIds /\ r \in Tokens /\ r[2] = n /\ n \in 0 .. MaxAttempts
    BY DEF RunIds, Tokens, Attempts
  <1> HIDE DEF r
  <1>2. LeasedAs(row, r, expiry) \in TaskRows
    BY <1>1 DEF LeasedAs, TaskRows, TaskStates
  <1>3. QED
    BY <1>2 DEF r

\* A revision writes a task row.
LEMMA RevisedType ==
  ASSUME NEW row \in TaskRows, NEW ceiling \in Attempts,
         row.revision + 1 \in Revisions
  PROVE  Revised(row, ceiling) \in TaskRows
  BY DEF Revised, TaskRows, TaskStates

\* An unknown outcome leaves its task's row a task row.
LEMMA EscalatedType ==
  ASSUME NEW row \in TaskRows
  PROVE  Escalated(row) \in TaskRows
  BY TaskRowTypes DEF Escalated, TaskStates

\* An action row that moves to another state is still an action row.
LEMMA ActionRowTypes ==
  ASSUME NEW row \in ActionRows, NEW s \in ActionStates, NEW p \in BOOLEAN
  PROVE  ActionMoved(row, s, p) \in ActionRows
  BY DEF ActionRows, ActionMoved

\* Settling the current run keeps the runs table well typed.
LEMMA SettleType ==
  ASSUME NEW t \in Tasks, NEW status \in RunStatuses,
         run \in [RunIds -> RunRows], SettleCurrentRun(t, status)
  PROVE  run' \in [RunIds -> RunRows]
  BY DEF SettleCurrentRun, RunRows

-----------------------------------------------------------------------------
(* Type correctness.                                                       *)

\* The empty tables are well typed.
LEMMA TypeInit == Init => TypeOK
  BY DEF Init, TypeOK, TaskRows, RunRows, ActionRows, NoTask, NoAction,
         TaskStates, RunStatuses, ActionStates, Attempts, Revisions, Times

\* Every command keeps the tables well typed.
LEMMA TypeStep == TypeOK /\ [Next]_vars => TypeOK'
  <1> SUFFICES ASSUME TypeOK, [Next]_vars
               PROVE  TypeOK'
    OBVIOUS
  <1> USE DEF TypeOK
  <1>1. ASSUME NEW t \in Tasks, Plan(t)
        PROVE  TypeOK'
    <2>1. ASSUME NEW ceiling \in Attempts, CreateTask(t, ceiling)
          PROVE  TypeOK'
      BY <2>1, ProposedType DEF CreateTask
    <2>2. CASE SetTaskReady(t)
      BY <2>2, TaskRowTypes DEF SetTaskReady, TaskStates
    <2>3. CASE RequestTaskApproval(t)
      BY <2>3, TaskRowTypes DEF RequestTaskApproval, TaskStates
    <2>4. QED
      BY <1>1, <2>1, <2>2, <2>3 DEF Plan
  <1>2. ASSUME NEW t \in Tasks, Work(t)
        PROVE  TypeOK'
    <2>1. ASSUME NEW expiry \in Times, LeaseTask(t, expiry)
          PROVE  TypeOK'
      <3> DEFINE n == task[t].attempts + 1
      <3>1. n \in Attempts /\ <<t, n>> \in RunIds
        BY <2>1 DEF LeaseTask, MayLease, Attempts, TaskRows, RunIds
      <3>2. run' \in [RunIds -> RunRows]
        BY <2>1, <3>1 DEF LeaseTask, RunRows, RunStatuses, TaskRows
      <3>3. task' \in [Tasks -> TaskRows]
        BY <2>1, <3>1, LeasedType DEF LeaseTask
      <3>4. QED
        BY <2>1, <3>2, <3>3 DEF LeaseTask
    <2>2. ASSUME NEW r \in RunIds, NEW tok \in Tokens, StartRun(t, r, tok)
          PROVE  TypeOK'
      BY <2>2, TaskRowTypes, SettleType
      DEF StartRun, TaskStates, RunStatuses
    <2>3. ASSUME NEW r \in RunIds, NEW tok \in Tokens,
                 NEW outcome \in {"completed", "failed"},
                 SubmitResult(t, r, tok, outcome)
          PROVE  TypeOK'
      <3>1. CASE RecordResult(t, r, tok, outcome)
        <4>1. NextStateAfterResult(t, r, outcome) \in TaskStates
          BY DEF NextStateAfterResult, TaskStates
        <4>2. QED
          BY <3>1, <4>1, TaskRowTypes
          DEF RecordResult, RunRows, RunStatuses
      <3>2. CASE QuarantineResult(t, r, tok)
        BY <3>2 DEF QuarantineResult, RunRows, RunStatuses
      <3>3. QED
        BY <2>3, <3>1, <3>2 DEF SubmitResult
    <2>4. ASSUME NEW r \in RunIds, NEW tok \in Tokens, NEW a \in Actions,
                 PrepareAction(a, t, r, tok)
          PROVE  TypeOK'
      BY <2>4 DEF PrepareAction, NoAction, ActionRows, ActionStates
    <2>5. QED
      BY <1>2, <2>1, <2>2, <2>3, <2>4 DEF Work
  <1>3. ASSUME NEW t \in Tasks, Operate(t)
        PROVE  TypeOK'
    <2>1. ASSUME NEW safe \in BOOLEAN, NEW asOf \in {now} \cup SuppliedTimes,
                 ExpireLease(t, safe, asOf)
          PROVE  TypeOK'
      BY <2>1, TaskRowTypes, SettleType
      DEF ExpireLease, TaskStates, RunStatuses
    <2>2. CASE RequestCancellation(t)
      BY <2>2, TaskRowTypes DEF RequestCancellation, TaskStates
    <2>3. CASE ConfirmCancellation(t)
      BY <2>3, TaskRowTypes, SettleType
      DEF ConfirmCancellation, TaskStates, RunStatuses
    <2>4. CASE ResumeAfterReconciliation(t)
      BY <2>4, TaskRowTypes DEF ResumeAfterReconciliation, TaskStates
    <2>5. QED
      BY <1>3, <2>1, <2>2, <2>3, <2>4 DEF Operate
  <1>4. ASSUME NEW t \in Tasks, Check(t)
        PROVE  TypeOK'
    <2>1. ASSUME NEW d \in {"accepted", "rejected", "changes_requested"},
                 ReviewTask(t, d)
          PROVE  TypeOK'
      BY <2>1, TaskRowTypes DEF ReviewTask, TaskStates
    <2>2. ASSUME NEW ceiling \in Attempts, ReviseTask(t, ceiling)
          PROVE  TypeOK'
      <3>1. task[t].revision + 1 \in Revisions
        BY <2>2 DEF ReviseTask, TaskRows, Revisions
      <3>2. QED
        BY <2>2, <3>1, RevisedType DEF ReviseTask
    <2>3. QED
      BY <1>4, <2>1, <2>2 DEF Check
  <1>5. ASSUME NEW a \in Actions, Deliver(a)
        PROVE  TypeOK'
    <2>1. CASE BeginActionDispatch(a)
      BY <2>1, ActionRowTypes DEF BeginActionDispatch, ActionStates
    <2>2. ASSUME NEW outcome \in
                   {"confirmed", "failed", "unknown", "compensated"},
                 NEW proof \in BOOLEAN,
                 ReconcileAction(a, outcome, proof)
          PROVE  TypeOK'
      <3>1. action' \in [Actions -> ActionRows]
        BY <2>2, ActionRowTypes DEF ReconcileAction, ActionStates
      <3>2. task' \in [Tasks -> TaskRows]
        BY <2>2, EscalatedType DEF ReconcileAction
      <3>3. QED
        BY <2>2, <3>1, <3>2 DEF ReconcileAction
    <2>3. QED
      BY <1>5, <2>1, <2>2 DEF Deliver
  <1>6. CASE Tick
    BY <1>6 DEF Tick, Times
  <1>7. CASE UNCHANGED vars
    BY <1>7 DEF vars
  <1>8. QED
    BY <1>1, <1>2, <1>3, <1>4, <1>5, <1>6, <1>7 DEF Next, Closed

\* The tables are well typed in every reachable state of every instance.
THEOREM TypeCorrect == Spec => []TypeOK
  BY TypeInit, TypeStep, PTL DEF Spec

-----------------------------------------------------------------------------
(***************************************************************************)
(* The inductive invariant.  A step writes the row and the runs of one     *)
(* task, so a coherent row elsewhere stays coherent (RowFrame); for the    *)
(* task written there is one lemma per command.                            *)
(***************************************************************************)

\* A task none of whose rows is written stays coherent.
LEMMA RowFrame ==
  ASSUME NEW t \in Tasks, RowCoherent(t), task'[t] = task[t],
         \A n \in Attempts : run'[<<t, n>>] = run[<<t, n>>]
  PROVE  RowCoherent(t)'
  BY DEF RowCoherent, RunsCounted, CurrentIsNewest, EnvelopeIsNewest,
         LeaseComplete, NewestCompleted, RunsOf, Attempts

\* Rows are coherent in the empty tables.
LEMMA InvInit == Init => LifecycleInv
  <1> SUFFICES ASSUME Init
               PROVE  LifecycleInv
    OBVIOUS
  <1>1. TypeOK
    BY TypeInit
  <1>2. ASSUME NEW t \in Tasks
        PROVE  RowCoherent(t)
    BY DEF Init, NoTask, RowCoherent, RunsCounted, CurrentIsNewest,
           EnvelopeIsNewest, LeaseComplete, NewestCompleted, RunsOf, Attempts,
           RunIds, Leased, Reviewed
  <1>3. ActionsOwned /\ UnknownHoldsTask
    BY DEF Init, NoAction, ActionsOwned, UnknownHoldsTask
  <1>4. QED
    BY <1>1, <1>2, <1>3 DEF LifecycleInv

\* A new task has no runs.
LEMMA CreateTaskCoherent ==
  ASSUME LifecycleInv, TypeOK', NEW t \in Tasks, NEW ceiling \in Attempts, CreateTask(t, ceiling)
  PROVE  RowCoherent(t)'
  <1>1. TypeOK /\ RowCoherent(t)
    BY DEF LifecycleInv
  <1>2. UNCHANGED run /\ task[t].state = "none"
    BY DEF CreateTask
  <1>3. task'[t] = [NoTask EXCEPT !.state = "proposed", !.max = ceiling]
    BY <1>1 DEF CreateTask, Proposed, TypeOK
  <1>4. QED
    <2>1. /\ task[t].attempts = 0
          /\ \A n \in Attempts : run'[<<t, n>>].status = "none"
      BY <1>1, <1>2 DEF RowCoherent, RunsCounted, Attempts
    <2>2. QED
      BY <1>3, <2>1
      DEF NoTask, RowCoherent, RunsCounted, CurrentIsNewest,
          EnvelopeIsNewest, LeaseComplete, NewestCompleted, RunsOf, Leased,
          Reviewed, Attempts


\* A task made ready keeps its counts.
LEMMA SetTaskReadyCoherent ==
  ASSUME LifecycleInv, TypeOK', NEW t \in Tasks, SetTaskReady(t)
  PROVE  RowCoherent(t)'
  <1>1. TypeOK /\ RowCoherent(t)
    BY DEF LifecycleInv
  <1>2. QED
    BY <1>1
    DEF SetTaskReady, Moved, TypeOK, TaskRows,
        RunRows, RowCoherent, RunsCounted, CurrentIsNewest,
        EnvelopeIsNewest, LeaseComplete, NewestCompleted, RunsOf, RunIds,
        Attempts, Leased, Reviewed


\* So does one that waits for approval.
LEMMA RequestTaskApprovalCoherent ==
  ASSUME LifecycleInv, TypeOK', NEW t \in Tasks, RequestTaskApproval(t)
  PROVE  RowCoherent(t)'
  <1>1. TypeOK /\ RowCoherent(t)
    BY DEF LifecycleInv
  <1>2. QED
    BY <1>1
    DEF RequestTaskApproval, Moved, TypeOK, TaskRows,
        RunRows, RowCoherent, RunsCounted, CurrentIsNewest,
        EnvelopeIsNewest, LeaseComplete, NewestCompleted, RunsOf, RunIds,
        Attempts, Leased, Reviewed


\* A lease makes the next attempt the newest run, and names it everywhere.
LEMMA LeaseTaskCoherent ==
  ASSUME LifecycleInv, TypeOK', NEW t \in Tasks, NEW expiry \in Times, LeaseTask(t, expiry)
  PROVE  RowCoherent(t)'
  <1> DEFINE n == task[t].attempts + 1
             r == <<t, n>>
  <1>1. TypeOK /\ RowCoherent(t)
    BY DEF LifecycleInv
  <1>2. /\ n \in Attempts
        /\ n <= task[t].max
        /\ r \in RunIds
        /\ task[t].attempts \in Nat
    BY <1>1 DEF LeaseTask, MayLease, TypeOK, TaskRows, Attempts, RunIds
  <1>3. /\ task'[t].state = "leased"
        /\ task'[t].attempts = n
        /\ task'[t].max = task[t].max
        /\ task'[t].revision = task[t].revision
        /\ task'[t].sha = r
        /\ task'[t].current = r
        /\ task'[t].fence = r
        /\ task'[t].expires = expiry
    BY <1>1 DEF LeaseTask, LeasedAs, TypeOK, TaskRows
  <1>4. /\ run'[r] = [status |-> "leased", revision |-> task[t].revision]
        /\ \A m \in Attempts : m # n => run'[<<t, m>>] = run[<<t, m>>]
    BY <1>1, <1>2 DEF LeaseTask, TypeOK, RunIds
  <1>5. task[t].revision \in Nat /\ r # NULL /\ expiry # NULL
    BY <1>1, <1>2, NullAssumption DEF TypeOK, TaskRows, Revisions, Times
  <1> HIDE DEF n, r
  <1>6. r = <<t, n>> /\ n = task[t].attempts + 1
    BY DEF n, r
  <1>7. RunsCounted(t)'
    BY <1>1, <1>2, <1>3, <1>4, <1>5, <1>6
    DEF RowCoherent, RunsCounted, Attempts
  <1>8. CurrentIsNewest(t)' /\ EnvelopeIsNewest(t)'
    BY <1>2, <1>3, <1>4, <1>6 DEF CurrentIsNewest, EnvelopeIsNewest, Leased
  <1>9. LeaseComplete(t)' /\ NewestCompleted(t)'
    BY <1>2, <1>3, <1>5, <1>6
    DEF LeaseComplete, NewestCompleted, Leased, Reviewed
  <1>10. QED
    BY <1>7, <1>8, <1>9 DEF RowCoherent


\* Starting a run needs and keeps the complete lease.
LEMMA StartRunCoherent ==
  ASSUME LifecycleInv, TypeOK', NEW t \in Tasks, NEW r \in RunIds, NEW tok \in Tokens, StartRun(t, r, tok)
  PROVE  RowCoherent(t)'
  <1>1. TypeOK /\ RowCoherent(t)
    BY DEF LifecycleInv
  <1>2. QED
    BY <1>1
    DEF StartRun, CurrentLease, SettleCurrentRun, Moved, TypeOK, TaskRows,
        RunRows, RowCoherent, RunsCounted, CurrentIsNewest,
        EnvelopeIsNewest, LeaseComplete, NewestCompleted, RunsOf, RunIds,
        Attempts, Leased, Reviewed


\* A recorded result settles the newest run and gives up the lease; only a
\* completed one brings the task to review.
LEMMA RecordResultCoherent ==
  ASSUME LifecycleInv, TypeOK', NEW t \in Tasks, NEW r \in RunIds, NEW tok \in Tokens,
         NEW outcome \in {"completed", "failed"}, RecordResult(t, r, tok, outcome)
  PROVE  RowCoherent(t)'
  <1>1. TypeOK /\ RowCoherent(t)
    BY DEF LifecycleInv
  <1>2. QED
    BY <1>1
    DEF RecordResult, ResultAdmissible, NextStateAfterResult, Released, TypeOK, TaskRows,
        RunRows, RowCoherent, RunsCounted, CurrentIsNewest,
        EnvelopeIsNewest, LeaseComplete, NewestCompleted, RunsOf, RunIds,
        Attempts, Leased, Reviewed


\* A late result after cancellation is kept out of every verdict.
LEMMA QuarantineResultCoherent ==
  ASSUME LifecycleInv, TypeOK', NEW t \in Tasks, NEW r \in RunIds, NEW tok \in Tokens, QuarantineResult(t, r, tok)
  PROVE  RowCoherent(t)'
  <1>1. TypeOK /\ RowCoherent(t)
    BY DEF LifecycleInv
  <1>2. QED
    BY <1>1
    DEF QuarantineResult, ResultAdmissible, TypeOK, TaskRows,
        RunRows, RowCoherent, RunsCounted, CurrentIsNewest,
        EnvelopeIsNewest, LeaseComplete, NewestCompleted, RunsOf, RunIds,
        Attempts, Leased, Reviewed


\* An expired lease is given up with its run.
LEMMA ExpireLeaseCoherent ==
  ASSUME LifecycleInv, TypeOK', NEW t \in Tasks, NEW safe \in BOOLEAN,
         NEW asOf \in {now} \cup SuppliedTimes, ExpireLease(t, safe, asOf)
  PROVE  RowCoherent(t)'
  <1>1. TypeOK /\ RowCoherent(t)
    BY DEF LifecycleInv
  <1>2. QED
    BY <1>1
    DEF ExpireLease, SettleCurrentRun, Released, TypeOK, TaskRows,
        RunRows, RowCoherent, RunsCounted, CurrentIsNewest,
        EnvelopeIsNewest, LeaseComplete, NewestCompleted, RunsOf, RunIds,
        Attempts, Leased, Reviewed


\* A cancellation request gives up the lease, or closes the idle task.
LEMMA RequestCancellationCoherent ==
  ASSUME LifecycleInv, TypeOK', NEW t \in Tasks, RequestCancellation(t)
  PROVE  RowCoherent(t)'
  <1>1. TypeOK /\ RowCoherent(t)
    BY DEF LifecycleInv
  <1>2. UNCHANGED run
    BY DEF RequestCancellation
  <1>3. CASE task[t].state \in
               {"proposed", "awaiting_approval", "ready", "expired"}
    <2>1. task' = [task EXCEPT ![t] = Released(@, "cancelled")]
      BY <1>3 DEF RequestCancellation, Leased
    <2>2. QED
      BY <1>1, <1>2, <2>1
      DEF Released, TypeOK, TaskRows, RowCoherent, RunsCounted,
          CurrentIsNewest, EnvelopeIsNewest, LeaseComplete, NewestCompleted,
          RunsOf, Leased, Reviewed
  <1>4. CASE task[t].state \in Leased
    <2>1. task' = [task EXCEPT ![t] = Fenced(@, "cancellation_requested")]
      BY <1>4 DEF RequestCancellation, Leased
    <2>2. QED
      BY <1>1, <1>2, <2>1
      DEF Fenced, TypeOK, TaskRows, RowCoherent, RunsCounted,
          CurrentIsNewest, EnvelopeIsNewest, LeaseComplete, NewestCompleted,
          RunsOf, Leased, Reviewed
  <1>5. QED
    BY <1>3, <1>4 DEF RequestCancellation


\* A confirmed cancellation settles the run the task still names.
LEMMA ConfirmCancellationCoherent ==
  ASSUME LifecycleInv, TypeOK', NEW t \in Tasks, ConfirmCancellation(t)
  PROVE  RowCoherent(t)'
  <1>1. TypeOK /\ RowCoherent(t)
    BY DEF LifecycleInv
  <1>2. task' = [task EXCEPT ![t] = Released(@, "cancelled")]
    BY DEF ConfirmCancellation
  <1>3. \A n \in Attempts :
          /\ run'[<<t, n>>].revision = run[<<t, n>>].revision
          /\ run'[<<t, n>>].status = "none" <=> run[<<t, n>>].status = "none"
    <2>1. ASSUME NEW n \in Attempts, <<t, n>> = task[t].current
          PROVE  run[<<t, n>>].status # "none"
      <3>1. task[t].current # NULL /\ n = task[t].attempts
        BY <1>1, <2>1, NullAssumption DEF RowCoherent, CurrentIsNewest, RunIds
      <3>2. QED
        BY <1>1, <3>1 DEF RowCoherent, CurrentIsNewest
    <2>2. QED
      BY <1>1, <2>1
      DEF ConfirmCancellation, SettleCurrentRun, TypeOK, RunRows, RunIds
  <1>4. QED
    BY <1>1, <1>2, <1>3
    DEF Released, TypeOK, TaskRows, RowCoherent, RunsCounted,
        CurrentIsNewest, EnvelopeIsNewest, LeaseComplete, NewestCompleted,
        RunsOf, Leased, Reviewed


\* A verdict leaves the reviewed run the newest.
LEMMA ReviewTaskCoherent ==
  ASSUME LifecycleInv, TypeOK', NEW t \in Tasks, NEW d \in {"accepted", "rejected", "changes_requested"}, ReviewTask(t, d)
  PROVE  RowCoherent(t)'
  <1>1. TypeOK /\ RowCoherent(t)
    BY DEF LifecycleInv
  <1>2. QED
    BY <1>1
    DEF ReviewTask, Moved, TypeOK, TaskRows,
        RunRows, RowCoherent, RunsCounted, CurrentIsNewest,
        EnvelopeIsNewest, LeaseComplete, NewestCompleted, RunsOf, RunIds,
        Attempts, Leased, Reviewed


\* No run is of the new revision yet.
LEMMA ReviseTaskCoherent ==
  ASSUME LifecycleInv, TypeOK', NEW t \in Tasks, NEW ceiling \in Attempts, ReviseTask(t, ceiling)
  PROVE  RowCoherent(t)'
  <1>1. TypeOK /\ RowCoherent(t)
    BY DEF LifecycleInv
  <1>2. UNCHANGED run
    BY DEF ReviseTask
  <1>3. /\ task'[t].state = "ready"
        /\ task'[t].revision = task[t].revision + 1
        /\ task'[t].sha = NULL
        /\ task'[t].attempts = task[t].attempts
        /\ task'[t].current = task[t].current
        /\ task'[t].fence = task[t].fence
        /\ task'[t].expires = task[t].expires
    BY <1>1 DEF ReviseTask, Revised, TypeOK, TaskRows
  <1>4. \A n \in Attempts : run[<<t, n>>].revision \in Nat
    BY <1>1 DEF TypeOK, RunRows, Revisions, RunIds
  <1>5. task[t].revision \in Nat /\ task[t].state = "changes_requested"
    BY <1>1 DEF TypeOK, TaskRows, Revisions, ReviseTask
  <1>6. RunsCounted(t)' /\ EnvelopeIsNewest(t)'
    BY <1>1, <1>2, <1>3, <1>4, <1>5
    DEF RowCoherent, RunsCounted, EnvelopeIsNewest, RunsOf
  <1>7. CurrentIsNewest(t)'
    BY <1>1, <1>2, <1>3, <1>5
    DEF RowCoherent, CurrentIsNewest, NewestCompleted, Reviewed
  <1>8. LeaseComplete(t)' /\ NewestCompleted(t)'
    BY <1>1, <1>3, <1>5
    DEF RowCoherent, LeaseComplete, NewestCompleted, Leased, Reviewed
  <1>9. QED
    BY <1>6, <1>7, <1>8 DEF RowCoherent


\* A task resumed into review has its newest run completed.
LEMMA ResumeCoherent ==
  ASSUME LifecycleInv, TypeOK', NEW t \in Tasks, ResumeAfterReconciliation(t)
  PROVE  RowCoherent(t)'
  <1>1. TypeOK /\ RowCoherent(t)
    BY DEF LifecycleInv
  <1>2. UNCHANGED run
    BY DEF ResumeAfterReconciliation
  <1>3. CASE LatestRunCompleted(t)
    <2>1. PICK n \in Attempts : /\ IsLatestRun(t, n)
                                /\ run[<<t, n>>].status = "completed"
      BY <1>3 DEF LatestRunCompleted
    <2>2. n = task[t].attempts
      <3>1. task[t].attempts \in 0 .. MaxAttempts
        BY <1>1 DEF TypeOK, TaskRows
      <3>2. n <= task[t].attempts
        BY <1>1, <2>1 DEF IsLatestRun, RunsOf, RowCoherent, RunsCounted
      <3>3. task[t].attempts \in RunsOf(t)
        BY <1>1, <3>1, <3>2 DEF RunsOf, RowCoherent, RunsCounted, Attempts
      <3>4. QED
        BY <2>1, <3>1, <3>2, <3>3 DEF IsLatestRun, Attempts
    <2>3. task' = [task EXCEPT ![t] = Moved(@, "review")]
      BY <1>3 DEF ResumeAfterReconciliation
    <2>4. QED
      BY <1>1, <1>2, <2>1, <2>2, <2>3
      DEF Moved, TypeOK, TaskRows, ResumeAfterReconciliation, RowCoherent,
          RunsCounted, CurrentIsNewest, EnvelopeIsNewest, LeaseComplete,
          NewestCompleted, RunsOf, Leased, Reviewed
  <1>4. CASE ~LatestRunCompleted(t)
    <2>1. task' = [task EXCEPT ![t] = Released(@, "ready")]
      BY <1>4 DEF ResumeAfterReconciliation
    <2>2. QED
      BY <1>1, <1>2, <2>1
      DEF Released, TypeOK, TaskRows, RowCoherent, RunsCounted,
          CurrentIsNewest, EnvelopeIsNewest, LeaseComplete, NewestCompleted,
          RunsOf, Leased, Reviewed
  <1>5. QED
    BY <1>3, <1>4

\* Escalating an unknown outcome leaves a coherent row, whatever the state the
\* action's task was in.
LEMMA EscalatedCoherent ==
  ASSUME LifecycleInv, TypeOK', NEW t \in Tasks, UNCHANGED run,
         task'[t] = Escalated(task[t])
  PROVE  RowCoherent(t)'
  <1>1. TypeOK /\ RowCoherent(t)
    BY DEF LifecycleInv
  <1>2. QED
    BY <1>1
    DEF Escalated, Fenced, TaskTerminal, TypeOK, TaskRows, RowCoherent,
        RunsCounted, CurrentIsNewest, EnvelopeIsNewest, LeaseComplete,
        NewestCompleted, RunsOf, Leased, Reviewed

-----------------------------------------------------------------------------
(* What a command on task t may do at all.                                 *)

\* No other task's row or runs are written; a closed task's row is not
\* written; a task leaves needs_reconciliation only when none of its actions
\* is unresolved; and of its runs only the newest, current, unsettled one.
TaskWrite(t) ==
    /\ \A u \in Tasks \ {t} : task'[u] = task[u]
    /\ \A u \in Tasks \ {t}, n \in Attempts : run'[<<u, n>>] = run[<<u, n>>]
    /\ task[t].state \in TaskTerminal => task'[t] = task[t]
    /\ task[t].state = "needs_reconciliation" =>
          ~TaskHasAction(t, Unresolved)
    /\ \A n \in Attempts :
          run[<<t, n>>].status # "none" /\ run'[<<t, n>>] # run[<<t, n>>] =>
            /\ task[t].current = <<t, n>>
            /\ run[<<t, n>>].status # "completed_after_cancel"

\* Settling the current run of a task touches no run but that one.
LEMMA SettleFrame ==
  ASSUME NEW t \in Tasks, NEW status, RowCoherent(t), SettleCurrentRun(t, status),
         task[t].current \in RunIds
  PROVE  /\ \A r \in RunIds :
              r # task[t].current \/ run[r].status = "completed_after_cancel"
                => run'[r] = run[r]
         /\ \A u \in Tasks \ {t}, n \in Attempts :
               run'[<<u, n>>] = run[<<u, n>>]
  <1>1. task[t].current = <<t, task[t].attempts>>
    BY NullAssumption DEF RowCoherent, CurrentIsNewest
  <1>2. QED
    BY <1>1 DEF SettleCurrentRun, RunIds

\* Every command on a task is such a write.
LEMMA TaskCommandWrites ==
  ASSUME LifecycleInv, NEW t \in Tasks,
         Plan(t) \/ Work(t) \/ Operate(t) \/ Check(t)
  PROVE  TaskWrite(t)
  <1> USE DEF TaskWrite
  <1>1. TypeOK /\ RowCoherent(t)
    BY DEF LifecycleInv
  <1>2. CASE Plan(t)
    BY <1>1, <1>2
    DEF Plan, CreateTask, SetTaskReady, RequestTaskApproval, TypeOK,
        TaskTerminal
  <1>3. CASE Work(t)
    <2>1. ASSUME NEW expiry \in Times, LeaseTask(t, expiry)
          PROVE  TaskWrite(t)
      <3> DEFINE m == task[t].attempts + 1
      <3>1. run[<<t, m>>].status = "none" \/ m \notin Attempts
        BY <1>1
        DEF RowCoherent, RunsCounted, TypeOK, TaskRows, Attempts
      <3>2. QED
        BY <1>1, <2>1, <3>1
        DEF LeaseTask, MayLease, TypeOK, TaskTerminal, RunIds
    <2>2. ASSUME NEW r \in RunIds, NEW tok \in Tokens, StartRun(t, r, tok)
          PROVE  TaskWrite(t)
      <3>1. task[t].current \in RunIds
        BY <2>2 DEF StartRun, CurrentLease
      <3>2. QED
        BY <1>1, <2>2, <3>1, SettleFrame
        DEF StartRun, TypeOK, TaskTerminal, RunIds
    <2>3. ASSUME NEW r \in RunIds, NEW tok \in Tokens,
                 NEW outcome \in {"completed", "failed"},
                 SubmitResult(t, r, tok, outcome)
          PROVE  TaskWrite(t)
      <3>1. r[1] = t /\ task[t].current = r
        BY <2>3
        DEF SubmitResult, RecordResult, QuarantineResult, ResultAdmissible
      <3>2. CASE RecordResult(t, r, tok, outcome)
        <4>1. run[r].status # "completed_after_cancel"
          BY <1>1, <3>1, <3>2, NullAssumption
          DEF RecordResult, RowCoherent, CurrentIsNewest
        <4>2. QED
          BY <1>1, <3>1, <3>2, <4>1
          DEF RecordResult, TypeOK, TaskTerminal, RunIds
      <3>3. CASE QuarantineResult(t, r, tok)
        <4>1. run[r].status = "completed_after_cancel" => run' = run
          BY <1>1, <3>3 DEF QuarantineResult, TypeOK, RunRows
        <4>2. QED
          BY <1>1, <3>1, <3>3, <4>1
          DEF QuarantineResult, TypeOK, TaskTerminal, RunIds
      <3>4. QED
        BY <2>3, <3>2, <3>3 DEF SubmitResult
    <2>4. ASSUME NEW r \in RunIds, NEW tok \in Tokens, NEW a \in Actions,
                 PrepareAction(a, t, r, tok)
          PROVE  TaskWrite(t)
      BY <2>4 DEF PrepareAction, TaskTerminal
    <2>5. QED
      BY <1>3, <2>1, <2>2, <2>3, <2>4 DEF Work
  <1>4. CASE Operate(t)
    <2>1. ASSUME NEW safe \in BOOLEAN, NEW asOf \in {now} \cup SuppliedTimes,
                 ExpireLease(t, safe, asOf)
          PROVE  TaskWrite(t)
      <3>1. task[t].current \in RunIds
        BY <1>1, <2>1
        DEF ExpireLease, RowCoherent, LeaseComplete, TypeOK, TaskRows
      <3>2. QED
        BY <1>1, <2>1, <3>1, SettleFrame
        DEF ExpireLease, TypeOK, TaskTerminal, RunIds, Leased
    <2>2. CASE RequestCancellation(t)
      BY <1>1, <2>2 DEF RequestCancellation, TypeOK, TaskTerminal, Leased
    <2>3. CASE ConfirmCancellation(t)
      <3>1. CASE task[t].current \in RunIds
        BY <1>1, <2>3, <3>1, SettleFrame
        DEF ConfirmCancellation, TypeOK, TaskTerminal, RunIds
      <3>2. CASE task[t].current \notin RunIds
        <4>1. \A r \in RunIds : run'[r] = run[r]
          BY <2>3, <3>2 DEF ConfirmCancellation, SettleCurrentRun
        <4>2. QED
          BY <1>1, <2>3, <4>1
          DEF ConfirmCancellation, TypeOK, TaskTerminal, RunIds
      <3>3. QED
        BY <3>1, <3>2
    <2>4. CASE ResumeAfterReconciliation(t)
      BY <1>1, <2>4 DEF ResumeAfterReconciliation, TypeOK, TaskTerminal
    <2>5. QED
      BY <1>4, <2>1, <2>2, <2>3, <2>4 DEF Operate
  <1>5. CASE Check(t)
    BY <1>1, <1>5 DEF Check, ReviewTask, ReviseTask, TypeOK, TaskTerminal
  <1>6. QED
    BY <1>2, <1>3, <1>4, <1>5

\* Every command on a task leaves its row coherent.
LEMMA TaskCommandCoherent ==
  ASSUME LifecycleInv, TypeOK', NEW t \in Tasks,
         Plan(t) \/ Work(t) \/ Operate(t) \/ Check(t)
  PROVE  RowCoherent(t)'
  <1>1. CASE Plan(t)
    BY <1>1, CreateTaskCoherent, SetTaskReadyCoherent,
       RequestTaskApprovalCoherent DEF Plan
  <1>2. CASE Work(t)
    <2>1. ASSUME NEW r \in RunIds, NEW tok \in Tokens, NEW a \in Actions,
                 PrepareAction(a, t, r, tok)
          PROVE  RowCoherent(t)'
      BY <2>1, RowFrame DEF PrepareAction, LifecycleInv
    <2>2. QED
      BY <1>2, <2>1, LeaseTaskCoherent, StartRunCoherent,
         RecordResultCoherent, QuarantineResultCoherent
      DEF Work, SubmitResult
  <1>3. CASE Operate(t)
    BY <1>3, ExpireLeaseCoherent, RequestCancellationCoherent,
       ConfirmCancellationCoherent, ResumeCoherent DEF Operate
  <1>4. CASE Check(t)
    BY <1>4, ReviewTaskCoherent, ReviseTaskCoherent DEF Check
  <1>5. QED
    BY <1>1, <1>2, <1>3, <1>4

-----------------------------------------------------------------------------
(* Inductiveness.                                                          *)

\* A command on a task prepares an action or writes none.
LEMMA TaskCommandPrepares ==
  ASSUME NEW t \in Tasks,
         Plan(t) \/ Work(t) \/ Operate(t) \/ Check(t)
  PROVE  \/ UNCHANGED action
         \/ \E r \in RunIds, tok \in Tokens, a \in Actions :
               PrepareAction(a, t, r, tok)
  <1>1. CASE Plan(t)
    BY <1>1 DEF Plan, CreateTask, SetTaskReady, RequestTaskApproval
  <1>2. CASE Work(t)
    <2>1. CASE \E expiry \in Times : LeaseTask(t, expiry)
      BY <2>1 DEF LeaseTask
    <2>2. ASSUME NEW r \in RunIds, NEW tok \in Tokens,
                 \/ StartRun(t, r, tok)
                 \/ \E outcome \in {"completed", "failed"} :
                       SubmitResult(t, r, tok, outcome)
          PROVE  UNCHANGED action
      BY <2>2 DEF StartRun, SubmitResult, RecordResult, QuarantineResult
    <2>3. QED
      BY <1>2, <2>1, <2>2 DEF Work
  <1>3. CASE Operate(t)
    BY <1>3
    DEF Operate, ExpireLease, RequestCancellation, ConfirmCancellation,
        ResumeAfterReconciliation
  <1>4. CASE Check(t)
    BY <1>4 DEF Check, ReviewTask, ReviseTask
  <1>5. QED
    BY <1>1, <1>2, <1>3, <1>4

\* A command on a task keeps every action owned and every unknown action's
\* task held: it creates no unknown action, and it lets a held task go only
\* when it has none.
LEMMA TaskCommandActions ==
  ASSUME LifecycleInv, NEW t \in Tasks,
         Plan(t) \/ Work(t) \/ Operate(t) \/ Check(t)
  PROVE  ActionsOwned' /\ UnknownHoldsTask'
  <1>1. TypeOK /\ ActionsOwned /\ UnknownHoldsTask
    BY DEF LifecycleInv
  <1>2. CASE UNCHANGED action
    <2>1. ActionsOwned'
      BY <1>1, <1>2 DEF ActionsOwned
    <2>2. UnknownHoldsTask'
      <3> SUFFICES ASSUME NEW a \in Actions, action[a].state = "unknown"
                   PROVE  task'[action[a].task].state \in
                            TaskTerminal \cup {"needs_reconciliation"}
        BY <1>2 DEF UnknownHoldsTask
      <3>1. /\ action[a].task \in Tasks
            /\ task[action[a].task].state \in
                 TaskTerminal \cup {"needs_reconciliation"}
        BY <1>1 DEF ActionsOwned, UnknownHoldsTask
      <3>2. TaskWrite(t)
        BY TaskCommandWrites
      <3>3. action[a].task = t => task[t].state \in TaskTerminal
        BY <3>1, <3>2
        DEF TaskWrite, TaskHasAction, Unresolved, Uncertain
      <3>4. QED
        BY <3>1, <3>2, <3>3 DEF TaskWrite
    <2>3. QED
      BY <2>1, <2>2
  <1>3. ASSUME NEW r \in RunIds, NEW tok \in Tokens, NEW a \in Actions,
               PrepareAction(a, t, r, tok)
        PROVE  ActionsOwned' /\ UnknownHoldsTask'
    <2>1. action'[a].state = "prepared" /\ action'[a].task = t
                                        /\ action'[a].run = r
      BY <1>1, <1>3 DEF PrepareAction, NoAction, TypeOK
    <2>2. \A b \in Actions \ {a} : action'[b] = action[b]
      BY <1>1, <1>3 DEF PrepareAction, TypeOK
    <2>3. QED
      BY <1>1, <1>3, <2>1, <2>2
      DEF PrepareAction, ActionsOwned, UnknownHoldsTask
  <1>4. QED
    BY <1>2, <1>3, TaskCommandPrepares

\* Delivering an action keeps the invariant: the only task row it may write is
\* that of the action's own task, which an unknown outcome escalates.
LEMMA DeliverInv ==
  ASSUME LifecycleInv, TypeOK', NEW a \in Actions, Deliver(a)
  PROVE  LifecycleInv'
  <1>1. /\ TypeOK /\ ActionsOwned /\ UnknownHoldsTask
        /\ \A t \in Tasks : RowCoherent(t)
    BY DEF LifecycleInv
  <1>2. CASE BeginActionDispatch(a)
    <2>1. action'[a].state = "dispatched" /\ action'[a].task = action[a].task
                                          /\ action'[a].run = action[a].run
      BY <1>1, <1>2 DEF BeginActionDispatch, ActionMoved, TypeOK, ActionRows
    <2>2. \A b \in Actions \ {a} : action'[b] = action[b]
      BY <1>1, <1>2 DEF BeginActionDispatch, TypeOK
    <2>3. action[a].state # "none" /\ UNCHANGED <<task, run>>
      BY <1>2 DEF BeginActionDispatch, DispatchFrom
    <2>4. ActionsOwned' /\ UnknownHoldsTask'
      BY <1>1, <2>1, <2>2, <2>3 DEF ActionsOwned, UnknownHoldsTask
    <2>5. QED
      BY <1>1, <2>3, <2>4, RowFrame DEF LifecycleInv
  <1>3. ASSUME NEW outcome \in {"confirmed", "failed", "unknown", "compensated"},
               NEW proof \in BOOLEAN,
               ReconcileAction(a, outcome, proof)
        PROVE  LifecycleInv'
    <2> DEFINE t == action[a].task
    <2>1. action[a].state # "none"
      BY <1>3
      DEF ReconcileAction, OutcomeFrom, Unresolved, Uncertain
    <2>2. t \in Tasks /\ action[a].run \in RunIds
      BY <1>1, <2>1 DEF ActionsOwned
    <2>3. action'[a].state = outcome /\ action'[a].task = t
                                     /\ action'[a].run = action[a].run
      BY <1>1, <1>3 DEF ReconcileAction, ActionMoved, TypeOK, ActionRows
    <2>4. \A b \in Actions \ {a} : action'[b] = action[b]
      BY <1>1, <1>3 DEF ReconcileAction, TypeOK
    <2>5. /\ \A u \in Tasks \ {t} : task'[u] = task[u]
          /\ \/ task'[t] = task[t] /\ outcome # "unknown"
             \/ task'[t] = Escalated(task[t])
      BY <1>1, <1>3, <2>2 DEF ReconcileAction, TypeOK
    <2>6. UNCHANGED run
      BY <1>3 DEF ReconcileAction
    <2>7. ActionsOwned'
      BY <1>1, <2>2, <2>3, <2>4 DEF ActionsOwned
    <2>8. \A u \in Tasks : RowCoherent(u)'
      BY <1>1, <2>2, <2>5, <2>6, RowFrame, EscalatedCoherent
    <2>9. /\ Escalated(task[t]).state \in
               TaskTerminal \cup {"needs_reconciliation"}
          /\ task[t].state \in TaskTerminal \cup {"needs_reconciliation"} =>
               Escalated(task[t]) = task[t]
      BY <1>1, <2>2 DEF Escalated, Fenced, TypeOK, TaskRows
    <2> HIDE DEF t
    <2>10. UnknownHoldsTask'
      <3> SUFFICES ASSUME NEW b \in Actions, action'[b].state = "unknown"
                   PROVE  task'[action'[b].task].state \in
                            TaskTerminal \cup {"needs_reconciliation"}
        BY DEF UnknownHoldsTask
      <3>1. CASE b = a
        BY <2>3, <2>5, <2>9, <3>1
      <3>2. CASE b # a
        <4>1. /\ action[b].state = "unknown"
              /\ action'[b].task = action[b].task
              /\ action[b].task \in Tasks
              /\ task[action[b].task].state \in
                   TaskTerminal \cup {"needs_reconciliation"}
          BY <1>1, <2>4, <3>2 DEF ActionsOwned, UnknownHoldsTask
        <4>2. QED
          BY <2>5, <2>9, <4>1
      <3>3. QED
        BY <3>1, <3>2
    <2>11. QED
      BY <2>7, <2>8, <2>10 DEF LifecycleInv
  <1>4. QED
    BY <1>2, <1>3 DEF Deliver

\* The invariant is inductive.
LEMMA InvStep == LifecycleInv /\ [Next]_vars => LifecycleInv'
  <1> SUFFICES ASSUME LifecycleInv, [Next]_vars
               PROVE  LifecycleInv'
    OBVIOUS
  <1>1. TypeOK'
    BY TypeStep DEF LifecycleInv
  <1>2. ASSUME NEW t \in Tasks,
               Plan(t) \/ Work(t) \/ Operate(t) \/ Check(t)
        PROVE  LifecycleInv'
    <2>1. RowCoherent(t)'
      BY <1>1, <1>2, TaskCommandCoherent
    <2>2. \A u \in Tasks \ {t} : RowCoherent(u)'
      BY <1>2, TaskCommandWrites, RowFrame DEF TaskWrite, LifecycleInv
    <2>3. ActionsOwned' /\ UnknownHoldsTask'
      BY <1>2, TaskCommandActions
    <2>4. QED
      BY <1>1, <2>1, <2>2, <2>3 DEF LifecycleInv
  <1>3. ASSUME NEW a \in Actions, Deliver(a)
        PROVE  LifecycleInv'
    BY <1>1, <1>3, DeliverInv
  <1>4. CASE UNCHANGED <<task, run, action>>
    BY <1>1, <1>4, RowFrame
    DEF LifecycleInv, ActionsOwned, UnknownHoldsTask
  <1>5. QED
    BY <1>2, <1>3, <1>4 DEF Next, Tick, Closed, vars

\* In every reachable state of every instance the invariant holds.
THEOREM InvHolds == Spec => []LifecycleInv
  BY InvInit, InvStep, PTL DEF Spec

-----------------------------------------------------------------------------
(* What follows for the properties the runs check.                         *)

\* Core's own integrity check never refuses a task row Core wrote: attempts,
\* envelope digest, current run and lease agree in every reachable state.
THEOREM TaskRowsAlwaysVerify == Spec => []TaskRowsVerify
  <1>1. LifecycleInv => TaskRowsVerify
    <2> SUFFICES ASSUME LifecycleInv, NEW t \in Tasks
                 PROVE  /\ RunsOf(t) = 1 .. task[t].attempts
                        /\ \A n \in Attempts :
                              IsLatestRunOfRevision(t, n)
                                <=> task[t].sha = <<t, n>>
                        /\ LeaseComplete(t)
      BY DEF TaskRowsVerify, LeaseComplete
    <2>1. /\ TypeOK /\ RowCoherent(t)
          /\ task[t].attempts \in 0 .. MaxAttempts
          /\ task[t].revision \in Nat
          /\ \A n \in Attempts : run[<<t, n>>].revision \in Nat
      BY DEF LifecycleInv, TypeOK, TaskRows, RunRows, Revisions, RunIds
    <2>2. RunsOf(t) = 1 .. task[t].attempts
      BY <2>1 DEF RowCoherent, RunsCounted, RunsOf, Attempts
    <2>3. ASSUME NEW n \in Attempts, IsLatestRunOfRevision(t, n)
          PROVE  task[t].sha = <<t, n>>
      <3>1. task[t].sha # NULL
        BY <2>1, <2>3, NullAssumption
        DEF IsLatestRunOfRevision, RowCoherent, EnvelopeIsNewest, RunIds
      <3>2. /\ task[t].attempts \in RunsOf(t)
            /\ run[<<t, task[t].attempts>>].revision = task[t].revision
            /\ task[t].sha = <<t, task[t].attempts>>
        BY <2>1, <2>2, <3>1 DEF RowCoherent, EnvelopeIsNewest, Attempts
      <3>3. task[t].attempts <= n /\ n <= task[t].attempts
        BY <2>2, <2>3, <3>2 DEF IsLatestRunOfRevision
      <3>4. QED
        BY <2>1, <3>2, <3>3 DEF Attempts
    <2>4. ASSUME NEW n \in Attempts, task[t].sha = <<t, n>>
          PROVE  IsLatestRunOfRevision(t, n)
      <3>1. task[t].sha # NULL
        BY <2>4, NullAssumption DEF RunIds
      <3>2. n = task[t].attempts /\ run[<<t, n>>].revision = task[t].revision
        BY <2>1, <2>4, <3>1 DEF RowCoherent, EnvelopeIsNewest
      <3>3. QED
        BY <2>1, <2>2, <3>2 DEF IsLatestRunOfRevision, Attempts
    <2>5. QED
      BY <2>1, <2>2, <2>3, <2>4 DEF RowCoherent
  <1>2. QED
    BY <1>1, InvHolds, PTL

\* No verdict, and no request for one, without a newest run that completed
\* under its lease.
THEOREM ReviewedWorkIsCompleted == Spec => []ReviewedWorkCompleted
  <1>1. LifecycleInv => ReviewedWorkCompleted
    BY DEF LifecycleInv, RowCoherent, ReviewedWorkCompleted
  <1>2. QED
    BY <1>1, InvHolds, PTL

\* An action in doubt holds its task, unless the task is closed.
THEOREM UnknownIsHeld == Spec => []UnknownHoldsTask
  <1>1. LifecycleInv => UnknownHoldsTask
    BY DEF LifecycleInv
  <1>2. QED
    BY <1>1, InvHolds, PTL

\* No one works beyond the ceiling in force.
THEOREM CeilingHolds == Spec => []LiveAttemptWithinCeiling
  <1>1. LifecycleInv => LiveAttemptWithinCeiling
    BY DEF LifecycleInv, RowCoherent, LeaseComplete, LiveAttemptWithinCeiling
  <1>2. QED
    BY <1>1, InvHolds, PTL

\* No step writes a closed task's row.
LEMMA TerminalStep ==
  ASSUME LifecycleInv, [Next]_vars, NEW u \in Tasks,
         task[u].state \in TaskTerminal
  PROVE  task'[u] = task[u]
  <1>1. ASSUME NEW t \in Tasks,
               Plan(t) \/ Work(t) \/ Operate(t) \/ Check(t)
        PROVE  task'[u] = task[u]
    BY <1>1, TaskCommandWrites DEF TaskWrite
  <1>2. ASSUME NEW a \in Actions, Deliver(a)
        PROVE  task'[u] = task[u]
    BY <1>2
    DEF Deliver, BeginActionDispatch, ReconcileAction, Escalated,
        LifecycleInv, TypeOK
  <1>3. QED
    BY <1>1, <1>2 DEF Next, Tick, Closed, vars

\* A closed task's row never changes again.
THEOREM TerminalIsFinal == Spec => TerminalTasksFinal
  <1> DEFINE Final(t) == task[t].state \in TaskTerminal => task'[t] = task[t]
  <1>1. LifecycleInv /\ [Next]_vars =>
          [\A t \in Tasks : Final(t)]_vars
    BY TerminalStep
  <1>2. QED
    BY <1>1, InvHolds, PTL DEF Spec, TerminalTasksFinal

\* A step that writes a run's row writes its task's newest, unsettled one.
LEMMA InertStep ==
  ASSUME LifecycleInv, [Next]_vars, NEW r \in RunIds,
         run[r].status # "none", run'[r] # run[r]
  PROVE  /\ run[r].status \notin SettledRun
         /\ task[r[1]].current = r
         /\ task[r[1]].attempts = r[2]
  <1>1. PICK u \in Tasks, n \in Attempts : r = <<u, n>>
    BY DEF RunIds
  <1>2. ASSUME NEW t \in Tasks,
               Plan(t) \/ Work(t) \/ Operate(t) \/ Check(t),
               run[r].status # "none", run'[r] # run[r]
        PROVE  /\ run[r].status \notin SettledRun
               /\ task[u].current = r /\ task[u].attempts = n
    <2>1. TaskWrite(t)
      BY <1>2, TaskCommandWrites
    <2>2. t = u /\ task[u].current = <<u, n>>
               /\ run[<<u, n>>].status # "completed_after_cancel"
      BY <1>1, <1>2, <2>1 DEF TaskWrite
    <2>3. task[u].current # NULL
      BY <1>1, <2>2, NullAssumption
    <2>4. RowCoherent(u)
      BY DEF LifecycleInv
    <2>5. task[u].attempts = n
      BY <2>2, <2>3, <2>4 DEF RowCoherent, CurrentIsNewest
    <2>6. QED
      BY <1>1, <2>2, <2>3, <2>4, <2>5
      DEF RowCoherent, CurrentIsNewest, SettledRun
  <1>3. ASSUME NEW a \in Actions, Deliver(a)
        PROVE  run' = run
    BY <1>3 DEF Deliver, BeginActionDispatch, ReconcileAction
  <1>4. QED
    BY <1>1, <1>2, <1>3 DEF Next, Tick, Closed, vars

\* A worker that lost its lease alters no run's record.
THEOREM SupersededAreInert == Spec => SupersededRunsInert
  <1>1. LifecycleInv /\ [Next]_vars =>
          [\A r \in RunIds :
             (run[r].status # "none" /\ run'[r] # run[r]) =>
                /\ run[r].status \notin SettledRun
                /\ task[r[1]].current = r
                /\ task[r[1]].attempts = r[2]]_vars
    BY InertStep
  <1>2. QED
    BY <1>1, InvHolds, PTL DEF Spec, SupersededRunsInert

\* A step that writes an action moves it forward.
LEMMA ForwardStep ==
  ASSUME TypeOK, [Next]_vars, NEW a \in Actions, action'[a] # action[a]
  PROVE  /\ ActionRank(action'[a].state) > ActionRank(action[a].state)
         /\ action[a].state # "none" => action'[a].run = action[a].run
  <1> DEFINE Forward(c) ==
        action'[c] # action[c] =>
          /\ ActionRank(action'[c].state) > ActionRank(action[c].state)
          /\ action[c].state # "none" => action'[c].run = action[c].run
  <1> SUFFICES Forward(a)
    OBVIOUS
  <1>1. ASSUME NEW t \in Tasks, NEW b \in Actions, NEW r \in RunIds,
               NEW tok \in Tokens, PrepareAction(b, t, r, tok)
        PROVE  Forward(a)
    BY <1>1 DEF PrepareAction, NoAction, ActionRank, TypeOK
  <1>2. ASSUME NEW b \in Actions, BeginActionDispatch(b)
        PROVE  Forward(a)
    BY <1>2
    DEF BeginActionDispatch, DispatchFrom, ActionMoved, ActionRank, TypeOK,
        ActionRows
  <1>3. ASSUME NEW b \in Actions, NEW proof \in BOOLEAN,
               NEW outcome \in
                 {"confirmed", "failed", "unknown", "compensated"},
               ReconcileAction(b, outcome, proof)
        PROVE  Forward(a)
    <2>1. /\ action[b].state \in OutcomeFrom(outcome)
          /\ action'[b].state = outcome
          /\ action'[b].run = action[b].run
          /\ \A c \in Actions \ {b} : action'[c] = action[c]
      BY <1>3 DEF ReconcileAction, ActionMoved, TypeOK, ActionRows
    <2>2. ActionRank(outcome) > ActionRank(action[b].state)
      BY <2>1 DEF OutcomeFrom, Unresolved, Uncertain, ActionRank
    <2>3. QED
      BY <2>1, <2>2
  <1>4. CASE UNCHANGED action
    BY <1>4
  <1> HIDE DEF Forward
  <1>5. CASE \E t \in Tasks : Plan(t) \/ Work(t) \/ Operate(t) \/ Check(t)
    BY <1>1, <1>4, <1>5, TaskCommandPrepares
  <1>6. CASE \E b \in Actions : Deliver(b)
    BY <1>2, <1>3, <1>6 DEF Deliver
  <1>7. CASE Tick \/ Closed \/ UNCHANGED vars
    BY <1>4, <1>7 DEF Tick, Closed, vars
  <1>8. QED
    BY <1>5, <1>6, <1>7 DEF Next

\* An action is dispatched at most once, and stays its run's.
THEOREM OutboxIsForward == Spec => OutboxForward
  <1>1. TypeOK /\ [Next]_vars =>
          [\A a \in Actions :
             action'[a] # action[a] =>
               /\ ActionRank(action'[a].state) > ActionRank(action[a].state)
               /\ action[a].state # "none" => action'[a].run = action[a].run]_vars
    BY ForwardStep
  <1>2. QED
    BY <1>1, TypeCorrect, PTL DEF Spec, OutboxForward

-----------------------------------------------------------------------------
(***************************************************************************)
(* Implementing Lease.  granted, holder and record of Lease are columns of *)
(* the task and run rows; a command that writes none of them is a stutter. *)
(***************************************************************************)

LEMMA LeaseInit == Init => AbstractLease!Init
  BY DEF Init, NoTask, AbstractLease!Init, AbstractLease!RunIds, RunIds, Attempts

\* A step that leaves those columns alone.
LEMMA LeaseStutters ==
  ASSUME \A u \in Tasks : /\ task'[u].attempts = task[u].attempts
                          /\ task'[u].current = task[u].current,
         \A r \in RunIds : run'[r].status = run[r].status
  PROVE  UNCHANGED AbstractLease!leaseVars
  BY DEF AbstractLease!leaseVars

\* A step that gives up the lease of t, and no other.
LEMMA LeaseFreed ==
  ASSUME NEW t \in Tasks, task'[t].current = NULL,
         \A u \in Tasks \ {t} : task'[u].current = task[u].current
  PROVE  AbstractLease!Freed(t)
  BY DEF AbstractLease!Freed

\* A step that writes the status of the run t names, and no other status.
LEMMA LeaseEnded ==
  ASSUME NEW t \in Tasks, NEW outcome, NEW r \in RunIds,
         task[t].current = r,
         run'[r].status = outcome,
         \A q \in RunIds \ {r} : run'[q].status = run[q].status,
         \A u \in Tasks : task'[u].attempts = task[u].attempts
  PROVE  /\ AbstractLease!Ended(t, outcome)
         /\ AbstractLease!Held(t)
         /\ [q \in RunIds |-> run[q].status][[u \in Tasks |-> task[u].current][t]]
              = run[r].status
  <1>1. r # NULL
    BY NullAssumption
  <1>2. [q \in RunIds |-> run'[q].status]
           = [[q \in RunIds |-> run[q].status] EXCEPT ![r] = outcome]
    OBVIOUS
  <1>3. [u \in Tasks |-> task'[u].attempts] = [u \in Tasks |-> task[u].attempts]
    OBVIOUS
  <1>4. QED
    BY <1>1, <1>2, <1>3 DEF AbstractLease!Ended, AbstractLease!Held

\* The run a task names.
LEMMA NamedRun ==
  ASSUME LifecycleInv, NEW t \in Tasks, task[t].current # NULL
  PROVE  /\ task[t].current \in RunIds
         /\ run[task[t].current].status
              \in AbstractLease!Open \cup {"completed_after_cancel"}
         /\ task[t].state \in
              Leased \cup {"cancellation_requested", "needs_reconciliation"}
         /\ task[t].state \in Leased => run[task[t].current].status = task[t].state
  <1>1. /\ task[t].attempts \in Attempts
        /\ task[t].current = <<t, task[t].attempts>>
    BY DEF LifecycleInv, RowCoherent, CurrentIsNewest
  <1>2. /\ run[task[t].current].status \in {"leased", "running", "completed_after_cancel"}
        /\ task[t].state \in
             Leased \cup {"cancellation_requested", "needs_reconciliation"}
        /\ task[t].state \in Leased => run[task[t].current].status = task[t].state
    BY <1>1 DEF LifecycleInv, RowCoherent, CurrentIsNewest
  <1>3. QED
    BY <1>1, <1>2 DEF RunIds, AbstractLease!Open

\* What settling the current run writes of the statuses.
LEMMA Settled ==
  ASSUME LifecycleInv, NEW t \in Tasks, NEW status, task[t].current \in RunIds,
         SettleCurrentRun(t, status)
  PROVE  /\ run[task[t].current].status # "completed_after_cancel" =>
              run'[task[t].current].status = status
         /\ run[task[t].current].status = "completed_after_cancel" =>
              \A q \in RunIds : run'[q].status = run[q].status
         /\ \A q \in RunIds \ {task[t].current} : run'[q].status = run[q].status
  <1>1. \A q \in RunIds : run[q] \in RunRows
    BY DEF LifecycleInv, TypeOK
  <1>2. [run[task[t].current] EXCEPT !.status = status].status = status
    BY <1>1 DEF RunRows
  <1>3. QED
    BY <1>2 DEF SettleCurrentRun

LEMMA LeaseTaskGrants ==
  ASSUME LifecycleInv, NEW t \in Tasks, NEW expiry \in Times, LeaseTask(t, expiry)
  PROVE  AbstractLease!Grant(t)
  <1> DEFINE n == task[t].attempts + 1
             r == <<t, n>>
  <1>1. TypeOK
    BY DEF LifecycleInv
  <1>2. n \in Attempts /\ r \in RunIds /\ r[2] = n
    BY <1>1 DEF LeaseTask, MayLease, TypeOK, TaskRows, Attempts, RunIds
  <1>3. task[t].current = NULL
    BY NamedRun DEF LeaseTask, MayLease, Leased
  <1>4. /\ task' = [task EXCEPT ![t] = LeasedAs(@, r, expiry)]
        /\ run' = [run EXCEPT ![r] =
                     [status |-> "leased", revision |-> task[t].revision]]
    BY DEF LeaseTask
  <1>5. LeasedAs(task[t], r, expiry).attempts = n
        /\ LeasedAs(task[t], r, expiry).current = r
    BY <1>1, <1>2 DEF LeasedAs, TypeOK, TaskRows
  <1> HIDE DEF n, r
  <1>6. /\ task'[t].attempts = n /\ task'[t].current = r
        /\ \A u \in Tasks \ {t} : task'[u] = task[u]
        /\ run'[r].status = "leased"
        /\ \A q \in RunIds \ {r} : run'[q] = run[q]
    BY <1>1, <1>2, <1>4, <1>5 DEF TypeOK
  <1>7. /\ [u \in Tasks |-> task'[u].attempts]
              = [[u \in Tasks |-> task[u].attempts] EXCEPT ![t] = n]
        /\ [u \in Tasks |-> task'[u].current]
              = [[u \in Tasks |-> task[u].current] EXCEPT ![t] = r]
        /\ [q \in RunIds |-> run'[q].status]
              = [[q \in RunIds |-> run[q].status] EXCEPT ![r] = "leased"]
    BY <1>2, <1>6
  <1>8. r = <<t, [u \in Tasks |-> task[u].attempts][t] + 1>>
    BY DEF r, n
  <1>9. QED
    BY <1>2, <1>3, <1>7, <1>8
    DEF AbstractLease!Grant, AbstractLease!Held, AbstractLease!RunIds, RunIds, Attempts

LEMMA StartRunBegins ==
  ASSUME LifecycleInv, NEW t \in Tasks, NEW r \in RunIds, NEW tok \in Tokens,
         StartRun(t, r, tok)
  PROVE  AbstractLease!Begin(t)
  <1>1. /\ task[t].current = r /\ r # NULL
        /\ task[t].state = "leased"
        /\ SettleCurrentRun(t, "running")
        /\ task' = [task EXCEPT ![t] = Moved(@, "running")]
    BY NullAssumption DEF StartRun, CurrentLease
  <1>2. run[r].status = "leased"
    BY <1>1, NamedRun DEF Leased
  <1>3. \A u \in Tasks : /\ task'[u].attempts = task[u].attempts
                         /\ task'[u].current = task[u].current
    BY <1>1 DEF LifecycleInv, TypeOK, TaskRows, Moved
  <1>4. run'[r].status = "running" /\ \A q \in RunIds \ {r} : run'[q].status = run[q].status
    BY <1>1, <1>2, Settled
  <1>5. /\ AbstractLease!Ended(t, "running")
        /\ AbstractLease!Held(t)
        /\ [q \in RunIds |-> run[q].status][[u \in Tasks |-> task[u].current][t]] = "leased"
    BY <1>1, <1>2, <1>3, <1>4, LeaseEnded
  <1>6. [u \in Tasks |-> task'[u].current] = [u \in Tasks |-> task[u].current]
    BY <1>3
  <1>7. QED
    BY <1>5, <1>6 DEF AbstractLease!Ended, AbstractLease!Begin

LEMMA RecordResultReports ==
  ASSUME LifecycleInv, NEW t \in Tasks, NEW r \in RunIds, NEW tok \in Tokens,
         NEW outcome \in {"completed", "failed"}, RecordResult(t, r, tok, outcome)
  PROVE  AbstractLease!Report(t, outcome)
  <1>1. /\ task[t].current = r /\ r # NULL
        /\ task[t].state = "running"
        /\ run' = [run EXCEPT ![r].status = outcome]
    BY NullAssumption DEF RecordResult, ResultAdmissible
  <1>2. PICK next : task' = [task EXCEPT ![t] = Released(@, next)]
    BY DEF RecordResult
  <1>3. run[r].status = "running"
    BY <1>1, NamedRun DEF Leased
  <1>4. /\ \A u \in Tasks : task'[u].attempts = task[u].attempts
        /\ task'[t].current = NULL
        /\ \A u \in Tasks \ {t} : task'[u].current = task[u].current
    BY <1>2 DEF LifecycleInv, TypeOK, TaskRows, Released
  <1>5. run'[r].status = outcome /\ \A q \in RunIds \ {r} : run'[q].status = run[q].status
    BY <1>1 DEF LifecycleInv, TypeOK, RunRows
  <1>6. QED
    BY <1>1, <1>3, <1>4, <1>5, LeaseEnded, LeaseFreed DEF AbstractLease!Report

\* A result that comes late ends the run the task still names, once.
LEMMA QuarantineResultQuarantines ==
  ASSUME LifecycleInv, NEW t \in Tasks, NEW r \in RunIds, NEW tok \in Tokens,
         QuarantineResult(t, r, tok)
  PROVE  AbstractLease!Quarantine(t) \/ UNCHANGED AbstractLease!leaseVars
  <1>1. /\ task[t].current = r /\ r # NULL
        /\ run' = [run EXCEPT ![r].status = "completed_after_cancel"]
        /\ UNCHANGED task
    BY NullAssumption DEF QuarantineResult, ResultAdmissible
  <1>2. /\ run'[r].status = "completed_after_cancel"
        /\ \A q \in RunIds \ {r} : run'[q].status = run[q].status
    BY <1>1 DEF LifecycleInv, TypeOK, RunRows
  <1>3. CASE run[r].status = "completed_after_cancel"
    BY <1>1, <1>2, <1>3, LeaseStutters
  <1>4. CASE run[r].status \in AbstractLease!Open
    BY <1>1, <1>2, <1>4, LeaseEnded DEF AbstractLease!Quarantine
  <1>5. QED
    BY <1>1, <1>3, <1>4, NamedRun

\* A command that gives up the lease and settles the run: by an outcome, or
\* leaving what is on record of a quarantined one.
LEMMA SettledAndFreed ==
  ASSUME LifecycleInv, NEW t \in Tasks, NEW outcome \in {"expired", "cancelled"},
         NEW next, task' = [task EXCEPT ![t] = Released(@, next)],
         SettleCurrentRun(t, outcome)
  PROVE  \/ AbstractLease!Withdraw(t, outcome)
         \/ AbstractLease!TakeBack(t)
         \/ UNCHANGED AbstractLease!leaseVars
  <1>1. /\ \A u \in Tasks : task'[u].attempts = task[u].attempts
        /\ task'[t].current = NULL
        /\ \A u \in Tasks \ {t} : task'[u].current = task[u].current
    BY DEF LifecycleInv, TypeOK, TaskRows, Released
  <1>2. CASE task[t].current = NULL
    <2>1. \A q \in RunIds : run'[q].status = run[q].status
      BY <1>2, NullAssumption DEF SettleCurrentRun
    <2>2. QED
      BY <1>1, <1>2, <2>1, LeaseStutters
  <1>3. CASE task[t].current # NULL
    <2> DEFINE r == task[t].current
    <2>1. r \in RunIds
      BY <1>3, NamedRun
    <2>2. AbstractLease!Freed(t)
      BY <1>1, LeaseFreed
    <2>3. CASE run[r].status = "completed_after_cancel"
      <3>1. \A q \in RunIds : run'[q].status = run[q].status
        BY <2>1, <2>3, Settled
      <3>2. QED
        BY <1>1, <1>3, <2>2, <3>1 DEF AbstractLease!TakeBack, AbstractLease!Held
    <2>4. CASE run[r].status \in AbstractLease!Open
      <3>1. run'[r].status = outcome /\ \A q \in RunIds \ {r} : run'[q].status = run[q].status
        BY <2>1, <2>4, Settled DEF AbstractLease!Open
      <3>2. QED
        BY <1>1, <2>1, <2>2, <2>4, <3>1, LeaseEnded DEF AbstractLease!Withdraw
    <2>5. QED
      BY <1>3, <2>3, <2>4, NamedRun
  <1>4. QED
    BY <1>2, <1>3

\* A command that gives up a lease, if there is one, and settles nothing.
LEMMA OnlyFreed ==
  ASSUME LifecycleInv, NEW t \in Tasks, NEW next,
         task' = [task EXCEPT ![t] = Released(@, next)], UNCHANGED run
  PROVE  AbstractLease!TakeBack(t) \/ UNCHANGED AbstractLease!leaseVars
  <1>1. /\ \A u \in Tasks : task'[u].attempts = task[u].attempts
        /\ task'[t].current = NULL
        /\ \A u \in Tasks \ {t} : task'[u].current = task[u].current
    BY DEF LifecycleInv, TypeOK, TaskRows, Released
  <1>2. CASE task[t].current = NULL
    BY <1>1, <1>2, LeaseStutters
  <1>3. CASE task[t].current # NULL
    BY <1>1, <1>3, LeaseFreed DEF AbstractLease!TakeBack, AbstractLease!Held
  <1>4. QED
    BY <1>2, <1>3

\* A command that writes neither the attempts nor the current run of a task.
LEMMA RowKept ==
  ASSUME LifecycleInv, NEW t \in Tasks, NEW row, task' = [task EXCEPT ![t] = row],
         row.attempts = task[t].attempts, row.current = task[t].current,
         UNCHANGED run
  PROVE  UNCHANGED AbstractLease!leaseVars
  <1>1. \A u \in Tasks : /\ task'[u].attempts = task[u].attempts
                         /\ task'[u].current = task[u].current
    BY DEF LifecycleInv, TypeOK
  <1>2. QED
    BY <1>1, LeaseStutters

\* Every command on a task is a step of its lease, or none.
LEMMA TaskCommandLease ==
  ASSUME LifecycleInv, NEW t \in Tasks,
         Plan(t) \/ Work(t) \/ Operate(t) \/ Check(t)
  PROVE  AbstractLease!Next \/ UNCHANGED AbstractLease!leaseVars
  <1>1. /\ task \in [Tasks -> TaskRows] /\ task[t] \in TaskRows
        /\ RowCoherent(t)
    BY DEF LifecycleInv, TypeOK
  <1>2. CASE Plan(t)
    <2>1. ASSUME NEW ceiling \in Attempts, CreateTask(t, ceiling)
          PROVE  UNCHANGED AbstractLease!leaseVars
      <3>1. task[t].attempts = 0 /\ task[t].current = NULL
        BY <1>1, <2>1, NamedRun DEF CreateTask, RowCoherent, RunsCounted, Leased
      <3>2. Proposed(ceiling).attempts = 0 /\ Proposed(ceiling).current = NULL
        BY DEF Proposed, NoTask
      <3>3. QED
        BY <2>1, <3>1, <3>2, RowKept DEF CreateTask
    <2>2. CASE SetTaskReady(t)
      <3>1. /\ Moved(task[t], "ready").attempts = task[t].attempts
            /\ Moved(task[t], "ready").current = task[t].current
        BY <1>1 DEF Moved, TaskRows
      <3>2. QED
        BY <2>2, <3>1, RowKept DEF SetTaskReady
    <2>3. CASE RequestTaskApproval(t)
      <3>1. /\ Moved(task[t], "awaiting_approval").attempts = task[t].attempts
            /\ Moved(task[t], "awaiting_approval").current = task[t].current
        BY <1>1 DEF Moved, TaskRows
      <3>2. QED
        BY <2>3, <3>1, RowKept DEF RequestTaskApproval
    <2>4. QED
      BY <1>2, <2>1, <2>2, <2>3 DEF Plan
  <1>3. CASE Work(t)
    <2>1. ASSUME NEW r \in RunIds, NEW tok \in Tokens, NEW a \in Actions,
                 PrepareAction(a, t, r, tok)
          PROVE  UNCHANGED AbstractLease!leaseVars
      BY <2>1, LeaseStutters DEF PrepareAction
    <2>2. QED
      BY <1>3, <2>1, LeaseTaskGrants, StartRunBegins, RecordResultReports,
         QuarantineResultQuarantines
      DEF Work, SubmitResult, AbstractLease!Next
  <1>4. CASE Operate(t)
    <2>1. ASSUME NEW safe \in BOOLEAN, NEW asOf \in {now} \cup SuppliedTimes,
                 ExpireLease(t, safe, asOf)
          PROVE  AbstractLease!Next \/ UNCHANGED AbstractLease!leaseVars
      <3>1. /\ \E next : task' = [task EXCEPT ![t] = Released(@, next)]
            /\ SettleCurrentRun(t, "expired")
        BY <2>1 DEF ExpireLease
      <3>2. QED
        BY <3>1, SettledAndFreed DEF AbstractLease!Next
    <2>2. CASE RequestCancellation(t)
      <3>1. CASE task' = [task EXCEPT ![t] = Released(@, "cancelled")]
        BY <2>2, <3>1, OnlyFreed DEF RequestCancellation, AbstractLease!Next
      <3>2. CASE task' = [task EXCEPT ![t] = Fenced(@, "cancellation_requested")]
        <4>1. /\ Fenced(task[t], "cancellation_requested").attempts = task[t].attempts
              /\ Fenced(task[t], "cancellation_requested").current = task[t].current
          BY <1>1 DEF Fenced, TaskRows
        <4>2. QED
          BY <2>2, <3>2, <4>1, RowKept DEF RequestCancellation
      <3>3. QED
        BY <2>2, <3>1, <3>2 DEF RequestCancellation
    <2>3. CASE ConfirmCancellation(t)
      BY <2>3, SettledAndFreed DEF ConfirmCancellation, AbstractLease!Next
    <2>4. CASE ResumeAfterReconciliation(t)
      <3>1. CASE task' = [task EXCEPT ![t] = Released(@, "ready")]
        BY <2>4, <3>1, OnlyFreed DEF ResumeAfterReconciliation, AbstractLease!Next
      <3>2. CASE task' = [task EXCEPT ![t] = Moved(@, "review")]
        <4>1. /\ Moved(task[t], "review").attempts = task[t].attempts
              /\ Moved(task[t], "review").current = task[t].current
          BY <1>1 DEF Moved, TaskRows
        <4>2. QED
          BY <2>4, <3>2, <4>1, RowKept DEF ResumeAfterReconciliation
      <3>3. QED
        BY <2>4, <3>1, <3>2 DEF ResumeAfterReconciliation
    <2>5. QED
      BY <1>4, <2>1, <2>2, <2>3, <2>4 DEF Operate
  <1>5. CASE Check(t)
    <2>1. ASSUME NEW d \in {"accepted", "rejected", "changes_requested"}, ReviewTask(t, d)
          PROVE  UNCHANGED AbstractLease!leaseVars
      <3>1. /\ Moved(task[t], d).attempts = task[t].attempts
            /\ Moved(task[t], d).current = task[t].current
        BY <1>1 DEF Moved, TaskRows
      <3>2. QED
        BY <2>1, <3>1, RowKept DEF ReviewTask
    <2>2. ASSUME NEW ceiling \in Attempts, ReviseTask(t, ceiling)
          PROVE  UNCHANGED AbstractLease!leaseVars
      <3>1. /\ Revised(task[t], ceiling).attempts = task[t].attempts
            /\ Revised(task[t], ceiling).current = task[t].current
        BY <1>1 DEF Revised, TaskRows
      <3>2. QED
        BY <2>2, <3>1, RowKept DEF ReviseTask
    <2>3. QED
      BY <1>5, <2>1, <2>2 DEF Check
  <1>6. QED
    BY <1>2, <1>3, <1>4, <1>5

LEMMA LeaseStep ==
  ASSUME LifecycleInv, [Next]_vars
  PROVE  [AbstractLease!Next]_AbstractLease!leaseVars
  <1>1. CASE \E t \in Tasks : Plan(t) \/ Work(t) \/ Operate(t) \/ Check(t)
    BY <1>1, TaskCommandLease
  <1>2. ASSUME NEW a \in Actions, Deliver(a)
        PROVE  UNCHANGED AbstractLease!leaseVars
    <2>1. UNCHANGED run
      BY <1>2 DEF Deliver, BeginActionDispatch, ReconcileAction
    <2>2. ASSUME NEW row \in TaskRows
          PROVE  /\ Escalated(row).attempts = row.attempts
                 /\ Escalated(row).current = row.current
      BY DEF Escalated, Fenced, TaskRows
    <2>3. \A u \in Tasks : task'[u] = task[u] \/ task'[u] = Escalated(task[u])
      BY <1>2
      DEF Deliver, BeginActionDispatch, ReconcileAction, LifecycleInv, TypeOK
    <2>4. \A u \in Tasks : /\ task'[u].attempts = task[u].attempts
                           /\ task'[u].current = task[u].current
      BY <2>2, <2>3 DEF LifecycleInv, TypeOK
    <2>5. QED
      BY <2>1, <2>4, LeaseStutters
  <1>3. CASE Tick \/ Closed \/ UNCHANGED vars
    BY <1>3, LeaseStutters DEF Tick, Closed, vars
  <1>4. QED
    BY <1>1, <1>2, <1>3 DEF Next

\* The commands of Core, in any order, by anyone and at any time, implement
\* Lease: a task is granted to one attempt at a time, and a run that is not
\* the holder's, or has ended, keeps its status.
THEOREM LifecycleImplementsLease == Spec => ImplementsLease
  <1>1. LifecycleInv /\ [Next]_vars => [AbstractLease!Next]_AbstractLease!leaseVars
    BY LeaseStep
  <1>2. QED
    BY <1>1, LeaseInit, InvHolds, PTL DEF Spec, ImplementsLease, AbstractLease!Spec

=============================================================================
