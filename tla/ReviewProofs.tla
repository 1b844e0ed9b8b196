---------------------------- MODULE ReviewProofs ----------------------------
(***************************************************************************)
(* Theorems about Review, for every set of tasks, actions, callers and     *)
(* reviewers and every bound: what is accepted passes its checks, decisions*)
(* fall on the newest run, and the record of a decision that closed a task *)
(* is filed under that decision's own id.                                  *)
(*                                                                         *)
(* A step of Review is a step of TaskLifecycle, whose invariant is used    *)
(* throughout.                                                             *)
(***************************************************************************)
EXTENDS Review, TaskLifecycleProofs

-----------------------------------------------------------------------------
(* What the commands of Core do to a task.                                 *)

Commands(t) ==
    \/ Plan(t) \/ Work(t) \/ Operate(t)
    \/ \E ceiling \in Attempts : ReviseTask(t, ceiling)

\* No command but a review accepts a task.
RowEffect(t) == task'[t] # task[t] => task'[t].state # "accepted"

\* The rows Released, Fenced and Moved write.
LEMMA RowOperators ==
  ASSUME NEW row \in TaskRows, NEW s \in TaskStates
  PROVE  /\ Moved(row, s).state = s
         /\ Fenced(row, s).state = s
         /\ Released(row, s).state = s
  BY DEF TaskRows, Moved, Fenced, Released

\* A command on a task has that effect on it.
LEMMA CommandEffects ==
  ASSUME TypeOK, NEW t \in Tasks, Commands(t)
  PROVE  RowEffect(t)
  <1>1. task[t] \in TaskRows /\ task \in [Tasks -> TaskRows]
    BY DEF TypeOK
  <1>2. CASE Plan(t)
    <2>1. ASSUME NEW ceiling \in Attempts, CreateTask(t, ceiling)
          PROVE  RowEffect(t)
      BY <1>1, <2>1 DEF CreateTask, Proposed, NoTask, RowEffect
    <2>2. CASE SetTaskReady(t)
      BY <1>1, <2>2, RowOperators DEF SetTaskReady, RowEffect, TaskStates
    <2>3. CASE RequestTaskApproval(t)
      BY <1>1, <2>3, RowOperators DEF RequestTaskApproval, RowEffect, TaskStates
    <2>4. QED
      BY <1>2, <2>1, <2>2, <2>3 DEF Plan
  <1>3. CASE Work(t)
    <2>1. ASSUME NEW expiry \in Times, LeaseTask(t, expiry)
          PROVE  RowEffect(t)
      <3> DEFINE r == <<t, task[t].attempts + 1>>
      <3>1. task'[t] = LeasedAs(task[t], r, expiry)
        BY <1>1, <2>1 DEF LeaseTask
      <3> HIDE DEF r
      <3>2. task'[t].state = "leased"
        BY <1>1, <3>1 DEF LeasedAs, TaskRows
      <3>3. QED
        BY <3>2 DEF RowEffect
    <2>2. ASSUME NEW r \in RunIds, NEW tok \in Tokens, StartRun(t, r, tok)
          PROVE  RowEffect(t)
      BY <1>1, <2>2, RowOperators DEF StartRun, RowEffect, TaskStates
    <2>3. ASSUME NEW r \in RunIds, NEW tok \in Tokens,
                 NEW outcome \in {"completed", "failed"},
                 SubmitResult(t, r, tok, outcome)
          PROVE  RowEffect(t)
      <3>1. NextStateAfterResult(t, r, outcome)
              \in TaskStates \ {"accepted"}
        BY DEF NextStateAfterResult, TaskStates
      <3>2. QED
        BY <1>1, <2>3, <3>1, RowOperators
        DEF SubmitResult, RecordResult, QuarantineResult, RowEffect
    <2>4. ASSUME NEW r \in RunIds, NEW tok \in Tokens, NEW a \in Actions,
                 PrepareAction(a, t, r, tok)
          PROVE  RowEffect(t)
      BY <2>4 DEF PrepareAction, RowEffect
    <2>5. QED
      BY <1>3, <2>1, <2>2, <2>3, <2>4 DEF Work
  <1>4. CASE Operate(t)
    <2>1. ASSUME NEW safe \in BOOLEAN, NEW asOf \in {now} \cup SuppliedTimes,
                 ExpireLease(t, safe, asOf)
          PROVE  RowEffect(t)
      <3>1. PICK s \in {"needs_reconciliation", "failed_terminal", "ready"} :
               task'[t] = Released(task[t], s)
        BY <1>1, <2>1 DEF ExpireLease
      <3>2. QED
        BY <1>1, <3>1, RowOperators DEF RowEffect, TaskStates
    <2>2. CASE RequestCancellation(t)
      <3>1. \/ task'[t] = Released(task[t], "cancelled")
            \/ task'[t] = Fenced(task[t], "cancellation_requested")
        BY <1>1, <2>2 DEF RequestCancellation
      <3>2. QED
        BY <1>1, <3>1, RowOperators DEF RowEffect, TaskStates
    <2>3. CASE ConfirmCancellation(t)
      BY <1>1, <2>3, RowOperators DEF ConfirmCancellation, RowEffect, TaskStates
    <2>4. CASE ResumeAfterReconciliation(t)
      <3>1. \/ task'[t] = Moved(task[t], "review")
            \/ task'[t] = Released(task[t], "ready")
        BY <1>1, <2>4 DEF ResumeAfterReconciliation
      <3>2. QED
        BY <1>1, <3>1, RowOperators DEF RowEffect, TaskStates
    <2>5. QED
      BY <1>4, <2>1, <2>2, <2>3, <2>4 DEF Operate
  <1>5. ASSUME NEW ceiling \in Attempts, ReviseTask(t, ceiling)
        PROVE  RowEffect(t)
    <2>1. task'[t] = Revised(task[t], ceiling)
      BY <1>1, <1>5 DEF ReviseTask
    <2>2. task'[t].state = "ready"
      BY <1>1, <2>1 DEF Revised, TaskRows
    <2>3. QED
      BY <1>5, <2>2 DEF RowEffect, ReviseTask
  <1>6. QED
    BY <1>2, <1>3, <1>4, <1>5 DEF Commands

\* The commands of Core are steps of TaskLifecycle.
LEMMA CoreIsNext == CoreCommand => [Next]_vars
  BY DEF CoreCommand, Next, Check

\* So has any command, on every task.
LEMMA CoreEffects ==
  ASSUME LifecycleInv, CoreCommand, NEW u \in Tasks
  PROVE  RowEffect(u)
  <1>1. TypeOK
    BY DEF LifecycleInv
  <1>2. ASSUME NEW t \in Tasks, Commands(t)
        PROVE  RowEffect(u)
    <2>1. TaskWrite(t)
      BY <1>2, TaskCommandWrites DEF Commands, Check
    <2>2. CASE u = t
      BY <1>1, <1>2, <2>2, CommandEffects
    <2>3. CASE u # t
      BY <2>1, <2>3 DEF TaskWrite, RowEffect
    <2>4. QED
      BY <2>2, <2>3
  <1>3. ASSUME NEW a \in Actions, Deliver(a)
        PROVE  RowEffect(u)
    <2>1. \/ task'[u] = task[u]
          \/ task'[u] = Fenced(task[u], "needs_reconciliation")
      BY <1>1, <1>3
      DEF Deliver, BeginActionDispatch, ReconcileAction, Escalated, TypeOK
    <2>2. QED
      BY <1>1, <2>1, RowOperators DEF TypeOK, RowEffect, TaskStates
  <1>4. CASE Tick
    BY <1>4 DEF Tick, RowEffect
  <1>5. QED
    BY <1>2, <1>3, <1>4 DEF CoreCommand, Commands

-----------------------------------------------------------------------------
(* What stands while a task's row does.                                    *)

\* An action is inserted for the run that is at work.
LEMMA PreparedAtWork ==
  ASSUME LifecycleInv, [Next]_vars, NEW a \in Actions,
         action[a].state = "none", action'[a] # action[a]
  PROVE  \E t \in Tasks : /\ task[t].state = "running"
                          /\ task[t].current = action'[a].run
                          /\ action'[a].run \in RunIds
  <1>1. TypeOK
    BY DEF LifecycleInv
  <1>2. ASSUME NEW t \in Tasks,
               Plan(t) \/ Work(t) \/ Operate(t) \/ Check(t)
        PROVE  /\ task[t].state = "running"
               /\ task[t].current = action'[a].run
               /\ action'[a].run \in RunIds
    <2>1. PICK r \in RunIds, tok \in Tokens, b \in Actions :
             PrepareAction(b, t, r, tok)
      BY <1>2, TaskCommandPrepares
    <2>2. b = a /\ action'[a].run = r
      BY <1>1, <2>1 DEF PrepareAction, NoAction, TypeOK
    <2>3. QED
      BY <2>1, <2>2 DEF PrepareAction, CurrentLease
  <1>3. ASSUME NEW b \in Actions, Deliver(b)
        PROVE  FALSE
    <2>1. b = a
      BY <1>1, <1>3 DEF Deliver, BeginActionDispatch, ReconcileAction, TypeOK
    <2>2. QED
      BY <1>3, <2>1
      DEF Deliver, BeginActionDispatch, ReconcileAction, DispatchFrom,
          OutcomeFrom, Unresolved, Uncertain
  <1>4. QED
    BY <1>2, <1>3 DEF Next, Tick, Closed, vars

\* A task under review, or accepted, names no run as current.
LEMMA ReviewedAtRest ==
  ASSUME LifecycleInv, NEW t \in Tasks, task[t].state \in Reviewed
  PROVE  task[t].current = NULL
  <1>1. RowCoherent(t)
    BY DEF LifecycleInv
  <1>2. QED
    BY <1>1 DEF RowCoherent, NewestCompleted, CurrentIsNewest, Reviewed

\* While the row of a task under review stays as it is, its newest run stays
\* the newest and as it is.
LEMMA NewestStands ==
  ASSUME LifecycleInv, [Next]_vars, NEW t \in Tasks, NEW n \in Attempts,
         task'[t] = task[t], task[t].state \in Reviewed, IsLatestRun(t, n)
  PROVE  IsLatestRun(t, n)' /\ run'[<<t, n>>] = run[<<t, n>>]
  <1>1. RowCoherent(t) /\ RowCoherent(t)'
    BY InvStep DEF LifecycleInv
  <1>2. RunsOf(t)' = RunsOf(t)
    BY <1>1 DEF RowCoherent, RunsCounted, RunsOf
  <1>3. run'[<<t, n>>] = run[<<t, n>>]
    <2>1. task[t].current = NULL
      BY ReviewedAtRest
    <2>2. <<t, n>> \in RunIds /\ <<t, n>>[1] = t
      BY DEF RunIds
    <2>3. run[<<t, n>>].status # "none"
      BY DEF IsLatestRun, RunsOf
    <2>4. QED
      BY <2>1, <2>2, <2>3, InertStep, NullAssumption
  <1>4. QED
    BY <1>2, <1>3 DEF IsLatestRun

\* A run of a task under review that has no open action gets none.
LEMMA NoneReopens ==
  ASSUME LifecycleInv, [Next]_vars, NEW t \in Tasks, NEW n \in Attempts,
         task[t].state \in Reviewed, ~RunHasAction(<<t, n>>, Unresolved)
  PROVE  ~RunHasAction(<<t, n>>, Unresolved)'
  <1> SUFFICES ASSUME NEW a \in Actions, action'[a].run = <<t, n>>,
                      action'[a].state \in Unresolved
               PROVE  FALSE
    BY DEF RunHasAction
  <1>1. TypeOK /\ TypeOK'
    BY InvStep DEF LifecycleInv
  <1>2. action'[a] # action[a]
    BY DEF RunHasAction
  <1>3. CASE action[a].state = "none"
    <2>1. PICK u \in Tasks : /\ task[u].state = "running"
                             /\ task[u].current = <<t, n>>
      BY <1>2, <1>3, PreparedAtWork
    <2>2. RowCoherent(u) /\ <<t, n>> # NULL
      BY NullAssumption DEF LifecycleInv, RunIds
    <2>3. u = t
      BY <2>1, <2>2 DEF RowCoherent, CurrentIsNewest
    <2>4. QED
      BY <2>1, <2>3 DEF Reviewed
  <1>4. CASE action[a].state # "none"
    <2>1. /\ action[a].run = <<t, n>>
          /\ ActionRank(action'[a].state) > ActionRank(action[a].state)
      BY <1>1, <1>2, <1>4, ForwardStep
    <2>2. action[a].state \in {"confirmed", "failed", "compensated"}
      BY <1>1, <1>4, <2>1
      DEF RunHasAction, TypeOK, ActionRows, ActionStates, Unresolved, Uncertain
    <2>3. ActionRank(action[a].state) \in {4, 5}
      BY <2>2 DEF ActionRank
    <2>4. ActionRank(action'[a].state) \in {1, 2, 3}
      BY DEF ActionRank, Unresolved, Uncertain
    <2>5. QED
      BY <2>1, <2>3, <2>4
  <1>5. QED
    BY <1>3, <1>4

\* So what passes its checks goes on passing them.
LEMMA ChecksStand ==
  ASSUME LifecycleInv, [Next]_vars, evidence \subseteq evidence',
         NEW t \in Tasks, NEW n \in Attempts, task'[t] = task[t],
         task[t].state \in Reviewed, IsLatestRun(t, n), ChecksPass(<<t, n>>)
  PROVE  ChecksPass(<<t, n>>)'
  BY NewestStands, NoneReopens DEF ChecksPass

-----------------------------------------------------------------------------
(* The inductive invariant.                                                *)

CallRows ==
    [step : {"none", "decide", "read", "record"}, task : Tasks \cup {NULL},
     run : RunIds \cup {NULL}, agent : Reviewers \cup {NULL},
     decision : Decisions \cup {NULL}, moved : BOOLEAN,
     review : ReviewIds \cup {NULL}]

ReviewRows ==
    [task : Tasks, run : RunIds, agent : Reviewers, decision : Decisions,
     by : Callers]

RecordRows ==
    [run : RunIds, agent : Reviewers, decision : Decisions, by : Callers]

ReviewTypes ==
    /\ manifest \in [Reviewers -> [Versions -> Manifests \cup {NULL}]]
    /\ call \in [Callers -> CallRows]
    /\ reviewed \in Seq(ReviewRows)
    /\ Len(reviewed) <= MaxReviews
    /\ latest \in [Tasks -> ReviewIds \cup {NULL}]
    /\ record \in [ReviewIds -> RecordRows \cup {NULL}]

\* The decisions after which a task is closed.
Closing == {"accepted", "rejected"}

\* The review event of the decision a caller's row is about.
DecisionOf(c, row) ==
    [task |-> row.task, run |-> row.run, agent |-> row.agent,
     decision |-> row.decision, by |-> c]

\* What a caller's row names.
NamesReview(row) ==
    row.step # "none" =>
        /\ row.task \in Tasks
        /\ row.run \in RunIds
        /\ row.agent \in Reviewers
        /\ row.decision \in Decisions

\* What CheckReview found still holds, unless the task's row has moved.
CheckHolds(row) ==
    row.step = "decide" /\ ~row.moved =>
        /\ task[row.task].state = "review"
        /\ \E n \in Attempts :
              /\ row.run = <<row.task, n>>
              /\ IsLatestRun(row.task, n)
              /\ row.decision = "accepted" => ChecksPass(row.run)

\* The task a caller closed is as the caller left it, its last event the
\* caller's decision.  One sent back may have moved on.
CloseStands(c, row) ==
    row.step = "read" /\ row.decision \in Closing =>
        /\ task[row.task].state = row.decision
        /\ latest[row.task] \in 1 .. Len(reviewed)
        /\ reviewed[latest[row.task]] = DecisionOf(c, row)

\* So the id the caller reads is its own decision's.
IdRead(c, row) ==
    row.step = "record" /\ row.decision \in Closing =>
        /\ row.review \in 1 .. Len(reviewed)
        /\ reviewed[row.review] = DecisionOf(c, row)

Sound(c, row) ==
    NamesReview(row) /\ CheckHolds(row) /\ CloseStands(c, row) /\ IdRead(c, row)

ReviewInv ==
    /\ LifecycleInv
    /\ ReviewTypes
    /\ \A c \in Callers : Sound(c, call[c])
    /\ AcceptedWorkPasses
    /\ ClosingRecordsAgree

-----------------------------------------------------------------------------
(* Lemmas of the steps.                                                    *)

\* Every step of Review is one of TaskLifecycle, or leaves its tables alone.
LEMMA ReviewIsNext ==
  ASSUME ReviewInv, [ReviewNext]_allVars
  PROVE  [Next]_vars
  <1>1. CASE CoreCommand
    BY <1>1, CoreIsNext
  <1>2. CASE Register
    BY <1>2 DEF Register, RegisterManifest
  <1>3. ASSUME NEW c \in Callers, ReviewStep(c)
        PROVE  [Next]_vars
    <2>1. CASE Decide(c)
      <3>1. ReviewTask(call[c].task, call[c].decision)
        BY <2>1 DEF Decide
      <3>2. call[c].task \in Tasks /\ call[c].decision \in Decisions
        BY <1>3, <2>1 DEF Decide, ReviewInv, Sound, NamesReview
      <3>3. QED
        BY <3>1, <3>2 DEF Next, Check, Decisions
    <2>2. QED
      BY <1>3, <2>1
      DEF ReviewStep, CheckReview, ReadEvent, Record, GiveUp
  <1>4. QED
    BY <1>1, <1>2, <1>3 DEF ReviewNext, allVars

\* A row that is told that its task moved stays sound.
LEMMA SoundMoved ==
  ASSUME NEW c \in Callers, NEW row \in CallRows, Sound(c, row)
  PROVE  /\ [row EXCEPT !.moved = TRUE] \in CallRows
         /\ Sound(c, [row EXCEPT !.moved = TRUE])
  <1> DEFINE told == [row EXCEPT !.moved = TRUE]
  <1>1. /\ told \in CallRows
        /\ told.step = row.step /\ told.task = row.task /\ told.run = row.run
        /\ told.agent = row.agent /\ told.decision = row.decision
        /\ told.review = row.review /\ told.moved = TRUE
    BY DEF CallRows
  <1> HIDE DEF told
  <1>2. Sound(c, told)
    BY <1>1
    DEF Sound, NamesReview, CheckHolds, CloseStands, IdRead, DecisionOf
  <1>3. QED
    BY <1>1, <1>2 DEF told

\* Evidence and reviews only grow, and a task whose row stays keeps its last
\* event.
Grows ==
    /\ evidence \subseteq evidence'
    /\ Len(reviewed) \in Nat /\ Len(reviewed') \in Nat
    /\ Len(reviewed) <= Len(reviewed')
    /\ \A i \in 1 .. Len(reviewed) : reviewed'[i] = reviewed[i]
    /\ \A t \in Tasks : task'[t] = task[t] => latest'[t] = latest[t]

\* Then a sound row stays so, if it does not rely on a task that moved.
LEMMA SoundStands ==
  ASSUME LifecycleInv, [Next]_vars, NEW c \in Callers, NEW row \in CallRows,
         Grows, Sound(c, row),
         row.step = "decide" /\ ~row.moved => task'[row.task] = task[row.task]
  PROVE  Sound(c, row)'
  <1>1. NamesReview(row)'
    BY DEF Sound, NamesReview
  <1>2. CheckHolds(row)'
    <2> SUFFICES ASSUME row.step = "decide", ~row.moved
                 PROVE  CheckHolds(row)'
      BY DEF CheckHolds
    <2>1. row.task \in Tasks
      BY DEF Sound, NamesReview
    <2>2. task'[row.task] = task[row.task] /\ task[row.task].state = "review"
      BY DEF Sound, CheckHolds
    <2>3. PICK n \in Attempts :
            /\ row.run = <<row.task, n>>
            /\ IsLatestRun(row.task, n)
            /\ row.decision = "accepted" => ChecksPass(row.run)
      BY DEF Sound, CheckHolds
    <2>4. IsLatestRun(row.task, n)'
      BY <2>1, <2>2, <2>3, NewestStands DEF Reviewed
    <2>5. row.decision = "accepted" => ChecksPass(row.run)'
      BY <2>1, <2>2, <2>3, ChecksStand DEF Reviewed, Grows
    <2>6. QED
      BY <2>2, <2>3, <2>4, <2>5 DEF CheckHolds
  <1>3. CloseStands(c, row)'
    <2> SUFFICES ASSUME row.step = "read", row.decision \in Closing
                 PROVE  CloseStands(c, row)'
      BY DEF CloseStands
    <2>1. /\ row.task \in Tasks
          /\ task[row.task].state = row.decision
          /\ latest[row.task] \in 1 .. Len(reviewed)
          /\ reviewed[latest[row.task]] = DecisionOf(c, row)
      BY DEF Sound, NamesReview, CloseStands
    <2>2. task'[row.task] = task[row.task]
      BY <2>1, TerminalStep DEF Closing, TaskTerminal
    <2>3. latest'[row.task] = latest[row.task]
      BY <2>1, <2>2 DEF Grows
    <2>4. latest[row.task] \in 1 .. Len(reviewed')
      BY <2>1 DEF Grows
    <2>5. reviewed'[latest[row.task]] = DecisionOf(c, row)
      BY <2>1 DEF Grows
    <2>6. QED
      BY <2>1, <2>2, <2>3, <2>4, <2>5 DEF CloseStands, DecisionOf
  <1>4. IdRead(c, row)'
    BY DEF Sound, IdRead, Grows, DecisionOf
  <1>5. QED
    BY <1>1, <1>2, <1>3, <1>4 DEF Sound

\* The rest of the invariant over a step that decides nothing.
LEMMA UndecidedStep ==
  ASSUME ReviewInv, [Next]_vars, ReviewTypes',
         \A c \in Callers : Sound(c, call[c])',
         UNCHANGED task, evidence \subseteq evidence', ClosingRecordsAgree'
  PROVE  ReviewInv'
  <1>1. LifecycleInv /\ LifecycleInv'
    BY InvStep DEF ReviewInv
  <1>2. AcceptedWorkPasses'
    BY <1>1, NewestStands, ChecksStand
    DEF ReviewInv, AcceptedWorkPasses, Reviewed
  <1>3. QED
    BY <1>1, <1>2 DEF ReviewInv

\* A step that writes at most the callers' rows, soundly.
LEMMA CallStep ==
  ASSUME ReviewInv, call' \in [Callers -> CallRows],
         \A c \in Callers : Sound(c, call'[c]),
         UNCHANGED <<vars, evidence, reviewed, latest, record>>,
         manifest' \in [Reviewers -> [Versions -> Manifests \cup {NULL}]]
  PROVE  ReviewInv'
  <1>1. LifecycleInv /\ [Next]_vars /\ ReviewTypes /\ Len(reviewed) \in Nat
    BY DEF ReviewInv, ReviewTypes
  <1>2. ReviewTypes'
    BY <1>1 DEF ReviewTypes
  <1>3. UNCHANGED task /\ Grows
    BY <1>1 DEF vars, Grows
  <1>4. ASSUME NEW c \in Callers
        PROVE  Sound(c, call[c])'
    <2>1. call'[c] \in CallRows /\ Sound(c, call'[c])
      OBVIOUS
    <2>2. QED
      BY <1>1, <1>3, <2>1, SoundStands
  <1>5. ClosingRecordsAgree'
    BY DEF ReviewInv, ClosingRecordsAgree
  <1>6. QED
    BY <1>1, <1>2, <1>3, <1>4, <1>5, UndecidedStep

\* A step of one caller that writes only its own row, soundly.
LEMMA CallerStep ==
  ASSUME ReviewInv, NEW c \in Callers, NEW row \in CallRows, Sound(c, row),
         call' = [call EXCEPT ![c] = row],
         UNCHANGED <<vars, manifest, evidence, reviewed, latest, record>>
  PROVE  ReviewInv'
  BY CallStep DEF ReviewInv, ReviewTypes

\* An idle row is sound.
LEMMA IdleSound ==
  ASSUME NEW c \in Callers
  PROVE  NoCall \in CallRows /\ Sound(c, NoCall)
  BY DEF NoCall, CallRows, Sound, NamesReview, CheckHolds, CloseStands, IdRead

-----------------------------------------------------------------------------
(* The steps.                                                              *)

\* The invariant holds in the empty tables.
LEMMA ReviewInitInv == ReviewInit => ReviewInv
  <1> SUFFICES ASSUME ReviewInit
               PROVE  ReviewInv
    OBVIOUS
  <1>1. LifecycleInv
    BY InvInit DEF ReviewInit
  <1>2. ReviewTypes
    <2>1. MaxReviews \in Nat
      BY ReviewAssumption
    <2>2. reviewed = <<>> /\ reviewed \in Seq(ReviewRows) /\ Len(reviewed) = 0
      BY DEF ReviewInit
    <2>3. call \in [Callers -> CallRows]
      BY IdleSound DEF ReviewInit
    <2>4. QED
      BY <2>1, <2>2, <2>3 DEF ReviewInit, ReviewTypes
  <1>3. \A c \in Callers : Sound(c, call[c])
    BY IdleSound DEF ReviewInit
  <1>4. AcceptedWorkPasses /\ ClosingRecordsAgree
    BY DEF ReviewInit, Init, NoTask, AcceptedWorkPasses, ClosingRecordsAgree
  <1>5. QED
    BY <1>1, <1>2, <1>3, <1>4 DEF ReviewInv

\* CheckReview finds what its row then relies on.
LEMMA CheckReviewInv ==
  ASSUME ReviewInv, NEW c \in Callers, NEW t \in Tasks, NEW a \in Reviewers,
         NEW d \in Decisions, CheckReview(c, t, a, d)
  PROVE  ReviewInv'
  <1>1. PICK n \in Attempts :
          /\ task[t].state = "review"
          /\ IsLatestRun(t, n)
          /\ d = "accepted" => ChecksPass(<<t, n>>)
          /\ call' = [call EXCEPT ![c] =
                        [NoCall EXCEPT !.step = "decide", !.task = t,
                                       !.run = <<t, n>>, !.agent = a,
                                       !.decision = d]]
          /\ UNCHANGED <<vars, manifest, evidence, reviewed, latest, record>>
    BY DEF CheckReview
  <1> DEFINE r == <<t, n>>
             row == [NoCall EXCEPT !.step = "decide", !.task = t, !.run = r,
                                   !.agent = a, !.decision = d]
  <1>2. r \in RunIds
    BY DEF RunIds
  <1>3. IsLatestRun(t, n) /\ (d = "accepted" => ChecksPass(r)) /\ r = <<t, n>>
    BY <1>1
  <1>4. call' = [call EXCEPT ![c] = row]
    BY <1>1
  <1> HIDE DEF r
  <1>5. /\ row \in CallRows
        /\ row.step = "decide" /\ row.task = t /\ row.run = r /\ row.agent = a
        /\ row.decision = d /\ row.moved = FALSE
    BY <1>2 DEF NoCall, CallRows
  <1> HIDE DEF row
  <1>6. NamesReview(row) /\ CheckHolds(row)
    BY <1>1, <1>2, <1>3, <1>5 DEF NamesReview, CheckHolds
  <1>7. Sound(c, row)
    BY <1>5, <1>6 DEF Sound, CloseStands, IdRead
  <1>8. QED
    BY <1>1, <1>4, <1>5, <1>7, CallerStep

\* A caller that closed its task reads the id of its own decision.
LEMMA ReadEventInv ==
  ASSUME ReviewInv, NEW c \in Callers, ReadEvent(c)
  PROVE  ReviewInv'
  <1> DEFINE i == latest[call[c].task]
             row == [call[c] EXCEPT !.step = "record", !.review = i]
  <1>1. call[c] \in CallRows /\ Sound(c, call[c]) /\ call[c].step = "read"
    BY DEF ReviewInv, ReviewTypes, ReadEvent
  <1>2. i \in ReviewIds
    <2>1. call[c].task \in Tasks
      BY <1>1 DEF Sound, NamesReview
    <2>2. QED
      BY <2>1 DEF ReviewInv, ReviewTypes, ReadEvent, EventRead
  <1>3. call[c].decision \in Closing =>
          i \in 1 .. Len(reviewed) /\ reviewed[i] = DecisionOf(c, call[c])
    BY <1>1 DEF Sound, CloseStands
  <1>4. /\ row \in CallRows
        /\ row.step = "record" /\ row.review = i /\ row.task = call[c].task
        /\ row.run = call[c].run /\ row.agent = call[c].agent
        /\ row.decision = call[c].decision
    BY <1>1, <1>2 DEF CallRows
  <1>5. call' = [call EXCEPT ![c] = row]
    BY DEF ReadEvent, EventRead, ReviewInv, ReviewTypes
  <1>6. UNCHANGED <<vars, manifest, evidence, reviewed, latest, record>>
    BY DEF ReadEvent
  <1> HIDE DEF row, i
  <1>7. NamesReview(row) /\ IdRead(c, row)
    BY <1>1, <1>3, <1>4 DEF NamesReview, IdRead, Sound, DecisionOf
  <1>8. Sound(c, row)
    BY <1>4, <1>7 DEF Sound, CheckHolds, CloseStands
  <1>9. QED
    BY <1>4, <1>5, <1>6, <1>8, CallerStep

\* Giving up leaves the caller idle.
LEMMA GiveUpInv ==
  ASSUME ReviewInv, NEW c \in Callers, GiveUp(c)
  PROVE  ReviewInv'
  BY IdleSound, CallerStep DEF GiveUp

\* Registration writes nothing the invariant is about.
LEMMA RegisterInv ==
  ASSUME ReviewInv, Register
  PROVE  ReviewInv'
  <1>1. PICK a \in Reviewers, v \in Versions, m \in Manifests :
          RegisterManifest(a, v, m)
    BY DEF Register
  <1>2. manifest' \in [Reviewers -> [Versions -> Manifests \cup {NULL}]]
    BY <1>1 DEF ReviewInv, ReviewTypes, RegisterManifest
  <1>3. UNCHANGED <<vars, evidence, call, reviewed, latest, record>>
    BY <1>1 DEF RegisterManifest
  <1>4. call' \in [Callers -> CallRows] /\ \A c \in Callers : Sound(c, call'[c])
    BY <1>3 DEF ReviewInv, ReviewTypes
  <1>5. QED
    BY <1>2, <1>3, <1>4, CallStep

\* The record of a closing decision is written under its own id.
LEMMA RecordInv ==
  ASSUME ReviewInv, NEW c \in Callers, Record(c)
  PROVE  ReviewInv'
  <1> DEFINE i == call[c].review
             entry == [run |-> call[c].run, agent |-> call[c].agent,
                       decision |-> call[c].decision, by |-> c]
  <1>1. /\ LifecycleInv /\ [Next]_vars /\ ReviewTypes /\ Len(reviewed) \in Nat
        /\ UNCHANGED <<vars, manifest, evidence, reviewed, latest>>
        /\ call' = [call EXCEPT ![c] = NoCall]
        /\ record' = IF record[i] # NULL THEN record
                     ELSE [record EXCEPT ![i] = entry]
    BY DEF ReviewInv, ReviewTypes, Record
  <1>2. call[c].step = "record" /\ Sound(c, call[c])
    BY DEF ReviewInv, Record
  <1>3. /\ entry \in RecordRows /\ entry.by = c /\ entry.run = call[c].run
        /\ entry.agent = call[c].agent /\ entry.decision = call[c].decision
    BY <1>2 DEF Sound, NamesReview, RecordRows
  <1> HIDE DEF entry
  <1>4. ReviewTypes'
    <2>1. record' \in [ReviewIds -> RecordRows \cup {NULL}]
      BY <1>1, <1>3 DEF ReviewTypes
    <2>2. call' \in [Callers -> CallRows]
      BY <1>1, IdleSound DEF ReviewTypes
    <2>3. QED
      BY <1>1, <2>1, <2>2 DEF ReviewTypes
  <1>5. UNCHANGED task /\ Grows
    BY <1>1 DEF vars, Grows
  <1>6. ASSUME NEW d \in Callers
        PROVE  Sound(d, call[d])'
    <2>1. call'[d] \in CallRows /\ Sound(d, call'[d])
      BY <1>1, IdleSound DEF ReviewInv, ReviewTypes
    <2>2. QED
      BY <1>1, <1>5, <2>1, SoundStands
  <1>7. ClosingRecordsAgree'
    <2> SUFFICES ASSUME NEW j \in ReviewIds, record'[j] # NULL,
                        record'[j].decision # "changes_requested"
                 PROVE  /\ j \in 1 .. Len(reviewed)
                        /\ record'[j].run = reviewed[j].run
                        /\ record'[j].agent = reviewed[j].agent
                        /\ record'[j].decision = reviewed[j].decision
                        /\ record'[j].by = reviewed[j].by
      BY <1>1 DEF ClosingRecordsAgree
    <2>1. CASE record'[j] = record[j]
      BY <2>1 DEF ReviewInv, ClosingRecordsAgree
    <2>2. CASE record'[j] # record[j]
      <3>1. j = i /\ record'[j] = entry
        BY <1>1, <2>2 DEF ReviewTypes
      <3>2. call[c].decision \in Closing
        BY <1>2, <1>3, <3>1 DEF Sound, NamesReview, Decisions, Closing
      <3>3. i \in 1 .. Len(reviewed) /\ reviewed[i] = DecisionOf(c, call[c])
        BY <1>2, <3>2 DEF Sound, IdRead
      <3>4. QED
        BY <1>3, <3>1, <3>3 DEF DecisionOf
    <2>3. QED
      BY <2>1, <2>2
  <1>8. QED
    BY <1>1, <1>4, <1>5, <1>6, <1>7, UndecidedStep

\* What CallsMoved makes of the row of a caller whose task was written.
LEMMA MovedRow ==
  ASSUME NEW t \in Tasks, NEW c \in Callers, call[c] \in CallRows,
         Sound(c, call[c])
  PROVE  /\ CallsMoved(t)[c] \in CallRows
         /\ Sound(c, CallsMoved(t)[c])
         /\ CallsMoved(t)[c].step = call[c].step
         /\ CallsMoved(t)[c].task = call[c].task
         /\ call[c].step = "decide" /\ call[c].task = t
              => CallsMoved(t)[c].moved
  <1> DEFINE told == [call[c] EXCEPT !.moved = TRUE]
  <1>1. CallsMoved(t)[c] = IF call[c].step = "decide" /\ call[c].task = t
                           THEN told ELSE call[c]
    BY DEF CallsMoved
  <1>2. told \in CallRows /\ Sound(c, told)
    BY SoundMoved
  <1>3. /\ told.step = call[c].step /\ told.task = call[c].task
        /\ told.moved = TRUE
    BY DEF CallRows
  <1> HIDE DEF told
  <1>4. QED
    BY <1>1, <1>2, <1>3

\* What a command of Core leaves alone, and the ids of last events after it.
LEMMA CoreFrame ==
  ASSUME ReviewInv, CoreCommand
  PROVE  /\ UNCHANGED <<manifest, reviewed, record>>
         /\ Grows
         /\ latest' \in [Tasks -> ReviewIds \cup {NULL}]
  <1>1. /\ UNCHANGED <<manifest, reviewed, record>>
        /\ evidence \subseteq evidence'
    BY DEF CoreCommand
  <1>2. PICK said \in 0 .. Len(reviewed) :
          latest' = [t \in Tasks |-> LatestAfter(t, said)]
    BY DEF CoreCommand
  <1>3. /\ Len(reviewed) \in Nat /\ Len(reviewed) <= MaxReviews
        /\ MaxReviews \in Nat /\ latest \in [Tasks -> ReviewIds \cup {NULL}]
    BY ReviewAssumption DEF ReviewInv, ReviewTypes
  <1>4. said \in ReviewIds
    BY <1>3 DEF ReviewIds
  <1>5. \A t \in Tasks : LatestAfter(t, said) \in ReviewIds \cup {NULL}
    BY <1>3, <1>4 DEF LatestAfter
  <1>6. \A t \in Tasks : task'[t] = task[t] => latest'[t] = latest[t]
    BY <1>2 DEF LatestAfter
  <1>7. QED
    BY <1>1, <1>2, <1>3, <1>5, <1>6 DEF Grows

\* Under a command of Core, the rows of callers whose task is written learn
\* of it.
LEMMA CoreCalls ==
  ASSUME ReviewInv, CoreCommand, NEW c \in Callers
  PROVE  call'[c] \in CallRows /\ Sound(c, call[c])'
  <1>1. /\ LifecycleInv /\ [Next]_vars /\ Grows
        /\ call[c] \in CallRows /\ Sound(c, call[c])
    BY CoreIsNext, CoreFrame DEF ReviewInv, ReviewTypes
  <1>2. call'[c] = IF \E t \in Tasks : task'[t] # task[t] /\ call[c].task = t
                   THEN CallsMoved(call[c].task)[c]
                   ELSE call[c]
    BY DEF CoreCommand
  <1>3. CASE \E t \in Tasks : task'[t] # task[t] /\ call[c].task = t
    <2>1. call'[c] = CallsMoved(call[c].task)[c] /\ call[c].task \in Tasks
      BY <1>2, <1>3
    <2>2. /\ call'[c] \in CallRows /\ Sound(c, call'[c])
          /\ call'[c].step = "decide" => call'[c].moved
      BY <1>1, <2>1, MovedRow
    <2>3. QED
      BY <1>1, <2>2, SoundStands
  <1>4. CASE ~\E t \in Tasks : task'[t] # task[t] /\ call[c].task = t
    <2>1. call'[c] = call[c]
      BY <1>2, <1>4
    <2>2. call[c].step = "decide" => task'[call[c].task] = task[call[c].task]
      BY <1>1, <1>4 DEF Sound, NamesReview
    <2>3. QED
      BY <1>1, <2>1, <2>2, SoundStands
  <1>5. QED
    BY <1>3, <1>4

\* Core's commands keep the invariant.
LEMMA CoreInv ==
  ASSUME ReviewInv, CoreCommand
  PROVE  ReviewInv'
  <1>1. LifecycleInv /\ LifecycleInv' /\ [Next]_vars /\ ReviewTypes
    BY CoreIsNext, InvStep DEF ReviewInv
  <1>2. call' \in [Callers -> CallRows] /\ \A c \in Callers : Sound(c, call[c])'
    <2>1. call' = [c \in Callers |-> call'[c]]
      BY DEF CoreCommand
    <2>2. QED
      BY <2>1, CoreCalls
  <1>3. ReviewTypes'
    BY <1>1, <1>2, CoreFrame DEF ReviewTypes
  <1>4. AcceptedWorkPasses'
    <2> SUFFICES ASSUME NEW t \in Tasks, task'[t].state = "accepted"
                 PROVE  \E n \in Attempts : /\ IsLatestRun(t, n)'
                                            /\ ChecksPass(<<t, n>>)'
      BY DEF AcceptedWorkPasses
    <2>1. task'[t] = task[t] /\ task[t].state \in Reviewed
      BY <1>1, CoreEffects DEF RowEffect, Reviewed
    <2>2. PICK n \in Attempts : IsLatestRun(t, n) /\ ChecksPass(<<t, n>>)
      BY <2>1 DEF ReviewInv, AcceptedWorkPasses
    <2>3. QED
      BY <1>1, <2>1, <2>2, CoreFrame, NewestStands, ChecksStand DEF Grows
  <1>5. ClosingRecordsAgree'
    BY CoreFrame DEF ReviewInv, ClosingRecordsAgree
  <1>6. QED
    BY <1>1, <1>2, <1>3, <1>4, <1>5 DEF ReviewInv

\* What a decision finds and writes.
LEMMA DecisionMade ==
  ASSUME ReviewInv, NEW c \in Callers, Decide(c)
  PROVE  /\ NamesReview(call[c]) /\ call[c].step = "decide"
         /\ task[call[c].task].state = "review"
         /\ \E n \in Attempts :
               /\ call[c].run = <<call[c].task, n>>
               /\ IsLatestRun(call[c].task, n)
               /\ call[c].decision = "accepted" => ChecksPass(call[c].run)
         /\ task' = [task EXCEPT ![call[c].task] = Moved(@, call[c].decision)]
         /\ UNCHANGED <<run, action, now, manifest, evidence, record>>
         /\ reviewed' \in Seq(ReviewRows)
         /\ Len(reviewed) \in Nat /\ Len(reviewed) < MaxReviews
         /\ Len(reviewed') = Len(reviewed) + 1
         /\ \A i \in 1 .. Len(reviewed) : reviewed'[i] = reviewed[i]
         /\ reviewed'[Len(reviewed) + 1] = DecisionOf(c, call[c])
         /\ latest' = [latest EXCEPT ![call[c].task] = Len(reviewed) + 1]
  <1>1. /\ ReviewTypes /\ Sound(c, call[c])
        /\ reviewed \in Seq(ReviewRows) /\ Len(reviewed) \in Nat
    BY DEF ReviewInv, ReviewTypes
  <1>2. call[c].step = "decide" /\ ~call[c].moved
    BY DEF Decide, MayDecide
  <1>3. NamesReview(call[c]) /\ CheckHolds(call[c])
    BY <1>1 DEF Sound
  <1> DEFINE entry == DecisionOf(c, call[c])
  <1>4. entry \in ReviewRows
    BY <1>2, <1>3 DEF NamesReview, ReviewRows, DecisionOf
  <1>5. reviewed' = Append(reviewed, entry)
    BY DEF Decide, DecisionOf
  <1> HIDE DEF entry
  <1>6. /\ reviewed' \in Seq(ReviewRows)
        /\ Len(reviewed') = Len(reviewed) + 1
        /\ \A i \in 1 .. Len(reviewed) : reviewed'[i] = reviewed[i]
        /\ reviewed'[Len(reviewed) + 1] = entry
    BY <1>1, <1>4, <1>5
  <1>7. latest' = [latest EXCEPT ![call[c].task] = Len(reviewed) + 1]
    BY <1>6 DEF Decide
  <1>8. /\ task' = [task EXCEPT ![call[c].task] = Moved(@, call[c].decision)]
        /\ UNCHANGED <<run, action, now, manifest, evidence, record>>
        /\ Len(reviewed) < MaxReviews
    BY DEF Decide, ReviewTask
  <1>9. QED
    BY <1>1, <1>2, <1>3, <1>6, <1>7, <1>8 DEF CheckHolds, entry

\* The task decided gets its decision for state, every other keeps its row,
\* and nothing that was there is lost.
LEMMA DecisionMoves ==
  ASSUME ReviewInv, NEW c \in Callers, Decide(c)
  PROVE  /\ call[c].task \in Tasks /\ call[c].decision \in Decisions
         /\ task'[call[c].task].state = call[c].decision
         /\ \A u \in Tasks \ {call[c].task} : task'[u] = task[u]
         /\ latest'[call[c].task] = Len(reviewed) + 1
         /\ Grows
  <1> DEFINE t == call[c].task
             d == call[c].decision
  <1>1. t \in Tasks /\ d \in Decisions
    BY DecisionMade DEF NamesReview
  <1>2. task \in [Tasks -> TaskRows] /\ latest \in [Tasks -> ReviewIds \cup {NULL}]
    BY DEF ReviewInv, ReviewTypes, LifecycleInv, TypeOK
  <1>3. /\ task' = [task EXCEPT ![t] = Moved(@, d)]
        /\ latest' = [latest EXCEPT ![t] = Len(reviewed) + 1]
        /\ task[t].state = "review"
    BY DecisionMade
  <1>4. /\ UNCHANGED evidence
        /\ Len(reviewed) \in Nat /\ Len(reviewed') = Len(reviewed) + 1
        /\ \A i \in 1 .. Len(reviewed) : reviewed'[i] = reviewed[i]
    BY DecisionMade
  <1> HIDE DEF t, d
  <1>5. task'[t].state = d /\ \A u \in Tasks \ {t} : task'[u] = task[u]
    <2>1. d \in TaskStates /\ task'[t] = Moved(task[t], d)
      BY <1>1, <1>2, <1>3 DEF Decisions, TaskStates
    <2>2. QED
      BY <1>1, <1>2, <1>3, <2>1, RowOperators
  <1>6. latest'[t] = Len(reviewed) + 1 /\ \A u \in Tasks \ {t} : latest'[u] = latest[u]
    BY <1>1, <1>2, <1>3
  <1>7. task'[t] # task[t]
    BY <1>1, <1>3, <1>5 DEF Decisions
  <1>8. Grows
    BY <1>4, <1>6, <1>7 DEF Grows
  <1>9. QED
    BY <1>1, <1>5, <1>6, <1>8 DEF t, d

\* The callers' rows over a decision.
LEMMA DecideCalls ==
  ASSUME ReviewInv, NEW c \in Callers, Decide(c), NEW d \in Callers
  PROVE  call'[d] \in CallRows /\ Sound(d, call[d])'
  <1> DEFINE t == call[c].task
  <1> PICK row : row = [call[c] EXCEPT !.step = "read"]
    OBVIOUS
  <1>1. /\ LifecycleInv /\ [Next]_vars /\ Grows
        /\ call \in [Callers -> CallRows]
        /\ call[d] \in CallRows /\ Sound(d, call[d])
        /\ t \in Tasks
    <2>1. [ReviewNext]_allVars
      BY DEF ReviewNext, ReviewStep
    <2>2. QED
      BY <2>1, ReviewIsNext, DecisionMoves DEF ReviewInv, ReviewTypes
  <1>2. call' = [CallsMoved(t) EXCEPT ![c] = row]
    BY DEF Decide
  <1>3. CASE d = c
    <2>1. call'[d] = row
      BY <1>2, <1>3 DEF CallsMoved
    <2>2. /\ row \in CallRows /\ row.step = "read" /\ row.task = t
          /\ row.run = call[c].run /\ row.agent = call[c].agent
          /\ row.decision = call[c].decision
      BY <1>1, <1>3 DEF CallRows
    <2>3. NamesReview(row)
      BY <2>2, DecisionMade DEF NamesReview
    <2>4. /\ reviewed'[Len(reviewed) + 1] = DecisionOf(c, row)
          /\ Len(reviewed) + 1 \in 1 .. Len(reviewed')
      BY <2>2, DecisionMade DEF DecisionOf
    <2>5. CloseStands(c, row)'
      <3>1. task'[row.task].state = row.decision
        BY <2>2, DecisionMoves
      <3>2. latest'[row.task] = Len(reviewed) + 1
        BY <2>2, DecisionMoves
      <3>3. QED
        BY <2>4, <3>1, <3>2 DEF CloseStands, DecisionOf
    <2>6. Sound(c, row)'
      BY <2>2, <2>3, <2>5 DEF Sound, NamesReview, CheckHolds, IdRead
    <2>7. QED
      BY <1>3, <2>1, <2>2, <2>6
  <1>4. CASE d # c
    <2>1. call'[d] = CallsMoved(t)[d]
      BY <1>2, <1>4 DEF CallsMoved
    <2>2. /\ call'[d] \in CallRows /\ Sound(d, call'[d])
          /\ call'[d].step = call[d].step /\ call'[d].task = call[d].task
          /\ call[d].step = "decide" /\ call[d].task = t => call'[d].moved
      BY <1>1, <2>1, MovedRow
    <2>3. call'[d].step = "decide" /\ ~call'[d].moved =>
            task'[call'[d].task] = task[call'[d].task]
      <3>1. task' = [task EXCEPT ![t] = Moved(@, call[c].decision)]
        BY DecisionMade
      <3>2. QED
        BY <2>2, <3>1
    <2>4. QED
      BY <1>1, <2>2, <2>3, SoundStands
  <1>5. QED
    BY <1>3, <1>4

\* A decision keeps the invariant.
LEMMA DecideInv ==
  ASSUME ReviewInv, NEW c \in Callers, Decide(c)
  PROVE  ReviewInv'
  <1> DEFINE t == call[c].task
             last == Len(reviewed) + 1
  <1>1. LifecycleInv' /\ ReviewTypes
    <2>1. [ReviewNext]_allVars
      BY DEF ReviewNext, ReviewStep
    <2>2. QED
      BY <2>1, ReviewIsNext, InvStep DEF ReviewInv
  <1>2. /\ UNCHANGED <<run, action, manifest, evidence, record>>
        /\ reviewed' \in Seq(ReviewRows)
        /\ Len(reviewed) \in Nat /\ Len(reviewed') = last
        /\ last <= MaxReviews /\ last \in ReviewIds
        /\ \A i \in 1 .. Len(reviewed) : reviewed'[i] = reviewed[i]
        /\ latest' = [latest EXCEPT ![t] = last]
    <2>1. /\ UNCHANGED <<run, action, manifest, evidence, record>>
          /\ reviewed' \in Seq(ReviewRows)
          /\ Len(reviewed) \in Nat /\ Len(reviewed) < MaxReviews
          /\ Len(reviewed') = last
          /\ \A i \in 1 .. Len(reviewed) : reviewed'[i] = reviewed[i]
          /\ latest' = [latest EXCEPT ![t] = last]
      BY DecisionMade
    <2>2. last <= MaxReviews /\ last \in ReviewIds
      BY <2>1, ReviewAssumption DEF ReviewIds
    <2>3. QED
      BY <2>1, <2>2
  <1>3. /\ task'[t].state = call[c].decision
        /\ \A u \in Tasks \ {t} : task'[u] = task[u]
    BY DecisionMoves
  <1>4. call' \in [Callers -> CallRows] /\ \A d \in Callers : Sound(d, call[d])'
    <2>1. call' = [d \in Callers |-> call'[d]]
      BY DEF Decide, CallsMoved
    <2>2. QED
      BY <2>1, DecideCalls
  <1> HIDE DEF t, last
  <1>5. ReviewTypes'
    BY <1>1, <1>2, <1>4 DEF ReviewTypes
  <1>6. AcceptedWorkPasses'
    <2> SUFFICES ASSUME NEW u \in Tasks, task'[u].state = "accepted"
                 PROVE  \E n \in Attempts : /\ IsLatestRun(u, n)
                                            /\ ChecksPass(<<u, n>>)
      BY <1>2 DEF AcceptedWorkPasses, IsLatestRun, RunsOf, ChecksPass,
                  RunHasAction
    <2>1. CASE u = t
      <3>1. call[c].decision = "accepted"
        BY <1>3, <2>1
      <3>2. PICK n \in Attempts :
              /\ call[c].run = <<t, n>>
              /\ IsLatestRun(t, n)
              /\ call[c].decision = "accepted" => ChecksPass(call[c].run)
        BY DecisionMade DEF t
      <3>3. IsLatestRun(u, n) /\ ChecksPass(<<u, n>>)
        BY <2>1, <3>1, <3>2
      <3>4. QED
        BY <3>3
    <2>2. CASE u # t
      BY <1>3, <2>2 DEF ReviewInv, AcceptedWorkPasses
    <2>3. QED
      BY <2>1, <2>2
  <1>7. ClosingRecordsAgree'
    <2>1. \A i \in 1 .. Len(reviewed) : i \in 1 .. Len(reviewed')
      BY <1>2 DEF last
    <2>2. QED
      BY <1>2, <2>1 DEF ReviewInv, ClosingRecordsAgree
  <1>8. QED
    BY <1>1, <1>4, <1>5, <1>6, <1>7 DEF ReviewInv

-----------------------------------------------------------------------------
(* The theorems.                                                           *)

\* Every step keeps the invariant.
LEMMA ReviewInvStep == ReviewInv /\ [ReviewNext]_allVars => ReviewInv'
  <1> SUFFICES ASSUME ReviewInv, [ReviewNext]_allVars
               PROVE  ReviewInv'
    OBVIOUS
  <1>1. CASE CoreCommand
    BY <1>1, CoreInv
  <1>2. CASE Register
    BY <1>2, RegisterInv
  <1>3. ASSUME NEW c \in Callers, ReviewStep(c)
        PROVE  ReviewInv'
    BY <1>3, CheckReviewInv, DecideInv, ReadEventInv, RecordInv, GiveUpInv
    DEF ReviewStep
  <1>4. CASE UNCHANGED allVars
    <2>1. UNCHANGED <<vars, manifest, evidence, call, reviewed, latest, record>>
      BY <1>4 DEF allVars, reviewVars
    <2>2. QED
      BY <2>1, CallStep DEF ReviewInv, ReviewTypes
  <1>5. QED
    BY <1>1, <1>2, <1>3, <1>4 DEF ReviewNext

\* The invariant holds, for any number of callers and any bounds.
THEOREM ReviewInvHolds == ReviewSpec => []ReviewInv
  BY ReviewInitInv, ReviewInvStep, PTL DEF ReviewSpec

\* Beside any number of reviewers the tables live as TaskLifecycle says: what is
\* proved of Spec holds of them.
THEOREM ReviewersKeepCore == ReviewSpec => Spec
  <1>1. ReviewInit => Init
    BY DEF ReviewInit
  <1>2. ReviewInv /\ [ReviewNext]_allVars => [Next]_vars
    BY ReviewIsNext
  <1>3. QED
    BY <1>1, <1>2, ReviewInvHolds, PTL DEF ReviewSpec, Spec

\* Accepted work passes its checks, whatever was written between the checks
\* of a review and its transaction, and since.
THEOREM AcceptedPasses == ReviewSpec => []AcceptedWorkPasses
  <1>1. ReviewInv => AcceptedWorkPasses
    BY DEF ReviewInv
  <1>2. QED
    BY <1>1, ReviewInvHolds, PTL

\* A record that says accepted or rejected is of the decision whose id it
\* bears, whatever ids revisions give and whatever arrives after a task closed.
THEOREM ClosingRecordsHold == ReviewSpec => []ClosingRecordsAgree
  <1>1. ReviewInv => ClosingRecordsAgree
    BY DEF ReviewInv
  <1>2. QED
    BY <1>1, ReviewInvHolds, PTL

\* A decision falls on the run that is the newest when it is made.
THEOREM DecisionsAreCurrent == ReviewSpec => DecisionsOnNewestRun
  <1> DEFINE OnNewest(t) ==
        Len(reviewed') > Len(reviewed) /\ reviewed'[Len(reviewed')].task = t =>
           \E n \in Attempts :
              /\ IsLatestRun(t, n)
              /\ reviewed'[Len(reviewed')].run = <<t, n>>
  <1>1. ASSUME ReviewInv, [ReviewNext]_allVars, NEW t \in Tasks
        PROVE  OnNewest(t)
    <2>1. Len(reviewed) \in Nat
      BY <1>1 DEF ReviewInv, ReviewTypes
    <2>2. CASE reviewed' = reviewed
      BY <2>1, <2>2
    <2>3. ASSUME NEW c \in Callers, Decide(c)
          PROVE  OnNewest(t)
      <3>1. /\ Len(reviewed') = Len(reviewed) + 1
            /\ reviewed'[Len(reviewed) + 1] =
                 DecisionOf(c, call[c])
        BY <1>1, <2>3, DecisionMade
      <3>2. /\ reviewed'[Len(reviewed')].task = call[c].task
            /\ reviewed'[Len(reviewed')].run = call[c].run
        BY <3>1 DEF DecisionOf
      <3>3. PICK n \in Attempts : /\ call[c].run = <<call[c].task, n>>
                                  /\ IsLatestRun(call[c].task, n)
        BY <1>1, <2>3, DecisionMade
      <3>4. QED
        BY <3>2, <3>3
    <2>4. QED
      BY <1>1, <2>2, <2>3
      DEF ReviewNext, CoreCommand, Register, RegisterManifest, ReviewStep,
          CheckReview, ReadEvent, Record, GiveUp, allVars, reviewVars
  <1>2. ReviewInv /\ [ReviewNext]_allVars
          => [\A t \in Tasks : OnNewest(t)]_allVars
    BY <1>1
  <1>3. QED
    BY <1>2, ReviewInvHolds, PTL DEF ReviewSpec, DecisionsOnNewestRun

=============================================================================
