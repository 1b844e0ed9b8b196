------------------------------- MODULE Review -------------------------------
(***************************************************************************)
(* ReviewService of src/src/city2core/review.py: manifests, and the review *)
(* of a task by an agent independent of its maker.                         *)
(*                                                                         *)
(* review_task is four steps: reads that check (CheckReview), the          *)
(* transition of Core.review_task (Decide), the read of the task's latest  *)
(* event for the review's id (ReadEvent), and the insertion of the record  *)
(* (Record).  Every other command of TaskLifecycle may fall between them,  *)
(* and the process may die there.  The transition names the version the    *)
(* caller read before CheckReview, so it fails once the task's row has     *)
(* moved; and it carries a review id drawn anew by each call, so that a    *)
(* call repeated with its old key collides at Decide and comes to nothing. *)
(*                                                                         *)
(* ReadEvent takes the id from whatever event of the task is the last by   *)
(* then.  A revision's event carries one too: the id its own caller gives, *)
(* which Core.revise_task compares with nothing.                           *)
(*                                                                         *)
(* Runs are made by agents whose manifests are registered; Reviewers are   *)
(* the others, since a maker is refused as the reviewer of its own run.    *)
(***************************************************************************)
EXTENDS TaskLifecycle, Sequences

CONSTANTS
    Callers,       \* processes that call review_task
    Reviewers,     \* agents that are not the maker of the runs
    MaxManifests,  \* bound: manifest versions of a reviewer
    MaxReviews     \* bound: decisions made

ASSUME ReviewAssumption ==
    /\ NULL \notin Callers
    /\ {MaxManifests, MaxReviews} \subseteq Nat \ {0}

VARIABLES
    manifest,   \* agent_manifests: what each version of a reviewer's says
    evidence,   \* the runs whose result passes every mandatory criterion
    call,       \* the review_task call each caller is in
    reviewed,   \* the review events, by the order they were appended: the
                \* task, the run, the agent, the decision, who made it
    latest,     \* the review id in the latest event of each task, or NULL
    record      \* task_reviews, by review id

reviewVars == <<manifest, evidence, call, reviewed, latest, record>>
allVars == <<vars, reviewVars>>

-----------------------------------------------------------------------------

Versions == 1 .. MaxManifests

\* What a reviewer's manifest is beside the maker's.  separate: enabled, for
\* independent review, with no tool and no credential of the maker's.
\* entangled: as that, but sharing a credential.  unfit: not enabled, not for
\* review, or sharing a tool.
Manifests == {"separate", "entangled", "unfit"}

ASSUME ManifestAssumption == NULL \notin Manifests

Decisions == {"accepted", "rejected", "changes_requested"}

\* 0 stands for an id that no review has.
ReviewIds == 0 .. MaxReviews

NoCall ==
    [step |-> "none", task |-> NULL, run |-> NULL, agent |-> NULL,
     decision |-> NULL, moved |-> FALSE, review |-> NULL]

ReviewInit ==
    /\ Init
    /\ manifest = [a \in Reviewers |-> [v \in Versions |-> NULL]]
    /\ evidence = {}
    /\ call = [c \in Callers |-> NoCall]
    /\ reviewed = <<>>
    /\ latest = [t \in Tasks |-> NULL]
    /\ record = [i \in ReviewIds |-> NULL]

-----------------------------------------------------------------------------

\* INSERT OR IGNORE: what a version says, it says for good.
RegisterManifest(a, v, m) ==
    /\ manifest[a][v] = NULL
    /\ manifest' = [manifest EXCEPT ![a][v] = m]
    /\ UNCHANGED <<vars, evidence, call, reviewed, latest, record>>

\* ORDER BY manifest_version DESC LIMIT 1
LatestManifest(a, v) ==
    /\ manifest[a][v] # NULL
    /\ \A w \in Versions : manifest[a][w] # NULL => w <= v

\* review_policy, enabled and the tools, of the reviewer's latest manifest.
\* What _independence finds of credentials and model policy refuses nothing:
\* it is only stored with the record.
Independent(a) ==
    \E v \in Versions :
        LatestManifest(a, v) /\ manifest[a][v] \in {"separate", "entangled"}

HasResult(r) == run[r].status \in {"completed", "failed", "completed_after_cancel"}

\* _deterministic_checks of the run's result.  Its token is its envelope's,
\* or submit_result would have refused it.
ChecksPass(r) ==
    /\ run[r].status = "completed"
    /\ r \in evidence
    /\ ~RunHasAction(r, Unresolved)

\* The reads and checks, each on what is committed by then.
CheckReview(c, t, a, d) ==
    \E n \in Attempts :
      /\ call[c].step = "none"
      /\ task[t].state = "review"
      /\ IsLatestRun(t, n)
      /\ HasResult(<<t, n>>)
      /\ Independent(a)
      /\ d = "accepted" => ChecksPass(<<t, n>>)
      /\ call' = [call EXCEPT ![c] =
                    [NoCall EXCEPT !.step = "decide", !.task = t,
                                   !.run = <<t, n>>, !.agent = a,
                                   !.decision = d]]
      /\ UNCHANGED <<vars, manifest, evidence, reviewed, latest, record>>

\* What a step that writes a task's row does to the calls under way.
CallsMoved(t) ==
    [c \in Callers |->
       IF call[c].step = "decide" /\ call[c].task = t
       THEN [call[c] EXCEPT !.moved = TRUE]
       ELSE call[c]]

MayDecide_AnyVersion(c) == TRUE

\* expect_version
MayDecide(c) == ~call[c].moved

Decide(c) ==
    LET t == call[c].task IN
    /\ call[c].step = "decide"
    /\ MayDecide(c)
    /\ Len(reviewed) < MaxReviews
    /\ ReviewTask(t, call[c].decision)
    /\ reviewed' = Append(reviewed,
                     [task |-> t, run |-> call[c].run, agent |-> call[c].agent,
                      decision |-> call[c].decision, by |-> c])
    /\ latest' = [latest EXCEPT ![t] = Len(reviewed')]
    /\ call' = [CallsMoved(t) EXCEPT ![c] = [call[c] EXCEPT !.step = "read"]]
    /\ UNCHANGED <<manifest, evidence, record>>

EventRead_First(c) ==
    CHOOSE i \in 1 .. Len(reviewed) :
        /\ reviewed[i].task = call[c].task
        /\ \A j \in 1 .. i - 1 : reviewed[j].task # call[c].task

\* ORDER BY aggregate_sequence DESC LIMIT 1: whatever was appended last.
EventRead(c) == latest[call[c].task]

ReadEvent(c) ==
    /\ call[c].step = "read"
    /\ EventRead(c) # NULL
    /\ call' = [call EXCEPT ![c].step = "record", ![c].review = EventRead(c)]
    /\ UNCHANGED <<vars, manifest, evidence, reviewed, latest, record>>

\* INSERT OR IGNORE
Record(c) ==
    LET i == call[c].review IN
    /\ call[c].step = "record"
    /\ record' = IF record[i] # NULL THEN record
                 ELSE [record EXCEPT ![i] =
                         [run |-> call[c].run, agent |-> call[c].agent,
                          decision |-> call[c].decision, by |-> c]]
    /\ call' = [call EXCEPT ![c] = NoCall]
    /\ UNCHANGED <<vars, manifest, evidence, reviewed, latest>>

\* The transition is refused, the latest event has no review id (KeyError),
\* or the process dies.
GiveUp(c) ==
    /\ call[c].step # "none"
    /\ call' = [call EXCEPT ![c] = NoCall]
    /\ UNCHANGED <<vars, manifest, evidence, reviewed, latest, record>>

\* The id in a task's latest event once a command of Core is done: a revision
\* says the one its caller gives, of any review or of none, and no other
\* event of Core says one.
LatestAfter(t, said) ==
    IF task'[t] = task[t] THEN latest[t]
    ELSE IF task[t].state = "changes_requested" /\ task'[t].state = "ready"
         THEN said
    ELSE NULL

Finished == {r \in RunIds : HasResult(r)}

\* Everyone else's commands: those of Core but review_task.  A result
\* passes the criteria or not.
CoreCommand ==
    /\ \/ \E t \in Tasks : Plan(t) \/ Work(t) \/ Operate(t)
       \/ \E t \in Tasks, ceiling \in Attempts : ReviseTask(t, ceiling)
       \/ \E a \in Actions : Deliver(a)
       \/ Tick
    /\ \E passed \in SUBSET (Finished' \ Finished) : evidence' = evidence \cup passed
    /\ \E said \in 0 .. Len(reviewed) :
          latest' = [t \in Tasks |-> LatestAfter(t, said)]
    /\ call' = [c \in Callers |->
                  IF \E t \in Tasks : task'[t] # task[t] /\ call[c].task = t
                  THEN CallsMoved(call[c].task)[c]
                  ELSE call[c]]
    /\ UNCHANGED <<manifest, reviewed, record>>

ReviewStep(c) ==
    \/ \E t \in Tasks, a \in Reviewers, d \in Decisions : CheckReview(c, t, a, d)
    \/ Decide(c)
    \/ ReadEvent(c)
    \/ Record(c)
    \/ GiveUp(c)

Register ==
    \E a \in Reviewers, v \in Versions, m \in Manifests : RegisterManifest(a, v, m)

ReviewNext ==
    \/ CoreCommand
    \/ Register
    \/ \E c \in Callers : ReviewStep(c)

ReviewSpec == ReviewInit /\ [][ReviewNext]_allVars

-----------------------------------------------------------------------------
(* Properties.                                                             *)

\* Accepted work is work that passes: its newest run completed, meets every
\* mandatory criterion, and none of that run's actions is open, though the
\* checks were made before the transaction that closed the task and anyone
\* may have written in between, and may since.
AcceptedWorkPasses ==
    \A t \in Tasks :
      task[t].state = "accepted" =>
        \E n \in Attempts : IsLatestRun(t, n) /\ ChecksPass(<<t, n>>)

\* The review event of a decision names a run its checker saw as the newest,
\* and it still was when the decision closed or returned the task: no
\* decision on superseded work lands.
DecisionsOnNewestRun ==
    [][\A t \in Tasks :
         Len(reviewed') > Len(reviewed) /\ reviewed'[Len(reviewed')].task = t =>
           \E n \in Attempts :
              /\ IsLatestRun(t, n)
              /\ reviewed'[Len(reviewed')].run = <<t, n>>]_allVars

\* A record that says accepted or rejected is of the decision whose id it
\* bears: same run, same agent, same caller.  The id is read back from the
\* task's latest event after the transaction, so this rests on a closed task
\* never being written again, not by a late outcome and not by a revision with
\* an id of its own.
ClosingRecordsAgree ==
    \A i \in ReviewIds :
      (record[i] # NULL /\ record[i].decision # "changes_requested") =>
        /\ i \in 1 .. Len(reviewed)
        /\ record[i].run = reviewed[i].run
        /\ record[i].agent = reviewed[i].agent
        /\ record[i].decision = reviewed[i].decision
        /\ record[i].by = reviewed[i].by

-----------------------------------------------------------------------------
(* What the documents say and the code does not do.                        *)

\* REVIEW.md: the durable review records maker, checker, checks, findings and
\* independence.  When nobody is in the middle of a review, every decision has
\* its record; a call that died after its transition never gets one, since its
\* repetition finds no task in review, or collides.
DecisionsRecorded ==
    (\A c \in Callers : call[c].step = "none") =>
      \A i \in 1 .. Len(reviewed) : record[i] # NULL

=============================================================================
