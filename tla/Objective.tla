------------------------------ MODULE Objective ------------------------------
(***************************************************************************)
(* Objectives, their revisions, and the tasks created under them:          *)
(* create_objective, set_objective_status, revise_objective and            *)
(* create_task of src/src/city2core/core.py.                               *)
(*                                                                         *)
(* Each is one transaction and one action.  A caller gives the version it  *)
(* read and is refused when the row has moved; a refused call changes      *)
(* nothing, so the versions themselves are left out.  Contents stands for  *)
(* the intent, outcomes, budget and the other fields a revision may        *)
(* change.                                                                 *)
(***************************************************************************)
EXTENDS Naturals

CONSTANTS
    Objectives,    \* objective ids
    Tasks,         \* task ids
    Contents,      \* what an objective says
    Bodies,        \* what a task says, its objective apart
    MaxRevision,   \* bound: no objective is revised beyond it
    NULL

ASSUME BoundAssumption == MaxRevision \in Nat \ {0}

VARIABLES
    objective,    \* the table objectives
    revisions,    \* objective_revisions: the content of each, or NULL
    task          \* what tasks pin of their objective, or NULL

objectiveVars == <<objective, revisions, task>>

-----------------------------------------------------------------------------

RevisionNumbers == 1 .. MaxRevision

Statuses ==
    {"none", "proposed", "active", "paused", "completed", "cancelled",
     "superseded"}

Closed == {"completed", "cancelled", "superseded"}

ObjectiveRows == [status : Statuses, revision : 0 .. MaxRevision]

\* What create_task takes; the other fields are in body.
Fields == [objective : Objectives, body : Bodies]

\* objective_sha256 covers the revision number and the content.
Digests == [revision : RevisionNumbers, content : Contents]

TaskRows ==
    [objective : Objectives, body : Bodies, revision : RevisionNumbers,
     digest : Digests]

ASSUME ObjectiveNullAssumption == NULL \notin Contents \cup TaskRows

ObjectiveInit ==
    /\ objective = [o \in Objectives |-> [status |-> "none", revision |-> 0]]
    /\ revisions = [o \in Objectives |-> [r \in RevisionNumbers |-> NULL]]
    /\ task = [t \in Tasks |-> NULL]

Digest(o, r) == [revision |-> r, content |-> revisions[o][r]]

-----------------------------------------------------------------------------

CreateObjective(o, c) ==
    /\ objective[o].status = "none"
    /\ objective' = [objective EXCEPT ![o] = [status |-> "proposed", revision |-> 1]]
    /\ revisions' = [revisions EXCEPT ![o][1] = c]
    /\ UNCHANGED task

\* allowed, by the status an objective has.
NextStatuses(s) ==
    CASE s = "proposed" -> {"active", "cancelled"}
      [] s = "active"   -> {"paused", "completed", "cancelled", "superseded"}
      [] s = "paused"   -> {"active", "cancelled", "superseded"}
      [] OTHER          -> {}

SetObjectiveStatus(o, s) ==
    /\ s \in NextStatuses(objective[o].status)
    /\ objective' = [objective EXCEPT ![o].status = s]
    /\ UNCHANGED <<revisions, task>>

NewRevision_Overwrites(o, c) ==
    /\ objective' = objective
    /\ revisions' = [revisions EXCEPT ![o][objective[o].revision] = c]

NewRevision_NotKept(o, c) ==
    /\ objective' = [objective EXCEPT ![o].revision = objective[o].revision + 1]
    /\ revisions' = revisions

\* The rows a revision writes: a new one of the history, and the current one.
NewRevision(o, c) ==
    LET r == objective[o].revision + 1 IN
    /\ objective' = [objective EXCEPT ![o].revision = r]
    /\ revisions' = [revisions EXCEPT ![o][r] = c]

\* The code also refuses a revision with the digest of the one before, which
\* no revision has: the digest covers the number.
ReviseObjective(o, c) ==
    /\ objective[o].status \notin Closed \cup {"none"}
    /\ objective[o].revision < MaxRevision
    /\ NewRevision(o, c)
    /\ UNCHANGED task

Open(o) == objective[o].status \in {"active", "proposed"}

\* The rows create_task writes: the task pins the revision in force.
TaskPinned(t, f) ==
    task' = [task EXCEPT ![t] =
               [objective |-> f.objective, body |-> f.body,
                revision |-> objective[f.objective].revision,
                digest |-> Digest(f.objective, objective[f.objective].revision)]]

CreateTask(t, f) ==
    /\ Open(f.objective)
    /\ task[t] = NULL
    /\ TaskPinned(t, f)
    /\ UNCHANGED <<objective, revisions>>

ObjectiveNext ==
    \E o \in Objectives :
        \/ \E c \in Contents : CreateObjective(o, c) \/ ReviseObjective(o, c)
        \/ \E s \in Statuses : SetObjectiveStatus(o, s)

-----------------------------------------------------------------------------
(* Properties.                                                             *)

ObjectiveTypeOK ==
    /\ objective \in [Objectives -> ObjectiveRows]
    /\ revisions \in [Objectives -> [RevisionNumbers -> Contents \cup {NULL}]]
    /\ task \in [Tasks -> TaskRows \cup {NULL}]

\* Every task refers to one exact revision and digest of its objective, which
\* the history still holds however often the objective was revised since.
PinsResolve ==
    \A t \in Tasks :
        task[t] # NULL =>
            /\ task[t].revision <= objective[task[t].objective].revision
            /\ task[t].digest = Digest(task[t].objective, task[t].revision)

=============================================================================
