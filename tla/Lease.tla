------------------------------- MODULE Lease -------------------------------
(***************************************************************************)
(* What Core promises the workers of a task about its runs, without task   *)
(* states, tokens, clocks, actions or reviews: attempts are granted one    *)
(* after the other, to nobody while somebody holds the task; only the run  *)
(* that holds its task ever changes its status; a run that has ended keeps *)
(* the one it ended with.                                                  *)
(*                                                                         *)
(* Being released and having ended are two things.  A task may be taken    *)
(* back with its run left open, whose status then says so for ever; and a  *)
(* result that came too late ends the run while the task is still held.    *)
(***************************************************************************)
EXTENDS Naturals

CONSTANTS
    Tasks,          \* task ids
    MaxAttempts,    \* bound: no task is granted more often
    NULL

RunIds == Tasks \X (1 .. MaxAttempts)

VARIABLES
    granted,    \* how many attempts each task was granted
    holder,     \* the run that holds each task, or NULL
    record      \* the status on record of each run

leaseVars == <<granted, holder, record>>

Open == {"leased", "running"}

Init ==
    /\ granted = [t \in Tasks |-> 0]
    /\ holder = [t \in Tasks |-> NULL]
    /\ record = [r \in RunIds |-> "none"]

Held(t) == holder[t] # NULL

Grant(t) ==
    LET r == <<t, granted[t] + 1>> IN
    /\ ~Held(t)
    /\ r \in RunIds
    /\ granted' = [granted EXCEPT ![t] = r[2]]
    /\ holder' = [holder EXCEPT ![t] = r]
    /\ record' = [record EXCEPT ![r] = "leased"]

Begin(t) ==
    /\ Held(t)
    /\ record[holder[t]] = "leased"
    /\ record' = [record EXCEPT ![holder[t]] = "running"]
    /\ UNCHANGED <<granted, holder>>

Ended(t, outcome) ==
    /\ Held(t)
    /\ record' = [record EXCEPT ![holder[t]] = outcome]
    /\ UNCHANGED granted

Freed(t) == holder' = [holder EXCEPT ![t] = NULL]

\* The worker reports what it began.
Report(t, outcome) ==
    /\ Ended(t, outcome)
    /\ record[holder[t]] = "running"
    /\ Freed(t)

\* The run is ended over the worker's head, begun or not.
Withdraw(t, outcome) ==
    /\ Ended(t, outcome)
    /\ record[holder[t]] \in Open
    /\ Freed(t)

Quarantine(t) ==
    /\ Ended(t, "completed_after_cancel")
    /\ record[holder[t]] \in Open
    /\ UNCHANGED holder

\* The task is taken back, and nothing is said of the run.
TakeBack(t) ==
    /\ Held(t)
    /\ Freed(t)
    /\ UNCHANGED <<granted, record>>

Next ==
    \E t \in Tasks :
        \/ Grant(t)
        \/ Begin(t)
        \/ \E outcome \in {"completed", "failed"} : Report(t, outcome)
        \/ \E outcome \in {"expired", "cancelled"} : Withdraw(t, outcome)
        \/ Quarantine(t)
        \/ TakeBack(t)

Spec == Init /\ [][Next]_leaseVars

=============================================================================
