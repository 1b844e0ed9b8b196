------------------------------- MODULE Ledger -------------------------------
(***************************************************************************)
(* What Store.command promises its callers, without transactions, event    *)
(* rows or crashes: a command happens at most once per idempotency key,    *)
(* all of it at one instant, only while its aggregate still has the        *)
(* version the caller read; and whoever is told a result is told the one   *)
(* recorded when it happened.                                              *)
(***************************************************************************)
EXTENDS Naturals

CONSTANTS
    Keys,         \* idempotency keys
    Aggregates,   \* objectives, tasks, actions and memories
    NULL

\* A command writes its aggregate, at the version the caller read, and
\* perhaps another one, at whatever version that has: the task of an action
\* whose outcome is unknown, the memory an accepted one supersedes.
Command(a, v, b) == [agg |-> a, expected |-> v, also |-> b]

Written(c) == {c.agg, c.also} \ {NULL}

EventsOf(c) == IF c.also = NULL THEN 1 ELSE 2

VARIABLES
    version,    \* aggregate_version of every aggregate, 0 before it exists
    count,      \* events recorded
    record,     \* the command and result recorded under each key, or NULL
    told        \* results callers were given

ledgerVars == <<version, count, record, told>>

Init ==
    /\ version = [a \in Aggregates |-> 0]
    /\ count = 0
    /\ record = [k \in Keys |-> NULL]
    /\ told = {}

Apply(k, c) ==
    /\ record[k] = NULL
    /\ version[c.agg] = c.expected
    /\ version' = [a \in Aggregates |->
                     IF a \in Written(c) THEN version[a] + 1 ELSE version[a]]
    /\ count' = count + EventsOf(c)
    /\ record' = [record EXCEPT ![k] = [command |-> c, result |-> count']]
    /\ UNCHANGED told

Tell(k) ==
    /\ record[k] # NULL
    /\ told' = told \cup {<<k, record[k]>>}
    /\ UNCHANGED <<version, count, record>>

Next ==
    \E k \in Keys :
        \/ Tell(k)
        \/ \E a \in Aggregates, b \in Aggregates \cup {NULL} :
              a # b /\ Apply(k, Command(a, version[a], b))

Spec == Init /\ [][Next]_ledgerVars

=============================================================================
