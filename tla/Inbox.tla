------------------------------- MODULE Inbox -------------------------------
(***************************************************************************)
(* What the Buzz ingress promises whoever sends messages: a message is     *)
(* accepted at most once, with a task of its own, and whoever is answered  *)
(* is answered with that task, however often the message is delivered.     *)
(***************************************************************************)

CONSTANTS Messages, Tasks, NULL

VARIABLES
    accepted,    \* the task made for each message, or NULL
    told         \* the answers senders were given

inboxVars == <<accepted, told>>

Init ==
    /\ accepted = [m \in Messages |-> NULL]
    /\ told = {}

Accept(m, t) ==
    /\ accepted[m] = NULL
    /\ \A n \in Messages : accepted[n] # t
    /\ accepted' = [accepted EXCEPT ![m] = t]
    /\ UNCHANGED told

Tell(m) ==
    /\ accepted[m] # NULL
    /\ told' = told \cup {<<m, accepted[m]>>}
    /\ UNCHANGED accepted

Next ==
    \E m \in Messages :
        \/ Tell(m)
        \/ \E t \in Tasks : Accept(m, t)

Spec == Init /\ [][Next]_inboxVars

=============================================================================
