----------------------------- MODULE EventStore -----------------------------
(***************************************************************************)
(* Store.command, append_event and Store.open of src/src/city2core/store.py *)
(* as the steps between which a process can fail, lose the database to     *)
(* another process or die, and what they leave in the SQLite file.         *)
(*                                                                         *)
(* SQLite is modelled by what the code uses: BEGIN IMMEDIATE is the lock   *)
(* on the one write transaction there can be, tx.db is the database as     *)
(* that transaction sees it, every other statement reads the committed db. *)
(* The documents call the writer singular, but nothing keeps two processes *)
(* from opening one file (the CLI opens the file of a running service), so *)
(* Processes may have several members.                                     *)
(***************************************************************************)
EXTENDS Naturals, Sequences

CONSTANTS
    Processes,    \* processes that open the database
    Keys,         \* idempotency keys
    Aggregates,   \* objectives, tasks, actions and memories
    NULL

VARIABLES
    db,      \* the committed database
    tx,      \* the write transaction, NULL while there is none
    conn,    \* the connection of each process
    call,    \* the command each process is to have done, NULL when none
    reply,   \* what Store.command is about to return to it
    told     \* results returned so far

vars == <<db, tx, conn, call, reply, told>>

-----------------------------------------------------------------------------
(* The database: the event log, the projection rows, command_dedup and the *)
(* sequence counters of core_meta and writer_state, equal for one writer.  *)

\* An event names the position of its aggregate's event before it, as
\* prior_event_sha256 does; 0 is ZERO_SHA256.
Events == [agg : Aggregates, version : Nat \ {0}, prior : Nat, key : Keys]

\* event is last_event_id, last_event_sha256 and event_high_water of the row.
Rows == [version : Nat, event : Nat]

Commands ==
    [agg : Aggregates, expected : Nat, also : Aggregates \cup {NULL}]

Records == [command : Commands, result : Nat]

ASSUME NullAssumption == NULL \notin Aggregates /\ NULL \notin Records

Databases ==
    [log : Seq(Events), row : [Aggregates -> Rows],
     dedup : [Keys -> Records \cup {NULL}], sequence : Nat]

Database(log, row, dedup, sequence) ==
    [log |-> log, row |-> row, dedup |-> dedup, sequence |-> sequence]

EmptyDatabase ==
    Database(<<>>, [a \in Aggregates |-> [version |-> 0, event |-> 0]],
             [k \in Keys |-> NULL], 0)

\* The last event of an aggregate among the first n is the i-th, or there is
\* none and i is 0.
IsLast(log, a, n, i) ==
    /\ i \in 0 .. n
    /\ i # 0 => log[i].agg = a
    /\ \A j \in i + 1 .. n : log[j].agg # a

LastEvent(log, a) == CHOOSE i \in 0 .. Len(log) : IsLast(log, a, Len(log), i)

VersionAt(log, i) == IF i = 0 THEN 0 ELSE log[i].version

\* append_event
WithEvent(d, a, v, k) ==
    Database(Append(d.log, [agg |-> a, version |-> v, key |-> k,
                            prior |-> LastEvent(d.log, a)]),
             d.row, d.dedup, d.sequence + 1)

WithRow_KeepsEvent(d, a, v) ==
    Database(d.log, [d.row EXCEPT ![a].version = v], d.dedup, d.sequence)

\* The UPDATE or INSERT of the aggregate's row that follows it.
WithRow(d, a, v) ==
    Database(d.log, [d.row EXCEPT ![a] = [version |-> v, event |-> d.sequence]],
             d.dedup, d.sequence)

WithRecord_NoResult(d, k, c) ==
    Database(d.log, d.row,
             [d.dedup EXCEPT ![k] = [command |-> c, result |-> NULL]],
             d.sequence)

\* The result holds ids and hashes made in this transaction and never again;
\* the database sequence it reached stands for them.
WithRecord(d, k, c) ==
    Database(d.log, d.row,
             [d.dedup EXCEPT ![k] = [command |-> c, result |-> d.sequence]],
             d.sequence)

-----------------------------------------------------------------------------
(* Store.open: verify_integrity reads the events, and later the rows, each *)
(* SELECT on its own and not in one transaction.                           *)

\* The chain checks on the events, and core_meta and writer_state.
LogVerifies(d) ==
    /\ d.sequence = Len(d.log)
    /\ \A i \in 1 .. Len(d.log) :
          /\ IsLast(d.log, d.log[i].agg, i - 1, d.log[i].prior)
          /\ d.log[i].version = VersionAt(d.log, d.log[i].prior) + 1

\* Every row is at the last of the first n events of its aggregate.
RowsVerify(d, n) ==
    \A a \in Aggregates :
        /\ IsLast(d.log, a, n, d.row[a].event)
        /\ d.row[a].version = VersionAt(d.log, d.row[a].event)

Connections ==
    [state : {"closed", "verifying", "open", "refused"}, upto : Nat]

Closed  == [state |-> "closed", upto |-> 0]
Refused == [state |-> "refused", upto |-> 0]

ReadEvents(p) ==
    /\ conn[p].state \in {"closed", "refused"}
    /\ conn' = [conn EXCEPT ![p] =
                  IF LogVerifies(db)
                  THEN [state |-> "verifying", upto |-> Len(db.log)]
                  ELSE Refused]
    /\ UNCHANGED <<db, tx, call, reply, told>>

\* A row that does not fit the events read before raises IntegrityError.
ReadRows(p) ==
    /\ conn[p].state = "verifying"
    /\ conn' = [conn EXCEPT ![p] =
                  IF RowsVerify(db, conn[p].upto)
                  THEN [state |-> "open", upto |-> 0]
                  ELSE Refused]
    /\ UNCHANGED <<db, tx, call, reply, told>>

-----------------------------------------------------------------------------
(* Callers.                                                                *)

Transacting(p) == tx # NULL /\ tx.owner = p

\* A caller reads the version of an aggregate and builds its command on it.
\* Any key may come with it: that of a call whose outcome was never learnt,
\* or of another caller's.
Prepare(p, k, a, b) ==
    /\ conn[p].state = "open"
    /\ call[p] = NULL
    /\ a # b
    /\ call' = [call EXCEPT ![p] =
                  [key |-> k,
                   command |-> [agg |-> a, expected |-> db.row[a].version,
                                also |-> b]]]
    /\ UNCHANGED <<db, tx, conn, reply, told>>

\* A caller that did not get a result may drop its command; until then it
\* may present it again, with the same key.
GiveUp(p) ==
    /\ call[p] # NULL
    /\ ~Transacting(p)
    /\ reply[p] = NULL
    /\ call' = [call EXCEPT ![p] = NULL]
    /\ UNCHANGED <<db, tx, conn, reply, told>>

Return(p) ==
    /\ reply[p] # NULL
    /\ told' = told \cup
         {<<call[p].key, [command |-> call[p].command, result |-> reply[p]]>>}
    /\ reply' = [reply EXCEPT ![p] = NULL]
    /\ call' = [call EXCEPT ![p] = NULL]
    /\ UNCHANGED <<db, tx, conn>>

-----------------------------------------------------------------------------
(* Store.command.  Between any two of these steps the call may raise       *)
(* (RollBack) or the process die (Crash).                                  *)

\* BEGIN IMMEDIATE waits for the lock.
Begin(p) ==
    /\ conn[p].state = "open"
    /\ call[p] # NULL
    /\ reply[p] = NULL
    /\ tx = NULL
    /\ tx' = [owner |-> p, stage |-> "begun", on |-> NULL, db |-> db]
    /\ UNCHANGED <<db, conn, call, reply, told>>

InTransaction(p, stage) == Transacting(p) /\ tx.stage = stage

Replay_AnyCommand(p) ==
    LET prior == tx.db.dedup[call[p].key]
    IN  /\ InTransaction(p, "begun")
        /\ prior # NULL
        /\ reply' = [reply EXCEPT ![p] = prior.result]
        /\ tx' = NULL
        /\ UNCHANGED <<db, conn, call, told>>

\* The key was used for this very command: its result is returned again.
Replay(p) ==
    LET prior == tx.db.dedup[call[p].key]
    IN  /\ InTransaction(p, "begun")
        /\ prior # NULL
        /\ prior.command = call[p].command
        /\ reply' = [reply EXCEPT ![p] = prior.result]
        /\ tx' = NULL
        /\ UNCHANGED <<db, conn, call, told>>

\* A key not used before, or Store.command raises IdempotencyCollision, and
\* expect_version, or it raises ConflictError.  (The result of a run whose
\* task is being cancelled is taken at any version not in the future; that
\* one exception of submit_result is left to TaskLifecycle.)
MayOperate(d, k, c) ==
    /\ d.dedup[k] = NULL
    /\ d.row[c.agg].version = c.expected

\* append_event refuses a version that does not follow the last event's.
AppendEvent(p, a, v) ==
    /\ VersionAt(tx.db.log, LastEvent(tx.db.log, a)) + 1 = v
    /\ tx' = [tx EXCEPT !.stage = "appended", !.on = a,
                        !.db = WithEvent(@, a, v, call[p].key)]
    /\ UNCHANGED <<db, conn, call, reply, told>>

AppendFirst(p) ==
    LET c == call[p].command
    IN  /\ InTransaction(p, "begun")
        /\ MayOperate(tx.db, call[p].key, c)
        /\ AppendEvent(p, c.agg, c.expected + 1)

\* The second aggregate exists, or looking it up raises.
AppendSecond(p) ==
    LET b == call[p].command.also
    IN  /\ InTransaction(p, "projected")
        /\ b \notin {tx.on, NULL}
        /\ tx.db.row[b].version > 0
        /\ AppendEvent(p, b, tx.db.row[b].version + 1)

UpdateRow(p) ==
    /\ InTransaction(p, "appended")
    /\ tx' = [tx EXCEPT !.stage = "projected",
                        !.db = WithRow(@, tx.on, @.log[Len(@.log)].version)]
    /\ UNCHANGED <<db, conn, call, reply, told>>

RecordResult_Early(p) ==
    /\ InTransaction(p, "projected")
    /\ tx.db.dedup[call[p].key] = NULL
    /\ tx' = [tx EXCEPT !.stage = "recorded",
                        !.db = WithRecord(@, call[p].key, call[p].command)]
    /\ UNCHANGED <<db, conn, call, reply, told>>

\* The idempotency key is the primary key of command_dedup.
RecordResult(p) ==
    /\ InTransaction(p, "projected")
    /\ call[p].command.also \in {tx.on, NULL}
    /\ tx.db.dedup[call[p].key] = NULL
    /\ tx' = [tx EXCEPT !.stage = "recorded",
                        !.db = WithRecord(@, call[p].key, call[p].command)]
    /\ UNCHANGED <<db, conn, call, reply, told>>

Commit(p) ==
    /\ InTransaction(p, "recorded")
    /\ db' = tx.db
    /\ tx' = NULL
    /\ reply' = [reply EXCEPT ![p] = tx.db.dedup[call[p].key].result]
    /\ UNCHANGED <<conn, call, told>>

RollBack_Commits(p) ==
    /\ Transacting(p)
    /\ db' = tx.db
    /\ tx' = NULL
    /\ UNCHANGED <<conn, call, reply, told>>

RollBack(p) ==
    /\ Transacting(p)
    /\ tx' = NULL
    /\ UNCHANGED <<db, conn, call, reply, told>>

\* The process dies, before or after its commit; SQLite drops an open
\* transaction.  What it was to do is still to be done after the restart.
Crash(p) ==
    /\ conn[p].state \in {"verifying", "open"}
    /\ conn' = [conn EXCEPT ![p] = Closed]
    /\ tx' = IF Transacting(p) THEN NULL ELSE tx
    /\ reply' = [reply EXCEPT ![p] = NULL]
    /\ UNCHANGED <<db, call, told>>

-----------------------------------------------------------------------------

Init ==
    /\ db = EmptyDatabase
    /\ tx = NULL
    /\ conn = [p \in Processes |-> Closed]
    /\ call = [p \in Processes |-> NULL]
    /\ reply = [p \in Processes |-> NULL]
    /\ told = {}

Open(p) == ReadEvents(p) \/ ReadRows(p)

\* What a process does of itself once it is in Store.command.
Proceed(p) ==
    \/ Replay(p)
    \/ AppendFirst(p)
    \/ UpdateRow(p)
    \/ AppendSecond(p)
    \/ RecordResult(p)
    \/ Commit(p)
    \/ RollBack(p)

Ask(p) ==
    \/ \E k \in Keys, a \in Aggregates, b \in Aggregates \cup {NULL} :
          Prepare(p, k, a, b)
    \/ GiveUp(p)
    \/ Return(p)

Next ==
    \E p \in Processes : Open(p) \/ Ask(p) \/ Begin(p) \/ Proceed(p) \/ Crash(p)

Spec == Init /\ [][Next]_vars

-----------------------------------------------------------------------------
(* Properties.                                                             *)

Calls == [key : Keys, command : Commands]

Transactions ==
    [owner : Processes, stage : {"begun", "appended", "projected", "recorded"},
     on : Aggregates \cup {NULL}, db : Databases]

TypeOK ==
    /\ db \in Databases
    /\ tx \in Transactions \cup {NULL}
    /\ conn \in [Processes -> Connections]
    /\ call \in [Processes -> Calls \cup {NULL}]
    /\ reply \in [Processes -> Nat \cup {NULL}]
    /\ told \subseteq (Keys \X Records)

\* What is committed always verifies: sequences without gaps, every event
\* chained to its aggregate's event before it, every row at its aggregate's
\* last event.  No failure, crash or other process in the middle of a command
\* leaves a database that verify_integrity refuses.
CommittedVerifies == LogVerifies(db) /\ RowsVerify(db, Len(db.log))

EventsUnder(d, k) == {i \in 1 .. Len(d.log) : d.log[i].key = k}

KeysHoldOneCommand(d) ==
    \A k \in Keys :
        IF d.dedup[k] = NULL THEN EventsUnder(d, k) = {}
        ELSE LET c    == d.dedup[k].command
                 last == d.dedup[k].result
             IN  IF c.also = NULL
                 THEN /\ EventsUnder(d, k) = {last}
                      /\ d.log[last].agg = c.agg
                      /\ d.log[last].version = c.expected + 1
                 ELSE /\ EventsUnder(d, k) = {last - 1, last}
                      /\ d.log[last - 1].agg = c.agg
                      /\ d.log[last - 1].version = c.expected + 1
                      /\ d.log[last].agg = c.also

\* A key's events are those of the one command recorded under it, next to
\* each other and ending at its result: none is there without the record, or
\* a second time, or for half of the command.
OneCommandPerKey == KeysHoldOneCommand(db)

\* Whoever got an answer got the one that is on record for the command it
\* sent, whether its call committed, or it was retried after a crash, or
\* another process had sent the same.
AnswersOnRecord ==
    \A x \in told : db.dedup[x[1]] = x[2]

LedgerView == INSTANCE Ledger WITH
    version <- [a \in Aggregates |-> db.row[a].version],
    count   <- Len(db.log),
    record  <- db.dedup,
    told    <- told

\* What the callers see is the abstract ledger: however processes, failures
\* and crashes interleave inside Store.command, a command happens whole, at
\* one instant, at the version its caller read, and once.
ImplementsLedger == LedgerView!Spec

-----------------------------------------------------------------------------
(* The strengthening that makes the invariants above inductive: at every   *)
(* stage the transaction's database is the committed one with exactly the  *)
(* command's writes so far, and a reply is what is on record.              *)

AfterFirst(d, k, c) ==
    WithRow(WithEvent(d, c.agg, c.expected + 1, k), c.agg, c.expected + 1)

SecondEvent(d, k, c) ==
    WithEvent(AfterFirst(d, k, c), c.also, d.row[c.also].version + 1, k)

AfterSecond(d, k, c) ==
    WithRow(SecondEvent(d, k, c), c.also, d.row[c.also].version + 1)

AfterAll(d, k, c) ==
    IF c.also = NULL THEN AfterFirst(d, k, c) ELSE AfterSecond(d, k, c)

CallsApart ==
    \A p \in Processes :
        call[p] # NULL => call[p].command.agg # call[p].command.also

WorkOf(k, c) ==
    \/ /\ tx.stage = "begun"
       /\ tx.on = NULL
       /\ tx.db = db
    \/ /\ MayOperate(db, k, c)
       /\ \/ /\ tx.stage = "appended"
             /\ tx.on = c.agg
             /\ tx.db = WithEvent(db, c.agg, c.expected + 1, k)
          \/ /\ tx.stage = "projected"
             /\ tx.on = c.agg
             /\ tx.db = AfterFirst(db, k, c)
          \/ /\ tx.stage = "appended"
             /\ tx.on = c.also
             /\ c.also # NULL
             /\ tx.db = SecondEvent(db, k, c)
          \/ /\ tx.stage = "projected"
             /\ tx.on = c.also
             /\ c.also # NULL
             /\ tx.db = AfterSecond(db, k, c)
          \/ /\ tx.stage = "recorded"
             /\ tx.db = WithRecord(AfterAll(db, k, c), k, c)

TxSound ==
    tx # NULL =>
        /\ call[tx.owner] # NULL
        /\ reply[tx.owner] = NULL
        /\ WorkOf(call[tx.owner].key, call[tx.owner].command)

RepliesOnRecord ==
    \A p \in Processes :
        reply[p] # NULL =>
            /\ call[p] # NULL
            /\ db.dedup[call[p].key] =
                 [command |-> call[p].command, result |-> reply[p]]

StoreInv ==
    /\ TypeOK
    /\ CommittedVerifies
    /\ CallsApart
    /\ TxSound
    /\ RepliesOnRecord
    /\ AnswersOnRecord
    /\ OneCommandPerKey

=============================================================================
