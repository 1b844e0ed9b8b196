# A TLA+ model of City2 Core

City2 Core (`src/src/city2core/`) is a single-writer ledger in one SQLite file:
commands of workers, operators and reviewers become events, projection rows and
deduplication records in one transaction each. This directory holds TLA+ modules
translated from that code, TLC configurations that check them on small instances,
and proofs, checked by TLAPS, that hold for every instance.

Modules: `tlasany M.tla`. Runs: `tlc -config X.cfg M.tla`, with the module that
`PROJECT.json` names for `X.cfg`. Proofs: `tlapm M.tla` for a module `...Proofs`.

## 1. Inventory

| Component | Code | State | Operations | Modules |
|---|---|---|---|---|
| Store | `store.py` | `events`, projection rows, `command_dedup`, `core_meta`, `writer_state` | `command`, `append_event`, `open`/`verify_integrity`, `initialize`, `migrate` | `EventStore`, `Ledger`; `Archive` for the file and its migrations |
| Core: tasks, runs, actions | `core.py` | `tasks`, `task_revisions`, `runs`, `actions` | create, ready, approval, lease, start, result, expire, cancel, review, revise, resume, prepare, dispatch, reconcile | `TaskLifecycle`, `Lease` |
| Core: objectives | `core.py` | `objectives`, `objective_revisions` | create, set status, revise; tasks pin a revision | `Objective` |
| Memory | `memory.py` | `memory_records`, `memory_reviews`, `memory_conflicts`, `memory_fts` | create, review, mark stale, revalidate, sweep, source change, rebuild index | `MemoryLifecycle` |
| Context assembly | `memory.py` | `context_packs` | sweep, retrieve, record | `ContextPack` |
| Independent review | `review.py` | `agent_manifests`, `task_reviews` | register manifest, review task, promote memory | `Review` |
| Buzz ingress, runner adapter | `adapters.py` | `interface_messages`, capabilities, dispatches | ingest a message, negotiate, prepare a dispatch | `BuzzIngress`, `Inbox`; not the runner |
| Local backup | `archive.py` | a signed directory | create, verify, restore | `Archive` |
| Encrypted archive | `archive_backend.py` | ciphertext copies and receipts | put, get, renew, fall back | `Retention` |
| Producer observer | `producer.py` | none; reads a file another process writes | observe, verify | none |
| Expansion admission | `expansion.py` | none | one predicate | none |
| Canonical JSON, schemas, CLI, scripts, deployment | `model.py`, `schema.py`, `cli.py`, `scripts/`, `infra/` | none of their own | conversions, validation, reports | none |

How they interact: every write goes through `Store.command`. Core, Memory, Review
and the adapters hand it a function that checks the aggregate's version and rows,
appends events and updates rows; the store adds the deduplication record and
commits. Review and the adapters call Core and then record something of their own
in a second transaction. Memory's maintenance loops call one command per record.
Workers and operators know each other only through rows: a lease is a run id, a
fencing token and an expiry in the task's row; an action's row is the outbox.

What is hard: late results against expired leases, cancellations and new attempts;
action outcomes that arrive when the task has moved on; retries with an idempotency
key after a crash; two processes on one file; a projection and what is derived from
it (the index, the verify checks) coming apart after a long legal sequence; what a
caller read before its transaction and uses in it (review, context, ingress, backup);
work of several transactions that stops half way (a review and its record, a task and
its mapping, a migration, a copy). `PROJECT.json` lists the hazards at their lines,
each with the properties that would catch it.

What makes each correct:

- Store: a command happens whole, at one instant, at the version its caller read,
  once; what is committed verifies.
- Core: rows always pass `verify_integrity`; a closed task stays closed; what is
  reviewed is completed work of the newest run; an unknown outcome holds its task; an
  action is dispatched once; every task can be closed. A task pins a revision of its
  objective that the history keeps.
- Memory: the index is the accepted records; what was replaced stays replaced; review
  admits no two facts in conflict; a sweep that returns has left nothing it read, and
  makes stale nothing that was revalidated under it.
- Context: a pack keeps to its budget and its run's envelope, tells of every memory it
  drops, and holds what was current when it was read.
- Review: a decision falls on the newest run and accepts work only if it passes; a record
  that closes a task is of the decision that closed it.
- Ingress: one task per message, whoever delivers it and however often, and mapped
  in the end.
- Archive: a published backup is one committed state; what is restored has its identity,
  schema and log; no migration loses a log; an interrupted migration is finished. Retention: a receipt means a whole
  copy, and before the deadline there are two.

## 2. Plan

In the order in which they were written; all are done.

| Order | Modules | Built on | Proofs |
|---|---|---|---|
| 1 | `TaskLifecycle`, which implements `Lease` | `Lease` | `TaskLifecycleProofs` |
| 2 | `EventStore`, which implements `Ledger` | `Ledger` | `EventStoreProofs` |
| 3 | `MemoryLifecycle` | | `MemoryLifecycleProofs` |
| 4 | `Objective`, `BuzzIngress`, which implements `Inbox` | `Objective`, `Inbox` | `BuzzIngressProofs` |
| 5 | `Review` | `TaskLifecycle` | `ReviewProofs` |
| 6 | `Retention` | | `RetentionProofs` |
| 7 | `Archive` | | `ArchiveProofs` |
| 8 | `ContextPack` | `MemoryLifecycle` | `ContextPackProofs` |

`Ledger` is what lets the other modules take a command for one step: it is refined by
the steps of `Store.command` once, in `EventStore`, and `TaskLifecycle`,
`MemoryLifecycle`, `Objective` and the transactions of the rest start from there.

What could still be added is under section 7. Callers that retry `lease_task` with a
later clock were planned as a module of their own and are not: the retry's answer comes
from `EventStore`'s `Replay` or is a refusal that changes nothing.

## 3. The modules

### Lease and TaskLifecycle

The tables `tasks`, `runs` and `actions` as functions `task`, `run`, `action`, and the
clock. One action per public method of `Core` that writes them: a method is one
transaction, so it is one step, and a call that fails a check rolls back and is no
step. The helpers `Moved`, `Released`, `Fenced`, `SettleCurrentRun`, `ActionMoved` and
`Escalated` are the writes of `_transition_in_tx` and `_action_transition`.
Run ids and tokens are the pair (task, attempt) of the lease they were made for, since
the code draws both fresh. `task_sha256` is NULL for the digest of the revision or the
run whose envelope it is. An action row remembers separately whether its columns and
its record carry the provider's proof, since the code writes them differently.
Workers present any run and any token, so stale and foreign ones are covered; the
token a worker presents need not be the one its run was given.

`Lease` is what all of this promises the workers: `Grant` gives a task nobody holds its
next attempt, `Begin`, `Report`, `Withdraw` and `Quarantine` change the status of the run
that holds it, while that is open, and all but `Begin` and `Quarantine` free the task;
`TakeBack` frees it and leaves the run's status as it is, which is what resuming a task
does whose run was escalated. The refinement mapping takes `attempt_count`,
`current_run_id` and `runs.status`; no state, token, expiry, action or review appears in
`Lease`, and commands that change only those are stutters.

Left out: titles, budgets and other immutable contents, the findings a review must
disposition and the approvals of an action. Objectives are in `Objective`.

### Ledger and EventStore

`Ledger` is the promise: `Apply` happens at most once per key, whole, at the version the
caller read; `Tell` gives out only what is recorded. `EventStore` is `Store.command` in
its steps (`Begin`, `Replay`, `AppendFirst`, `UpdateRow`, `AppendSecond`, `RecordResult`,
`Commit`, `RollBack`, `Return`), with `Crash` possible between any two, and `Store.open`
as the two reads `ReadEvents` and `ReadRows`. `tx.db` is the database the transaction
sees, `db` the committed one; SQLite is used through BEGIN IMMEDIATE, COMMIT, ROLLBACK
only. An event names the position of its aggregate's previous event, which is what its
hash chain identifies. A command may write a second aggregate, as an unknown outcome
does. `LedgerView` is the refinement mapping: versions, number of events, records and
answers of the committed database.

### MemoryLifecycle

`memory_records`, the entries of `memory_fts`, `memory_conflicts`, and for the keys of
source-change signals the version they were used with. Records are facts of one scope
and class with a common label, so that two are in conflict when their statements
differ. A record carries the text its index entry would be made from now (`origin`) and
the one its `source_text` column was made from (`indexed`).

`SweepStale` and `MarkSourceChanged` read the accepted records and their versions and
start a loop of a process (`work`); `SweepOne` and `SignalOne` are its transactions. The
code takes no lock for the whole loop, and the command line may open the file of a running
service, so every command, and the loops of other processes, fall between them. What
`mark_stale` then finds decides how the loop goes on: the record as it was read (`AsRead`),
one that has moved, which makes the whole call raise (`SweepRaises`, `SignalRaises`), or a
key of `mark_source_changed` that was used before, with the same command
(`SignalReplayed`) or another (`SignalRaises`). `Crash` ends a loop anywhere. The clock is
read only where a sweep begins, so it is a parameter of `SweepStale` and no variable.

### Objective, Inbox and BuzzIngress

`Objective` has `objectives`, `objective_revisions`, and of `tasks` what they pin. Its
actions are `create_objective`, `set_objective_status`, `revise_objective` and
`create_task`. A digest is the pair of revision and content it covers, so that a
revision overwritten later would show.

`BuzzIngress` adds `ingest_task` in its steps: `Receive` reads the mapping; `MakeTask`,
`FoundTask` and `CreateRefused` are the three ways `create_task` ends under the key
`buzz:message:<id>`, whose record is `created`; `RecordMapping` and `MappingCollides`
are the two under `buzz:mapping:<id>`; `Answer` returns. A delivery is the message, what the
task is to say, and an envelope (channel, thread, time), which a second delivery may
change. `Crash` ends any call, and every process has its own.
`Inbox` is the promise to the sender: `Accept` once per message with a task of its own,
`Tell` what was accepted. The mapping takes `accepted[m]` to be the task of
`created[m]`: it is the key that decides, and not the row of `interface_messages`.

Left out: the refusals that come before any read (owner, channel, A0).

### Review

`review_task` over every command of `TaskLifecycle`: `CheckReview` (the reads and
checks), `Decide` (Core's transition), `ReadEvent` (the review's id, from the task's
latest event), `Record` (the row of `task_reviews`), and `GiveUp` for a call that fails
or dies. `CoreCommand` is any other command and `Register` is `register_manifest`.
`call[c].moved` says whether the row has moved since the caller read its version, which
is all that `expect_version` tells. The review id is drawn anew by each call, so a call
repeated with its old key collides at the transition and is no step. `reviewed` lists
the review events in their order and `latest` is the id in a task's latest event, NULL
when that event has none. `revise_task` writes into its event the id its caller gives and
compares it with nothing, so a revision says any id: that of the review it answers, of
another, or one that no review has (0). A manifest is `separate`, `entangled` (it shares a
credential with the maker) or `unfit`: the code refuses only the last. A run's evidence
passes or does not: what the checks compute is left open, when they read is not.

Left out: the findings, and `promote_memory`.

### Retention

`seal_archive`, the local `put`, the Walrus store and `enforce_retention_fallback`, with
a crash possible between any two steps. A file is written in two steps and is there when
it is half written. Sealing again makes other bytes under the same `archive_id`, so what
a file holds is named by the path it was sealed to. Walrus is external: a blob has an end
epoch, may lose its certificate, and is extended or not. `checked` remembers the epoch of
the last check that returned, for `SecondCopyInTime` is a promise to those who check each
epoch.

### Archive

`live` is the database file: its identity, its schema version, the length of its event
log, which only grows and so stands for log and projections, and the number of its quiet
writes, rows that no event tells of (`agent_manifests`, `task_reviews`, `command_dedup`,
`interface_messages`). `committed` remembers every state a database was committed in. Ids
are numbered as they are drawn, which is all that tells fresh ones apart.

`Initialize`, `Migrate`, `ApplyVersion`, `ApplyDone` and `ApplyFails` are `initialize` and
`migrate`, a transaction for each version. A call may fail between any two and after the
last: `migrate` leaves the file, and `initialize` removes it, although workers may have
opened it after its last commit; `unlinked` are such files, to which they go on committing
and which a backup may still copy. `Upgrade` installs software with a later
`SCHEMA_VERSION`; a process goes on with the one it was started with.

`BackupVerify`, `BackupCopy`, `BackupExport`, `BackupPublish` and `BackupEnds` are
`create_backup`; workers may commit and operators migrate between any two. `RestoreOpen`,
`RestoreCopy` and `RestoreEnds` are `restore_backup`. `Damage` exchanges a published
snapshot for any state that was ever committed, or spoils it, at any time. `verify_backup`
compares its checksum; the copy reads the file again, and what is checked of it then
(`Accepted`) is what the code checks: that it opens, its identity, its high water and, with
that, its terminal hashes. Signatures are sound: what does not differ from what was
published verifies, and nothing else does.

### ContextPack

`assemble_context` over every command of `MemoryLifecycle`: `AssembleStart` reads the
task's newest run and starts the sweep, which is a loop of `MemoryLifecycle`, `Retrieve`
reads the records, `RecordPack` selects and records in a transaction of its own, and
`AssembleEnds` is a call that raises or dies. Between them memories change, other processes
sweep, the clock moves (`Tick`) and the task gets another run (`NewRun`). A request names
budgets for any of the sections; a section it does not name may hold nothing and has no
entry in the manifest (`Allowance`). `Projection` is what the snapshot in the manifest
fixes of the records at the time of recording. `Selection` is the greedy choice
along a ranking, one round of the loop after another (`Rounds`, a recursive function):
whole statements while they fit in their section, then an excerpt cut at what is left.
The ranking is left open, so the properties hold whatever the scores are. `Cut` gives
the tokens of an excerpt, which may be fewer than were asked for when the cut ends in
blanks, down to none.

Left out: the retry under the key of a recorded pack, which `EventStore` answers.

## 4. The runs

| Run | Instance | Shows |
|---|---|---|
| `Lifecycle` | 1 task, 2 actions, 2 attempts, 2 revisions, clock 0..2, one supplied time | the lifecycle's invariants and action properties, the refinement of `Lease`, and `NoStrandedTask` under `FairSpec` |
| `EventStore` | 2 processes, 2 keys, 2 aggregates | invariants, and the refinement of `Ledger` |
| `Memory` | 3 memories, 2 statements, 2 contents of the source, 2 candidates, 2 processes, versions to 5 of one memory and to 3 of the others, times 0..1 | the memory invariants and `LoopSparesRevalidated` |
| `Ingress` | 1 objective, 2 tasks, 1 of them for operators, 2 contents, 2 bodies, 2 revisions, 1 message, 2 envelopes, 2 processes | pins and mappings, the refinement of `Inbox`, and `CreatedIsMapped` under `FairSpec` |
| `Review` | 2 callers, 1 task, 1 action, 2 attempts, 2 revisions, clock 0..1, 1 reviewer with 1 manifest of 3 kinds, 2 decisions, review ids 0..2 | what is decided, on what, and how it is recorded |
| `Retention` | 2 paths, 1 blob, epochs 0..4, terms to 3 | `LocalReceiptMeansCopy`, `SecondCopyInTime` |
| `Archive` | 2 identities, 1 destination, 1 directory, schemas to 3, 1 event, 1 quiet write | what is published and restored, and `ComesToOpen` under `FairSpec` |
| `ContextPack` | 2 memories of one section of 2, versions to 3, times 0..1, 2 processes, budgets of 0, 1, 3, 4 and 5 tokens and 2 that leave a section out, 2 runs, 1 pack | the properties of packs |
| `LifecycleActionRowsVerify`, `MemoryIndexVerifies`, `ReviewDecisionsRecorded`, `RetentionFallbackWritten` | the least that shows it | a counterexample each, section 6 |

Why the bounds are enough. Commands on different tasks share nothing but actions, which
never change their task, so one task is the general case; two actions let one be open
while another settles. Two attempts and two revisions give a superseded run, a run of an
old revision and a lowered ceiling; the clock needs a time before, at and after an
expiry. Two processes, keys and aggregates give every collision of keys, versions and
transactions, and a chain of events that grows by one or two; the keys bound the number
of commands. Three records give a chain of replacements, or a replacement beside a
conflict. A record has version 4 when it was created, accepted, made stale and
revalidated, and 5 when it is then made stale again; one record may go that far, the
others have version 3 when they were accepted and made stale or replaced. Two times give a
deadline before, at and after that of a sweep. The other commands between the
transactions of a loop come from nobody in particular; the second process is there for a
second loop, without which no signal would find that the key it is about to use was used
since it read the records.

Messages share no key and no row, so one message with two processes and two differing
deliveries is the general case; the second task is for the operators, who would otherwise
take the one the message needs. A second reviewer would only repeat the first; two
callers and two decisions give a decision recorded while another falls, under its own id,
the other's or one that no review has. Two paths are a sealing and a second one of the
same archive; the deadline is two epochs before the end, so terms to 3 begin before it,
at it and after it. Three schemas give a migration of two steps that stops between them;
two identities tell a restored database from one made anew, and a file that was removed
from its successor; an event and a quiet write are each a state before and one after.
Two memories of one section compete for one budget, and the budgets run
from nothing to more than both need. More memories would only add rounds to `Selection`,
each of which does what one of these does.

The bounds are the constants `MaxAttempts`, `MaxRevision`, `MaxTime`, `MaxVersion`,
`OperatorTasks`, `MaxManifests`, `MaxReviews`, `MaxEpoch`, `MaxTerm`, `MaxIds`,
`MaxSchema`, `MaxEvents`, `MaxQuiet` and `MaxPacks`, in the guards of the actions they bound; the theorems hold for
any value of them, `MaxVersion` being a bound for each memory.

Symmetry is used in processes, keys and aggregates, in the memories that have the same
bound, in callers and in paths, none of which the modules distinguish, and never in a run with a liveness
property. Deadlock is checked except in `Review`, `Retention` and `Archive` and the two
violation runs of the first two, where the bounds let everything come to its end: a closed
task whose decisions are used up, the last epoch, software and log at their last.

Mutants: an operator `X_Mistake` (`MayDecide_AnyVersion`, `RenewalRequired_Late`) is `X`
with that mistake in it; no action uses it. For every property of a passing run,
`PROJECT.json` names one that makes TLC find the property violated when it stands in for
`X`.

Fairness. `Spec` has none anywhere: City2 schedules nothing. Three modules state what
must be assumed of people for a promise to be kept:

- `FairSpec` of `TaskLifecycle`: time passes and somebody attends to the tasks. An
  operator who can expire a lease, settle an action as failed, resume, cancel, confirm a
  cancellation, accept or revise eventually does (weak fairness on each). Nothing is
  assumed of workers, who may stop anywhere. `NoStrandedTask` therefore says that the
  commands suffice: no order of failures leads to a state from which those people cannot
  close the task.
- `FairSpec` of `BuzzIngress`: a sender redelivers until it is answered, a process that
  runs goes on (weak fairness), and does not die in every single attempt (strong fairness
  on the redelivery and on the two steps that find and map). `CreatedIsMapped`: no
  order of crashes, revisions and closed objectives leaves a created task unmapped.
- `FairSpec` of `Archive`: an operator repeats `migrate` until it returns, and it does not
  fail or die for ever (strong fairness on `Migrate` and on `ApplyVersion`, weak on what
  ends a call). `ComesToOpen`: however often a migration is interrupted, the database
  comes to the version of the software.

## 5. The proofs

`TaskLifecycleProofs`. `TypeCorrect` comes first, by one lemma per row operator.
`ReviewedWorkCompleted`, `TaskRowsVerify` and `LiveAttemptWithinCeiling` are not
inductive: that a result admitted for review is of the newest run needs that the current
run is the newest (`CurrentIsNewest`), this needs that attempts have no gaps
(`RunsCounted`), and that task_sha256 is the right digest needs to know of which revision
the newest run is (`EnvelopeIsNewest`). `RowCoherent` is their conjunction for one task;
each command has a lemma that its own task stays coherent, `RowFrame` says the others do,
and `DeliverInv` treats the actions on the outbox. `TerminalIsFinal`,
`SupersededAreInert` and `OutboxIsForward` are action properties proved from the
invariant step by step. `LifecycleImplementsLease` needs more of `CurrentIsNewest` than the
invariants do: that a task at rest names no run, without which `lease_task` could grant a
task somebody holds, and that a leased or running task and its run say the same, without
which `Begin` could not be told from a step on a run already begun. One lemma for each kind
of command maps it to a step of `Lease` (`LeaseTaskGrants`, `StartRunBegins`,
`RecordResultReports`, `QuarantineResultQuarantines`, `SettledAndFreed`, `OnlyFreed`) or to
a stutter (`RowKept`). Assumptions: the bounds are natural numbers and NULL is none of
the values it stands beside.

`EventStoreProofs`. `StoreInv` says that at every stage `tx.db` is the committed
database with exactly the writes the command has made so far (`TxSound`). That one write
of an event and its row keeps a verified database verified is `WroteVerifies`; that a
whole command adds its one or two events under its key is `CommandEffect` and
`DoneOnce`. `StoreImplementsLedger` maps `Commit` to `Apply` (`CommitApplies`), `Return`
to `Tell` (`ReturnTells`) and every other step to a stutter. Assumption: NULL is neither
an aggregate nor a record. The number of processes is arbitrary.

`MemoryLifecycleProofs`. `MemoryInv` is in two parts. `RecordsInv` has the type of the
records, the properties of records and `VersionsCounted`, that a record's status implies
how many versions it has had, without which a revalidation could not be told from a review
in `ReviewAdmitsNoConflict`. `LoopsInv` says of every process's loop that the versions it
read are not ahead of the records (`LoopHolds`), so that a record with the version that was
read is the one that was read, and that a key of a signal was used with a version the
record has left behind (`KeysSpent`), so that a replayed answer leaves nothing accepted as
it was read. `LoopLeavesNothing` is kept by every command because a command that changes a
record gives it the next version. `RecordsMoveOn` is an action property no run checks: a
record makes only the moves the commands have, each under the next version, so that a
version names one state of a record for good.

`ContextPackProofs`. What `Selection` returns for a ranking of any length is an
induction over the rounds of its loop. The library's induction theorems take an
operator, which the provers cannot instantiate; `NatInd` states induction for a set of
numbers instead, proved from the least number outside it (`NatMin`), and each use names
its set. `SectionOK` is what a round keeps for a section: what was used is the sum of
the excerpts taken, within the budget, and as long as nothing was cut everything ranked
so far is in it; `TakenOK` puts the sections together, `TakesOK` is its step and
`SelectionOK` its conclusion. The sums are over sequences and have lemmas of their own
(`SumsType`, `SumsAgree`, `TotalAppend`). `ContextInv` carries this from the retrieval
to the recorded pack and its snapshot: each memory read was accepted and not due, and has a
later version since if anything changed it, which is what `RecordsMoveOn` gives, and has
been accepted in any case; the snapshot takes over what holds when the pack is recorded. It also
says that only finitely many records exist, or there would be nothing to rank. Every
step of a caller is a step of `MemoryLifecycle` or leaves it alone
(`CallersKeepRecords`), so its theorems hold here too.

`BuzzIngressProofs`. `IngressInv` says that the history keeps every revision up to the
objective's (`HistoryKept`), that the record under a message's key is the task's own
fields (`CreatedIsTask`), and that what a process holds between its steps agrees with it
(`AdaptersAgree`, `MappingAgrees`). `IngressImplementsInbox` maps `MakeTask` to `Accept`,
`Answer` to `Tell` and every other step, crashes included, to a stutter (`InboxStep`).
`RecordsStand` is an action property no run checks: no step rewrites a revision on record,
the row of a closed objective, the pin of a task, the record under a message's key or a
mapping. It needs the second half of `HistoryKept`, that nothing is on record beyond the
revision in force; otherwise the next revision might overwrite something.

`ReviewProofs`. Every step of `Review` is a step of `TaskLifecycle` or leaves it alone, so
`LifecycleInv` of `TaskLifecycleProofs` holds throughout and is used, not proved again;
`ReviewersKeepCore` says so as a theorem, and with it each property of `TaskLifecycle`,
`ImplementsLease` included, holds beside any reviewers.
`ReviewInv` adds for each caller that as long as the row it read has not moved, its checks
hold (`CheckHolds`) and the run it names is the newest. That rests on one argument: while a
task in review stays as it is, no command makes a newer run (`NewestStands`), reopens an
action (`NoneReopens`) or undoes what the checks saw (`ChecksStand`). For the records:
after a decision that closes the task its event stays the task's latest, since nothing
writes a closed task again, neither a late outcome nor a revision (`CloseStands`, from the
step that also gives `TerminalIsFinal` of `TaskLifecycleProofs`), so the id that is read
back is the decision's own (`IdRead`). For a decision that returns the task nothing of the
kind holds, which is why `ClosingRecordsAgree` speaks of the others.

`RetentionProofs`. `RetentionInv` relates what each call has seen so far (`CallSound`),
receipts (`ReceiptsSound`) and past checks (`ChecksSound`) to the files; it holds because a
whole copy is never overwritten and an end epoch never moves back.

`ArchiveProofs`. `ArchiveInv` has one part for each place a database is in: every file past
its first migration, with a name or without, is committed; a migration starts from what is
there, and nobody commits to a database it has not finished; the stage holds a committed
snapshot with its own length; a published one is such a snapshot; a restore under way is of
an archive of its software's schema, and what it returned agrees with that archive
(`FilesCommitted`, `MigrationSound`, `StageSound`, `PublishedIsCommitted`, `RestoreSound`,
`CopiesSound`). `RestoresAreTrue` needs the schema from the verification, the length from
`PublishedIsCommitted` and the rest from what is checked of the copy. `LogsAreKept` needs of
`MigrationSound` that a database with events has its last migration, so that the file that
a failing `initialize` removes is one of `unlinked`.

Assumptions, all named in the modules that declare the constants: bounds are natural
numbers, NULL is none of the values it stands beside, `OperatorTasks` are tasks. The
numbers of tasks, actions, memories, processes, callers, paths and so on are arbitrary.

Only model-checked: `NoStrandedTask`, `CreatedIsMapped` and `ComesToOpen`, since liveness
under fairness is out of the prover's reach. Every other property of a passing run is a
theorem. What section 6 reports is TLC's: a counterexample each.

## 6. Where code and documents part

Four runs check what a document says and find it violated; the wording and the lines are
in `PROJECT.json` under `findings`.

- `ActionRowsVerify`: compensating a confirmed action without new evidence clears the
  columns that `verify_integrity` compares with the record; the database does not open
  again.
- `IndexVerifies`: revalidating with evidence of the same uri and hash but another path
  or revision has the same effect through `source_text`.
- `DecisionsRecorded`: a review whose process dies after its transition leaves a decision
  that has no record, and the repeated call does not write it.
- `FallbackWritten`: a copy interrupted half way makes every later retention check fail
  where it should write the second copy.

Met on the way, and not stated as runs. Visible in the modules:

- An action that outlives the lease it was prepared under may be open when its task is
  cancelled, although `docs/COMPANY-OS-SPEC.md:623` rules that out, and may be dispatched
  after the lease is gone, although `docs/CORE.md:55` asks for a current one.
- Resuming after a reconciliation (`core.py:649`) takes the task's latest run, not that of
  the revision in force, and asks for the review of a superseded run.
- Opening while another process commits may refuse an intact database, because the log and
  the rows are read in different statements (`store.py:508`).
- Revalidation does not look for conflicts, so two accepted facts may disagree
  (`docs/MEMORY.md:17`).
- A source-change signal that repeats an earlier one is refused, and a sweep or a signal
  that comes to a record another process has changed since raises; either leaves that
  record and those after it accepted. A record that is accepted already due after the
  `SELECT` is left by a sweep that returns. `docs/MEMORY.md:31` has affected records go
  stale immediately; `LoopLeavesNothing` promises only what was read.
- What a pack selects is as `retrieve` read it, before the transaction that records the
  pack. A memory that has gone stale or been replaced by then is in it, with an excerpt,
  although such records never enter context (`docs/MEMORY.md:23`, `docs/THREAT-MODEL.md:110`)
  and must be excluded (`docs/COMPANY-OS-SPEC.md:841`). The transaction does read the
  records again, for the snapshot (`memory.py:716`), so that the manifest's own digest is
  of a state in which the memory is not accepted: `SelectedWereCurrent` says just that.
- A memory of a section the caller gave no budget for is left out (`memory.py:683`), and no
  section of the manifest says so (`memory.py:751`); only its list of excluded memories has
  it, as `TruncationIsSaid` states. `tests/test_memory.py` calls with one section.
- `docs/REVIEW.md:7` wants a reviewer that holds no credential of the maker and, where
  configured, follows another model policy. `review.py:74` computes both, refuses on
  neither (`review.py:79` looks at policy, `enabled` and tools) and stores them with the
  record. In `Review` an `entangled` manifest decides as a `separate` one does, and no
  property says otherwise. The manifest is read before the transaction, and a later
  version that forbids the review does not stop it.
- `revise_task` takes the id of the review it answers from its caller and compares it with
  nothing (`core.py:591`), while `review_task` reads its own id back from the task's latest
  event (`review.py:98`). When a decision that returns the task is followed at once by a
  revision, its record is filed under whatever id that revision names: of another review,
  whose own record is then ignored (`INSERT OR IGNORE`), or of none; after any other
  command the read fails and there is no record. Decisions that close a task are safe from
  this (`ClosingRecordsAgree`).
- `restore_backup` reads the snapshot again after verifying it and does not hash it again:
  it compares identity, high water and terminal hashes and runs `verify_integrity`
  (`archive.py:325`). A snapshot exchanged in between for one that agrees in these is
  returned as verified, with other rows in `agent_manifests`, `task_reviews`,
  `command_dedup` or `interface_messages`. `RestoredAsArchived` promises identity, schema
  and log.
- `initialize` removes the file also when it fails after its last commit, at the `chmod`
  (`store.py:255`). A worker that has opened it by then commits on to a file without a
  name, and its log is lost; `LogIsKept` names this as the only way to lose one.
- The check that accepted work has no unresolved action looks at the actions of the newest
  run; one of an earlier run may be open when the task is accepted.
- A task resumed with no attempt left is `ready` and can only be cancelled; an unknown
  outcome takes a task out of `cancellation_requested`, and leaves a closed task closed; a
  run whose task was escalated keeps its status `leased` or `running`.
- A published backup of an older schema is refused by newer software, while
  `docs/COMPANY-OS-SPEC.md:1271` and `:1485` have retained backups restored again after
  schema upgrades. An `initialize` that died before its first commit leaves an empty file
  that neither it nor `migrate` takes further.
- A late result may come in again, under another key and with other contents, as long as
  the cancellation is not confirmed: `submit_result` does not look at the status of the run
  (`core.py:885`), and the row keeps the last one. The contents are not modelled; the
  status stays, which is all that `Lease` promises.
- A pack is made for the newest run of its task, whether it is leased or not
  (`docs/MEMORY.md:56` asks for a leased one), and is recorded even when there is a newer
  one by then.

The digest guard of `revise_objective` can never fire, since its own transaction makes the
digest.

## 7. Not modelled

- Of Core: the findings a review must disposition and the approval hashes of an action,
  which are compared within one transaction.
- Of Memory: `promote_memory` (one call of `review_candidate` after checks), the merging of
  equal candidates, reviewer authority, export, and import (a loop of `create_candidate`).
- The runner adapter: negotiation and rendering are pure, and `prepare_dispatch` inserts one
  row per run which nothing reads.
- The producer observer, which reads a file another process writes and keeps nothing: an
  inconsistent reading is an error of the call.
- The expansion predicate, a pure function of one record.
- Of the archives: `get`, `restore_encrypted_archive`, which decrypts into a new directory
  and calls `restore_backup`, and the making of keys.
- Canonical JSON, digests, ids and schema validation: pure conversions; a digest is modelled
  by what it identifies.
- The command line, the repository's scripts and the Buzz deployment: no state of their own.

SQLite is taken at its word: a transaction is atomic and durable, and a power failure
behaves as a crash of the process. Signatures and encryption are taken as sound.
