--------------------------- MODULE MemoryLifecycle ---------------------------
(***************************************************************************)
(* Memory records, their search index and their conflicts: MemoryService   *)
(* of src/src/city2core/memory.py.                                         *)
(*                                                                         *)
(* create_candidate, review_candidate, mark_stale, revalidate and          *)
(* rebuild_index are one transaction each and one action here.             *)
(* sweep_stale and mark_source_changed read the records and then run a     *)
(* transaction for each.  They hold no lock in between, so the commands    *)
(* and the loops of other processes on the file fall there, and the        *)
(* process may die.                                                        *)
(*                                                                         *)
(* The records are facts of one scope and one fact class that share a      *)
(* label, so that two of them are in conflict when their statements        *)
(* differ.  Each cites one source; the content hash is what the source     *)
(* said, and origin stands for the owner, uri, path and revision that      *)
(* _source_text puts in the index.  Who proposes and who reviews is left   *)
(* out: for every candidate there is someone who may.                      *)
(***************************************************************************)
EXTENDS Naturals

CONSTANTS
    Memories,      \* memory ids
    Statements,    \* normalised statements
    Hashes,        \* content_sha256 of the source
    Origins,       \* where the source is: path, revision, owner
    Candidates,    \* what candidates say, of what source, and their deadline
    Processes,     \* the processes that sweep or signal
    MaxVersion,    \* bound: no command on record m that has version MaxVersion[m]
    MaxTime,       \* bound: the latest time there is
    NULL

ASSUME MemoryAssumption ==
    /\ MaxVersion \in [Memories -> Nat]
    /\ MaxTime \in Nat
    /\ {} \notin {Statements, Hashes, Origins}
    /\ Candidates \subseteq [statement : Statements, hash : Hashes,
                            origin : Origins, due : 0 .. MaxTime]
    /\ NULL \notin Origins

VARIABLES
    memory,       \* memory_records
    index,        \* memory_fts: the source_metadata of each entry, or NULL
    conflicts,    \* memory_conflicts, none of which the code ever resolves
    signalled,    \* version each memory:source-change key was used with, or 0
    work          \* each process's loop, of sweep_stale or
                  \* mark_source_changed, or NULL

vars == <<memory, index, conflicts, signalled, work>>

-----------------------------------------------------------------------------

Times    == 0 .. MaxTime
Versions == Nat

MemoryStates ==
    {"none", "candidate", "accepted", "rejected", "stale", "superseded",
     "quarantined"}

\* origin is that of record_json, written again by every command; indexed is
\* the source_text column, written when the row is inserted.
MemoryRows ==
    [state : MemoryStates, version : Versions, statement : Statements,
     hash : Hashes, origin : Origins, indexed : Origins, due : Times,
     supersedes : SUBSET Memories]

\* read is the aggregate_version of each accepted record when the loop began,
\* and 0 for the others; left are the records it still has to make stale.
Loops ==
    [kind : {"sweep", "signal"}, asOf : Times, hash : Hashes,
     read : [Memories -> Versions], left : (SUBSET Memories) \ {{}}]

ASSUME NoLoopAssumption == NULL \notin Loops

Conflict(old, new) == [accepted |-> old, quarantined |-> new]

NoMemory ==
    [state |-> "none", version |-> 0, statement |-> CHOOSE s \in Statements : TRUE,
     hash |-> CHOOSE h \in Hashes : TRUE, origin |-> CHOOSE o \in Origins : TRUE,
     indexed |-> CHOOSE o \in Origins : TRUE, due |-> 0, supersedes |-> {}]

Init ==
    /\ memory = [m \in Memories |-> NoMemory]
    /\ index = [m \in Memories |-> NULL]
    /\ conflicts = {}
    /\ signalled = [h \in Hashes |-> [m \in Memories |-> 0]]
    /\ work = [p \in Processes |-> NULL]

Existing == {m \in Memories : memory[m].state # "none"}
Accepted == {m \in Memories : memory[m].state = "accepted"}

\* The bound on versions allows another command on m.
WithinBound(m) == memory[m].version < MaxVersion[m]

-----------------------------------------------------------------------------
(* Candidates and their review.                                            *)

\* A candidate equal to an earlier one in everything but its id is not
\* inserted again; the records here may differ in what the model leaves out.
CreateCandidate(m, c, supersedes) ==
    /\ WithinBound(m)
    /\ memory[m].state = "none"
    /\ supersedes \subseteq Existing
    /\ memory' = [memory EXCEPT ![m] =
                    [state |-> "candidate", version |-> 1,
                     statement |-> c.statement, hash |-> c.hash,
                     origin |-> c.origin, indexed |-> c.origin, due |-> c.due,
                     supersedes |-> supersedes]]
    /\ UNCHANGED <<index, conflicts, signalled, work>>

Moved(row, s) == [row EXCEPT !.state = s, !.version = @ + 1]

\* review_candidate with decision rejected or quarantined.
Decline(m, decision) ==
    /\ WithinBound(m)
    /\ memory[m].state = "candidate"
    /\ memory' = [memory EXCEPT ![m] = Moved(@, decision)]
    /\ UNCHANGED <<index, conflicts, signalled, work>>

ConflictsWith_Superseded(m) ==
    {n \in Accepted \ memory[m].supersedes :
        /\ memory[n].statement # memory[m].statement
        /\ memory[m].supersedes = {}}

\* _find_conflict
ConflictsWith(m) ==
    {n \in Accepted \ memory[m].supersedes :
        memory[n].statement # memory[m].statement}

\* review_candidate, accepted by the reviewer but in conflict.  The SELECT
\* decides which of several is recorded.
Quarantine(m, n) ==
    /\ WithinBound(m)
    /\ memory[m].state = "candidate"
    /\ n \in ConflictsWith(m)
    /\ memory' = [memory EXCEPT ![m] = Moved(@, "quarantined")]
    /\ conflicts' = conflicts \cup {Conflict(n, m)}
    /\ UNCHANGED <<index, signalled, work>>

Deindexed_NewOnly(m) ==
    [index EXCEPT ![m] = memory[m].origin]

\* What acceptance leaves of the index: the new entry, and none of those it
\* replaces.
Deindexed(m) ==
    [n \in Memories |->
        IF n = m THEN memory[m].origin
        ELSE IF n \in memory[m].supersedes THEN NULL ELSE index[n]]

\* review_candidate, accepted.  _supersede_in_tx raises unless every record to
\* be replaced is accepted.
Accept(m) ==
    /\ WithinBound(m)
    /\ memory[m].state = "candidate"
    /\ ConflictsWith(m) = {}
    /\ memory[m].supersedes \subseteq Accepted
    /\ \A n \in memory[m].supersedes : WithinBound(n)
    /\ memory' = [n \in Memories |->
                    IF n = m THEN Moved(memory[n], "accepted")
                    ELSE IF n \in memory[m].supersedes
                    THEN Moved(memory[n], "superseded")
                    ELSE memory[n]]
    /\ index' = Deindexed(m)
    /\ UNCHANGED <<conflicts, signalled, work>>

-----------------------------------------------------------------------------
(* Staleness.                                                              *)

Stale(m) ==
    /\ WithinBound(m)
    /\ memory' = [memory EXCEPT ![m] = Moved(@, "stale")]
    /\ index' = [index EXCEPT ![m] = NULL]

MarkStale(m) ==
    /\ memory[m].state = "accepted"
    /\ Stale(m)
    /\ UNCHANGED <<conflicts, signalled, work>>

Revalidatable_Retired     == {"stale", "superseded"}
Revalidatable_Quarantined == {"stale", "quarantined"}

Revalidatable == {"stale"}

\* The evidence must have the uri and hash it had; its path, revision and
\* owner are whatever the caller saw this time.
Revalidate(m, o, due) ==
    /\ WithinBound(m)
    /\ memory[m].state \in Revalidatable
    /\ memory' = [memory EXCEPT ![m] =
                    [Moved(@, "accepted") EXCEPT !.origin = o, !.due = due]]
    /\ index' = [index EXCEPT ![m] = o]
    /\ UNCHANGED <<conflicts, signalled, work>>

Overdue_Strictly(asOf) == {m \in Accepted : memory[m].due < asOf}

\* _stale_reason; accepted evidence is always current.
Overdue(asOf) == {m \in Accepted : memory[m].due <= asOf}

Citing(h) == {m \in Accepted : memory[m].hash # h}

\* The SELECT over the accepted records, and the first of them to be marked.
StartLoop(p, kind, asOf, hash, found) ==
    /\ work[p] = NULL
    /\ found # {}
    /\ work' = [work EXCEPT ![p] =
                  [kind |-> kind, asOf |-> asOf, hash |-> hash, left |-> found,
                   read |-> [m \in Memories |->
                               IF m \in Accepted THEN memory[m].version ELSE 0]]]
    /\ UNCHANGED <<memory, index, conflicts, signalled>>

\* sweep_stale, which assemble_context calls before it retrieves.  asOf is
\* what the clock shows then; nothing else here reads it, so it is no variable.
SweepStale(p, asOf) ==
    StartLoop(p, "sweep", asOf, CHOOSE h \in Hashes : TRUE, Overdue(asOf))

MarkSourceChanged(p, h) == StartLoop(p, "signal", 0, h, Citing(h))

\* p's loop has come to m, in whatever order the SELECT gives.
Reaches(p, kind, m) ==
    /\ work[p] # NULL
    /\ work[p].kind = kind
    /\ m \in work[p].left

Rest_NeverEnds(loop, m) == [loop EXCEPT !.left = @ \ {m}]

\* The loop without m, or its end.
Rest(loop, m) ==
    IF loop.left = {m} THEN NULL ELSE [loop EXCEPT !.left = @ \ {m}]

GoesOn(p, m) == work' = [work EXCEPT ![p] = Rest(@, m)]

Ends(p) == work' = [work EXCEPT ![p] = NULL]

AsRead_AnyVersion(p, m) == memory[m].state = "accepted"

\* mark_stale is called with the version that was read.
AsRead(p, m) ==
    /\ memory[m].version = work[p].read[m]
    /\ memory[m].state = "accepted"

\* The key of a sweep holds its time, to the microsecond, and is new.
SweepOne(p, m) ==
    /\ Reaches(p, "sweep", m)
    /\ AsRead(p, m)
    /\ Stale(m)
    /\ GoesOn(p, m)
    /\ UNCHANGED <<conflicts, signalled>>

SweepRaises(p, m) ==
    /\ Reaches(p, "sweep", m)
    /\ ~AsRead(p, m)
    /\ Ends(p)
    /\ UNCHANGED <<memory, index, conflicts, signalled>>

\* The key holds the uri, the new hash and the memory, but not the version.
\* SQLite may refuse the transaction once another process has committed, for
\* the SELECT is still open; the call then ends as in Crash.
SignalOne(p, m) ==
    /\ Reaches(p, "signal", m)
    /\ signalled[work[p].hash][m] = 0
    /\ AsRead(p, m)
    /\ Stale(m)
    /\ signalled' = [signalled EXCEPT ![work[p].hash][m] = memory[m].version]
    /\ GoesOn(p, m)
    /\ UNCHANGED conflicts

\* Another process has signalled the same and used the key with the version
\* that was read here too: its answer is given, and the loop goes on.
SignalReplayed(p, m) ==
    /\ Reaches(p, "signal", m)
    /\ signalled[work[p].hash][m] = work[p].read[m]
    /\ GoesOn(p, m)
    /\ UNCHANGED <<memory, index, conflicts, signalled>>

\* The record has moved since, or the key was used with another version
\* (IdempotencyCollision): mark_stale raises, and so does the whole call.
SignalRaises(p, m) ==
    /\ Reaches(p, "signal", m)
    /\ IF signalled[work[p].hash][m] = 0
       THEN ~AsRead(p, m)
       ELSE signalled[work[p].hash][m] # work[p].read[m]
    /\ Ends(p)
    /\ UNCHANGED <<memory, index, conflicts, signalled>>

Crash(p) ==
    /\ work[p] # NULL
    /\ Ends(p)
    /\ UNCHANGED <<memory, index, conflicts, signalled>>

\* The index is derived again from the records.
RebuildIndex ==
    /\ index' = [m \in Memories |->
                   IF m \in Accepted THEN memory[m].origin ELSE NULL]
    /\ UNCHANGED <<memory, conflicts, signalled, work>>

-----------------------------------------------------------------------------

Review(m) ==
    \/ \E decision \in {"rejected", "quarantined"} : Decline(m, decision)
    \/ \E n \in Memories : Quarantine(m, n)
    \/ Accept(m)

Maintain(m) ==
    \/ MarkStale(m)
    \/ \E o \in Origins, due \in Times : Revalidate(m, o, due)

Command ==
    \/ \E m \in Memories :
          \/ \E c \in Candidates, supersedes \in SUBSET Memories :
                CreateCandidate(m, c, supersedes)
          \/ Review(m)
          \/ Maintain(m)
    \/ RebuildIndex

Begin(p) ==
    \/ \E asOf \in Times : SweepStale(p, asOf)
    \/ \E h \in Hashes : MarkSourceChanged(p, h)

Continue(p) ==
    \E m \in Memories :
       \/ SweepOne(p, m)
       \/ SignalOne(p, m)
       \/ SignalReplayed(p, m)

Fails(p) ==
    \/ \E m \in Memories : SweepRaises(p, m) \/ SignalRaises(p, m)
    \/ Crash(p)

Next ==
    \/ Command
    \/ \E p \in Processes : Begin(p) \/ Continue(p) \/ Fails(p)

Spec == Init /\ [][Next]_vars

-----------------------------------------------------------------------------
(* Properties.                                                             *)

TypeOK ==
    /\ memory \in [Memories -> MemoryRows]
    /\ index \in [Memories -> Origins \cup {NULL}]
    /\ conflicts \subseteq [accepted : Memories, quarantined : Memories]
    /\ signalled \in [Hashes -> [Memories -> Versions]]
    /\ work \in [Processes -> Loops \cup {NULL}]

\* The index holds exactly the accepted records, each as its record now reads:
\* acceptance, replacement, staleness, revalidation and a crash in the middle
\* of a sweep leave no record that is searched for and not accepted, or the
\* other way round.
IndexHoldsAccepted ==
    \A m \in Memories :
        index[m] = IF m \in Accepted THEN memory[m].origin ELSE NULL

WasAccepted == {"accepted", "stale", "superseded"}

\* What a replacement took the place of never comes back beside it, though the
\* replacement may itself go stale, be revalidated or be replaced.
ReplacedStaysReplaced ==
    \A m \in Memories :
        memory[m].state \in WasAccepted =>
            \A n \in memory[m].supersedes : memory[n].state = "superseded"

\* Review alone never admits two conflicting facts: where two are accepted,
\* one of them has been stale and came back (creation and acceptance make
\* version 2).
ReviewAdmitsNoConflict ==
    \A m, n \in Accepted :
        memory[m].statement # memory[n].statement =>
            memory[m].version > 2 \/ memory[n].version > 2

\* A conflict is between a record that was accepted and one that was not and
\* never will be.
ConflictsStand ==
    \A c \in conflicts :
        /\ memory[c.accepted].state \in WasAccepted
        /\ memory[c.quarantined].state = "quarantined"

\* What the loop was called for: m's deadline has come, or m cites another
\* content.
Concerns(loop, m) ==
    \/ loop.kind = "sweep"  /\ memory[m].due <= loop.asOf
    \/ loop.kind = "signal" /\ memory[m].hash # loop.hash

\* A sweep or a signal has behind it no accepted record that it was called for,
\* unless one that was accepted or revalidated after it had read the records.
\* So when it returns, all it has left behind is newer than its reading,
\* whatever others did meanwhile; a loop that raises or dies may leave more.
LoopLeavesNothing ==
    \A p \in Processes : work[p] # NULL =>
        \A m \in Accepted :
            Concerns(work[p], m) /\ memory[m].version = work[p].read[m]
                => m \in work[p].left

\* A loop makes stale only what it was called for as the record now is: one
\* that another process has revalidated since the loop read it, with a later
\* deadline, is not made stale for the deadline it had.
LoopSparesRevalidated ==
    [][\A p \in Processes, m \in Memories :
          work[p] # NULL /\ work'[p] # work[p] /\ memory'[m] # memory[m]
              => m \in Accepted /\ Concerns(work[p], m)]_vars

-----------------------------------------------------------------------------
(* What the documents say and the code does not do.                        *)

\* verify_integrity: the index entry of a memory is what its row's columns say.
\* A revalidation whose evidence has moved writes the entry and not the column,
\* and the database no longer opens.
IndexVerifies ==
    \A m \in Accepted : index[m] = memory[m].indexed

=============================================================================
