------------------------------- MODULE Archive -------------------------------
(***************************************************************************)
(* The database file and its signed backups: Store.initialize and          *)
(* Store.migrate of src/src/city2core/store.py; create_backup,             *)
(* verify_backup and restore_backup of src/src/city2core/archive.py.       *)
(*                                                                         *)
(* Workers commit to the live database, a backup process copies it, and an *)
(* operator initialises, migrates, upgrades the software and restores.     *)
(* Backup and operator may die at any step.  A database is its identity,   *)
(* its schema version, the length of its event log, which only grows and   *)
(* so stands for log and projections, and the number of its quiet writes:  *)
(* rows that no event tells of, such as agent_manifests and task_reviews.  *)
(* Schema 0 is a file with no committed migration.                         *)
(*                                                                         *)
(* initialize removes the file when it fails, also after its last commit,  *)
(* when others may have opened it; they go on with a file without a name.  *)
(***************************************************************************)
EXTENDS Naturals

CONSTANTS
    MaxIds,        \* bound: the database ids drawn
    Destinations,  \* directories backups are published as
    Dirs,          \* directories restored into
    MaxSchema,     \* bound: the last SCHEMA_VERSION there is
    MaxEvents,     \* bound: the longest event log
    MaxQuiet,      \* bound: the quiet writes to a database
    NULL

ASSUME ArchiveAssumption ==
    /\ MaxSchema \in Nat \ {0}
    /\ {MaxIds, MaxEvents, MaxQuiet} \subseteq Nat
    /\ NULL \notin Nat

VARIABLES
    code,       \* SCHEMA_VERSION of the software installed
    live,       \* the database file, or NULL
    unlinked,   \* the files removed while somebody may have had them open
    committed,  \* every state a database was committed in
    stage,      \* the backup under way, or NULL
    archive,    \* the published backups
    op,         \* what the operator's process is doing, or NULL
    dir         \* the directories of restores

vars == <<code, live, unlinked, committed, stage, archive, op, dir>>

-----------------------------------------------------------------------------

\* Every initialisation draws a fresh id; they are numbered as they are drawn.
Ids == 1 .. MaxIds

Schemas == 0 .. MaxSchema
Lengths == 0 .. MaxEvents

\* The first migration and the identity are committed together.
Databases ==
    {db \in [id : Ids \cup {NULL}, schema : Schemas, events : Lengths,
             quiet : 0 .. MaxQuiet] :
        /\ db.schema = 0 <=> db.id = NULL
        /\ db.schema = 0 => db.events = 0}

Blank == [id |-> NULL, schema |-> 0, events |-> 0, quiet |-> 0]

\* Each process runs with the software it was started with, on the database
\* it opened: an id is drawn for one file.
Stages ==
    [dest : Destinations, code : Schemas, of : Ids, verified : Lengths,
     snapshot : Databases \cup {NULL}, covers : Lengths \cup {NULL}]

\* snapshot: the database that was published, whose id, log and checksum the
\* signed checkpoint binds; covers: its event_high_water.  file: what
\* core-snapshot.sqlite is now.
Archives == [snapshot : Databases, covers : Lengths, file : Databases]

Operations ==
    [kind : {"initialize", "migrate"}, code : Schemas]
        \cup [kind : {"restore"}, code : Schemas, from : Destinations, into : Dirs]

\* returned: restore_backup said that it is verified.
Copies ==
    [db : Databases \cup {NULL}, from : Destinations, returned : BOOLEAN]

ASSUME NoRowAssumption ==
    NULL \notin Databases \cup Stages \cup Archives \cup Operations \cup Copies

Init ==
    /\ code \in 1 .. MaxSchema
    /\ live = NULL
    /\ unlinked = {}
    /\ committed = {}
    /\ stage = NULL
    /\ archive = [d \in Destinations |-> NULL]
    /\ op = NULL
    /\ dir = [e \in Dirs |-> NULL]

\* Store.open with software of schema version c.
Opens(db, c) == db # NULL /\ db.schema = c

\* The database files that somebody has or may have open.
Files == unlinked \cup ({live} \ {NULL})

-----------------------------------------------------------------------------
(* The live database.                                                      *)

\* What a command leaves of a database: one event more, or none.
Grown(db) ==
    {[db EXCEPT !.events = e] : e \in {db.events + 1} \cap Lengths}
        \cup {[db EXCEPT !.quiet = q] : q \in {db.quiet + 1} \cap 0 .. MaxQuiet}

Commit ==
    \E db \in Files :
      \E grown \in Grown(db) :
        /\ Opens(db, code)
        /\ IF db = live
           THEN live' = grown /\ UNCHANGED unlinked
           ELSE unlinked' = (unlinked \ {db}) \cup {grown} /\ UNCHANGED live
        /\ committed' = committed \cup {grown}
        /\ UNCHANGED <<code, stage, archive, op, dir>>

Upgrade ==
    /\ code < MaxSchema
    /\ code' = code + 1
    /\ UNCHANGED <<live, unlinked, committed, stage, archive, op, dir>>

\* connect creates the file.
Initialize ==
    /\ op = NULL
    /\ live = NULL
    /\ live' = Blank
    /\ op' = [kind |-> "initialize", code |-> code]
    /\ UNCHANGED <<code, unlinked, committed, stage, archive, dir>>

FreshIds == {i \in Ids : {db.id : db \in committed} = 1 .. i - 1}

MigratableFrom_Current(c) == {c - 1}

\* What migrate does not refuse: a blank file is, and a later schema.
MigratableFrom(c) == 1 .. c

Migrate ==
    /\ op = NULL
    /\ live # NULL
    /\ live.schema \in MigratableFrom(code)
    /\ op' = [kind |-> "migrate", code |-> code]
    /\ UNCHANGED <<code, live, unlinked, committed, stage, archive, dir>>

WithVersion_NewId(db, v) ==
    {[Blank EXCEPT !.id = i, !.schema = v] : i \in FreshIds}

WithVersion_NoIdentity(db, v) == {[db EXCEPT !.schema = v]}

\* One migration, its checksum and its version in one transaction; the first
\* one also writes the identity.
WithVersion(db, v) ==
    IF v = 1 THEN {[Blank EXCEPT !.id = i, !.schema = 1] : i \in FreshIds}
    ELSE {[db EXCEPT !.schema = v]}

Applying == op # NULL /\ op.kind \in {"initialize", "migrate"}

ApplyVersion ==
    /\ Applying
    /\ live.schema < op.code
    /\ live' \in WithVersion(live, live.schema + 1)
    /\ committed' = committed \cup {live'}
    /\ UNCHANGED <<code, unlinked, stage, archive, op, dir>>

ApplyDone ==
    /\ Applying
    /\ live.schema = op.code
    /\ op' = NULL
    /\ UNCHANGED <<code, live, unlinked, committed, stage, archive, dir>>

\* The call fails, in a migration or after the last: initialize, whose handler
\* encloses the chmod too, removes the file, which workers may have open by
\* then; migrate leaves it.
ApplyFails ==
    /\ Applying
    /\ IF op.kind = "initialize"
       THEN /\ live' = NULL
            /\ unlinked' = unlinked \cup {db \in {live} : Opens(db, op.code)}
       ELSE UNCHANGED <<live, unlinked>>
    /\ op' = NULL
    /\ UNCHANGED <<code, committed, stage, archive, dir>>

-----------------------------------------------------------------------------
(* Backup.                                                                 *)

\* verify_integrity of the database the process has open.
BackupVerify(d) ==
    \E db \in Files :
      /\ stage = NULL
      /\ archive[d] = NULL
      /\ Opens(db, code)
      /\ stage' = [dest |-> d, code |-> code, of |-> db.id,
                   verified |-> db.events, snapshot |-> NULL, covers |-> NULL]
      /\ UNCHANGED <<code, live, unlinked, committed, archive, op, dir>>

\* conn.backup, of whatever is committed in it by now.
BackupCopy ==
    \E db \in Files :
      /\ stage # NULL
      /\ stage.snapshot = NULL
      /\ db.id = stage.of
      /\ stage' = [stage EXCEPT !.snapshot = db]
      /\ UNCHANGED <<code, live, unlinked, committed, archive, op, dir>>

Covered_Verified == stage.verified

\* event_high_water of the report on the snapshot, not of that on the store.
Covered == stage.snapshot.events

\* Store.open of the snapshot.
MayExport == Opens(stage.snapshot, stage.code)

\* The export of its events, the manifest, and the checkpoint that is signed.
BackupExport ==
    /\ stage # NULL
    /\ stage.snapshot # NULL
    /\ stage.covers = NULL
    /\ MayExport
    /\ stage' = [stage EXCEPT !.covers = Covered]
    /\ UNCHANGED <<code, live, unlinked, committed, archive, op, dir>>

\* The rename.
BackupPublish ==
    /\ stage # NULL
    /\ stage.covers # NULL
    /\ archive' = [archive EXCEPT ![stage.dest] =
                     [snapshot |-> stage.snapshot, covers |-> stage.covers,
                      file |-> stage.snapshot]]
    /\ stage' = NULL
    /\ UNCHANGED <<code, live, unlinked, committed, op, dir>>

\* It fails and removes its directory, or dies and leaves one nobody reads.
BackupEnds ==
    /\ stage # NULL
    /\ stage' = NULL
    /\ UNCHANGED <<code, live, unlinked, committed, archive, op, dir>>

\* The snapshot is exchanged for another state of a database, or damaged:
\* Blank also stands for a file that no longer verifies.  Damage to the other
\* files stops a verification in the same way, and nothing reads them after it.
Damage(d) ==
    /\ archive[d] # NULL
    /\ \E db \in committed \cup {Blank} : archive' = [archive EXCEPT ![d].file = db]
    /\ UNCHANGED <<code, live, unlinked, committed, stage, op, dir>>

-----------------------------------------------------------------------------
(* Restore.                                                                *)

\* verify_backup: every checksum, the signature, and the snapshot itself.
Verifies(d, c) ==
    /\ archive[d] # NULL
    /\ archive[d].file = archive[d].snapshot
    /\ Opens(archive[d].file, c)
    /\ archive[d].file.events = archive[d].covers

Restore(d, e) ==
    /\ op = NULL
    /\ Verifies(d, code)
    /\ dir[e] = NULL
    /\ op' = [kind |-> "restore", code |-> code, from |-> d, into |-> e]
    /\ UNCHANGED <<code, live, unlinked, committed, stage, archive, dir>>

Restoring == op # NULL /\ op.kind = "restore"

\* The file is there before the copy is.
RestoreOpen ==
    /\ Restoring
    /\ dir[op.into] = NULL
    /\ dir' = [dir EXCEPT ![op.into] =
                 [db |-> NULL, from |-> op.from, returned |-> FALSE]]
    /\ UNCHANGED <<code, live, unlinked, committed, stage, archive, op>>

\* The file is read again, and its checksum is not.
RestoreCopy ==
    /\ Restoring
    /\ dir[op.into] # NULL
    /\ dir[op.into].db = NULL
    /\ dir' = [dir EXCEPT ![op.into].db = archive[op.from].file]
    /\ UNCHANGED <<code, live, unlinked, committed, stage, archive, op>>

Accepted_Unread(copy) == TRUE

\* The restored database opens, and has the identity, the high water and the
\* terminal hashes of the checkpoint that was read with the verification.
\* Nothing is compared of what no event tells of.
Accepted(copy) ==
    /\ Opens(copy.db, op.code)
    /\ copy.db.id = archive[op.from].snapshot.id
    /\ copy.db.events = archive[op.from].covers

RestoreEnds ==
    /\ Restoring
    /\ dir[op.into] # NULL
    /\ dir[op.into].db # NULL
    /\ dir' = IF Accepted(dir[op.into])
              THEN [dir EXCEPT ![op.into].returned = TRUE]
              ELSE [dir EXCEPT ![op.into] = NULL]
    /\ op' = NULL
    /\ UNCHANGED <<code, live, unlinked, committed, stage, archive>>

\* The operator's process dies: files stay as they are.
OperatorDies ==
    /\ op # NULL
    /\ op' = NULL
    /\ UNCHANGED <<code, live, unlinked, committed, stage, archive, dir>>

-----------------------------------------------------------------------------

Apply == ApplyVersion \/ ApplyDone

Next ==
    \/ Commit \/ Upgrade
    \/ Initialize \/ Migrate \/ Apply \/ ApplyFails
    \/ BackupCopy \/ BackupExport \/ BackupPublish \/ BackupEnds
    \/ \E d \in Destinations :
          \/ BackupVerify(d)
          \/ Damage(d)
          \/ \E e \in Dirs : Restore(d, e)
    \/ RestoreOpen \/ RestoreCopy \/ RestoreEnds
    \/ OperatorDies

Spec == Init /\ [][Next]_vars

\* Operators run migrate until it returns, and it does not die or fail at the
\* same migration for ever.
FairSpec ==
    /\ Spec
    /\ WF_vars(ApplyDone \/ RestoreOpen \/ RestoreCopy \/ RestoreEnds)
    /\ SF_vars(Migrate)
    /\ SF_vars(ApplyVersion)

-----------------------------------------------------------------------------
(* Properties.                                                             *)

TypeOK ==
    /\ code \in 1 .. MaxSchema
    /\ live \in Databases \cup {NULL}
    /\ unlinked \subseteq Databases
    /\ committed \subseteq Databases
    /\ stage \in Stages \cup {NULL}
    /\ archive \in [Destinations -> Archives \cup {NULL}]
    /\ op \in Operations \cup {NULL}
    /\ dir \in [Dirs -> Copies \cup {NULL}]

\* A published backup is one committed state of one database, complete and of
\* its own schema, and its manifest and checkpoint are of that state, though
\* workers commit, operators migrate and the software is replaced while the
\* backup runs.  What verify_backup compares therefore agrees.
PublishedIsCommitted ==
    \A d \in Destinations :
      archive[d] # NULL =>
        /\ archive[d].snapshot \in committed
        /\ archive[d].covers = archive[d].snapshot.events

\* What restore_backup returns has the identity, the schema and the log of
\* what was archived, even when the snapshot is exchanged between its
\* verification and the copy.  Its quiet writes may be another state's.
RestoredAsArchived ==
    \A e \in Dirs :
      (dir[e] # NULL /\ dir[e].returned) =>
        LET archived == archive[dir[e].from].snapshot
        IN  /\ dir[e].db.id = archived.id
            /\ dir[e].db.schema = archived.schema
            /\ dir[e].db.events = archived.events

\* A database that has events keeps its identity, its events and its quiet
\* writes under migrations interrupted anywhere and resumed, whoever commits
\* and whatever fails.  Only the call of initialize that made it may take it
\* away, when it fails before it returns: then with what others committed
\* after its last migration.
LogIsKept ==
    [][(live # NULL /\ live.events > 0) =>
         \/ /\ live' # NULL
            /\ live'.id = live.id
            /\ live'.schema >= live.schema
            /\ live'.events >= live.events
            /\ live'.quiet >= live.quiet
         \/ /\ Applying
            /\ op.kind = "initialize"
            /\ live' = NULL
            /\ live \in unlinked']_vars

\* A database with a first migration, left by an initialisation or a migration
\* that died, or by an upgrade, is brought to a schema that opens.
ComesToOpen ==
    (live # NULL /\ live.schema > 0) ~> (live = NULL \/ Opens(live, code))

=============================================================================
