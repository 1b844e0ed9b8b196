---------------------------- MODULE ArchiveProofs ----------------------------
(***************************************************************************)
(* Theorems about Archive, for every set of destinations and directories   *)
(* and every bound: a published backup is one committed state, a restore   *)
(* returns the identity, schema and log that were archived, and migrations *)
(* take nothing back; only a failing initialize removes a database.        *)
(***************************************************************************)
EXTENDS Archive, TLAPS

-----------------------------------------------------------------------------
(* The inductive invariant.                                                *)

\* A file past its first migration, with a name or without, is in a state it
\* was committed in.
FilesCommitted == \A db \in Files : db.schema > 0 => db \in committed

\* Who migrates has a database, and takes it no further than the software it
\* was started with, which is not replaced by an earlier one.  Nobody commits
\* to a database that is on its way.
MigrationSound ==
    Applying =>
        /\ live # NULL
        /\ live.schema <= op.code
        /\ op.code <= code
        /\ (op.kind = "initialize" /\ live.schema < op.code) => live.events = 0

\* A backup's destination is free; its copy is of a committed state, and what
\* its manifest covers is in it.
StageSound ==
    stage # NULL =>
        /\ archive[stage.dest] = NULL
        /\ stage.code > 0
        /\ stage.snapshot # NULL => stage.snapshot \in committed
        /\ stage.covers # NULL =>
              /\ stage.snapshot # NULL
              /\ stage.snapshot.schema = stage.code
              /\ stage.covers = stage.snapshot.events

\* A restore under way and what it has written name the same archive, which
\* was published with the schema of the restore's software.
RestoreSound ==
    Restoring =>
        /\ archive[op.from] # NULL
        /\ archive[op.from].snapshot.schema = op.code
        /\ dir[op.into] # NULL => dir[op.into].from = op.from

\* The identity, the schema and the log of two databases agree.
Agree(db, other) ==
    db.id = other.id /\ db.schema = other.schema /\ db.events = other.events

\* A copy is of an archive there is, and agrees with it once it is returned.
CopiesSound ==
    \A e \in Dirs :
        dir[e] # NULL =>
            /\ archive[dir[e].from] # NULL
            /\ dir[e].returned =>
                  /\ dir[e].db # NULL
                  /\ Agree(dir[e].db, archive[dir[e].from].snapshot)

ArchiveInv ==
    /\ TypeOK
    /\ FilesCommitted
    /\ MigrationSound
    /\ StageSound
    /\ PublishedIsCommitted
    /\ RestoreSound
    /\ CopiesSound

\* What was returned therefore agrees with what was archived.
LEMMA InvRestored == ArchiveInv => RestoredAsArchived
  BY DEF ArchiveInv, CopiesSound, Agree, RestoredAsArchived

-----------------------------------------------------------------------------
(* The steps.                                                              *)

\* Nothing is there at first.
LEMMA InvInit == Init => ArchiveInv
  BY ArchiveAssumption
  DEF Init, ArchiveInv, TypeOK, FilesCommitted, Files, MigrationSound, Applying,
      StageSound, PublishedIsCommitted, RestoreSound, Restoring, CopiesSound

\* What a commit leaves of a database: its identity and its schema, and not
\* less of anything else.
LEMMA GrownKeeps ==
  ASSUME NEW db \in Databases, db.schema > 0, NEW grown \in Grown(db)
  PROVE  /\ grown \in Databases /\ grown # NULL
         /\ grown.schema = db.schema /\ grown.id = db.id
         /\ grown.events >= db.events /\ grown.quiet >= db.quiet
  <1>1. /\ db.id \in (Ids \cup {NULL}) /\ db.schema \in Schemas
        /\ db.events \in Lengths /\ db.quiet \in 0 .. MaxQuiet
        /\ db.schema = 0 <=> db.id = NULL
    BY DEF Databases
  <1>2. CASE \E e \in {db.events + 1} \cap Lengths : grown = [db EXCEPT !.events = e]
    <2>1. /\ grown \in [id : Ids \cup {NULL}, schema : Schemas,
                        events : Lengths, quiet : 0 .. MaxQuiet]
          /\ grown.schema = db.schema /\ grown.id = db.id
          /\ grown.events = db.events + 1 /\ grown.quiet = db.quiet
      BY <1>1, <1>2 DEF Databases
    <2>2. QED
      BY <1>1, <2>1, NoRowAssumption, ArchiveAssumption
      DEF Databases, Schemas, Lengths
  <1>3. CASE \E q \in {db.quiet + 1} \cap 0 .. MaxQuiet :
                grown = [db EXCEPT !.quiet = q]
    <2>1. /\ grown \in [id : Ids \cup {NULL}, schema : Schemas,
                        events : Lengths, quiet : 0 .. MaxQuiet]
          /\ grown.schema = db.schema /\ grown.id = db.id
          /\ grown.events = db.events /\ grown.quiet = db.quiet + 1
      BY <1>1, <1>3 DEF Databases
    <2>2. QED
      BY <1>1, <2>1, NoRowAssumption, ArchiveAssumption
      DEF Databases, Schemas, Lengths
  <1>4. QED
    BY <1>2, <1>3 DEF Grown

\* A worker commits to the file it has open, with a name or without.
LEMMA Committed ==
  ASSUME ArchiveInv, Commit
  PROVE  \E db \in Databases, grown \in Databases :
           /\ db # NULL /\ db.schema = code /\ code > 0 /\ grown # NULL
           /\ grown.schema = db.schema /\ grown.id = db.id
           /\ grown.events >= db.events /\ grown.quiet >= db.quiet
           /\ \/ live = db /\ live' = grown /\ unlinked' = unlinked
              \/ live' = live /\ unlinked' = (unlinked \ {db}) \cup {grown}
           /\ committed' = committed \cup {grown}
           /\ UNCHANGED <<code, stage, archive, op, dir>>
  <1> DEFINE Does(db, grown) ==
          /\ Opens(db, code)
          /\ IF db = live
             THEN live' = grown /\ UNCHANGED unlinked
             ELSE unlinked' = (unlinked \ {db}) \cup {grown} /\ UNCHANGED live
          /\ committed' = committed \cup {grown}
          /\ UNCHANGED <<code, stage, archive, op, dir>>
  <1>0. PICK db \in Files : \E grown \in Grown(db) : Does(db, grown)
    BY DEF Commit
  <1>1. PICK grown \in Grown(db) : Does(db, grown)
    BY <1>0
  <1>2. db \in Databases
    BY DEF Files, ArchiveInv, TypeOK
  <1>3. db # NULL /\ db.schema = code /\ code > 0
    BY <1>1, ArchiveAssumption DEF Opens, ArchiveInv, TypeOK
  <1>4. /\ grown \in Databases /\ grown # NULL
        /\ grown.schema = db.schema /\ grown.id = db.id
        /\ grown.events >= db.events /\ grown.quiet >= db.quiet
    BY <1>2, <1>3, GrownKeeps
  <1>5. QED
    BY <1>1, <1>2, <1>3, <1>4

\* It keeps the invariant.
LEMMA CommitInv == ASSUME ArchiveInv, Commit PROVE ArchiveInv'
  <1>1. PICK db \in Databases, grown \in Databases :
          /\ db # NULL /\ db.schema = code /\ code > 0 /\ grown # NULL
          /\ grown.schema = db.schema
          /\ \/ live = db /\ live' = grown /\ unlinked' = unlinked
             \/ live' = live /\ unlinked' = (unlinked \ {db}) \cup {grown}
          /\ committed' = committed \cup {grown}
          /\ UNCHANGED <<code, stage, archive, op, dir>>
    BY Committed
  <1>2. TypeOK'
    BY <1>1 DEF ArchiveInv, TypeOK
  <1>3. FilesCommitted'
    BY <1>1 DEF ArchiveInv, FilesCommitted, Files
  <1>4. MigrationSound'
    <2>1. Applying => op.code \in Nat /\ code \in Nat /\ op.code <= code
      BY NoRowAssumption, ArchiveAssumption
      DEF Applying, ArchiveInv, TypeOK, Operations, Schemas, MigrationSound
    <2>2. QED
      BY <1>1, <2>1 DEF ArchiveInv, MigrationSound, Applying
  <1>5. /\ StageSound' /\ PublishedIsCommitted' /\ RestoreSound'
        /\ CopiesSound'
    BY <1>1
    DEF ArchiveInv, StageSound, PublishedIsCommitted, RestoreSound, Restoring,
        CopiesSound
  <1>6. QED
    BY <1>2, <1>3, <1>4, <1>5 DEF ArchiveInv

\* The software is replaced by the next version.
LEMMA UpgradeInv == ASSUME ArchiveInv, Upgrade PROVE ArchiveInv'
  <1>1. /\ code' = code + 1 /\ code < MaxSchema /\ code \in Nat
        /\ UNCHANGED <<live, unlinked, committed, stage, archive, op, dir>>
    BY ArchiveAssumption DEF ArchiveInv, TypeOK, Upgrade
  <1>2. TypeOK'
    BY <1>1, ArchiveAssumption DEF ArchiveInv, TypeOK
  <1>3. MigrationSound'
    <2>1. Applying => op.code \in Nat
      BY NoRowAssumption
      DEF Applying, ArchiveInv, TypeOK, Operations, Schemas
    <2>2. QED
      BY <1>1, <2>1 DEF ArchiveInv, MigrationSound, Applying
  <1>4. /\ FilesCommitted' /\ StageSound' /\ PublishedIsCommitted'
        /\ RestoreSound' /\ CopiesSound'
    BY <1>1
    DEF ArchiveInv, FilesCommitted, Files, StageSound, PublishedIsCommitted,
        RestoreSound, Restoring, CopiesSound
  <1>5. QED
    BY <1>2, <1>3, <1>4 DEF ArchiveInv

\* A blank file is a database.
LEMMA BlankIsDatabase ==
  Blank \in Databases /\ Blank.schema = 0 /\ Blank.events = 0
  BY ArchiveAssumption DEF Blank, Databases, Schemas, Lengths

\* initialize creates the file.
LEMMA InitializeInv == ASSUME ArchiveInv, Initialize PROVE ArchiveInv'
  <1> DEFINE begun == [kind |-> "initialize", code |-> code]
  <1>1. /\ live' = Blank /\ op' = begun
        /\ UNCHANGED <<code, unlinked, committed, stage, archive, dir>>
        /\ code \in 1 .. MaxSchema
    BY DEF Initialize, ArchiveInv, TypeOK
  <1>2. Blank \in Databases /\ Blank.schema = 0 /\ Blank.events = 0
    BY BlankIsDatabase
  <1>3. /\ begun \in Operations /\ begun.kind = "initialize"
        /\ begun.code = code
    BY <1>1, ArchiveAssumption DEF Operations, Schemas
  <1> HIDE DEF begun
  <1>4. live' # NULL /\ op' # NULL
    BY <1>1, <1>2, <1>3, NoRowAssumption
  <1>5. TypeOK'
    BY <1>1, <1>2, <1>3 DEF ArchiveInv, TypeOK
  <1>6. FilesCommitted' /\ MigrationSound' /\ RestoreSound'
    BY <1>1, <1>2, <1>3, <1>4
    DEF ArchiveInv, FilesCommitted, Files, MigrationSound, Applying,
        RestoreSound, Restoring
  <1>7. StageSound' /\ PublishedIsCommitted' /\ CopiesSound'
    BY <1>1 DEF ArchiveInv, StageSound, PublishedIsCommitted, CopiesSound
  <1>8. QED
    BY <1>5, <1>6, <1>7 DEF ArchiveInv

\* migrate begins with what it does not refuse.
LEMMA MigrateInv == ASSUME ArchiveInv, Migrate PROVE ArchiveInv'
  <1> DEFINE begun == [kind |-> "migrate", code |-> code]
  <1>1. /\ op' = begun /\ live # NULL /\ live.schema <= code
        /\ UNCHANGED <<code, live, unlinked, committed, stage, archive, dir>>
        /\ code \in 1 .. MaxSchema
    BY DEF Migrate, MigratableFrom, ArchiveInv, TypeOK
  <1>2. begun \in Operations /\ begun.kind = "migrate" /\ begun.code = code
    BY <1>1, ArchiveAssumption DEF Operations, Schemas
  <1> HIDE DEF begun
  <1>3. TypeOK'
    BY <1>1, <1>2 DEF ArchiveInv, TypeOK
  <1>4. MigrationSound' /\ RestoreSound'
    BY <1>1, <1>2 DEF MigrationSound, Applying, RestoreSound, Restoring
  <1>5. /\ FilesCommitted' /\ StageSound' /\ PublishedIsCommitted'
        /\ CopiesSound'
    BY <1>1
    DEF ArchiveInv, FilesCommitted, Files, StageSound, PublishedIsCommitted,
        CopiesSound
  <1>6. QED
    BY <1>3, <1>4, <1>5 DEF ArchiveInv

\* A migration takes a database to its next version: it keeps the events and,
\* where there is one, the identity.
LEMMA VersionApplied ==
  ASSUME ArchiveInv, ApplyVersion
  PROVE  /\ live \in Databases /\ live' \in Databases
         /\ live.schema \in Schemas /\ op.code \in Schemas
         /\ live.schema < op.code
         /\ live'.schema = live.schema + 1
         /\ live'.events = live.events
         /\ live.schema > 0 => live'.id = live.id /\ live'.quiet = live.quiet
         /\ live.schema = 0 => live.events = 0
         /\ committed' = committed \cup {live'}
         /\ UNCHANGED <<code, unlinked, stage, archive, op, dir>>
  <1>1. /\ live # NULL /\ live \in Databases /\ live.schema < op.code
        /\ op \in Operations /\ op.code \in Schemas
        /\ committed' = committed \cup {live'}
        /\ UNCHANGED <<code, unlinked, stage, archive, op, dir>>
    <2>1. live # NULL /\ op # NULL /\ live.schema < op.code
      BY DEF ApplyVersion, ArchiveInv, MigrationSound, Applying
    <2>2. live \in Databases /\ op \in Operations
      BY <2>1 DEF ArchiveInv, TypeOK
    <2>3. QED
      BY <2>1, <2>2 DEF ApplyVersion, Operations
  <1>2. /\ live.schema \in Schemas /\ live.events \in Lengths
        /\ live.id \in Ids \cup {NULL} /\ live.quiet \in 0 .. MaxQuiet
        /\ live.schema = 0 <=> live.id = NULL
        /\ live.schema = 0 => live.events = 0
    BY <1>1 DEF Databases
  <1>3. live' \in WithVersion(live, live.schema + 1)
    BY DEF ApplyVersion
  <1>4. live.schema + 1 \in Schemas
    BY <1>1, <1>2, ArchiveAssumption DEF Schemas
  <1>5. CASE live.schema = 0
    <2>1. live.schema + 1 = 1
      BY <1>5
    <2>2. PICK i \in FreshIds : live' = [Blank EXCEPT !.id = i, !.schema = 1]
      BY <1>3, <2>1 DEF WithVersion
    <2>3. i \in Ids /\ i # NULL
      BY ArchiveAssumption DEF FreshIds, Ids
    <2>4. live' \in Databases /\ live'.schema = 1 /\ live'.events = 0
      <3>1. live' = [id |-> i, schema |-> 1, events |-> 0, quiet |-> 0]
        BY <2>2 DEF Blank
      <3>2. QED
        BY <1>4, <2>1, <2>3, <3>1, ArchiveAssumption DEF Databases, Lengths
    <2>5. QED
      BY <1>1, <1>2, <1>5, <2>1, <2>4
  <1>6. CASE live.schema # 0
    <2>1. live.schema + 1 # 1
      BY <1>2, <1>6 DEF Schemas
    <2>2. live' = [live EXCEPT !.schema = live.schema + 1]
      BY <1>3, <2>1 DEF WithVersion
    <2>3. /\ live' \in [id : Ids \cup {NULL}, schema : Schemas,
                        events : Lengths, quiet : 0 .. MaxQuiet]
          /\ live'.schema = live.schema + 1 /\ live'.id = live.id
          /\ live'.events = live.events /\ live'.quiet = live.quiet
      BY <1>1, <1>4, <2>2 DEF Databases
    <2>4. live' \in Databases
      BY <1>2, <1>6, <2>3 DEF Databases, Schemas
    <2>5. QED
      BY <1>1, <1>2, <1>6, <2>3, <2>4
  <1>7. QED
    BY <1>5, <1>6

\* It keeps the invariant.
LEMMA ApplyVersionInv == ASSUME ArchiveInv, ApplyVersion PROVE ArchiveInv'
  <1>1. /\ live' \in Databases /\ live' # NULL
        /\ live'.schema = live.schema + 1 /\ live.schema < op.code
        /\ live.schema \in Nat /\ op.code \in Nat
        /\ live'.events = live.events
        /\ committed' = committed \cup {live'}
        /\ UNCHANGED <<code, unlinked, stage, archive, op, dir>>
    BY VersionApplied, NoRowAssumption DEF Schemas
  <1>2. TypeOK'
    BY <1>1 DEF ArchiveInv, TypeOK
  <1>3. FilesCommitted'
    BY <1>1 DEF ArchiveInv, FilesCommitted, Files
  <1>4. MigrationSound'
    BY <1>1 DEF ArchiveInv, MigrationSound, Applying
  <1>5. /\ StageSound' /\ PublishedIsCommitted' /\ RestoreSound'
        /\ CopiesSound'
    BY <1>1
    DEF ArchiveInv, StageSound, PublishedIsCommitted, RestoreSound, Restoring,
        CopiesSound
  <1>6. QED
    BY <1>2, <1>3, <1>4, <1>5 DEF ArchiveInv

\* Ending, failing or dying, the operator's process leaves every file as it
\* is, but a failed initialisation removes its own.
LEMMA OperatorEndsInv ==
  ASSUME ArchiveInv, ApplyDone \/ ApplyFails \/ OperatorDies
  PROVE  ArchiveInv'
  <1>1. /\ op' = NULL
        /\ live' = live \/ live' = NULL
        /\ unlinked' \in {unlinked, unlinked \cup ({live} \ {NULL})}
        /\ UNCHANGED <<code, committed, stage, archive, dir>>
    BY DEF ApplyDone, ApplyFails, OperatorDies, Applying, ArchiveInv,
           MigrationSound
  <1>2. TypeOK'
    BY <1>1 DEF ArchiveInv, TypeOK
  <1>3. FilesCommitted' /\ MigrationSound' /\ RestoreSound'
    BY <1>1
    DEF ArchiveInv, FilesCommitted, Files, MigrationSound, Applying, RestoreSound,
        Restoring
  <1>4. StageSound' /\ PublishedIsCommitted' /\ CopiesSound'
    BY <1>1 DEF ArchiveInv, StageSound, PublishedIsCommitted, CopiesSound
  <1>5. QED
    BY <1>2, <1>3, <1>4 DEF ArchiveInv

\* The steps of a backup before it is published write its own row only.
LEMMA StageFrame ==
  ASSUME ArchiveInv, UNCHANGED <<code, live, unlinked, committed, archive, op, dir>>,
         stage' \in Stages \cup {NULL}, StageSound'
  PROVE  ArchiveInv'
  BY DEF ArchiveInv, TypeOK, FilesCommitted, Files, MigrationSound, Applying,
         PublishedIsCommitted, RestoreSound, Restoring, CopiesSound

\* A backup begins at a free destination.
LEMMA BackupVerifyInv ==
  ASSUME ArchiveInv, NEW d \in Destinations, BackupVerify(d)
  PROVE  ArchiveInv'
  <1> DEFINE begun(db) == [dest |-> d, code |-> code, of |-> db.id,
                           verified |-> db.events, snapshot |-> NULL,
                           covers |-> NULL]
  <1>1. PICK db \in Files : /\ Opens(db, code)
                           /\ stage' = begun(db)
    BY DEF BackupVerify
  <1>2. /\ archive[d] = NULL
        /\ UNCHANGED <<code, live, unlinked, committed, archive, op, dir>>
        /\ code \in Schemas /\ code > 0
    BY ArchiveAssumption DEF BackupVerify, ArchiveInv, TypeOK, Schemas
  <1>3. db \in Databases /\ db.schema = code
    BY <1>1 DEF Files, Opens, ArchiveInv, TypeOK
  <1>4. db.events \in Lengths /\ db.id \in Ids
    BY <1>2, <1>3 DEF Databases
  <1>5. /\ begun(db) \in Stages /\ begun(db).dest = d /\ begun(db).code = code
        /\ begun(db).snapshot = NULL /\ begun(db).covers = NULL
    BY <1>2, <1>4 DEF Stages
  <1> HIDE DEF begun
  <1>6. StageSound'
    BY <1>1, <1>2, <1>5 DEF StageSound
  <1>7. QED
    BY <1>1, <1>2, <1>5, <1>6, StageFrame

\* The copy is of a database with an identity, which was therefore committed.
LEMMA BackupCopyInv == ASSUME ArchiveInv, BackupCopy PROVE ArchiveInv'
  <1> DEFINE copied(db) == [stage EXCEPT !.snapshot = db]
  <1>1. PICK db \in Files : db.id = stage.of /\ stage' = copied(db)
    BY DEF BackupCopy
  <1>2. /\ stage # NULL /\ stage \in Stages /\ stage.snapshot = NULL
        /\ UNCHANGED <<code, live, unlinked, committed, archive, op, dir>>
    BY DEF BackupCopy, ArchiveInv, TypeOK
  <1>3. db \in Databases /\ db.schema # 0
    <2>1. db \in Databases /\ db.id # NULL
      BY <1>1, <1>2, ArchiveAssumption
      DEF Files, Stages, Ids, ArchiveInv, TypeOK
    <2>2. QED
      BY <2>1 DEF Databases
  <1>4. db \in committed
    BY <1>3 DEF Databases, Schemas, ArchiveInv, FilesCommitted
  <1>5. /\ copied(db) \in Stages /\ copied(db).dest = stage.dest
        /\ copied(db).code = stage.code /\ copied(db).snapshot = db
        /\ copied(db).covers = stage.covers
    BY <1>2, <1>3 DEF Stages
  <1> HIDE DEF copied
  <1>6. stage.covers = NULL
    BY <1>2 DEF ArchiveInv, StageSound
  <1>7. StageSound'
    BY <1>1, <1>2, <1>4, <1>5, <1>6 DEF ArchiveInv, StageSound
  <1>8. QED
    BY <1>1, <1>2, <1>5, <1>7, StageFrame

\* The manifest covers what was copied.
LEMMA BackupExportInv == ASSUME ArchiveInv, BackupExport PROVE ArchiveInv'
  <1> DEFINE exported == [stage EXCEPT !.covers = stage.snapshot.events]
  <1>1. /\ stage # NULL /\ stage \in Stages /\ stage.snapshot # NULL
        /\ stage.snapshot.schema = stage.code
        /\ stage' = exported
        /\ UNCHANGED <<code, live, unlinked, committed, archive, op, dir>>
    BY DEF BackupExport, MayExport, Opens, Covered, ArchiveInv, TypeOK
  <1>2. stage.snapshot \in Databases
    BY <1>1 DEF Stages
  <1>3. stage.snapshot.events \in Lengths
    BY <1>2 DEF Databases
  <1>4. /\ exported \in Stages /\ exported.dest = stage.dest
        /\ exported.code = stage.code /\ exported.snapshot = stage.snapshot
        /\ exported.covers = stage.snapshot.events
    BY <1>1, <1>3 DEF Stages
  <1> HIDE DEF exported
  <1>5. StageSound'
    BY <1>1, <1>4 DEF ArchiveInv, StageSound
  <1>6. QED
    BY <1>1, <1>4, <1>5, StageFrame

\* A backup that ends leaves nothing anybody reads.
LEMMA BackupEndsInv == ASSUME ArchiveInv, BackupEnds PROVE ArchiveInv'
  BY StageFrame DEF BackupEnds, StageSound

\* What is published was committed, and takes no archive's place.
LEMMA BackupPublishInv == ASSUME ArchiveInv, BackupPublish PROVE ArchiveInv'
  <1> DEFINE made == [snapshot |-> stage.snapshot, covers |-> stage.covers,
                      file |-> stage.snapshot]
             d == stage.dest
  <1>1. /\ stage # NULL /\ stage \in Stages /\ stage.covers # NULL
        /\ archive' = [archive EXCEPT ![d] = made]
        /\ stage' = NULL
        /\ UNCHANGED <<code, live, unlinked, committed, op, dir>>
        /\ archive \in [Destinations -> Archives \cup {NULL}]
    BY DEF BackupPublish, ArchiveInv, TypeOK
  <1>2. /\ archive[d] = NULL /\ stage.snapshot # NULL
        /\ stage.snapshot.schema = stage.code /\ stage.code > 0
        /\ stage.snapshot \in committed
        /\ stage.covers = stage.snapshot.events
    BY <1>1 DEF ArchiveInv, StageSound
  <1>3. d \in Destinations /\ made \in Archives
    BY <1>1, <1>2 DEF Stages, Archives
  <1>4. made.snapshot = stage.snapshot /\ made.covers = stage.covers
    OBVIOUS
  <1> HIDE DEF made, d
  <1>5. /\ archive' \in [Destinations -> Archives \cup {NULL}]
        /\ archive'[d] = made
        /\ \A b \in Destinations \ {d} : archive'[b] = archive[b]
    BY <1>1, <1>3
  <1>6. TypeOK' /\ StageSound'
    BY <1>1, <1>5 DEF ArchiveInv, TypeOK, StageSound
  <1>7. PublishedIsCommitted'
    BY <1>1, <1>2, <1>4, <1>5 DEF ArchiveInv, PublishedIsCommitted
  <1>8. \A b \in Destinations : archive[b] # NULL => archive'[b] = archive[b]
    BY <1>2, <1>5
  <1>9. RestoreSound'
    <2>1. Restoring => op.from \in Destinations
      BY DEF Restoring, ArchiveInv, TypeOK, Operations
    <2>2. QED
      BY <1>1, <1>8, <2>1 DEF ArchiveInv, RestoreSound, Restoring
  <1>10. CopiesSound'
    <2>1. \A e \in Dirs : dir[e] # NULL => dir[e].from \in Destinations
      BY DEF ArchiveInv, TypeOK, Copies
    <2>2. QED
      BY <1>1, <1>8, <2>1 DEF ArchiveInv, CopiesSound
  <1>11. FilesCommitted' /\ MigrationSound'
    BY <1>1 DEF ArchiveInv, FilesCommitted, Files, MigrationSound, Applying
  <1>12. QED
    BY <1>6, <1>7, <1>9, <1>10, <1>11 DEF ArchiveInv

\* An exchanged file leaves what was published on record.
LEMMA DamageInv ==
  ASSUME ArchiveInv, NEW d \in Destinations, Damage(d)
  PROVE  ArchiveInv'
  <1>0. PICK db \in committed \cup {Blank} :
          archive' = [archive EXCEPT ![d].file = db]
    BY DEF Damage
  <1> DEFINE spoilt == [archive[d] EXCEPT !.file = db]
  <1>1. /\ archive[d] # NULL /\ archive[d] \in Archives /\ db \in Databases
        /\ archive' = [archive EXCEPT ![d] = spoilt]
        /\ UNCHANGED <<code, live, unlinked, committed, stage, op, dir>>
        /\ archive \in [Destinations -> Archives \cup {NULL}]
    BY <1>0, BlankIsDatabase DEF Damage, ArchiveInv, TypeOK
  <1>2. /\ spoilt \in Archives /\ spoilt.snapshot = archive[d].snapshot
        /\ spoilt.covers = archive[d].covers
    BY <1>1 DEF Archives
  <1>3. spoilt # NULL
    BY <1>2, NoRowAssumption
  <1> HIDE DEF spoilt
  <1>4. /\ archive' \in [Destinations -> Archives \cup {NULL}]
        /\ archive'[d] = spoilt
        /\ \A b \in Destinations \ {d} : archive'[b] = archive[b]
    BY <1>1, <1>2
  <1>5. \A b \in Destinations :
          /\ archive'[b] = NULL <=> archive[b] = NULL
          /\ archive[b] # NULL =>
                /\ archive'[b].snapshot = archive[b].snapshot
                /\ archive'[b].covers = archive[b].covers
    BY <1>1, <1>2, <1>3, <1>4
  <1>6. TypeOK'
    BY <1>1, <1>4 DEF ArchiveInv, TypeOK
  <1>7. StageSound'
    <2>1. stage # NULL => stage.dest \in Destinations
      BY DEF ArchiveInv, TypeOK, Stages
    <2>2. QED
      BY <1>1, <1>5, <2>1 DEF ArchiveInv, StageSound
  <1>8. PublishedIsCommitted'
    BY <1>1, <1>5 DEF ArchiveInv, PublishedIsCommitted
  <1>9. RestoreSound'
    <2>1. Restoring => op.from \in Destinations
      BY DEF Restoring, ArchiveInv, TypeOK, Operations
    <2>2. QED
      BY <1>1, <1>5, <2>1 DEF ArchiveInv, RestoreSound, Restoring
  <1>10. CopiesSound'
    <2>1. \A e \in Dirs : dir[e] # NULL => dir[e].from \in Destinations
      BY DEF ArchiveInv, TypeOK, Copies
    <2>2. QED
      BY <1>1, <1>5, <2>1 DEF ArchiveInv, CopiesSound
  <1>11. FilesCommitted' /\ MigrationSound'
    BY <1>1 DEF ArchiveInv, FilesCommitted, Files, MigrationSound, Applying
  <1>12. QED
    BY <1>6, <1>7, <1>8, <1>9, <1>10, <1>11 DEF ArchiveInv

\* A restore begins from a published archive, into a directory that is not
\* there.
LEMMA RestoreInv ==
  ASSUME ArchiveInv, NEW d \in Destinations, NEW e \in Dirs, Restore(d, e)
  PROVE  ArchiveInv'
  <1> DEFINE begun == [kind |-> "restore", code |-> code, from |-> d, into |-> e]
  <1>1. /\ op' = begun /\ archive[d] # NULL /\ dir[e] = NULL
        /\ UNCHANGED <<code, live, unlinked, committed, stage, archive, dir>>
        /\ code \in Schemas /\ archive[d].snapshot.schema = code
    BY ArchiveAssumption
    DEF Restore, Verifies, Opens, ArchiveInv, TypeOK, Schemas
  <1>2. /\ begun \in Operations /\ begun.kind = "restore"
        /\ begun.from = d /\ begun.into = e /\ begun.code = code
    BY <1>1 DEF Operations
  <1> HIDE DEF begun
  <1>3. TypeOK'
    BY <1>1, <1>2 DEF ArchiveInv, TypeOK
  <1>4. MigrationSound' /\ RestoreSound'
    BY <1>1, <1>2 DEF MigrationSound, Applying, RestoreSound, Restoring
  <1>5. /\ FilesCommitted' /\ StageSound' /\ PublishedIsCommitted'
        /\ CopiesSound'
    BY <1>1
    DEF ArchiveInv, FilesCommitted, Files, StageSound, PublishedIsCommitted,
        CopiesSound
  <1>6. QED
    BY <1>3, <1>4, <1>5 DEF ArchiveInv

\* What a restore under way is about.
LEMMA RestoreUnderWay ==
  ASSUME ArchiveInv, Restoring
  PROVE  /\ op.from \in Destinations /\ op.into \in Dirs
         /\ archive[op.from] # NULL /\ archive[op.from] \in Archives
         /\ archive[op.from].snapshot \in Databases
         /\ archive[op.from].file \in Databases
         /\ dir[op.into] # NULL => /\ dir[op.into] \in Copies
                                   /\ dir[op.into].from = op.from
  <1>1. op.from \in Destinations /\ op.into \in Dirs
    BY DEF Restoring, ArchiveInv, TypeOK, Operations
  <1>2. archive[op.from] # NULL /\ archive[op.from] \in Archives
    BY <1>1 DEF ArchiveInv, TypeOK, RestoreSound
  <1>3. /\ archive[op.from].snapshot \in Databases
        /\ archive[op.from].file \in Databases
    BY <1>2 DEF Archives
  <1>4. dir[op.into] # NULL => /\ dir[op.into] \in Copies
                               /\ dir[op.into].from = op.from
    BY <1>1 DEF ArchiveInv, TypeOK, RestoreSound
  <1>5. QED
    BY <1>1, <1>2, <1>3, <1>4

\* A step that writes the directory of the restore under way, soundly.
LEMMA DirFrame ==
  ASSUME ArchiveInv, Restoring, NEW copy \in Copies \cup {NULL},
         UNCHANGED <<code, live, unlinked, committed, stage, archive>>,
         op' \in {op, NULL},
         dir' = [dir EXCEPT ![op.into] = copy],
         copy # NULL =>
            /\ copy.from = op.from
            /\ copy.returned =>
                  copy.db # NULL /\ Agree(copy.db, archive[op.from].snapshot)
  PROVE  ArchiveInv'
  <1>1. /\ op.into \in Dirs /\ op.from \in Destinations
        /\ archive[op.from] # NULL
        /\ dir \in [Dirs -> Copies \cup {NULL}]
    BY RestoreUnderWay DEF ArchiveInv, TypeOK
  <1>2. /\ dir'[op.into] = copy
        /\ \A e \in Dirs \ {op.into} : dir'[e] = dir[e]
        /\ dir' \in [Dirs -> Copies \cup {NULL}]
    BY <1>1
  <1>3. TypeOK'
    BY <1>2 DEF ArchiveInv, TypeOK
  <1>4. MigrationSound' /\ RestoreSound'
    BY <1>1, <1>2
    DEF ArchiveInv, MigrationSound, Applying, RestoreSound, Restoring
  <1>5. CopiesSound'
    BY <1>1, <1>2 DEF ArchiveInv, CopiesSound
  <1>6. FilesCommitted' /\ StageSound' /\ PublishedIsCommitted'
    BY DEF ArchiveInv, FilesCommitted, Files, StageSound, PublishedIsCommitted
  <1>7. QED
    BY <1>3, <1>4, <1>5, <1>6 DEF ArchiveInv

\* The file is made empty.
LEMMA RestoreOpenInv == ASSUME ArchiveInv, RestoreOpen PROVE ArchiveInv'
  <1> DEFINE empty == [db |-> NULL, from |-> op.from, returned |-> FALSE]
  <1>1. /\ Restoring /\ op.from \in Destinations
        /\ dir' = [dir EXCEPT ![op.into] = empty]
        /\ UNCHANGED <<code, live, unlinked, committed, stage, archive, op>>
    BY RestoreUnderWay DEF RestoreOpen
  <1>2. /\ empty \in Copies /\ empty.from = op.from
        /\ empty.returned = FALSE
    BY <1>1 DEF Copies
  <1> HIDE DEF empty
  <1>3. QED
    BY <1>1, <1>2, DirFrame

\* The snapshot is copied, as it is by then.
LEMMA RestoreCopyInv == ASSUME ArchiveInv, RestoreCopy PROVE ArchiveInv'
  <1> DEFINE old == dir[op.into]
             kept == archive[op.from]
             copied == [old EXCEPT !.db = kept.file]
  <1>1. /\ Restoring /\ old # NULL /\ old.db = NULL
        /\ UNCHANGED <<code, live, unlinked, committed, stage, archive, op>>
        /\ old \in Copies /\ old.from = op.from /\ op.into \in Dirs
        /\ kept.file \in Databases
    BY RestoreUnderWay DEF RestoreCopy
  <1>2. dir' = [dir EXCEPT ![op.into] = copied]
    BY DEF RestoreCopy, ArchiveInv, TypeOK
  <1>3. ~old.returned
    BY <1>1 DEF ArchiveInv, CopiesSound
  <1>4. /\ copied \in Copies /\ copied.from = old.from
        /\ copied.returned = old.returned
    BY <1>1 DEF Copies
  <1> HIDE DEF copied
  <1>5. QED
    BY <1>1, <1>2, <1>3, <1>4, DirFrame

\* A restore returns what it accepts, which opened with the software that had
\* verified the archive, and removes the rest.
LEMMA RestoreEndsInv == ASSUME ArchiveInv, RestoreEnds PROVE ArchiveInv'
  <1> DEFINE old == dir[op.into]
             done == [old EXCEPT !.returned = TRUE]
  <1>1. /\ Restoring /\ old # NULL /\ old.db # NULL
        /\ UNCHANGED <<code, live, unlinked, committed, stage, archive>>
        /\ op' = NULL
        /\ old \in Copies /\ old.from = op.from /\ op.into \in Dirs
    BY RestoreUnderWay DEF RestoreEnds
  <1>2. CASE Accepted(old)
    <2>1. dir' = [dir EXCEPT ![op.into] = done]
      BY <1>2 DEF RestoreEnds, ArchiveInv, TypeOK
    <2>2. Agree(old.db, archive[op.from].snapshot)
      <3>1. op.from \in Destinations /\ archive[op.from] # NULL
        BY <1>1, RestoreUnderWay
      <3>2. archive[op.from].covers = archive[op.from].snapshot.events
        BY <3>1 DEF ArchiveInv, PublishedIsCommitted
      <3>3. archive[op.from].snapshot.schema = op.code
        BY <1>1 DEF ArchiveInv, RestoreSound
      <3>4. QED
        BY <1>2, <3>2, <3>3 DEF Accepted, Opens, Agree
    <2>3. done \in Copies /\ done.db = old.db /\ done.from = old.from
      BY <1>1 DEF Copies
    <2> HIDE DEF done
    <2>4. QED
      BY <1>1, <2>1, <2>2, <2>3, DirFrame
  <1>3. CASE ~Accepted(old)
    <2>1. dir' = [dir EXCEPT ![op.into] = NULL]
      BY <1>3 DEF RestoreEnds
    <2>2. QED
      BY <1>1, <2>1, DirFrame
  <1>4. QED
    BY <1>2, <1>3

-----------------------------------------------------------------------------
(* The theorems.                                                           *)

\* Every step keeps the invariant.
LEMMA InvStep == ArchiveInv /\ [Next]_vars => ArchiveInv'
  <1> SUFFICES ASSUME ArchiveInv, [Next]_vars
               PROVE  ArchiveInv'
    OBVIOUS
  <1>1. CASE Next
    BY <1>1, CommitInv, UpgradeInv, InitializeInv, MigrateInv,
       ApplyVersionInv, OperatorEndsInv, BackupVerifyInv, BackupCopyInv,
       BackupExportInv, BackupPublishInv, BackupEndsInv, DamageInv,
       RestoreInv, RestoreOpenInv, RestoreCopyInv, RestoreEndsInv
    DEF Next, Apply
  <1>2. CASE UNCHANGED vars
    BY <1>2
    DEF vars, ArchiveInv, TypeOK, FilesCommitted, Files, MigrationSound, Applying,
        StageSound, PublishedIsCommitted, RestoreSound, Restoring, CopiesSound
  <1>3. QED
    BY <1>1, <1>2

\* The invariant holds, for every instance.
THEOREM InvHolds == Spec => []ArchiveInv
  BY InvInit, InvStep, PTL DEF Spec

\* Databases, backups and copies keep their types.
THEOREM TypeCorrect == Spec => []TypeOK
  <1>1. ArchiveInv => TypeOK
    BY DEF ArchiveInv
  <1>2. QED
    BY <1>1, InvHolds, PTL

\* A published backup is one state that was committed, whatever workers,
\* operators and upgrades did while it was made.
THEOREM BackupsAreCommitted == Spec => []PublishedIsCommitted
  <1>1. ArchiveInv => PublishedIsCommitted
    BY DEF ArchiveInv
  <1>2. QED
    BY <1>1, InvHolds, PTL

\* A restore that returns has restored the identity, the schema and the log
\* that were archived, though it reads the snapshot again after verifying it.
THEOREM RestoresAreTrue == Spec => []RestoredAsArchived
  BY InvRestored, InvHolds, PTL

\* No step takes back an event, a quiet write or the identity of a database
\* that has events, whichever file a worker commits to and whichever call
\* fails; but initialize, failing after its last migration, removes the
\* database, which then has no name.
THEOREM LogsAreKept == Spec => LogIsKept
  <1> DEFINE Kept ==
           /\ live' # NULL
           /\ live'.id = live.id
           /\ live'.schema >= live.schema
           /\ live'.events >= live.events
           /\ live'.quiet >= live.quiet
             Removed ==
           /\ Applying
           /\ op.kind = "initialize"
           /\ live' = NULL
           /\ live \in unlinked'
  <1>1. ASSUME ArchiveInv, [Next]_vars, live # NULL, live.events > 0
        PROVE  Kept \/ Removed
    <2>1. /\ live \in Databases /\ live.schema \in Nat /\ live.events \in Nat
          /\ live.quiet \in Nat /\ live.schema > 0
      <3>1. live \in Databases
        BY <1>1 DEF ArchiveInv, TypeOK
      <3>2. /\ live.schema \in Schemas /\ live.events \in Lengths
            /\ live.quiet \in 0 .. MaxQuiet
            /\ live.schema = 0 => live.events = 0
        BY <3>1 DEF Databases
      <3>3. QED
        BY <1>1, <3>1, <3>2 DEF Schemas, Lengths
    <2>2. ASSUME live' = live PROVE Kept
      BY <1>1, <2>1, <2>2
    <2>3. CASE Commit
      <3>1. PICK db \in Databases, grown \in Databases :
              /\ grown # NULL
              /\ grown.schema = db.schema /\ grown.id = db.id
              /\ grown.events >= db.events /\ grown.quiet >= db.quiet
              /\ (live = db /\ live' = grown) \/ live' = live
        BY <1>1, <2>3, Committed
      <3>2. QED
        BY <2>1, <2>2, <3>1
    <2>4. CASE ApplyVersion
      <3>1. live' \in Databases /\ live' # NULL
        BY <1>1, <2>4, VersionApplied, NoRowAssumption
      <3>2. QED
        BY <1>1, <2>1, <2>4, <3>1, VersionApplied
    <2>5. CASE ApplyFails
      <3>1. CASE op.kind = "initialize"
        <4>1. /\ Applying /\ live' = NULL
              /\ unlinked' = unlinked \cup {db \in {live} : Opens(db, op.code)}
          BY <2>5, <3>1 DEF ApplyFails
        <4>2. /\ live.schema <= op.code
              /\ live.schema < op.code => live.events = 0
          BY <1>1, <3>1, <4>1 DEF ArchiveInv, MigrationSound
        <4>3. op.code \in Nat
          <5>1. op \in Operations
            BY <1>1, <4>1 DEF Applying, ArchiveInv, TypeOK
          <5>2. QED
            BY <5>1 DEF Operations, Schemas
        <4>4. live.schema = op.code
          BY <1>1, <2>1, <4>2, <4>3
        <4>5. QED
          BY <1>1, <3>1, <4>1, <4>4 DEF Opens
      <3>2. CASE op.kind # "initialize"
        BY <2>2, <2>5, <3>2 DEF ApplyFails
      <3>3. QED
        BY <3>1, <3>2
    <2>6. QED
      <3>1. CASE UNCHANGED vars
        BY <2>2, <3>1 DEF vars
      <3>2. CASE Next
        <4>1. \/ Commit \/ ApplyVersion \/ ApplyFails \/ Initialize
              \/ live' = live
          BY <3>2
          DEF Next, Upgrade, Migrate, Apply, ApplyDone, BackupVerify,
              BackupCopy, BackupExport, BackupPublish, BackupEnds, Damage,
              Restore, RestoreOpen, RestoreCopy, RestoreEnds, OperatorDies
        <4>2. ~Initialize
          BY <1>1 DEF Initialize
        <4>3. QED
          BY <2>2, <2>3, <2>4, <2>5, <4>1, <4>2
      <3>3. QED
        BY <1>1, <3>1, <3>2
  <1>2. ArchiveInv /\ [Next]_vars =>
          [(live # NULL /\ live.events > 0) => Kept \/ Removed]_vars
    BY <1>1
  <1>3. QED
    BY <1>2, InvHolds, PTL DEF Spec, LogIsKept

=============================================================================
