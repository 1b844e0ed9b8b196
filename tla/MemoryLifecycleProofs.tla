------------------------ MODULE MemoryLifecycleProofs ------------------------
(***************************************************************************)
(* Theorems about MemoryLifecycle, for every set of memories, statements   *)
(* and sources and every bound: the index is the accepted records, what    *)
(* was replaced stays replaced, review admits no conflict, a recorded      *)
(* conflict stands, and a loop has behind it nothing of what it read.      *)
(***************************************************************************)
EXTENDS MemoryLifecycle, TLAPS

-----------------------------------------------------------------------------
(* The inductive invariant.                                                *)

\* The version a record's state implies: creation makes 1, acceptance 2, and
\* what was stale is past that.
VersionsCounted ==
    \A m \in Memories :
        /\ memory[m].state = "none" => memory[m].version = 0
        /\ memory[m].state = "candidate" => memory[m].version = 1
        /\ memory[m].state = "accepted" => memory[m].version >= 2
        /\ memory[m].state = "stale" => memory[m].version >= 3

\* No record is at an earlier version than the loop has read; and of those that
\* are as they were read, the loop has before it what it was called for.
LoopHolds(loop) ==
    \A m \in Memories :
        /\ loop.read[m] <= memory[m].version
        /\ memory[m].version = loop.read[m]
              => (m \in loop.left <=> m \in Accepted /\ Concerns(loop, m))

LoopSound == \A p \in Processes : work[p] # NULL => LoopHolds(work[p])

\* The key of a signal was used with a version the record no longer has.
KeysSpent ==
    \A h \in Hashes, m \in Memories :
        signalled[h][m] # 0 => signalled[h][m] < memory[m].version

\* Of the records and what is derived from them.
TablesTyped ==
    /\ memory \in [Memories -> MemoryRows]
    /\ index \in [Memories -> Origins \cup {NULL}]
    /\ conflicts \subseteq [accepted : Memories, quarantined : Memories]

RecordsInv ==
    /\ TablesTyped
    /\ VersionsCounted
    /\ IndexHoldsAccepted
    /\ ReplacedStaysReplaced
    /\ ReviewAdmitsNoConflict
    /\ ConflictsStand

\* Of the loops and the keys they use.
LoopsInv ==
    /\ signalled \in [Hashes -> [Memories -> Versions]]
    /\ work \in [Processes -> Loops \cup {NULL}]
    /\ LoopSound
    /\ KeysSpent

MemoryInv == RecordsInv /\ LoopsInv

LEMMA InvIsTyped == MemoryInv => TypeOK
  BY DEF MemoryInv, RecordsInv, TablesTyped, LoopsInv, TypeOK

-----------------------------------------------------------------------------
(* Rows.                                                                   *)

LEMMA RowParts ==
  ASSUME NEW row \in MemoryRows
  PROVE  /\ row.state \in MemoryStates
         /\ row.version \in Versions
         /\ row.version \in Nat
         /\ row.statement \in Statements
         /\ row.hash \in Hashes
         /\ row.origin \in Origins
         /\ row.indexed \in Origins
         /\ row.due \in Times
         /\ row.supersedes \in SUBSET Memories
  BY DEF MemoryRows, Versions

\* A command on a record changes its state and its version only.
LEMMA MovedRow ==
  ASSUME NEW row \in MemoryRows, NEW s \in MemoryStates
  PROVE  /\ Moved(row, s) \in MemoryRows
         /\ Moved(row, s).state = s
         /\ Moved(row, s).version = row.version + 1
         /\ Moved(row, s).statement = row.statement
         /\ Moved(row, s).hash = row.hash
         /\ Moved(row, s).origin = row.origin
         /\ Moved(row, s).due = row.due
         /\ Moved(row, s).supersedes = row.supersedes
  <1>1. row.version + 1 \in Versions
    BY RowParts DEF Versions
  <1>2. QED
    BY <1>1 DEF Moved, MemoryRows

LEMMA LoopParts ==
  ASSUME NEW loop \in Loops
  PROVE  /\ loop.kind \in {"sweep", "signal"}
         /\ loop.asOf \in Times
         /\ loop.hash \in Hashes
         /\ loop.read \in [Memories -> Versions]
         /\ loop.left \in SUBSET Memories
         /\ loop.left # {}
         /\ loop # NULL
  BY NoLoopAssumption DEF Loops

-----------------------------------------------------------------------------
(* The initial states.                                                     *)

LEMMA InitInv == Init => MemoryInv
  <1> SUFFICES ASSUME Init PROVE MemoryInv
    OBVIOUS
  <1>1. NoMemory \in MemoryRows
    <2>1. /\ (CHOOSE s \in Statements : TRUE) \in Statements
          /\ (CHOOSE h \in Hashes : TRUE) \in Hashes
          /\ (CHOOSE o \in Origins : TRUE) \in Origins
      BY MemoryAssumption
    <2>2. 0 \in Versions /\ 0 \in Times
      BY MemoryAssumption DEF Versions, Times
    <2>3. QED
      BY <2>1, <2>2 DEF NoMemory, MemoryRows, MemoryStates
  <1>2. \A m \in Memories : memory[m].state = "none" /\ memory[m].version = 0
    BY DEF Init, NoMemory
  <1>3. memory \in [Memories -> MemoryRows] /\ index \in [Memories -> Origins \cup {NULL}]
    BY <1>1 DEF Init
  <1>4. IndexHoldsAccepted
    BY <1>2 DEF Init, IndexHoldsAccepted, Accepted
  <1>5. conflicts = {} /\ Accepted = {}
    BY <1>2 DEF Init, Accepted
  <1>6. RecordsInv
    BY <1>2, <1>3, <1>4, <1>5
    DEF RecordsInv, TablesTyped, VersionsCounted, ReplacedStaysReplaced, WasAccepted,
        ReviewAdmitsNoConflict, ConflictsStand
  <1>7. LoopsInv
    <2>1. 0 \in Versions
      BY DEF Versions
    <2>2. \A p \in Processes : work[p] = NULL
      BY DEF Init
    <2>3. QED
      BY <2>1, <2>2 DEF Init, LoopsInv, LoopSound, KeysSpent
  <1>8. QED
    BY <1>6, <1>7 DEF MemoryInv

-----------------------------------------------------------------------------
(* The records.  Each lemma says what a command does to the record it is   *)
(* on (the records it replaces, for an acceptance) and that it keeps       *)
(* RecordsInv.                                                             *)

\* Of a command that leaves one record in a state outside the accepted ones.
LEMMA CreateInv ==
  ASSUME RecordsInv, NEW m \in Memories, NEW c \in Candidates,
         NEW sup \in SUBSET Memories, CreateCandidate(m, c, sup)
  PROVE  RecordsInv'
  <1> DEFINE row == [state |-> "candidate", version |-> 1,
                     statement |-> c.statement, hash |-> c.hash,
                     origin |-> c.origin, indexed |-> c.origin, due |-> c.due,
                     supersedes |-> sup]
  <1>1. /\ memory' = [memory EXCEPT ![m] = row]
        /\ memory[m].state = "none"
        /\ memory \in [Memories -> MemoryRows]
        /\ UNCHANGED <<index, conflicts>>
    BY DEF CreateCandidate, WithinBound, RecordsInv, TablesTyped
  <1>2. row \in MemoryRows
    <2>1. 1 \in Versions
      BY DEF Versions
    <2>2. /\ c.statement \in Statements /\ c.hash \in Hashes
          /\ c.origin \in Origins /\ c.due \in Times
      BY MemoryAssumption DEF Times
    <2>3. QED
      BY <2>1, <2>2 DEF MemoryRows, MemoryStates
  <1>3. /\ memory'[m] = row
        /\ \A n \in Memories : n # m => memory'[n] = memory[n]
    BY <1>1
  <1>4. Accepted' = Accepted
    BY <1>1, <1>3 DEF Accepted
  <1>5. TablesTyped'
    BY <1>1, <1>2 DEF RecordsInv, TablesTyped
  <1>6. VersionsCounted'
    BY <1>1, <1>3 DEF RecordsInv, TablesTyped, VersionsCounted
  <1>7. IndexHoldsAccepted'
    BY <1>1, <1>3, <1>4 DEF RecordsInv, TablesTyped, IndexHoldsAccepted, Accepted
  <1>8. ReplacedStaysReplaced'
    <2> SUFFICES ASSUME NEW n \in Memories, memory'[n].state \in WasAccepted,
                        NEW k \in memory'[n].supersedes
                 PROVE  memory'[k].state = "superseded"
      BY DEF ReplacedStaysReplaced, WasAccepted
    <2>1. n # m /\ memory'[n] = memory[n]
      BY <1>3 DEF WasAccepted
    <2>2. k \in Memories
      BY <1>1, <2>1, RowParts
    <2>3. memory[k].state = "superseded"
      BY <2>1 DEF RecordsInv, TablesTyped, ReplacedStaysReplaced, WasAccepted
    <2>4. QED
      BY <1>1, <1>3, <2>2, <2>3
  <1>9. ReviewAdmitsNoConflict'
    BY <1>1, <1>3, <1>4 DEF RecordsInv, TablesTyped, ReviewAdmitsNoConflict, Accepted
  <1>10. ConflictsStand'
    BY <1>1, <1>3 DEF RecordsInv, TablesTyped, ConflictsStand, WasAccepted
  <1>11. QED
    BY <1>5, <1>6, <1>7, <1>8, <1>9, <1>10 DEF RecordsInv, TablesTyped

\* review_candidate, declined or in conflict.
LEMMA DeclineInv ==
  ASSUME RecordsInv, NEW m \in Memories, NEW d \in {"rejected", "quarantined"},
         WithinBound(m), memory[m].state = "candidate",
         memory' = [memory EXCEPT ![m] = Moved(@, d)],
         UNCHANGED index,
         \/ UNCHANGED conflicts
         \/ /\ d = "quarantined"
            /\ \E n \in Accepted : conflicts' = conflicts \cup {Conflict(n, m)}
  PROVE  RecordsInv'
  <1>1. memory \in [Memories -> MemoryRows]
    BY DEF WithinBound, RecordsInv, TablesTyped
  <1>2. memory[m] \in MemoryRows /\ d \in MemoryStates
    BY <1>1 DEF MemoryStates
  <1>3. /\ Moved(memory[m], d) \in MemoryRows
        /\ Moved(memory[m], d).state = d
    BY <1>2, MovedRow
  <1>4. /\ memory'[m] = Moved(memory[m], d)
        /\ memory'[m].state = d
        /\ \A n \in Memories : n # m => memory'[n] = memory[n]
    BY <1>1, <1>3
  <1>5. Accepted' = Accepted
    BY <1>1, <1>4 DEF Accepted
  <1>6. TablesTyped'
    <2>1. conflicts' \subseteq [accepted : Memories, quarantined : Memories]
      BY DEF RecordsInv, TablesTyped, Accepted, Conflict
    <2>2. memory' \in [Memories -> MemoryRows]
      BY <1>1, <1>3
    <2>3. QED
      BY <2>1, <2>2 DEF RecordsInv, TablesTyped
  <1>7. VersionsCounted'
    BY <1>1, <1>4 DEF RecordsInv, TablesTyped, VersionsCounted
  <1>8. IndexHoldsAccepted'
    BY <1>1, <1>4, <1>5 DEF RecordsInv, TablesTyped, IndexHoldsAccepted, Accepted
  <1>9. ReplacedStaysReplaced'
    <2> SUFFICES ASSUME NEW n \in Memories, memory'[n].state \in WasAccepted,
                        NEW k \in memory'[n].supersedes
                 PROVE  memory'[k].state = "superseded"
      BY DEF ReplacedStaysReplaced, WasAccepted
    <2>1. n # m /\ memory'[n] = memory[n]
      BY <1>4 DEF WasAccepted
    <2>2. k \in Memories
      BY <1>1, <2>1, RowParts
    <2>3. memory[k].state = "superseded"
      BY <2>1 DEF RecordsInv, TablesTyped, ReplacedStaysReplaced, WasAccepted
    <2>4. QED
      BY <1>4, <2>2, <2>3
  <1>10. ReviewAdmitsNoConflict'
    BY <1>4, <1>5 DEF RecordsInv, TablesTyped, ReviewAdmitsNoConflict, Accepted
  <1>11. ConflictsStand'
    <2> SUFFICES ASSUME NEW c \in conflicts'
                 PROVE  /\ memory'[c.accepted].state \in WasAccepted
                        /\ memory'[c.quarantined].state = "quarantined"
      BY DEF ConflictsStand, WasAccepted
    <2>1. CASE c \in conflicts
      <3>1. c.accepted \in Memories /\ c.quarantined \in Memories
        BY <2>1 DEF RecordsInv, TablesTyped
      <3>2. QED
        BY <1>4, <2>1, <3>1 DEF RecordsInv, TablesTyped, ConflictsStand, WasAccepted
    <2>2. CASE c \notin conflicts
      <3>1. PICK n \in Accepted : c = Conflict(n, m) /\ d = "quarantined"
        BY <2>2
      <3>2. n \in Memories /\ memory[n].state = "accepted" /\ n # m
        BY DEF Accepted
      <3>3. QED
        BY <1>4, <3>1, <3>2 DEF Conflict, WasAccepted
    <2>3. QED
      BY <2>1, <2>2
  <1>12. QED
    BY <1>6, <1>7, <1>8, <1>9, <1>10, <1>11 DEF RecordsInv, TablesTyped

\* review_candidate, accepted: the record and those it replaces.
LEMMA AcceptInv ==
  ASSUME RecordsInv, NEW m \in Memories, Accept(m)
  PROVE  RecordsInv'
  <1> DEFINE sup == memory[m].supersedes
  <1>1. /\ memory \in [Memories -> MemoryRows]
        /\ UNCHANGED conflicts
        /\ memory[m].state = "candidate"
        /\ sup \subseteq Accepted
    BY DEF Accept, WithinBound, RecordsInv, TablesTyped
  <1>2. m \notin sup
    BY <1>1 DEF Accepted
  <1>3. \A n \in Memories :
          memory'[n] = IF n = m THEN Moved(memory[n], "accepted")
                       ELSE IF n \in sup THEN Moved(memory[n], "superseded")
                       ELSE memory[n]
    BY DEF Accept
  <1>4. \A n \in Memories : memory[n] \in MemoryRows
    BY <1>1
  <1>5. \A n \in sup \cup {m} : n \in Memories
    BY <1>1 DEF Accept, Accepted
  <1>6. \A n \in sup \cup {m}, s \in MemoryStates :
          /\ Moved(memory[n], s) \in MemoryRows
          /\ Moved(memory[n], s).state = s
          /\ Moved(memory[n], s).version = memory[n].version + 1
          /\ Moved(memory[n], s).statement = memory[n].statement
          /\ Moved(memory[n], s).origin = memory[n].origin
          /\ Moved(memory[n], s).supersedes = memory[n].supersedes
    BY <1>4, <1>5, MovedRow
  <1>7. /\ memory'[m] \in MemoryRows
        /\ memory'[m].state = "accepted"
        /\ memory'[m].version = 2
        /\ memory'[m].statement = memory[m].statement
        /\ memory'[m].origin = memory[m].origin
        /\ memory'[m].supersedes = sup
    <2>1. memory[m].version = 1
      BY <1>1 DEF RecordsInv, TablesTyped, VersionsCounted
    <2>2. "accepted" \in MemoryStates
      BY DEF MemoryStates
    <2>3. QED
      BY <1>3, <1>6, <2>1, <2>2
  <1>8. \A n \in sup :
          /\ memory'[n] \in MemoryRows
          /\ memory'[n].state = "superseded"
          /\ memory'[n].supersedes = memory[n].supersedes
    <2>1. "superseded" \in MemoryStates
      BY DEF MemoryStates
    <2>2. QED
      BY <1>2, <1>3, <1>5, <1>6, <2>1
  <1>9. \A n \in Memories : n # m /\ n \notin sup => memory'[n] = memory[n]
    BY <1>3
  <1>10. Accepted' = (Accepted \ sup) \cup {m}
    BY <1>7, <1>8, <1>9 DEF Accepted
  <1>11. TablesTyped'
    <2>1. memory' \in [Memories -> MemoryRows]
      <3>1. memory' = [n \in Memories |-> memory'[n]]
        BY DEF Accept
      <3>2. \A n \in Memories : memory'[n] \in MemoryRows
        BY <1>4, <1>7, <1>8, <1>9
      <3>3. QED
        BY <3>1, <3>2
    <2>2. index' \in [Memories -> Origins \cup {NULL}]
      BY <1>4, RowParts DEF Accept, Deindexed, RecordsInv, TablesTyped
    <2>3. QED
      BY <1>1, <2>1, <2>2 DEF RecordsInv, TablesTyped
  <1>12. VersionsCounted'
    BY <1>7, <1>8, <1>9 DEF RecordsInv, TablesTyped, VersionsCounted
  <1>13. IndexHoldsAccepted'
    <2> SUFFICES ASSUME NEW n \in Memories
                 PROVE  index'[n] = IF n \in Accepted' THEN memory'[n].origin
                                    ELSE NULL
      BY DEF IndexHoldsAccepted
    <2>1. index'[n] = IF n = m THEN memory[m].origin
                      ELSE IF n \in sup THEN NULL ELSE index[n]
      BY DEF Accept, Deindexed
    <2>2. CASE n = m
      BY <1>7, <1>10, <2>1, <2>2
    <2>3. CASE n \in sup
      BY <1>2, <1>10, <2>1, <2>3
    <2>4. CASE n # m /\ n \notin sup
      BY <1>9, <1>10, <2>1, <2>4 DEF RecordsInv, TablesTyped, IndexHoldsAccepted
    <2>5. QED
      BY <2>2, <2>3, <2>4
  <1>14. ReplacedStaysReplaced'
    <2> SUFFICES ASSUME NEW n \in Memories, memory'[n].state \in WasAccepted,
                        NEW k \in memory'[n].supersedes
                 PROVE  memory'[k].state = "superseded"
      BY DEF ReplacedStaysReplaced, WasAccepted
    <2>1. CASE n = m
      BY <1>7, <1>8, <2>1
    <2>2. CASE n # m
      <3>1. memory[n].state \in WasAccepted /\ memory'[n].supersedes = memory[n].supersedes
        BY <1>1, <1>8, <1>9, <2>2 DEF Accepted, WasAccepted
      <3>2. k \in Memories
        BY <1>4, <3>1, RowParts
      <3>3. memory[k].state = "superseded"
        BY <3>1 DEF RecordsInv, TablesTyped, ReplacedStaysReplaced, WasAccepted
      <3>4. k # m /\ k \notin sup
        BY <1>1, <3>3 DEF Accepted
      <3>5. QED
        BY <1>9, <3>2, <3>3, <3>4
    <2>3. QED
      BY <2>1, <2>2
  <1>15. ReviewAdmitsNoConflict'
    <2>1. \A n \in Accepted \ sup : memory[n].statement = memory[m].statement
      BY DEF Accept, ConflictsWith
    <2>2. \A n \in Accepted \ sup : n \in Memories /\ n # m /\ memory'[n] = memory[n]
      BY <1>1, <1>9 DEF Accepted
    <2>3. QED
      BY <1>7, <1>10, <2>1, <2>2 DEF RecordsInv, TablesTyped, ReviewAdmitsNoConflict
  <1>16. ConflictsStand'
    <2> SUFFICES ASSUME NEW c \in conflicts
                 PROVE  /\ memory'[c.accepted].state \in WasAccepted
                        /\ memory'[c.quarantined].state = "quarantined"
      BY <1>1 DEF ConflictsStand, WasAccepted
    <2>1. /\ c.accepted \in Memories /\ memory[c.accepted].state \in WasAccepted
          /\ c.quarantined \in Memories
          /\ memory[c.quarantined].state = "quarantined"
      BY DEF RecordsInv, TablesTyped, ConflictsStand, WasAccepted
    <2>2. memory'[c.accepted].state \in WasAccepted
      BY <1>1, <1>8, <1>9, <2>1 DEF WasAccepted
    <2>3. c.quarantined # m /\ c.quarantined \notin sup
      BY <1>1, <2>1 DEF Accepted
    <2>4. QED
      BY <1>9, <2>1, <2>2, <2>3
  <1>17. QED
    BY <1>11, <1>12, <1>13, <1>14, <1>15, <1>16 DEF RecordsInv, TablesTyped

\* An accepted record made stale, by whatever command.
LEMMA StaleInv ==
  ASSUME RecordsInv, NEW m \in Memories, memory[m].state = "accepted",
         Stale(m), UNCHANGED conflicts
  PROVE  /\ RecordsInv'
         /\ Accepted' = Accepted \ {m}
         /\ \A n \in Memories : n # m => memory'[n] = memory[n]
  <1>1. memory \in [Memories -> MemoryRows] /\ memory[m] \in MemoryRows
    BY DEF RecordsInv, TablesTyped
  <1>2. /\ Moved(memory[m], "stale") \in MemoryRows
        /\ Moved(memory[m], "stale").state = "stale"
        /\ Moved(memory[m], "stale").version = memory[m].version + 1
        /\ Moved(memory[m], "stale").supersedes = memory[m].supersedes
    BY <1>1, MovedRow DEF Stale, WithinBound, MemoryStates
  <1>3. /\ memory'[m] = Moved(memory[m], "stale")
        /\ \A n \in Memories : n # m => memory'[n] = memory[n]
        /\ memory' \in [Memories -> MemoryRows]
    BY <1>1, <1>2 DEF Stale
  <1>4. Accepted' = Accepted \ {m}
    BY <1>2, <1>3 DEF Accepted
  <1>5. index' \in [Memories -> Origins \cup {NULL}]
    BY DEF Stale, RecordsInv, TablesTyped
  <1>6. VersionsCounted'
    <2>1. memory[m].version \in Nat /\ memory[m].version >= 2
      BY <1>1, RowParts DEF RecordsInv, TablesTyped, VersionsCounted
    <2>2. memory'[m].version >= 3
      BY <1>2, <1>3, <2>1
    <2>3. QED
      BY <1>2, <1>3, <2>2 DEF RecordsInv, TablesTyped, VersionsCounted
  <1>7. IndexHoldsAccepted'
    <2>1. index'[m] = NULL /\ \A n \in Memories : n # m => index'[n] = index[n]
      BY DEF Stale, RecordsInv, TablesTyped
    <2>2. QED
      BY <1>3, <1>4, <2>1 DEF RecordsInv, TablesTyped, IndexHoldsAccepted
  <1>8. ReplacedStaysReplaced'
    <2> SUFFICES ASSUME NEW n \in Memories, memory'[n].state \in WasAccepted,
                        NEW k \in memory'[n].supersedes
                 PROVE  memory'[k].state = "superseded"
      BY DEF ReplacedStaysReplaced, WasAccepted
    <2>1. memory[n].state \in WasAccepted /\ k \in memory[n].supersedes
      BY <1>2, <1>3 DEF WasAccepted
    <2>2. memory[k].state = "superseded" /\ k \in Memories
      BY <1>1, <2>1, RowParts DEF RecordsInv, TablesTyped, ReplacedStaysReplaced, WasAccepted
    <2>3. QED
      BY <1>3, <2>2
  <1>9. ReviewAdmitsNoConflict'
    BY <1>3, <1>4 DEF RecordsInv, TablesTyped, ReviewAdmitsNoConflict, Accepted
  <1>10. ConflictsStand'
    <2> SUFFICES ASSUME NEW c \in conflicts
                 PROVE  /\ memory'[c.accepted].state \in WasAccepted
                        /\ memory'[c.quarantined].state = "quarantined"
      BY DEF ConflictsStand, WasAccepted
    <2>1. /\ c.accepted \in Memories /\ memory[c.accepted].state \in WasAccepted
          /\ c.quarantined \in Memories
          /\ memory[c.quarantined].state = "quarantined"
      BY DEF RecordsInv, TablesTyped, ConflictsStand, WasAccepted
    <2>2. QED
      BY <1>2, <1>3, <2>1 DEF WasAccepted
  <1>11. QED
    BY <1>3, <1>4, <1>5, <1>6, <1>7, <1>8, <1>9, <1>10 DEF RecordsInv, TablesTyped

\* A stale record is accepted again, with the source as it now is.
LEMMA RevalidateInv ==
  ASSUME RecordsInv, NEW m \in Memories, NEW o \in Origins, NEW due \in Times,
         Revalidate(m, o, due)
  PROVE  RecordsInv'
  <1> DEFINE row == [Moved(memory[m], "accepted") EXCEPT !.origin = o, !.due = due]
  <1>1. /\ memory \in [Memories -> MemoryRows] /\ memory[m] \in MemoryRows
        /\ UNCHANGED conflicts
        /\ memory[m].state = "stale"
    BY DEF Revalidate, Revalidatable, RecordsInv, TablesTyped
  <1>2. /\ row \in MemoryRows
        /\ row.state = "accepted"
        /\ row.version = memory[m].version + 1
        /\ row.origin = o
        /\ row.supersedes = memory[m].supersedes
    <2>1. Moved(memory[m], "accepted") \in MemoryRows
      BY <1>1, MovedRow DEF MemoryStates
    <2>2. QED
      BY <2>1 DEF Moved, MemoryRows
  <1>3. /\ memory'[m] = row
        /\ \A n \in Memories : n # m => memory'[n] = memory[n]
        /\ memory' \in [Memories -> MemoryRows]
    BY <1>1, <1>2 DEF Revalidate
  <1>4. Accepted' = Accepted \cup {m}
    BY <1>2, <1>3 DEF Accepted
  <1>5. TablesTyped'
    BY <1>1, <1>3 DEF RecordsInv, TablesTyped, Revalidate
  <1>6. memory'[m].version > 2
    BY <1>1, <1>2, <1>3, RowParts DEF RecordsInv, TablesTyped, VersionsCounted
  <1>7. VersionsCounted'
    <2>1. memory'[m].state = "accepted" /\ memory'[m].version >= 2
      BY <1>1, <1>2, <1>3, RowParts DEF RecordsInv, TablesTyped, VersionsCounted
    <2>2. QED
      BY <1>3, <2>1 DEF RecordsInv, TablesTyped, VersionsCounted
  <1>8. IndexHoldsAccepted'
    <2>1. index'[m] = o /\ \A n \in Memories : n # m => index'[n] = index[n]
      BY DEF Revalidate, RecordsInv, TablesTyped
    <2>2. QED
      BY <1>2, <1>3, <1>4, <2>1 DEF RecordsInv, TablesTyped, IndexHoldsAccepted
  <1>9. ReplacedStaysReplaced'
    <2> SUFFICES ASSUME NEW n \in Memories, memory'[n].state \in WasAccepted,
                        NEW k \in memory'[n].supersedes
                 PROVE  memory'[k].state = "superseded"
      BY DEF ReplacedStaysReplaced, WasAccepted
    <2>1. memory[n].state \in WasAccepted /\ k \in memory[n].supersedes
      BY <1>1, <1>2, <1>3 DEF WasAccepted
    <2>2. memory[k].state = "superseded" /\ k \in Memories
      BY <1>1, <2>1, RowParts DEF RecordsInv, TablesTyped, ReplacedStaysReplaced, WasAccepted
    <2>3. QED
      BY <1>1, <1>3, <2>2
  <1>10. ReviewAdmitsNoConflict'
    BY <1>3, <1>4, <1>6 DEF RecordsInv, TablesTyped, ReviewAdmitsNoConflict, Accepted
  <1>11. ConflictsStand'
    <2> SUFFICES ASSUME NEW c \in conflicts
                 PROVE  /\ memory'[c.accepted].state \in WasAccepted
                        /\ memory'[c.quarantined].state = "quarantined"
      BY <1>1 DEF ConflictsStand, WasAccepted
    <2>1. /\ c.accepted \in Memories /\ memory[c.accepted].state \in WasAccepted
          /\ c.quarantined \in Memories
          /\ memory[c.quarantined].state = "quarantined"
      BY DEF RecordsInv, TablesTyped, ConflictsStand, WasAccepted
    <2>2. QED
      BY <1>1, <1>2, <1>3, <2>1 DEF WasAccepted
  <1>12. QED
    BY <1>5, <1>7, <1>8, <1>9, <1>10, <1>11 DEF RecordsInv, TablesTyped

LEMMA RebuildInv ==
  ASSUME RecordsInv, RebuildIndex
  PROVE  RecordsInv'
  <1>1. /\ UNCHANGED <<memory, conflicts>>
        /\ index' = [m \in Memories |->
                       IF m \in Accepted THEN memory[m].origin ELSE NULL]
    BY DEF RebuildIndex
  <1>2. Accepted' = Accepted
    BY <1>1 DEF Accepted
  <1>3. TablesTyped'
    BY <1>1, RowParts DEF RecordsInv, TablesTyped
  <1>4. IndexHoldsAccepted'
    BY <1>1, <1>2 DEF IndexHoldsAccepted
  <1>5. QED
    BY <1>1, <1>2, <1>3, <1>4
    DEF RecordsInv, VersionsCounted, ReplacedStaysReplaced, ReviewAdmitsNoConflict,
        ConflictsStand, WasAccepted

\* A step that reads or ends a loop, or none.
LEMMA RecordsKept ==
  ASSUME RecordsInv, UNCHANGED <<memory, index, conflicts>>
  PROVE  RecordsInv'
  BY DEF RecordsInv, TablesTyped, VersionsCounted, IndexHoldsAccepted,
         ReplacedStaysReplaced, ReviewAdmitsNoConflict, ConflictsStand,
         WasAccepted, Accepted

LEMMA StepRecords ==
  ASSUME RecordsInv, [Next]_vars
  PROVE  RecordsInv'
  <1>1. ASSUME NEW m \in Memories, NEW c \in Candidates,
               NEW sup \in SUBSET Memories, CreateCandidate(m, c, sup)
        PROVE  RecordsInv'
    BY <1>1, CreateInv
  <1>2. ASSUME NEW m \in Memories, Review(m)
        PROVE  RecordsInv'
    <2>1. ASSUME NEW d \in {"rejected", "quarantined"}, Decline(m, d)
          PROVE  RecordsInv'
      BY <2>1, DeclineInv DEF Decline
    <2>2. ASSUME NEW n \in Memories, Quarantine(m, n)
          PROVE  RecordsInv'
      <3>1. n \in Accepted
        BY <2>2 DEF Quarantine, ConflictsWith
      <3>2. QED
        BY <2>2, <3>1, DeclineInv DEF Quarantine
    <2>3. CASE Accept(m)
      BY <2>3, AcceptInv
    <2>4. QED
      BY <1>2, <2>1, <2>2, <2>3 DEF Review
  <1>3. ASSUME NEW m \in Memories, Maintain(m)
        PROVE  RecordsInv'
    BY <1>3, StaleInv, RevalidateInv DEF Maintain, MarkStale
  <1>4. ASSUME NEW p \in Processes, Continue(p)
        PROVE  RecordsInv'
    <2>1. ASSUME NEW m \in Memories, SweepOne(p, m) \/ SignalOne(p, m)
          PROVE  RecordsInv'
      BY <2>1, StaleInv DEF SweepOne, SignalOne, AsRead
    <2>2. ASSUME NEW m \in Memories, SignalReplayed(p, m)
          PROVE  RecordsInv'
      BY <2>2, RecordsKept DEF SignalReplayed
    <2>3. QED
      BY <1>4, <2>1, <2>2 DEF Continue
  <1>5. ASSUME NEW p \in Processes, Begin(p) \/ Fails(p)
        PROVE  RecordsInv'
    BY <1>5, RecordsKept
    DEF Begin, SweepStale, MarkSourceChanged, StartLoop, Fails, SweepRaises,
        SignalRaises, Crash
  <1>6. CASE RebuildIndex
    BY <1>6, RebuildInv
  <1>7. CASE UNCHANGED vars
    BY <1>7, RecordsKept DEF vars
  <1>8. QED
    BY <1>1, <1>2, <1>3, <1>4, <1>5, <1>6, <1>7 DEF Next, Command

-----------------------------------------------------------------------------
(* What a step does to a record.                                           *)

\* The moves of a record from one state to another.
Moves ==
    {<<"none", "candidate">>,
     <<"candidate", "accepted">>, <<"candidate", "rejected">>,
     <<"candidate", "quarantined">>,
     <<"accepted", "stale">>, <<"accepted", "superseded">>,
     <<"stale", "accepted">>}

\* m stays as it is, or makes one of its moves under the next version.
MovesOn(m) ==
    \/ memory'[m] = memory[m]
    \/ /\ <<memory[m].state, memory'[m].state>> \in Moves
       /\ memory'[m].version = memory[m].version + 1

\* Of a command on one record, which leaves the others alone.
LEMMA OneMoves ==
  ASSUME RecordsInv, NEW m \in Memories, NEW row,
         memory' = [memory EXCEPT ![m] = row],
         <<memory[m].state, row.state>> \in Moves,
         row.version = memory[m].version + 1
  PROVE  \A n \in Memories : MovesOn(n)
  BY DEF RecordsInv, TablesTyped, MovesOn

LEMMA StepMoves ==
  ASSUME RecordsInv, [Next]_vars
  PROVE  \A n \in Memories : MovesOn(n)
  <1>1. ASSUME NEW m \in Memories, NEW c \in Candidates,
               NEW sup \in SUBSET Memories, CreateCandidate(m, c, sup)
        PROVE  \A n \in Memories : MovesOn(n)
    <2> DEFINE row == [state |-> "candidate", version |-> 1,
                       statement |-> c.statement, hash |-> c.hash,
                       origin |-> c.origin, indexed |-> c.origin, due |-> c.due,
                       supersedes |-> sup]
    <2>1. /\ memory' = [memory EXCEPT ![m] = row]
          /\ memory[m].state = "none"
      BY <1>1 DEF CreateCandidate
    <2>2. memory[m].version = 0
      BY <2>1 DEF RecordsInv, VersionsCounted
    <2>3. row.version = memory[m].version + 1 /\ <<memory[m].state, row.state>> \in Moves
      BY <2>1, <2>2 DEF Moves
    <2> HIDE DEF row
    <2>4. QED
      BY <2>1, <2>3, OneMoves
  <1>2. ASSUME NEW m \in Memories, NEW s,
               memory' = [memory EXCEPT ![m] = Moved(memory[m], s)],
               <<memory[m].state, s>> \in Moves
        PROVE  \A n \in Memories : MovesOn(n)
    <2>1. memory[m] \in MemoryRows
      BY DEF RecordsInv, TablesTyped
    <2>2. /\ Moved(memory[m], s).state = s
          /\ Moved(memory[m], s).version = memory[m].version + 1
      BY <2>1 DEF Moved, MemoryRows
    <2>3. QED
      BY <1>2, <2>2, OneMoves
  <1>3. ASSUME NEW m \in Memories, Review(m)
        PROVE  \A n \in Memories : MovesOn(n)
    <2>1. ASSUME NEW d \in {"rejected", "quarantined"}, Decline(m, d)
          PROVE  \A n \in Memories : MovesOn(n)
      BY <1>2, <2>1 DEF Decline, Moves
    <2>2. ASSUME NEW k \in Memories, Quarantine(m, k)
          PROVE  \A n \in Memories : MovesOn(n)
      BY <1>2, <2>2 DEF Quarantine, Moves
    <2>3. ASSUME Accept(m), NEW n \in Memories
          PROVE  MovesOn(n)
      <3>1. memory[n] \in MemoryRows
        BY DEF RecordsInv, TablesTyped
      <3>2. \A s : /\ Moved(memory[n], s).state = s
                   /\ Moved(memory[n], s).version = memory[n].version + 1
        BY <3>1 DEF Moved, MemoryRows
      <3>3. CASE n = m
        <4>1. memory'[n] = Moved(memory[n], "accepted") /\ memory[n].state = "candidate"
          BY <2>3, <3>3 DEF Accept
        <4>2. QED
          BY <3>2, <4>1 DEF MovesOn, Moves
      <3>4. CASE n # m /\ n \in memory[m].supersedes
        <4>1. memory'[n] = Moved(memory[n], "superseded") /\ memory[n].state = "accepted"
          BY <2>3, <3>4 DEF Accept, Accepted
        <4>2. QED
          BY <3>2, <4>1 DEF MovesOn, Moves
      <3>5. CASE n # m /\ n \notin memory[m].supersedes
        BY <2>3, <3>5 DEF Accept, MovesOn
      <3>6. QED
        BY <3>3, <3>4, <3>5
    <2>4. QED
      BY <1>3, <2>1, <2>2, <2>3 DEF Review
  <1>4. ASSUME NEW m \in Memories, memory[m].state = "accepted", Stale(m)
        PROVE  \A n \in Memories : MovesOn(n)
    BY <1>2, <1>4 DEF Stale, Moves
  <1>5. ASSUME NEW m \in Memories, Maintain(m)
        PROVE  \A n \in Memories : MovesOn(n)
    <2>1. CASE MarkStale(m)
      BY <1>4, <2>1 DEF MarkStale
    <2>2. ASSUME NEW o \in Origins, NEW due \in Times, Revalidate(m, o, due)
          PROVE  \A n \in Memories : MovesOn(n)
      <3> DEFINE row == [Moved(memory[m], "accepted") EXCEPT !.origin = o, !.due = due]
      <3>1. memory[m] \in MemoryRows
        BY DEF RecordsInv, TablesTyped
      <3>2. /\ memory' = [memory EXCEPT ![m] = row]
            /\ memory[m].state = "stale"
        BY <2>2 DEF Revalidate, Revalidatable
      <3>3. row.state = "accepted" /\ row.version = memory[m].version + 1
        BY <3>1 DEF Moved, MemoryRows
      <3> HIDE DEF row
      <3>4. QED
        BY <3>2, <3>3, OneMoves DEF Moves
    <2>3. QED
      BY <1>5, <2>1, <2>2 DEF Maintain
  <1>6. ASSUME NEW p \in Processes, Continue(p), memory' # memory
        PROVE  \A n \in Memories : MovesOn(n)
    <2>1. PICK m \in Memories : SweepOne(p, m) \/ SignalOne(p, m)
      BY <1>6 DEF Continue, SignalReplayed
    <2>2. QED
      BY <1>4, <2>1 DEF SweepOne, SignalOne, AsRead
  <1>7. CASE UNCHANGED memory
    BY <1>7 DEF MovesOn
  <1>8. QED
    BY <1>1, <1>3, <1>5, <1>6, <1>7
    DEF Next, Command, Begin, SweepStale, MarkSourceChanged, StartLoop,
        RebuildIndex, Fails, SweepRaises, SignalRaises, Crash, vars

-----------------------------------------------------------------------------
(* The loops.                                                              *)

\* A record that is not as it was has a later version than any loop has read,
\* so commands leave what holds of a loop as it is.
LEMMA LoopKept ==
  ASSUME MemoryInv, [Next]_vars, NEW loop \in Loops, LoopHolds(loop)
  PROVE  LoopHolds(loop)'
  <1> SUFFICES ASSUME NEW m \in Memories
               PROVE  /\ loop.read[m] <= memory'[m].version
                      /\ memory'[m].version = loop.read[m]
                            => (m \in loop.left <=> m \in Accepted' /\ Concerns(loop, m)')
    BY DEF LoopHolds
  <1>1. MovesOn(m)
    BY StepMoves DEF MemoryInv
  <1>2. memory[m].version \in Nat /\ loop.read[m] \in Nat
    <2>1. memory[m] \in MemoryRows
      BY DEF MemoryInv, RecordsInv, TablesTyped
    <2>2. QED
      BY <2>1, LoopParts, RowParts DEF Versions
  <1>3. /\ loop.read[m] <= memory[m].version
        /\ memory[m].version = loop.read[m]
              => (m \in loop.left <=> m \in Accepted /\ Concerns(loop, m))
    BY DEF LoopHolds
  <1>4. CASE memory'[m] = memory[m]
    <2>1. m \in Accepted' <=> m \in Accepted
      BY <1>4 DEF Accepted
    <2>2. Concerns(loop, m)' <=> Concerns(loop, m)
      BY <1>4 DEF Concerns
    <2>3. QED
      BY <1>3, <1>4, <2>1, <2>2
  <1>5. CASE memory'[m].version = memory[m].version + 1
    BY <1>2, <1>3, <1>5
  <1>6. QED
    BY <1>1, <1>4, <1>5 DEF MovesOn

\* The loop of p becomes another or ends, and the others go on.
LEMMA LoopChanged ==
  ASSUME MemoryInv, [Next]_vars, NEW p \in Processes, NEW loop \in Loops \cup {NULL},
         work' = [work EXCEPT ![p] = loop],
         loop # NULL => LoopHolds(loop)'
  PROVE  LoopSound' /\ work' \in [Processes -> Loops \cup {NULL}]
  <1>1. work \in [Processes -> Loops \cup {NULL}]
    BY DEF MemoryInv, LoopsInv
  <1>2. ASSUME NEW q \in Processes, work'[q] # NULL
        PROVE  LoopHolds(work[q])'
    <2>1. CASE q = p
      <3>1. work'[q] = loop
        BY <1>1, <2>1
      <3>2. LoopHolds(loop)'
        BY <1>2, <3>1
      <3>3. QED
        BY <3>1, <3>2 DEF LoopHolds, Concerns
    <2>2. CASE q # p
      <3>1. work'[q] = work[q] /\ work[q] \in Loops
        BY <1>1, <1>2, <2>2
      <3>2. LoopHolds(work[q])
        BY <1>2, <3>1 DEF MemoryInv, LoopsInv, LoopSound
      <3> DEFINE other == work[q]
      <3>3. other \in Loops /\ LoopHolds(other) /\ work'[q] = other
        BY <3>1, <3>2
      <3>4. PICK l \in Loops : l = other
        BY <3>3
      <3>5. LoopHolds(l) /\ work'[q] = l
        BY <3>3, <3>4
      <3>6. LoopHolds(l)'
        BY <3>5, LoopKept
      <3>7. QED
        BY <3>5, <3>6 DEF LoopHolds, Concerns
    <2>3. QED
      BY <2>1, <2>2
  <1>3. QED
    BY <1>1, <1>2 DEF LoopSound

\* The keys stay, or one is used with the version its record then leaves.
LEMMA KeysKept ==
  ASSUME MemoryInv, [Next]_vars,
         \/ UNCHANGED signalled
         \/ \E h \in Hashes, m \in Memories :
               /\ signalled' = [signalled EXCEPT ![h][m] = memory[m].version]
               /\ memory'[m] # memory[m]
  PROVE  KeysSpent' /\ signalled' \in [Hashes -> [Memories -> Versions]]
  <1>1. /\ signalled \in [Hashes -> [Memories -> Versions]]
        /\ \A m \in Memories : memory[m].version \in Versions
        /\ \A h \in Hashes, m \in Memories :
              signalled[h][m] # 0 => signalled[h][m] < memory[m].version
    BY RowParts DEF MemoryInv, LoopsInv, RecordsInv, TablesTyped, KeysSpent
  <1>2. \A v \in Versions : v \in Nat
    BY DEF Versions
  <1>3. \A m \in Memories :
          \/ memory'[m] = memory[m]
          \/ memory'[m].version = memory[m].version + 1
    BY StepMoves DEF MemoryInv, MovesOn
  <1>4. signalled' \in [Hashes -> [Memories -> Versions]]
    <2>1. CASE UNCHANGED signalled
      BY <1>1, <2>1
    <2>2. ASSUME NEW h \in Hashes, NEW m \in Memories,
                 signalled' = [signalled EXCEPT ![h][m] = memory[m].version]
          PROVE  signalled' \in [Hashes -> [Memories -> Versions]]
      BY <1>1, <2>2
    <2>3. QED
      BY <2>1, <2>2
  <1>5. ASSUME NEW h \in Hashes, NEW m \in Memories, signalled'[h][m] # 0
        PROVE  signalled'[h][m] < memory'[m].version
    <2>1. CASE signalled'[h][m] = signalled[h][m]
      <3>1. signalled[h][m] < memory[m].version
        BY <1>1, <1>5, <2>1
      <3>2. signalled[h][m] \in Nat /\ memory[m].version \in Nat
        BY <1>1, <1>2
      <3>3. QED
        BY <1>3, <2>1, <3>1, <3>2
    <2>2. CASE signalled'[h][m] # signalled[h][m]
      <3>1. signalled'[h][m] = memory[m].version /\ memory'[m] # memory[m]
        BY <1>1, <2>2
      <3>2. memory[m].version \in Nat /\ memory'[m].version = memory[m].version + 1
        BY <1>1, <1>2, <1>3, <3>1
      <3>3. QED
        BY <3>1, <3>2
    <2>3. QED
      BY <2>1, <2>2
  <1>6. QED
    BY <1>4, <1>5 DEF KeysSpent

\* A loop has before it, when it begins, what it is called for.
LEMMA BeginLoops ==
  ASSUME MemoryInv, NEW p \in Processes, NEW kind \in {"sweep", "signal"},
         NEW asOf \in Times, NEW hash \in Hashes, NEW found,
         [Next]_vars, StartLoop(p, kind, asOf, hash, found),
         \/ kind = "sweep" /\ found = Overdue(asOf)
         \/ kind = "signal" /\ found = Citing(hash)
  PROVE  LoopsInv'
  <1> DEFINE loop == [kind |-> kind, asOf |-> asOf, hash |-> hash, left |-> found,
                      read |-> [m \in Memories |->
                                  IF m \in Accepted THEN memory[m].version ELSE 0]]
  <1>1. /\ work' = [work EXCEPT ![p] = loop]
        /\ UNCHANGED <<memory, signalled>>
        /\ found # {}
    BY DEF StartLoop
  <1>2. \A m \in Memories : memory[m] \in MemoryRows
    BY DEF MemoryInv, RecordsInv, TablesTyped
  <1>3. found \subseteq Memories
    BY DEF Overdue, Citing, Accepted
  <1>4. loop \in Loops
    <2>1. 0 \in Versions
      BY DEF Versions
    <2>2. loop.read \in [Memories -> Versions]
      BY <1>2, <2>1, RowParts
    <2>3. found \in (SUBSET Memories) \ {{}}
      BY <1>1, <1>3
    <2>4. QED
      BY <2>2, <2>3 DEF Loops
  <1>5. \A m \in Memories : m \in found <=> m \in Accepted /\ Concerns(loop, m)
    BY DEF Overdue, Citing, Concerns, Accepted
  <1>6. PICK l \in Loops : l = loop
    BY <1>4
  <1>7. LoopHolds(l)'
    <2> SUFFICES ASSUME NEW m \in Memories
                 PROVE  /\ l.read[m] <= memory[m].version
                        /\ m \in l.left <=> m \in Accepted /\ Concerns(l, m)
      BY <1>1 DEF LoopHolds, Concerns, Accepted
    <2>1. memory[m].version \in Nat
      BY <1>2, RowParts DEF Versions
    <2>2. /\ l.read[m] = IF m \in Accepted THEN memory[m].version ELSE 0
          /\ l.left = found
      BY <1>6
    <2>3. m \in found <=> m \in Accepted /\ Concerns(l, m)
      BY <1>5, <1>6
    <2>4. QED
      BY <2>1, <2>2, <2>3
  <1>8. work' = [work EXCEPT ![p] = l]
    BY <1>1, <1>6
  <1>9. LoopSound' /\ work' \in [Processes -> Loops \cup {NULL}]
    BY <1>7, <1>8, LoopChanged
  <1>10. QED
    BY <1>1, <1>9, KeysKept DEF LoopsInv

\* A loop leaves a record behind that is no longer as it was read.
LEMMA GoesOnLoops ==
  ASSUME MemoryInv, [Next]_vars, NEW p \in Processes, work[p] # NULL,
         NEW m \in work[p].left, GoesOn(p, m),
         memory'[m].version # work[p].read[m]
  PROVE  LoopSound' /\ work' \in [Processes -> Loops \cup {NULL}]
  <1>1. work[p] \in Loops /\ LoopHolds(work[p]) /\ m \in Memories
    BY LoopParts DEF MemoryInv, LoopsInv, LoopSound
  <1>2. PICK old \in Loops : old = work[p]
    BY <1>1
  <1>3. LoopHolds(old)'
    BY <1>1, <1>2, LoopKept
  <1> DEFINE loop == Rest(old, m)
  <1>4. work' = [work EXCEPT ![p] = loop]
    BY <1>2 DEF GoesOn
  <1>5. CASE old.left = {m}
    <2>1. loop = NULL
      BY <1>5 DEF Rest
    <2> HIDE DEF loop
    <2>2. QED
      BY <1>4, <2>1, LoopChanged
  <1>6. CASE old.left # {m}
    <2>1. /\ loop \in Loops
          /\ loop.left = old.left \ {m}
          /\ loop.read = old.read
          /\ loop.kind = old.kind
          /\ loop.asOf = old.asOf
          /\ loop.hash = old.hash
      BY <1>1, <1>2, <1>6 DEF Rest, Loops
    <2> HIDE DEF loop
    <2>2. LoopHolds(loop)'
      BY <1>2, <1>3, <2>1 DEF LoopHolds, Concerns
    <2>3. QED
      BY <1>4, <2>1, <2>2, LoopChanged
  <1>7. QED
    BY <1>5, <1>6

LEMMA EndsLoops ==
  ASSUME MemoryInv, [Next]_vars, NEW p \in Processes, Ends(p)
  PROVE  LoopSound' /\ work' \in [Processes -> Loops \cup {NULL}]
  BY LoopChanged DEF Ends

\* A record that a loop makes stale is no longer as it was read.
LEMMA StaleMoves ==
  ASSUME MemoryInv, NEW m \in Memories, Stale(m)
  PROVE  memory[m].version \in Nat /\ memory'[m].version = memory[m].version + 1
         /\ memory'[m] # memory[m]
  <1>1. memory \in [Memories -> MemoryRows] /\ memory[m] \in MemoryRows
    BY DEF MemoryInv, RecordsInv, TablesTyped
  <1>2. memory[m].version \in Nat /\ memory'[m] = Moved(memory[m], "stale")
    BY <1>1, RowParts DEF Stale
  <1>3. Moved(memory[m], "stale").version = memory[m].version + 1
    BY <1>1, MovedRow DEF Stale, WithinBound, MemoryStates
  <1>4. QED
    BY <1>2, <1>3

LEMMA ContinueLoops ==
  ASSUME MemoryInv, [Next]_vars, NEW p \in Processes, Continue(p)
  PROVE  LoopsInv'
  <1>1. ASSUME NEW m \in Memories, SweepOne(p, m)
        PROVE  LoopsInv'
    BY <1>1, StaleMoves, GoesOnLoops, KeysKept DEF SweepOne, Reaches, AsRead, LoopsInv
  <1>2. ASSUME NEW m \in Memories, SignalOne(p, m)
        PROVE  LoopsInv'
    <2>1. work[p].hash \in Hashes
      BY <1>2, LoopParts DEF SignalOne, Reaches, MemoryInv, LoopsInv
    <2>2. memory'[m] # memory[m] /\ memory'[m].version # work[p].read[m]
      BY <1>2, StaleMoves DEF SignalOne, AsRead
    <2>3. KeysSpent' /\ signalled' \in [Hashes -> [Memories -> Versions]]
      BY <1>2, <2>1, <2>2, KeysKept DEF SignalOne
    <2>4. QED
      BY <1>2, <2>2, <2>3, GoesOnLoops DEF SignalOne, Reaches, LoopsInv
  <1>3. ASSUME NEW m \in Memories, SignalReplayed(p, m)
        PROVE  LoopsInv'
    <2>1. work[p] \in Loops
      BY <1>3 DEF SignalReplayed, Reaches, MemoryInv, LoopsInv
    <2>2. memory'[m].version # work[p].read[m]
      <3>1. /\ signalled[work[p].hash][m] = work[p].read[m]
            /\ memory' = memory
            /\ m \in work[p].left
        BY <1>3 DEF SignalReplayed, Reaches
      <3>2. /\ work[p].hash \in Hashes
            /\ memory[m].version \in Nat
            /\ VersionsCounted
        BY <2>1, LoopParts, RowParts DEF MemoryInv, RecordsInv, TablesTyped
      <3>3. signalled[work[p].hash][m] # 0
              => signalled[work[p].hash][m] < memory[m].version
        BY <3>2 DEF MemoryInv, LoopsInv, KeysSpent
      <3>4. memory[m].version = work[p].read[m] => memory[m].version >= 2
        BY <1>3, <3>1, <3>2
        DEF MemoryInv, LoopsInv, LoopSound, LoopHolds, SignalReplayed, Reaches,
            VersionsCounted, Accepted
      <3>5. QED
        BY <3>1, <3>2, <3>3, <3>4
    <2>3. QED
      BY <1>3, <2>2, GoesOnLoops, KeysKept DEF SignalReplayed, Reaches, LoopsInv
  <1>4. QED
    BY <1>1, <1>2, <1>3 DEF Continue

LEMMA StepInv ==
  ASSUME MemoryInv, [Next]_vars
  PROVE  MemoryInv'
  <1>1. RecordsInv'
    BY StepRecords DEF MemoryInv
  <1>2. CASE UNCHANGED <<signalled, work>>
    <2>1. KeysSpent' /\ signalled' \in [Hashes -> [Memories -> Versions]]
      BY <1>2, KeysKept
    <2>2. ASSUME NEW p \in Processes
          PROVE  LoopSound' /\ work' \in [Processes -> Loops \cup {NULL}]
      <3>1. work \in [Processes -> Loops \cup {NULL}] /\ LoopSound
        BY DEF MemoryInv, LoopsInv
      <3>2. PICK loop \in Loops \cup {NULL} : loop = work[p]
        BY <3>1
      <3>3. work' = [work EXCEPT ![p] = loop]
        BY <1>2, <3>1, <3>2
      <3>4. loop # NULL => LoopHolds(loop)'
        BY <3>1, <3>2, LoopKept DEF LoopSound
      <3>5. QED
        BY <3>3, <3>4, LoopChanged
    <2>3. LoopSound' /\ work' \in [Processes -> Loops \cup {NULL}]
      BY <1>2, <2>2 DEF LoopSound, MemoryInv, LoopsInv
    <2>4. QED
      BY <1>1, <2>1, <2>3 DEF MemoryInv, LoopsInv
  <1>3. ASSUME NEW p \in Processes, Begin(p)
        PROVE  LoopsInv'
    <2>1. ASSUME NEW asOf \in Times, SweepStale(p, asOf)
          PROVE  LoopsInv'
      <3>1. (CHOOSE h \in Hashes : TRUE) \in Hashes
        BY MemoryAssumption
      <3>2. QED
        BY <2>1, <3>1, BeginLoops DEF SweepStale
    <2>2. ASSUME NEW h \in Hashes, MarkSourceChanged(p, h)
          PROVE  LoopsInv'
      <3>1. 0 \in Times
        BY MemoryAssumption DEF Times
      <3>2. QED
        BY <2>2, <3>1, BeginLoops DEF MarkSourceChanged
    <2>3. QED
      BY <1>3, <2>1, <2>2 DEF Begin
  <1>4. ASSUME NEW p \in Processes, Fails(p)
        PROVE  LoopsInv'
    BY <1>4, EndsLoops, KeysKept DEF Fails, SweepRaises, SignalRaises, Crash, LoopsInv
  <1>5. Command => UNCHANGED <<signalled, work>>
    BY DEF Command, CreateCandidate, Review, Decline, Quarantine, Accept, Maintain,
       MarkStale, Revalidate, RebuildIndex
  <1>6. QED
    BY <1>1, <1>2, <1>3, <1>4, <1>5, ContinueLoops DEF Next, MemoryInv, vars

LEMMA InvHolds == Spec => []MemoryInv
  BY InitInv, StepInv, PTL DEF Spec

-----------------------------------------------------------------------------

\* Every reachable state has the types the tables declare.
THEOREM TypeCorrect == Spec => []TypeOK
  <1>1. MemoryInv => TypeOK
    BY InvIsTyped
  <1>2. QED
    BY <1>1, InvHolds, PTL

\* The search index is exactly the accepted records, whatever order reviews,
\* replacements, sweeps, signals, revalidations and crashes come in.
THEOREM IndexIsAccepted == Spec => []IndexHoldsAccepted
  <1>1. MemoryInv => IndexHoldsAccepted
    BY DEF MemoryInv, RecordsInv
  <1>2. QED
    BY <1>1, InvHolds, PTL

\* What an accepted record replaced is superseded for good, in chains of
\* replacements of any length.
THEOREM ReplacedForGood == Spec => []ReplacedStaysReplaced
  <1>1. MemoryInv => ReplacedStaysReplaced
    BY DEF MemoryInv, RecordsInv
  <1>2. QED
    BY <1>1, InvHolds, PTL

\* Two accepted facts in conflict are never the work of review alone.
THEOREM ReviewKeepsAgreement == Spec => []ReviewAdmitsNoConflict
  <1>1. MemoryInv => ReviewAdmitsNoConflict
    BY DEF MemoryInv, RecordsInv
  <1>2. QED
    BY <1>1, InvHolds, PTL

\* The two sides of a recorded conflict stay what they were: one that was
\* accepted, and one that never is.
THEOREM RecordedConflictsStand == Spec => []ConflictsStand
  <1>1. MemoryInv => ConflictsStand
    BY DEF MemoryInv, RecordsInv
  <1>2. QED
    BY <1>1, InvHolds, PTL

\* Whatever other processes do between the transactions of a sweep or a signal,
\* an accepted record it was called for that it has left behind is newer than
\* its reading.
THEOREM LoopsAreThorough == Spec => []LoopLeavesNothing
  <1>1. MemoryInv => LoopLeavesNothing
    BY DEF MemoryInv, LoopsInv, LoopSound, LoopHolds, LoopLeavesNothing, Accepted
  <1>2. QED
    BY <1>1, InvHolds, PTL

\* A sweep or a signal makes stale only what it was called for as the record is
\* by then, however old its reading.
THEOREM LoopsSpareRevalidated == Spec => LoopSparesRevalidated
  <1>1. ASSUME MemoryInv, [Next]_vars, NEW p \in Processes, NEW m \in Memories,
               work[p] # NULL, work'[p] # work[p], memory'[m] # memory[m]
        PROVE  m \in Accepted /\ Concerns(work[p], m)
    <2>1. work \in [Processes -> Loops \cup {NULL}] /\ memory \in [Memories -> MemoryRows]
      BY <1>1 DEF MemoryInv, LoopsInv, RecordsInv, TablesTyped
    <2>2. PICK q \in Processes, n \in Memories : SweepOne(q, n) \/ SignalOne(q, n)
      BY <1>1
      DEF Next, Command, CreateCandidate, Review, Decline, Quarantine, Accept,
          Maintain, MarkStale, Revalidate, RebuildIndex, Begin, SweepStale,
          MarkSourceChanged, StartLoop, Continue, SignalReplayed, Fails,
          SweepRaises, SignalRaises, Crash, vars
    <2>3. q = p
      BY <1>1, <2>1, <2>2 DEF SweepOne, SignalOne, GoesOn
    <2>4. n = m
      BY <1>1, <2>1, <2>2 DEF SweepOne, SignalOne, Stale
    <2>5. m \in work[p].left /\ memory[m].version = work[p].read[m]
      BY <2>2, <2>3, <2>4 DEF SweepOne, SignalOne, Reaches, AsRead
    <2>6. QED
      BY <1>1, <2>5 DEF MemoryInv, LoopsInv, LoopSound, LoopHolds
  <1>2. MemoryInv /\ [Next]_vars =>
          [\A p \in Processes, m \in Memories :
              work[p] # NULL /\ work'[p] # work[p] /\ memory'[m] # memory[m]
                  => m \in Accepted /\ Concerns(work[p], m)]_vars
    BY <1>1
  <1>3. QED
    BY <1>2, InvHolds, PTL DEF Spec, LoopSparesRevalidated

\* A record only makes the moves of the commands, one at a time, and
\* each under the next version: nothing revives a rejected, quarantined or
\* superseded record, and no version is passed over or used again.
THEOREM RecordsMoveOn == Spec => [][\A m \in Memories : MovesOn(m)]_vars
  <1>1. MemoryInv /\ [Next]_vars => \A m \in Memories : MovesOn(m)
    BY StepMoves DEF MemoryInv
  <1>2. QED
    BY <1>1, InvHolds, PTL DEF Spec

=============================================================================
