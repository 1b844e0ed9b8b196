--------------------------- MODULE EventStoreProofs ---------------------------
(***************************************************************************)
(* Theorems about EventStore, for every set of processes, keys and         *)
(* aggregates: what is committed always verifies, a key has at most one    *)
(* command, and Store.command implements the abstract ledger.              *)
(***************************************************************************)
EXTENDS EventStore, SequenceTheorems, TLAPS

-----------------------------------------------------------------------------
(* The operators that write a database.                                    *)

\* An aggregate has one last event.
LEMMA LastUnique ==
  ASSUME NEW log, NEW a, NEW n \in Nat, NEW i, NEW j,
         IsLast(log, a, n, i), IsLast(log, a, n, j)
  PROVE  i = j
  BY DEF IsLast

\* LastEvent finds the last event when there is one to find.
LEMMA LastEventIs ==
  ASSUME NEW log \in Seq(Events), NEW a, NEW i, IsLast(log, a, Len(log), i)
  PROVE  LastEvent(log, a) = i
  <1>1. Len(log) \in Nat /\ i \in 0 .. Len(log)
    BY DEF IsLast
  <1>2. IsLast(log, a, Len(log), LastEvent(log, a))
    BY <1>1 DEF LastEvent
  <1>3. QED
    BY <1>1, <1>2, LastUnique

\* An event more leaves the events before it, and the last one of any prefix,
\* as they were.
LEMMA PrefixKept ==
  ASSUME NEW log \in Seq(Events), NEW e \in Events,
         NEW a, NEW n \in 0 .. Len(log), NEW i
  PROVE  /\ \A j \in 1 .. Len(log) : Append(log, e)[j] = log[j]
         /\ IsLast(log, a, n, i) <=> IsLast(Append(log, e), a, n, i)
  <1>1. \A j \in 1 .. Len(log) : Append(log, e)[j] = log[j]
    OBVIOUS
  <1>2. Len(log) \in Nat
    OBVIOUS
  <1>3. ASSUME i \in 0 .. n
        PROVE  IsLast(log, a, n, i) <=> IsLast(Append(log, e), a, n, i)
    <2>1. i # 0 => Append(log, e)[i] = log[i]
      BY <1>1, <1>2, <1>3
    <2>2. \A j \in i + 1 .. n : Append(log, e)[j] = log[j]
      BY <1>1, <1>2, <1>3
    <2>3. QED
      BY <2>1, <2>2 DEF IsLast
  <1>4. QED
    BY <1>1, <1>3 DEF IsLast

\* A database verify_integrity accepts.
Verified(d) ==
    d \in Databases /\ LogVerifies(d) /\ RowsVerify(d, Len(d.log))

\* What a database is made of, and that of the right parts it is one.
LEMMA DatabaseParts ==
  ASSUME NEW l, NEW r, NEW x, NEW s
  PROVE  /\ Database(l, r, x, s).log = l
         /\ Database(l, r, x, s).row = r
         /\ Database(l, r, x, s).dedup = x
         /\ Database(l, r, x, s).sequence = s
  BY DEF Database

LEMMA DatabaseType ==
  ASSUME NEW l \in Seq(Events), NEW r \in [Aggregates -> Rows],
         NEW x \in [Keys -> Records \cup {NULL}], NEW s \in Nat
  PROVE  Database(l, r, x, s) \in Databases
  BY DEF Database, Databases

LEMMA PartTypes ==
  ASSUME NEW d \in Databases
  PROVE  /\ d.log \in Seq(Events)
         /\ d.row \in [Aggregates -> Rows]
         /\ d.dedup \in [Keys -> Records \cup {NULL}]
         /\ d.sequence \in Nat
         /\ Len(d.log) \in Nat
  <1>1. d.log \in Seq(Events)
    BY DEF Databases
  <1>2. Len(d.log) \in Nat
    BY <1>1
  <1>3. QED
    BY <1>1, <1>2 DEF Databases

EventFor(d, a, k) ==
    [agg |-> a, version |-> d.row[a].version + 1, key |-> k,
     prior |-> d.row[a].event]

\* The event append_event writes, and the log with it.
LEMMA EventTyped ==
  ASSUME NEW d \in Databases, NEW a \in Aggregates, NEW k \in Keys
  PROVE  /\ EventFor(d, a, k) \in Events
         /\ Append(d.log, EventFor(d, a, k)) \in Seq(Events)
  <1>1. d.row[a] \in Rows /\ d.log \in Seq(Events)
    BY PartTypes
  <1>2. EventFor(d, a, k) \in Events
    BY <1>1 DEF EventFor, Events, Rows
  <1>3. QED
    BY <1>1, <1>2

\* In a verified database append_event chains to the event the row names.
LEMMA EventAdds ==
  ASSUME NEW d, Verified(d), NEW a \in Aggregates, NEW k \in Keys
  PROVE  WithEvent(d, a, d.row[a].version + 1, k) =
           Database(Append(d.log, EventFor(d, a, k)), d.row, d.dedup,
                    Len(d.log) + 1)
  <1>1. d.log \in Seq(Events) /\ d.sequence = Len(d.log)
    BY PartTypes DEF Verified, LogVerifies
  <1>2. IsLast(d.log, a, Len(d.log), d.row[a].event)
    BY DEF Verified, RowsVerify
  <1>3. LastEvent(d.log, a) = d.row[a].event
    BY <1>1, <1>2, LastEventIs
  <1>4. QED
    BY <1>1, <1>3 DEF WithEvent, EventFor

\* append_event and the row's update, as one write.
Wrote(d, a, k) ==
    WithRow(WithEvent(d, a, d.row[a].version + 1, k), a, d.row[a].version + 1)

RowsAfter(d, a) ==
    [d.row EXCEPT ![a] = [version |-> d.row[a].version + 1,
                          event |-> Len(d.log) + 1]]

LEMMA WroteIs ==
  ASSUME NEW d, Verified(d), NEW a \in Aggregates, NEW k \in Keys
  PROVE  /\ Wrote(d, a, k) =
              Database(Append(d.log, EventFor(d, a, k)), RowsAfter(d, a),
                       d.dedup, Len(d.log) + 1)
         /\ Wrote(d, a, k) \in Databases
  <1>1. d \in Databases
    BY DEF Verified
  <1>2. d.row[a] \in Rows /\ d.row \in [Aggregates -> Rows]
        /\ Len(d.log) \in Nat /\ d.dedup \in [Keys -> Records \cup {NULL}]
    BY <1>1, PartTypes
  <1>3. RowsAfter(d, a) \in [Aggregates -> Rows]
    BY <1>2 DEF RowsAfter, Rows
  <1>4. Wrote(d, a, k) =
          Database(Append(d.log, EventFor(d, a, k)), RowsAfter(d, a),
                   d.dedup, Len(d.log) + 1)
    BY EventAdds, DatabaseParts DEF Wrote, WithRow, RowsAfter
  <1>5. Append(d.log, EventFor(d, a, k)) \in Seq(Events)
    BY <1>1, EventTyped
  <1>6. Len(d.log) + 1 \in Nat
    BY <1>2
  <1>7. QED
    BY <1>2, <1>3, <1>4, <1>5, <1>6, DatabaseType

LEMMA WroteParts ==
  ASSUME NEW d, Verified(d), NEW a \in Aggregates, NEW k \in Keys
  PROVE  /\ Wrote(d, a, k).log = Append(d.log, EventFor(d, a, k))
         /\ Wrote(d, a, k).row = RowsAfter(d, a)
         /\ Wrote(d, a, k).dedup = d.dedup
         /\ Wrote(d, a, k).sequence = Len(d.log) + 1
  <1> DEFINE l == Append(d.log, EventFor(d, a, k))
             r == RowsAfter(d, a)
             s == Len(d.log) + 1
  <1>1. Wrote(d, a, k) = Database(l, r, d.dedup, s)
    BY WroteIs
  <1> HIDE DEF l, r, s
  <1>2. /\ Wrote(d, a, k).log = l /\ Wrote(d, a, k).row = r
        /\ Wrote(d, a, k).dedup = d.dedup /\ Wrote(d, a, k).sequence = s
    BY <1>1, DatabaseParts
  <1>3. QED
    BY <1>2 DEF l, r, s

\* The write keeps a verified database verified.
LEMMA WroteVerifies ==
  ASSUME NEW d, Verified(d), NEW a \in Aggregates, NEW k \in Keys
  PROVE  Verified(Wrote(d, a, k))
  <1> DEFINE e == Wrote(d, a, k)
             ev == EventFor(d, a, k)
             n == Len(d.log)
  <1>1. /\ d.log \in Seq(Events) /\ d.row \in [Aggregates -> Rows]
        /\ n \in Nat /\ ev \in Events
    <2>1. d \in Databases
      BY DEF Verified
    <2>2. d.log \in Seq(Events) /\ d.row \in [Aggregates -> Rows] /\ n \in Nat
      BY <2>1, PartTypes
    <2>3. ev \in Events
      BY <2>1, EventTyped
    <2>4. QED
      BY <2>2, <2>3
  <1>2. /\ e \in Databases
        /\ e.log = Append(d.log, ev)
        /\ e.sequence = n + 1
        /\ e.row = [d.row EXCEPT ![a] = [version |-> d.row[a].version + 1,
                                         event |-> n + 1]]
    <2>1. e \in Databases
      BY WroteIs
    <2>2. QED
      BY <2>1, WroteParts DEF RowsAfter
  <1> HIDE DEF e, ev, n
  <1>3. /\ Len(e.log) = n + 1
        /\ e.log[n + 1] = ev
        /\ \A j \in 1 .. n : e.log[j] = d.log[j]
    BY <1>1, <1>2 DEF n
  <1>4. \A b \in Aggregates, m \in 0 .. n : \A i :
           IsLast(d.log, b, m, i) <=> IsLast(e.log, b, m, i)
    BY <1>1, <1>2, PrefixKept DEF n
  <1>5. ASSUME NEW i, i \in 0 .. n
        PROVE  VersionAt(e.log, i) = VersionAt(d.log, i)
    BY <1>1, <1>3, <1>5 DEF VersionAt
  <1>6. \A b \in Aggregates :
           /\ IsLast(d.log, b, n, d.row[b].event)
           /\ d.row[b].version = VersionAt(d.log, d.row[b].event)
    BY DEF Verified, RowsVerify, n
  <1>7. LogVerifies(e)
    <2>1. SUFFICES ASSUME NEW i \in 1 .. n + 1
                   PROVE  /\ IsLast(e.log, e.log[i].agg, i - 1, e.log[i].prior)
                          /\ e.log[i].version =
                               VersionAt(e.log, e.log[i].prior) + 1
      BY <1>2, <1>3 DEF LogVerifies
    <2>2. CASE i \in 1 .. n
      <3>1. /\ IsLast(d.log, d.log[i].agg, i - 1, d.log[i].prior)
            /\ d.log[i].version = VersionAt(d.log, d.log[i].prior) + 1
        BY <2>2 DEF Verified, LogVerifies, n
      <3>5. d.log[i] \in Events
        BY <1>1, <2>2 DEF n
      <3>6. d.log[i].agg \in Aggregates
        BY <3>5 DEF Events
      <3>2. e.log[i] = d.log[i] /\ i - 1 \in 0 .. n
        BY <1>1, <1>3, <2>2
      <3>3. d.log[i].prior \in 0 .. n
        BY <1>1, <3>1, <3>2 DEF IsLast
      <3>4. QED
        BY <1>4, <1>5, <3>1, <3>2, <3>3, <3>6
    <2>3. CASE i = n + 1
      <3>1. e.log[i].agg = a /\ e.log[i].prior = d.row[a].event
            /\ e.log[i].version = d.row[a].version + 1
        BY <1>3, <2>3 DEF ev, EventFor
      <3>2. n \in 0 .. n /\ i - 1 = n
        BY <1>1, <2>3
      <3>3. IsLast(e.log, a, n, d.row[a].event) /\ d.row[a].event \in 0 .. n
        BY <1>4, <1>6, <3>2 DEF IsLast
      <3>4. QED
        BY <1>5, <1>6, <3>1, <3>2, <3>3
    <2>4. QED
      BY <1>1, <2>2, <2>3
  <1>8. RowsVerify(e, n + 1)
    <2>1. SUFFICES ASSUME NEW b \in Aggregates
                   PROVE  /\ IsLast(e.log, b, n + 1, e.row[b].event)
                          /\ e.row[b].version = VersionAt(e.log, e.row[b].event)
      BY DEF RowsVerify
    <2>2. CASE b = a
      <3>1. e.row[b] = [version |-> d.row[a].version + 1, event |-> n + 1]
        BY <1>1, <1>2, <2>2
      <3>2. IsLast(e.log, b, n + 1, n + 1)
        BY <1>1, <1>3, <2>2 DEF IsLast, ev, EventFor
      <3>3. VersionAt(e.log, n + 1) = d.row[a].version + 1
        BY <1>1, <1>3 DEF VersionAt, ev, EventFor
      <3>4. QED
        BY <3>1, <3>2, <3>3
    <2>3. CASE b # a
      <3>1. e.row[b] = d.row[b]
        BY <1>1, <1>2, <2>3
      <3>2. IsLast(e.log, b, n, d.row[b].event) /\ d.row[b].event \in 0 .. n
        BY <1>1, <1>4, <1>6 DEF IsLast
      <3>3. e.log[n + 1].agg # b
        BY <1>3, <2>3 DEF ev, EventFor
      <3>4. IsLast(e.log, b, n + 1, d.row[b].event)
        BY <1>1, <3>2, <3>3 DEF IsLast
      <3>5. QED
        BY <1>5, <1>6, <3>1, <3>2, <3>4
    <2>4. QED
      BY <2>2, <2>3
  <1>9. QED
    BY <1>2, <1>3, <1>7, <1>8 DEF Verified, e

-----------------------------------------------------------------------------
(* What a whole command does to a verified database.                       *)

\* The stages of a transaction in terms of single writes.
LEMMA Stages ==
  ASSUME NEW d, Verified(d), NEW k \in Keys, NEW c \in Commands,
         c.agg # c.also, MayOperate(d, k, c)
  PROVE  /\ c.expected + 1 = d.row[c.agg].version + 1
         /\ AfterFirst(d, k, c) = Wrote(d, c.agg, k)
         /\ Verified(AfterFirst(d, k, c))
         /\ c.also # NULL =>
              /\ c.also \in Aggregates
              /\ AfterFirst(d, k, c).row[c.also] = d.row[c.also]
              /\ AfterSecond(d, k, c) = Wrote(AfterFirst(d, k, c), c.also, k)
              /\ Verified(AfterSecond(d, k, c))
  <1>1. c.agg \in Aggregates /\ c.expected \in Nat
        /\ c.also \in Aggregates \cup {NULL}
    BY DEF Commands
  <1>2. c.expected = d.row[c.agg].version
    BY DEF MayOperate
  <1>3. AfterFirst(d, k, c) = Wrote(d, c.agg, k)
    BY <1>2 DEF AfterFirst, Wrote
  <1>4. Verified(AfterFirst(d, k, c))
    BY <1>1, <1>3, WroteVerifies
  <1>5. ASSUME c.also # NULL
        PROVE  /\ c.also \in Aggregates
               /\ AfterFirst(d, k, c).row[c.also] = d.row[c.also]
               /\ AfterSecond(d, k, c) = Wrote(AfterFirst(d, k, c), c.also, k)
               /\ Verified(AfterSecond(d, k, c))
    <2>1. c.also \in Aggregates
      BY <1>1, <1>5
    <2>2. d \in Databases
      BY DEF Verified
    <2>3. d.row \in [Aggregates -> Rows]
      BY <2>2, PartTypes
    <2>4. AfterFirst(d, k, c).row = RowsAfter(d, c.agg)
      BY <1>1, <1>3, WroteParts
    <2>5. RowsAfter(d, c.agg)[c.also] = d.row[c.also]
      BY <1>1, <2>1, <2>3 DEF RowsAfter
    <2>6. AfterFirst(d, k, c).row[c.also] = d.row[c.also]
      BY <2>4, <2>5
    <2>7. AfterSecond(d, k, c) = Wrote(AfterFirst(d, k, c), c.also, k)
      BY <2>6 DEF AfterSecond, SecondEvent, Wrote
    <2>8. QED
      BY <1>4, <2>1, <2>6, <2>7, WroteVerifies
  <1>6. QED
    BY <1>2, <1>3, <1>4, <1>5

\* One event, one row, nothing else.
LEMMA OneWrite ==
  ASSUME NEW d, Verified(d), NEW a \in Aggregates, NEW k \in Keys
  PROVE  LET w == Wrote(d, a, k)
             n == Len(d.log)
         IN  /\ w.dedup = d.dedup
             /\ w.sequence = n + 1 /\ Len(w.log) = n + 1
             /\ \A j \in 1 .. n : w.log[j] = d.log[j]
             /\ w.log[n + 1] = EventFor(d, a, k)
             /\ \A b \in Aggregates :
                   w.row[b].version =
                     IF b = a THEN d.row[b].version + 1 ELSE d.row[b].version
  <1> DEFINE w == Wrote(d, a, k)
             n == Len(d.log)
             ev == EventFor(d, a, k)
  <1>1. /\ w.log = Append(d.log, ev) /\ w.row = RowsAfter(d, a)
        /\ w.dedup = d.dedup /\ w.sequence = n + 1
    BY WroteParts
  <1>2. d \in Databases
    BY DEF Verified
  <1>3. d.log \in Seq(Events) /\ d.row \in [Aggregates -> Rows] /\ n \in Nat
    BY <1>2, PartTypes
  <1>4. \A b \in Aggregates :
           w.row[b].version = IF b = a THEN d.row[b].version + 1
                                       ELSE d.row[b].version
    BY <1>1, <1>3 DEF RowsAfter
  <1> HIDE DEF w, ev
  <1>5. /\ Len(w.log) = n + 1 /\ w.log[n + 1] = ev
        /\ \A j \in 1 .. n : w.log[j] = d.log[j]
    BY <1>1, <1>3
  <1>6. QED
    BY <1>1, <1>4, <1>5 DEF w, ev

\* What Commit makes of the committed database.
Done(d, k, c) == WithRecord(AfterAll(d, k, c), k, c)

EventCount(c) == IF c.also = NULL THEN 1 ELSE 2

\* The log of w is that of d and the events of the command.
LogWithEvents(d, w, k, c) ==
    LET n == Len(d.log)
    IN  /\ Len(w.log) = n + EventCount(c)
        /\ \A j \in 1 .. n : w.log[j] = d.log[j]
        /\ w.log[n + 1].agg = c.agg
        /\ w.log[n + 1].version = c.expected + 1
        /\ w.log[n + 1].key = k
        /\ c.also # NULL => w.log[n + 2].agg = c.also /\ w.log[n + 2].key = k

\* The rows of the aggregates the command writes are a version on.
RowsWithCommand(d, w, c) ==
    \A a \in Aggregates :
        w.row[a].version =
          IF a \in {c.agg, c.also} \ {NULL}
          THEN d.row[a].version + 1 ELSE d.row[a].version

\* The whole command: its events at the end of the log and under its key, the
\* rows of the aggregates it wrote one version on, and its record.
LEMMA CommandEffect ==
  ASSUME NEW d, Verified(d), NEW k \in Keys, NEW c \in Commands,
         c.agg # c.also, MayOperate(d, k, c)
  PROVE  LET w == AfterAll(d, k, c)
         IN  /\ Verified(w)
             /\ w.dedup = d.dedup
             /\ w.sequence = Len(w.log)
             /\ LogWithEvents(d, w, k, c)
             /\ RowsWithCommand(d, w, c)
  <1> DEFINE v == AfterFirst(d, k, c)
             w == AfterAll(d, k, c)
             n == Len(d.log)
  <1>1. c.agg \in Aggregates /\ c.also \in Aggregates \cup {NULL}
    BY DEF Commands
  <1>2. v = Wrote(d, c.agg, k) /\ Verified(v)
        /\ c.expected + 1 = d.row[c.agg].version + 1
    BY Stages
  <1>3. d \in Databases
    BY DEF Verified
  <1>4. n \in Nat
    BY <1>3, PartTypes
  <1>5. /\ v.dedup = d.dedup
        /\ v.sequence = n + 1 /\ Len(v.log) = n + 1
        /\ \A j \in 1 .. n : v.log[j] = d.log[j]
        /\ v.log[n + 1] = EventFor(d, c.agg, k)
        /\ \A b \in Aggregates :
              v.row[b].version =
                IF b = c.agg THEN d.row[b].version + 1 ELSE d.row[b].version
    BY <1>1, <1>2, OneWrite
  <1>6. /\ v.log[n + 1].agg = c.agg
        /\ v.log[n + 1].version = c.expected + 1
        /\ v.log[n + 1].key = k
    BY <1>2, <1>5 DEF EventFor
  <1>7. CASE c.also = NULL
    <2>1. w = v /\ EventCount(c) = 1
      BY <1>7 DEF AfterAll, EventCount
    <2>2. \A a \in Aggregates : a \in {c.agg, c.also} \ {NULL} <=> a = c.agg
      BY <1>7, NullAssumption
    <2> HIDE DEF v, w, n
    <2>3. QED
      BY <1>2, <1>5, <1>6, <1>7, <2>1, <2>2
         DEF w, n, LogWithEvents, RowsWithCommand
  <1>8. CASE c.also # NULL
    <2>1. /\ w = Wrote(v, c.also, k) /\ Verified(w) /\ c.also \in Aggregates
          /\ EventCount(c) = 2
      BY <1>8, Stages DEF AfterAll, EventCount
    <2> HIDE DEF v, w
    <2>2. /\ w.dedup = v.dedup
          /\ w.sequence = Len(v.log) + 1 /\ Len(w.log) = Len(v.log) + 1
          /\ \A j \in 1 .. Len(v.log) : w.log[j] = v.log[j]
          /\ w.log[Len(v.log) + 1] = EventFor(v, c.also, k)
          /\ \A b \in Aggregates :
                w.row[b].version =
                  IF b = c.also THEN v.row[b].version + 1 ELSE v.row[b].version
      BY <1>2, <2>1, OneWrite
    <2>3. Len(v.log) = n + 1 /\ Len(v.log) + 1 = n + 2
      BY <1>4, <1>5
    <2>4. w.log[n + 2].agg = c.also /\ w.log[n + 2].key = k
      BY <2>2, <2>3 DEF EventFor
    <2> HIDE DEF n
    <2>5. /\ w.log[n + 1] = v.log[n + 1]
          /\ \A j \in 1 .. n : w.log[j] = d.log[j]
      BY <1>4, <1>5, <2>2, <2>3
    <2>6. \A a \in Aggregates :
             w.row[a].version =
               IF a \in {c.agg, c.also} \ {NULL}
               THEN d.row[a].version + 1 ELSE d.row[a].version
      <3>1. \A a \in Aggregates : a \in {c.agg, c.also} \ {NULL}
                                    <=> (a = c.agg \/ a = c.also)
        BY NullAssumption
      <3>2. QED
        BY <1>5, <2>2, <3>1
    <2>7. w.dedup = d.dedup /\ w.sequence = n + 2 /\ Len(w.log) = n + 2
      BY <1>5, <2>2, <2>3
    <2>8. QED
      BY <1>6, <2>1, <2>4, <2>5, <2>6, <2>7, <1>8
         DEF w, n, LogWithEvents, RowsWithCommand
  <1>9. QED
    BY <1>7, <1>8

\* The records of e are those of d and that of the command.
RecordsWithCommand(d, e, k, c) ==
    e.dedup = [d.dedup EXCEPT ![k] = [command |-> c, result |-> Len(e.log)]]

\* With its record the database still verifies, and holds what it held before
\* but for the new record.
LEMMA DoneEffect ==
  ASSUME NEW d, Verified(d), NEW k \in Keys, NEW c \in Commands,
         c.agg # c.also, MayOperate(d, k, c)
  PROVE  LET w == AfterAll(d, k, c)
             e == Done(d, k, c)
         IN  /\ Verified(e)
             /\ e.log = w.log /\ e.row = w.row
             /\ RecordsWithCommand(d, e, k, c)
  <1> DEFINE w == AfterAll(d, k, c)
             e == Done(d, k, c)
             x == [w.dedup EXCEPT ![k] = [command |-> c, result |-> w.sequence]]
  <1>1. Verified(w) /\ w.dedup = d.dedup /\ w.sequence = Len(w.log)
    BY CommandEffect
  <1>2. e = Database(w.log, w.row, x, w.sequence)
    BY DEF Done, WithRecord
  <1> HIDE DEF w, e
  <1>3. w \in Databases
    BY <1>1 DEF Verified
  <1>4. /\ w.log \in Seq(Events) /\ w.row \in [Aggregates -> Rows]
        /\ w.dedup \in [Keys -> Records \cup {NULL}] /\ w.sequence \in Nat
    BY <1>3, PartTypes
  <1>5. x \in [Keys -> Records \cup {NULL}]
    BY <1>4 DEF Records
  <1> HIDE DEF x
  <1>6. e.log = w.log /\ e.row = w.row /\ e.dedup = x /\ e.sequence = w.sequence
    BY <1>2, DatabaseParts
  <1>7. e \in Databases
    BY <1>2, <1>4, <1>5, DatabaseType
  <1>8. LogVerifies(e) /\ RowsVerify(e, Len(e.log))
    BY <1>1, <1>6 DEF Verified, LogVerifies, RowsVerify
  <1>9. QED
    BY <1>1, <1>6, <1>7, <1>8 DEF Verified, RecordsWithCommand, e, w, x

\* A new command under a key without events leaves one command per key.
LEMMA DoneOnce ==
  ASSUME NEW d, Verified(d), NEW k \in Keys, NEW c \in Commands,
         c.agg # c.also, MayOperate(d, k, c), KeysHoldOneCommand(d)
  PROVE  KeysHoldOneCommand(Done(d, k, c))
  <1> DEFINE e == Done(d, k, c)
             n == Len(d.log)
             r == [command |-> c, result |-> n + EventCount(c)]
  <1>1. d \in Databases
    BY DEF Verified
  <1>2. n \in Nat /\ d.dedup \in [Keys -> Records \cup {NULL}]
    BY <1>1, PartTypes
  <1>3. /\ Len(e.log) = n + EventCount(c)
        /\ \A j \in 1 .. n : e.log[j] = d.log[j]
        /\ e.log[n + 1].agg = c.agg
        /\ e.log[n + 1].version = c.expected + 1
        /\ e.log[n + 1].key = k
        /\ c.also # NULL => e.log[n + 2].agg = c.also /\ e.log[n + 2].key = k
    <2> DEFINE w == AfterAll(d, k, c)
    <2>1. LogWithEvents(d, w, k, c)
      BY CommandEffect
    <2>2. e.log = w.log
      BY DoneEffect
    <2> HIDE DEF w, e
    <2>3. QED
      BY <2>1, <2>2 DEF LogWithEvents
  <1>4. e.dedup = [d.dedup EXCEPT ![k] = r]
    BY <1>3, DoneEffect DEF RecordsWithCommand
  <1>5. d.dedup[k] = NULL
    BY DEF MayOperate
  <1> HIDE DEF e, n
  <1>6. EventsUnder(d, k) = {}
    BY <1>5 DEF KeysHoldOneCommand
  <1>7. \A i \in 1 .. n : d.log[i].key # k
    BY <1>6 DEF EventsUnder, n
  <1>8. ASSUME NEW k2 \in Keys, k2 # k
        PROVE  EventsUnder(e, k2) = EventsUnder(d, k2)
    <2>1. \A i \in 1 .. Len(e.log) : i \in 1 .. n \/ e.log[i].key = k
      BY <1>2, <1>3 DEF EventCount
    <2>2. 1 .. n \subseteq 1 .. Len(e.log)
      BY <1>2, <1>3 DEF EventCount
    <2>3. \A i : i \in EventsUnder(e, k2) <=> i \in EventsUnder(d, k2)
      BY <1>3, <1>8, <2>1, <2>2 DEF EventsUnder, n
    <2>4. QED
      BY <2>3
  <1>9. e.dedup[k] = r /\ r # NULL
    <2>1. r \in Records
      BY <1>2 DEF Records, EventCount
    <2> HIDE DEF r
    <2>2. e.dedup[k] = r
      BY <1>2, <1>4
    <2>3. QED
      BY <2>1, <2>2, NullAssumption
  <1>10. SUFFICES ASSUME NEW k2 \in Keys
         PROVE  IF e.dedup[k2] = NULL THEN EventsUnder(e, k2) = {}
                ELSE LET c2   == e.dedup[k2].command
                         last == e.dedup[k2].result
                     IN  IF c2.also = NULL
                         THEN /\ EventsUnder(e, k2) = {last}
                              /\ e.log[last].agg = c2.agg
                              /\ e.log[last].version = c2.expected + 1
                         ELSE /\ EventsUnder(e, k2) = {last - 1, last}
                              /\ e.log[last - 1].agg = c2.agg
                              /\ e.log[last - 1].version = c2.expected + 1
                              /\ e.log[last].agg = c2.also
    BY DEF KeysHoldOneCommand, e
  <1>11. CASE k2 # k
    <2>1. e.dedup[k2] = d.dedup[k2]
      BY <1>2, <1>4, <1>11
    <2>2. EventsUnder(e, k2) = EventsUnder(d, k2)
      BY <1>8, <1>11
    <2>3. \A i \in EventsUnder(d, k2) : e.log[i] = d.log[i]
      BY <1>3 DEF EventsUnder, n
    <2>4. QED
      BY <2>1, <2>2, <2>3 DEF KeysHoldOneCommand
  <1>12. CASE k2 = k
    <2>1. CASE c.also = NULL
      <3>1. Len(e.log) = n + 1 /\ r.result = n + 1 /\ r.command = c
        BY <1>3, <2>1 DEF EventCount
      <3>2. EventsUnder(e, k) = {n + 1}
        BY <1>2, <1>3, <1>7, <3>1 DEF EventsUnder
      <3>3. QED
        BY <1>3, <1>9, <1>12, <2>1, <3>1, <3>2
    <2>2. CASE c.also # NULL
      <3>1. /\ Len(e.log) = n + 2 /\ r.result = n + 2 /\ r.command = c
            /\ r.result - 1 = n + 1
        BY <1>2, <1>3, <2>2 DEF EventCount
      <3>2. EventsUnder(e, k) = {n + 1, n + 2}
        BY <1>2, <1>3, <1>7, <2>2, <3>1 DEF EventsUnder
      <3>3. QED
        BY <1>3, <1>9, <1>12, <2>2, <3>1, <3>2
    <2>3. QED
      BY <2>1, <2>2
  <1>13. QED
    BY <1>11, <1>12

-----------------------------------------------------------------------------
(* The invariant, action by action.                                        *)

\* The stages of a transaction are databases, and what UpdateRow reads back
\* from the last event is the version append_event wrote.
LEMMA StageTypes ==
  ASSUME NEW d, Verified(d), NEW k \in Keys, NEW c \in Commands,
         c.agg # c.also, MayOperate(d, k, c)
  PROVE  /\ WithEvent(d, c.agg, c.expected + 1, k) \in Databases
         /\ LET e == WithEvent(d, c.agg, c.expected + 1, k)
            IN  e.log[Len(e.log)].version = c.expected + 1
         /\ c.also # NULL =>
              /\ SecondEvent(d, k, c) \in Databases
              /\ LET e == SecondEvent(d, k, c)
                 IN  e.log[Len(e.log)].version = d.row[c.also].version + 1
  <1>1. ASSUME NEW w, Verified(w), NEW a \in Aggregates
        PROVE  LET e == WithEvent(w, a, w.row[a].version + 1, k)
               IN  /\ e \in Databases
                   /\ e.log[Len(e.log)].version = w.row[a].version + 1
    <2> DEFINE e == WithEvent(w, a, w.row[a].version + 1, k)
               l == Append(w.log, EventFor(w, a, k))
    <2>1. w \in Databases
      BY <1>1 DEF Verified
    <2>2. /\ w.log \in Seq(Events) /\ w.row \in [Aggregates -> Rows]
          /\ w.dedup \in [Keys -> Records \cup {NULL}] /\ Len(w.log) + 1 \in Nat
      BY <2>1, PartTypes
    <2>3. e = Database(l, w.row, w.dedup, Len(w.log) + 1)
      BY <1>1, EventAdds
    <2>4. l \in Seq(Events)
      BY <2>1, EventTyped
    <2>5. l[Len(l)] = EventFor(w, a, k)
      BY <2>2
    <2> HIDE DEF e, l
    <2>6. e \in Databases /\ e.log = l
      BY <2>2, <2>3, <2>4, DatabaseParts, DatabaseType
    <2>7. QED
      BY <2>5, <2>6 DEF EventFor, e
  <1>2. c.agg \in Aggregates /\ c.expected = d.row[c.agg].version
    BY DEF Commands, MayOperate
  <1>3. /\ WithEvent(d, c.agg, c.expected + 1, k) \in Databases
        /\ LET e == WithEvent(d, c.agg, c.expected + 1, k)
           IN  e.log[Len(e.log)].version = c.expected + 1
    BY <1>1, <1>2
  <1>4. ASSUME c.also # NULL
        PROVE  /\ SecondEvent(d, k, c) \in Databases
               /\ LET e == SecondEvent(d, k, c)
                  IN  e.log[Len(e.log)].version = d.row[c.also].version + 1
    <2> DEFINE v == AfterFirst(d, k, c)
    <2>1. Verified(v) /\ c.also \in Aggregates /\ v.row[c.also] = d.row[c.also]
      BY <1>4, Stages
    <2>2. SecondEvent(d, k, c) =
            WithEvent(v, c.also, v.row[c.also].version + 1, k)
      BY <2>1 DEF SecondEvent
    <2> HIDE DEF v
    <2>3. QED
      BY <1>1, <2>1, <2>2
  <1>5. QED
    BY <1>3, <1>4

LEMMA EmptyVerified == Verified(EmptyDatabase) /\ KeysHoldOneCommand(EmptyDatabase)
  <1> DEFINE r == [a \in Aggregates |-> [version |-> 0, event |-> 0]]
             x == [k \in Keys |-> NULL]
             e == EmptyDatabase
  <1>1. r \in [Aggregates -> Rows] /\ x \in [Keys -> Records \cup {NULL}]
    BY DEF Rows
  <1>2. <<>> \in Seq(Events) /\ Len(<<>>) = 0
    OBVIOUS
  <1>3. e = Database(<<>>, r, x, 0)
    BY DEF EmptyDatabase
  <1> HIDE DEF e
  <1>4. e.log = <<>> /\ e.row = r /\ e.dedup = x /\ e.sequence = 0
    BY <1>3, DatabaseParts
  <1>5. e \in Databases
    BY <1>1, <1>2, <1>3, DatabaseType
  <1>6. LogVerifies(e)
    BY <1>2, <1>4 DEF LogVerifies
  <1>7. RowsVerify(e, Len(e.log))
    BY <1>2, <1>4 DEF RowsVerify, IsLast, VersionAt
  <1>8. KeysHoldOneCommand(e)
    BY <1>2, <1>4 DEF KeysHoldOneCommand, EventsUnder
  <1>9. QED
    BY <1>5, <1>6, <1>7, <1>8 DEF Verified, e

LEMMA StoreInvInit == Init => StoreInv
  <1> SUFFICES ASSUME Init PROVE StoreInv
    OBVIOUS
  <1>1. Verified(db) /\ KeysHoldOneCommand(db)
    BY EmptyVerified DEF Init
  <1>2. TypeOK
    BY <1>1 DEF Init, TypeOK, Verified, Connections, Closed
  <1>3. CommittedVerifies /\ OneCommandPerKey
    BY <1>1 DEF Verified, CommittedVerifies, OneCommandPerKey
  <1>4. CallsApart /\ TxSound /\ RepliesOnRecord /\ AnswersOnRecord
    BY DEF Init, CallsApart, TxSound, RepliesOnRecord, AnswersOnRecord
  <1>5. QED
    BY <1>2, <1>3, <1>4 DEF StoreInv

\* What the invariant says of the process that holds the transaction.
LEMMA InTx ==
  ASSUME StoreInv, NEW p \in Processes, Transacting(p)
  PROVE  /\ tx \in Transactions /\ tx # NULL /\ tx.owner = p
         /\ Verified(db) /\ KeysHoldOneCommand(db)
         /\ call[p] \in Calls /\ call[p] # NULL
         /\ call[p].key \in Keys /\ call[p].command \in Commands
         /\ call[p].command.agg # call[p].command.also
         /\ reply[p] = NULL
         /\ WorkOf(call[p].key, call[p].command)
  <1>1. tx # NULL /\ tx.owner = p
    BY DEF Transacting
  <1>2. tx \in Transactions /\ call[p] \in Calls \cup {NULL}
    BY <1>1 DEF StoreInv, TypeOK
  <1>3. /\ call[p] # NULL /\ reply[p] = NULL
        /\ WorkOf(call[p].key, call[p].command)
    BY <1>1 DEF StoreInv, TxSound
  <1>4. call[p].key \in Keys /\ call[p].command \in Commands
    BY <1>2, <1>3 DEF Calls
  <1>5. call[p].command.agg # call[p].command.also
    BY <1>3 DEF StoreInv, CallsApart
  <1>6. Verified(db) /\ KeysHoldOneCommand(db)
    BY DEF StoreInv, TypeOK, CommittedVerifies, OneCommandPerKey, Verified
  <1>7. QED
    BY <1>1, <1>2, <1>3, <1>4, <1>5, <1>6

\* What stays true of the database and the answers while neither changes.
LEMMA DatabaseKept ==
  ASSUME StoreInv, db' = db, told' = told
  PROVE  /\ db' \in Databases /\ told' \subseteq (Keys \X Records)
         /\ CommittedVerifies' /\ AnswersOnRecord' /\ OneCommandPerKey'
  BY DEF StoreInv, TypeOK, CommittedVerifies, AnswersOnRecord, OneCommandPerKey

\* A step of the transaction's owner inside the transaction.
LEMMA TxStep ==
  ASSUME StoreInv, NEW p \in Processes, Transacting(p),
         UNCHANGED <<db, conn, call, reply, told>>,
         tx' \in Transactions, tx'.owner = p,
         WorkOf(call[p].key, call[p].command)'
  PROVE  StoreInv'
  <1>1. TypeOK'
    BY DEF StoreInv, TypeOK
  <1>2. CommittedVerifies' /\ AnswersOnRecord' /\ OneCommandPerKey'
    BY DatabaseKept
  <1>3. CallsApart' /\ RepliesOnRecord'
    BY DEF StoreInv, CallsApart, RepliesOnRecord
  <1>4. call[p] # NULL /\ reply[p] = NULL
    BY InTx
  <1>5. TxSound'
    BY <1>4 DEF TxSound
  <1>6. QED
    BY <1>1, <1>2, <1>3, <1>5 DEF StoreInv

\* A step in which no transaction is left, and nobody's call is disturbed.
LEMMA TxEnds ==
  ASSUME StoreInv, tx' = NULL, db' = db, told' = told, call' = call,
         conn' \in [Processes -> Connections],
         reply' \in [Processes -> Nat \cup {NULL}],
         RepliesOnRecord'
  PROVE  StoreInv'
  <1>1. TypeOK'
    BY DatabaseKept DEF StoreInv, TypeOK
  <1>2. CommittedVerifies' /\ AnswersOnRecord' /\ OneCommandPerKey'
    BY DatabaseKept
  <1>3. CallsApart' /\ TxSound'
    BY DEF StoreInv, CallsApart, TxSound
  <1>4. QED
    BY <1>1, <1>2, <1>3 DEF StoreInv

LEMMA OpenKeeps ==
  ASSUME StoreInv, NEW p \in Processes, Open(p)
  PROVE  StoreInv'
  <1>1. UNCHANGED <<db, tx, call, reply, told>>
    BY DEF Open, ReadEvents, ReadRows
  <1>2. Len(db.log) \in Nat /\ conn \in [Processes -> Connections]
    BY PartTypes DEF StoreInv, TypeOK
  <1>3. conn' \in [Processes -> Connections]
    BY <1>2 DEF Open, ReadEvents, ReadRows, Connections, Refused
  <1>4. TypeOK'
    BY <1>1, <1>3 DEF StoreInv, TypeOK
  <1>5. CommittedVerifies' /\ AnswersOnRecord' /\ OneCommandPerKey'
    BY <1>1, DatabaseKept
  <1>6. CallsApart' /\ TxSound' /\ RepliesOnRecord'
    BY <1>1 DEF StoreInv, CallsApart, TxSound, WorkOf, RepliesOnRecord
  <1>7. QED
    BY <1>4, <1>5, <1>6 DEF StoreInv

\* Nothing of a process outside the transaction is in TxSound.
LEMMA TxOfOthers ==
  ASSUME StoreInv, NEW p \in Processes, tx # NULL => tx.owner # p,
         UNCHANGED <<db, tx>>,
         \A q \in Processes \ {p} : call'[q] = call[q] /\ reply'[q] = reply[q]
  PROVE  TxSound'
  <1>1. tx # NULL => tx.owner \in Processes \ {p}
    BY DEF StoreInv, TypeOK, Transactions
  <1>2. tx # NULL => /\ call'[tx.owner] = call[tx.owner]
                     /\ reply'[tx.owner] = reply[tx.owner]
    BY <1>1
  <1>3. QED
    BY <1>2 DEF StoreInv, TxSound, WorkOf

LEMMA AskKeeps ==
  ASSUME StoreInv, NEW p \in Processes, Ask(p)
  PROVE  StoreInv'
  <1>1. ASSUME NEW k \in Keys, NEW a \in Aggregates,
               NEW b \in Aggregates \cup {NULL}, Prepare(p, k, a, b)
        PROVE  StoreInv'
    <2> DEFINE c == [agg |-> a, expected |-> db.row[a].version, also |-> b]
    <2>1. UNCHANGED <<db, tx, conn, reply, told>> /\ call[p] = NULL /\ a # b
          /\ call' = [call EXCEPT ![p] = [key |-> k, command |-> c]]
      BY <1>1 DEF Prepare
    <2>2. db.row \in [Aggregates -> Rows]
      BY PartTypes DEF StoreInv, TypeOK
    <2>3. c \in Commands
      BY <2>2 DEF Commands, Rows
    <2>4. c.agg # c.also
      BY <2>1
    <2>5. call \in [Processes -> Calls \cup {NULL}]
      BY DEF StoreInv, TypeOK
    <2> HIDE DEF c
    <2>6. call' \in [Processes -> Calls \cup {NULL}]
      BY <2>1, <2>3, <2>5 DEF Calls
    <2>7. TypeOK'
      BY <2>1, <2>6 DEF StoreInv, TypeOK
    <2>8. CommittedVerifies' /\ AnswersOnRecord' /\ OneCommandPerKey'
      BY <2>1, DatabaseKept
    <2>9. CallsApart'
      BY <2>1, <2>4, <2>5 DEF StoreInv, CallsApart
    <2>10. RepliesOnRecord'
      BY <2>1, <2>5 DEF StoreInv, RepliesOnRecord
    <2>11. \A q \in Processes \ {p} : call'[q] = call[q] /\ reply'[q] = reply[q]
      BY <2>1, <2>5
    <2>12. tx # NULL => tx.owner # p
      BY <2>1 DEF StoreInv, TxSound
    <2>13. TxSound'
      BY <2>1, <2>11, <2>12, TxOfOthers
    <2>14. QED
      BY <2>7, <2>8, <2>9, <2>10, <2>13 DEF StoreInv
  <1>2. CASE GiveUp(p)
    <2>1. UNCHANGED <<db, tx, conn, reply, told>> /\ reply[p] = NULL
          /\ ~Transacting(p) /\ call' = [call EXCEPT ![p] = NULL]
      BY <1>2 DEF GiveUp
    <2>2. call \in [Processes -> Calls \cup {NULL}]
      BY DEF StoreInv, TypeOK
    <2>3. TypeOK'
      BY <2>1, <2>2 DEF StoreInv, TypeOK
    <2>4. CommittedVerifies' /\ AnswersOnRecord' /\ OneCommandPerKey'
      BY <2>1, DatabaseKept
    <2>5. CallsApart' /\ RepliesOnRecord'
      BY <2>1, <2>2 DEF StoreInv, CallsApart, RepliesOnRecord
    <2>6. \A q \in Processes \ {p} : call'[q] = call[q] /\ reply'[q] = reply[q]
      BY <2>1, <2>2
    <2>7. tx # NULL => tx.owner # p
      BY <2>1 DEF Transacting
    <2>8. TxSound'
      BY <2>1, <2>6, <2>7, TxOfOthers
    <2>9. QED
      BY <2>3, <2>4, <2>5, <2>8 DEF StoreInv
  <1>3. CASE Return(p)
    <2> DEFINE r == [command |-> call[p].command, result |-> reply[p]]
    <2>1. /\ UNCHANGED <<db, tx, conn>> /\ reply[p] # NULL
          /\ told' = told \cup {<<call[p].key, r>>}
          /\ reply' = [reply EXCEPT ![p] = NULL]
          /\ call' = [call EXCEPT ![p] = NULL]
      BY <1>3 DEF Return
    <2>2. /\ call \in [Processes -> Calls \cup {NULL}]
          /\ reply \in [Processes -> Nat \cup {NULL}]
      BY DEF StoreInv, TypeOK
    <2>3. call[p] # NULL /\ db.dedup[call[p].key] = r
      BY <2>1 DEF StoreInv, RepliesOnRecord
    <2>4. call[p].key \in Keys /\ r \in Records
      BY <2>1, <2>2, <2>3 DEF Calls, Records
    <2> HIDE DEF r
    <2>5. TypeOK'
      BY <2>1, <2>2, <2>4 DEF StoreInv, TypeOK
    <2>6. CommittedVerifies' /\ OneCommandPerKey'
      BY <2>1 DEF StoreInv, CommittedVerifies, OneCommandPerKey
    <2>7. AnswersOnRecord'
      BY <2>1, <2>3 DEF StoreInv, AnswersOnRecord
    <2>8. CallsApart' /\ RepliesOnRecord'
      BY <2>1, <2>2 DEF StoreInv, CallsApart, RepliesOnRecord
    <2>9. \A q \in Processes \ {p} : call'[q] = call[q] /\ reply'[q] = reply[q]
      BY <2>1, <2>2
    <2>10. tx # NULL => tx.owner # p
      BY <2>1 DEF StoreInv, TxSound
    <2>11. TxSound'
      BY <2>1, <2>9, <2>10, TxOfOthers
    <2>12. QED
      BY <2>5, <2>6, <2>7, <2>8, <2>11 DEF StoreInv
  <1>4. QED
    BY <1>1, <1>2, <1>3 DEF Ask

LEMMA BeginKeeps ==
  ASSUME StoreInv, NEW p \in Processes, Begin(p)
  PROVE  StoreInv'
  <1>1. /\ UNCHANGED <<db, conn, call, reply, told>>
        /\ call[p] # NULL /\ reply[p] = NULL
        /\ tx' = [owner |-> p, stage |-> "begun", on |-> NULL, db |-> db]
    BY DEF Begin
  <1>2. tx' \in Transactions
    BY <1>1 DEF StoreInv, TypeOK, Transactions
  <1>3. TypeOK'
    BY <1>1, <1>2 DEF StoreInv, TypeOK
  <1>4. CommittedVerifies' /\ AnswersOnRecord' /\ OneCommandPerKey'
    BY <1>1, DatabaseKept
  <1>5. CallsApart' /\ RepliesOnRecord'
    BY <1>1 DEF StoreInv, CallsApart, RepliesOnRecord
  <1>6. TxSound'
    BY <1>1 DEF TxSound, WorkOf
  <1>7. QED
    BY <1>3, <1>4, <1>5, <1>6 DEF StoreInv

LEMMA ReplayKeeps ==
  ASSUME StoreInv, NEW p \in Processes, Replay(p)
  PROVE  StoreInv'
  <1> DEFINE prior == db.dedup[call[p].key]
  <1>1. Transacting(p) /\ tx.stage = "begun"
    BY DEF Replay, InTransaction
  <1>2. /\ call[p] # NULL /\ call[p].key \in Keys /\ Verified(db)
        /\ WorkOf(call[p].key, call[p].command)
    BY <1>1, InTx
  <1>3. tx.db = db
    BY <1>1, <1>2 DEF WorkOf
  <1>4. /\ UNCHANGED <<db, conn, call, told>> /\ tx' = NULL
        /\ prior # NULL /\ prior.command = call[p].command
        /\ reply' = [reply EXCEPT ![p] = prior.result]
    BY <1>3 DEF Replay
  <1>5. db.dedup \in [Keys -> Records \cup {NULL}]
    BY PartTypes DEF StoreInv, TypeOK
  <1>6. prior \in Records
    BY <1>2, <1>4, <1>5
  <1>7. /\ prior = [command |-> call[p].command, result |-> prior.result]
        /\ prior.result \in Nat
    BY <1>4, <1>6 DEF Records
  <1>8. /\ reply \in [Processes -> Nat \cup {NULL}]
        /\ conn \in [Processes -> Connections]
    BY DEF StoreInv, TypeOK
  <1> HIDE DEF prior
  <1>9. reply' \in [Processes -> Nat \cup {NULL}]
    BY <1>4, <1>7, <1>8
  <1>10. RepliesOnRecord'
    BY <1>2, <1>4, <1>7, <1>8 DEF StoreInv, RepliesOnRecord, prior
  <1>11. QED
    BY <1>4, <1>8, <1>9, <1>10, TxEnds

LEMMA AppendFirstKeeps ==
  ASSUME StoreInv, NEW p \in Processes, AppendFirst(p)
  PROVE  StoreInv'
  <1> DEFINE c == call[p].command
             k == call[p].key
             e == WithEvent(db, c.agg, c.expected + 1, k)
  <1>1. Transacting(p) /\ tx.stage = "begun"
    BY DEF AppendFirst, InTransaction
  <1>2. /\ tx \in Transactions /\ tx # NULL /\ tx.owner = p
        /\ Verified(db) /\ k \in Keys /\ c \in Commands /\ c.agg # c.also
        /\ WorkOf(k, c)
    BY <1>1, InTx
  <1>3. tx.db = db
    BY <1>1, <1>2 DEF WorkOf
  <1>4. /\ UNCHANGED <<db, conn, call, reply, told>>
        /\ MayOperate(db, k, c)
        /\ tx' = [tx EXCEPT !.stage = "appended", !.on = c.agg, !.db = e]
    BY <1>3 DEF AppendFirst, AppendEvent
  <1>5. e \in Databases /\ c.agg \in Aggregates
    BY <1>2, <1>4, StageTypes DEF Commands
  <1> HIDE DEF e
  <1>6. /\ tx' \in Transactions /\ tx'.owner = p
        /\ tx'.stage = "appended" /\ tx'.on = c.agg /\ tx'.db = e
    BY <1>2, <1>4, <1>5 DEF Transactions
  <1>7. WorkOf(k, c)'
    BY <1>4, <1>6 DEF WorkOf, e
  <1>8. QED
    BY <1>1, <1>4, <1>6, <1>7, TxStep

LEMMA UpdateRowKeeps ==
  ASSUME StoreInv, NEW p \in Processes, UpdateRow(p)
  PROVE  StoreInv'
  <1> DEFINE c == call[p].command
             k == call[p].key
             w == WithRow(tx.db, tx.on, tx.db.log[Len(tx.db.log)].version)
  <1>1. Transacting(p) /\ tx.stage = "appended"
    BY DEF UpdateRow, InTransaction
  <1>2. /\ tx \in Transactions /\ tx # NULL /\ tx.owner = p
        /\ Verified(db) /\ k \in Keys /\ c \in Commands /\ c.agg # c.also
        /\ WorkOf(k, c)
    BY <1>1, InTx
  <1>3. /\ UNCHANGED <<db, conn, call, reply, told>>
        /\ tx' = [tx EXCEPT !.stage = "projected", !.db = w]
    BY DEF UpdateRow
  <1>4. /\ MayOperate(db, k, c)
        /\ \/ /\ tx.on = c.agg
              /\ tx.db = WithEvent(db, c.agg, c.expected + 1, k)
           \/ /\ tx.on = c.also
              /\ c.also # NULL
              /\ tx.db = SecondEvent(db, k, c)
    BY <1>1, <1>2 DEF WorkOf
  <1>5. \/ tx.on = c.agg /\ w = AfterFirst(db, k, c)
        \/ tx.on = c.also /\ c.also # NULL /\ w = AfterSecond(db, k, c)
    BY <1>2, <1>4, StageTypes DEF AfterFirst, AfterSecond
  <1>6. w \in Databases
    BY <1>2, <1>4, <1>5, Stages DEF Verified
  <1> HIDE DEF w
  <1>7. /\ tx' \in Transactions /\ tx'.owner = p
        /\ tx'.stage = "projected" /\ tx'.on = tx.on /\ tx'.db = w
    BY <1>2, <1>3, <1>6 DEF Transactions
  <1>8. WorkOf(k, c)'
    BY <1>3, <1>4, <1>5, <1>7 DEF WorkOf
  <1>9. QED
    BY <1>1, <1>3, <1>7, <1>8, TxStep

LEMMA AppendSecondKeeps ==
  ASSUME StoreInv, NEW p \in Processes, AppendSecond(p)
  PROVE  StoreInv'
  <1> DEFINE c == call[p].command
             k == call[p].key
             e == SecondEvent(db, k, c)
  <1>1. Transacting(p) /\ tx.stage = "projected" /\ c.also \notin {tx.on, NULL}
    BY DEF AppendSecond, InTransaction
  <1>2. /\ tx \in Transactions /\ tx # NULL /\ tx.owner = p
        /\ Verified(db) /\ k \in Keys /\ c \in Commands /\ c.agg # c.also
        /\ WorkOf(k, c)
    BY <1>1, InTx
  <1>3. MayOperate(db, k, c) /\ tx.db = AfterFirst(db, k, c)
    BY <1>1, <1>2 DEF WorkOf
  <1>4. c.also \in Aggregates /\ tx.db.row[c.also] = db.row[c.also]
    BY <1>1, <1>2, <1>3, Stages
  <1>5. /\ UNCHANGED <<db, conn, call, reply, told>>
        /\ tx' = [tx EXCEPT !.stage = "appended", !.on = c.also, !.db = e]
    BY <1>3, <1>4 DEF AppendSecond, AppendEvent, SecondEvent
  <1>6. e \in Databases
    BY <1>1, <1>2, <1>3, StageTypes
  <1> HIDE DEF e
  <1>7. /\ tx' \in Transactions /\ tx'.owner = p
        /\ tx'.stage = "appended" /\ tx'.on = c.also /\ tx'.db = e
    BY <1>2, <1>4, <1>5, <1>6 DEF Transactions
  <1>8. WorkOf(k, c)'
    BY <1>1, <1>3, <1>5, <1>7 DEF WorkOf, e
  <1>9. QED
    BY <1>1, <1>5, <1>7, <1>8, TxStep

LEMMA RecordResultKeeps ==
  ASSUME StoreInv, NEW p \in Processes, RecordResult(p)
  PROVE  StoreInv'
  <1> DEFINE c == call[p].command
             k == call[p].key
             e == Done(db, k, c)
  <1>1. Transacting(p) /\ tx.stage = "projected" /\ c.also \in {tx.on, NULL}
    BY DEF RecordResult, InTransaction
  <1>2. /\ tx \in Transactions /\ tx # NULL /\ tx.owner = p
        /\ Verified(db) /\ k \in Keys /\ c \in Commands /\ c.agg # c.also
        /\ WorkOf(k, c)
    BY <1>1, InTx
  <1>3. MayOperate(db, k, c) /\ tx.db = AfterAll(db, k, c)
    BY <1>1, <1>2 DEF WorkOf, AfterAll
  <1>4. /\ UNCHANGED <<db, conn, call, reply, told>>
        /\ tx' = [tx EXCEPT !.stage = "recorded", !.db = e]
    BY <1>3 DEF RecordResult, Done
  <1>5. e \in Databases
    BY <1>2, <1>3, DoneEffect DEF Verified
  <1> HIDE DEF e
  <1>6. /\ tx' \in Transactions /\ tx'.owner = p
        /\ tx'.stage = "recorded" /\ tx'.db = e
    BY <1>2, <1>4, <1>5 DEF Transactions
  <1>7. WorkOf(k, c)'
    BY <1>3, <1>4, <1>6 DEF WorkOf, e, Done
  <1>8. QED
    BY <1>1, <1>4, <1>6, <1>7, TxStep

\* What Commit does, in terms of the committed database.
LEMMA CommitIs ==
  ASSUME StoreInv, NEW p \in Processes, Commit(p)
  PROVE  LET k == call[p].key
             c == call[p].command
         IN  /\ UNCHANGED <<conn, call, told>> /\ tx' = NULL
             /\ call[p] # NULL
             /\ k \in Keys /\ c \in Commands /\ c.agg # c.also
             /\ Verified(db) /\ KeysHoldOneCommand(db) /\ MayOperate(db, k, c)
             /\ db' = Done(db, k, c)
             /\ reply' = [reply EXCEPT ![p] = db'.dedup[k].result]
  <1> DEFINE k == call[p].key
             c == call[p].command
  <1>1. Transacting(p) /\ tx.stage = "recorded"
    BY DEF Commit, InTransaction
  <1>2. /\ call[p] # NULL /\ k \in Keys /\ c \in Commands /\ c.agg # c.also
        /\ Verified(db) /\ KeysHoldOneCommand(db)
        /\ WorkOf(k, c)
    BY <1>1, InTx
  <1>3. MayOperate(db, k, c) /\ tx.db = Done(db, k, c)
    BY <1>1, <1>2 DEF WorkOf, Done
  <1>4. QED
    BY <1>2, <1>3 DEF Commit

LEMMA CommitKeeps ==
  ASSUME StoreInv, NEW p \in Processes, Commit(p)
  PROVE  StoreInv'
  <1> DEFINE k == call[p].key
             c == call[p].command
             e == Done(db, k, c)
             r == [command |-> c, result |-> Len(e.log)]
  <1>1. /\ UNCHANGED <<conn, call, told>> /\ tx' = NULL
        /\ call[p] # NULL
        /\ k \in Keys /\ c \in Commands /\ c.agg # c.also
        /\ Verified(db) /\ KeysHoldOneCommand(db) /\ MayOperate(db, k, c)
        /\ db' = e
        /\ reply' = [reply EXCEPT ![p] = e.dedup[k].result]
    BY CommitIs
  <1>2. Verified(e) /\ e.dedup = [db.dedup EXCEPT ![k] = r]
    BY <1>1, DoneEffect DEF RecordsWithCommand
  <1>3. KeysHoldOneCommand(e)
    BY <1>1, DoneOnce
  <1>4. e \in Databases
    BY <1>2 DEF Verified
  <1>5. Len(e.log) \in Nat /\ db.dedup \in [Keys -> Records \cup {NULL}]
    BY <1>4, PartTypes DEF StoreInv, TypeOK
  <1>6. r \in Records /\ r.result \in Nat /\ db.dedup[k] = NULL
    BY <1>1, <1>5 DEF Records, MayOperate
  <1>7. /\ reply \in [Processes -> Nat \cup {NULL}]
        /\ told \subseteq (Keys \X Records)
        /\ call \in [Processes -> Calls \cup {NULL}]
    BY DEF StoreInv, TypeOK
  <1>8. r.command = c
    OBVIOUS
  <1> HIDE DEF e, r
  <1>9. /\ e.dedup[k] = r
        /\ \A j \in Keys : db.dedup[j] # NULL => e.dedup[j] = db.dedup[j]
    BY <1>1, <1>2, <1>5, <1>6
  <1>10. reply' = [reply EXCEPT ![p] = r.result]
    BY <1>1, <1>9
  <1>11. TypeOK'
    BY <1>1, <1>4, <1>6, <1>7, <1>10 DEF StoreInv, TypeOK
  <1>12. CommittedVerifies' /\ OneCommandPerKey'
    BY <1>1, <1>2, <1>3 DEF CommittedVerifies, OneCommandPerKey, Verified
  <1>13. CallsApart' /\ TxSound'
    BY <1>1 DEF StoreInv, CallsApart, TxSound
  <1>14. AnswersOnRecord'
    <2>1. SUFFICES ASSUME NEW x \in told
                   PROVE  e.dedup[x[1]] = x[2]
      BY <1>1 DEF AnswersOnRecord
    <2>2. x[1] \in Keys /\ x[2] \in Records /\ db.dedup[x[1]] = x[2]
      BY <1>7 DEF StoreInv, AnswersOnRecord
    <2>3. QED
      BY <1>9, <2>2, NullAssumption
  <1>15. RepliesOnRecord'
    <2>1. SUFFICES ASSUME NEW q \in Processes, reply'[q] # NULL
                   PROVE  /\ call[q] # NULL
                          /\ e.dedup[call[q].key] =
                               [command |-> call[q].command, result |-> reply'[q]]
      BY <1>1 DEF RepliesOnRecord
    <2>2. CASE q = p
      <3>1. reply'[q] = r.result
        BY <1>7, <1>10, <2>2
      <3>2. r = [command |-> c, result |-> r.result]
        BY DEF r
      <3>3. QED
        BY <1>1, <1>9, <2>2, <3>1, <3>2
    <2>3. CASE q # p
      <3>1. reply'[q] = reply[q] /\ reply[q] # NULL
        BY <1>7, <1>10, <2>1, <2>3
      <3> DEFINE s == [command |-> call[q].command, result |-> reply[q]]
      <3>2. call[q] # NULL /\ db.dedup[call[q].key] = s
        BY <3>1 DEF StoreInv, RepliesOnRecord
      <3>3. call[q] \in Calls /\ reply[q] \in Nat
        BY <1>7, <3>1, <3>2
      <3>4. call[q].key \in Keys /\ s \in Records
        BY <3>3 DEF Calls, Records
      <3> HIDE DEF s
      <3>5. e.dedup[call[q].key] = s
        BY <1>9, <3>2, <3>4, NullAssumption
      <3>6. QED
        BY <3>1, <3>2, <3>5 DEF s
    <2>4. QED
      BY <2>2, <2>3
  <1>16. QED
    BY <1>11, <1>12, <1>13, <1>14, <1>15 DEF StoreInv

LEMMA RollBackKeeps ==
  ASSUME StoreInv, NEW p \in Processes, RollBack(p)
  PROVE  StoreInv'
  <1>1. UNCHANGED <<db, conn, call, reply, told>> /\ tx' = NULL
    BY DEF RollBack
  <1>2. RepliesOnRecord'
    BY <1>1 DEF StoreInv, RepliesOnRecord
  <1>3. QED
    BY <1>1, <1>2, TxEnds DEF StoreInv, TypeOK

LEMMA CrashKeeps ==
  ASSUME StoreInv, NEW p \in Processes, Crash(p)
  PROVE  StoreInv'
  <1>1. /\ UNCHANGED <<db, call, told>>
        /\ conn' = [conn EXCEPT ![p] = Closed]
        /\ reply' = [reply EXCEPT ![p] = NULL]
        /\ tx' = IF Transacting(p) THEN NULL ELSE tx
    BY DEF Crash
  <1>2. /\ conn \in [Processes -> Connections]
        /\ reply \in [Processes -> Nat \cup {NULL}]
        /\ tx \in Transactions \cup {NULL}
    BY DEF StoreInv, TypeOK
  <1>3. /\ conn' \in [Processes -> Connections]
        /\ reply' \in [Processes -> Nat \cup {NULL}]
    BY <1>1, <1>2 DEF Connections, Closed
  <1>4. RepliesOnRecord'
    BY <1>1, <1>2 DEF StoreInv, RepliesOnRecord
  <1>5. CASE Transacting(p)
    BY <1>1, <1>3, <1>4, <1>5, TxEnds
  <1>6. CASE ~Transacting(p)
    <2>1. tx # NULL => tx.owner # p
      BY <1>6 DEF Transacting
    <2>2. \A q \in Processes \ {p} : call'[q] = call[q] /\ reply'[q] = reply[q]
      BY <1>1, <1>2
    <2>3. tx' = tx
      BY <1>1, <1>6
    <2>4. TxSound'
      BY <1>1, <2>1, <2>2, <2>3, TxOfOthers
    <2>5. TypeOK'
      BY <1>1, <1>3, <2>3 DEF StoreInv, TypeOK
    <2>6. CommittedVerifies' /\ AnswersOnRecord' /\ OneCommandPerKey'
      BY <1>1, DatabaseKept
    <2>7. CallsApart'
      BY <1>1 DEF StoreInv, CallsApart
    <2>8. QED
      BY <1>4, <2>4, <2>5, <2>6, <2>7 DEF StoreInv
  <1>7. QED
    BY <1>5, <1>6

LEMMA StutterKeeps ==
  ASSUME StoreInv, UNCHANGED vars
  PROVE  StoreInv'
  <1>1. UNCHANGED <<db, tx, conn, call, reply, told>>
    BY DEF vars
  <1>2. TypeOK'
    BY <1>1 DEF StoreInv, TypeOK
  <1>3. CommittedVerifies' /\ AnswersOnRecord' /\ OneCommandPerKey'
    BY <1>1, DatabaseKept
  <1>4. CallsApart' /\ TxSound' /\ RepliesOnRecord'
    BY <1>1 DEF StoreInv, CallsApart, TxSound, WorkOf, RepliesOnRecord
  <1>5. QED
    BY <1>2, <1>3, <1>4 DEF StoreInv

LEMMA StoreInvNext == StoreInv /\ [Next]_vars => StoreInv'
  <1> SUFFICES ASSUME StoreInv, [Next]_vars
               PROVE  StoreInv'
    OBVIOUS
  <1>1. ASSUME NEW p \in Processes,
               Open(p) \/ Ask(p) \/ Begin(p) \/ Proceed(p) \/ Crash(p)
        PROVE  StoreInv'
    <2>1. CASE Open(p)
      BY <2>1, OpenKeeps
    <2>2. CASE Ask(p)
      BY <2>2, AskKeeps
    <2>3. CASE Begin(p)
      BY <2>3, BeginKeeps
    <2>4. CASE Proceed(p)
      BY <2>4, ReplayKeeps, AppendFirstKeeps, UpdateRowKeeps, AppendSecondKeeps,
         RecordResultKeeps, CommitKeeps, RollBackKeeps DEF Proceed
    <2>5. CASE Crash(p)
      BY <2>5, CrashKeeps
    <2>6. QED
      BY <1>1, <2>1, <2>2, <2>3, <2>4, <2>5
  <1>2. CASE UNCHANGED vars
    BY <1>2, StutterKeeps
  <1>3. QED
    BY <1>1, <1>2 DEF Next

\* The strengthened invariant holds: no failure, crash or other process in
\* the middle of Store.command leaves anything but the committed database and
\* the writes of one command on top of it.
THEOREM StoreInvHolds == Spec => []StoreInv
  <1>1. QED
    BY StoreInvInit, StoreInvNext, PTL DEF Spec

-----------------------------------------------------------------------------
(* The theorems.                                                           *)

\* Type correctness of the store, its transaction and its callers.
THEOREM TypeCorrect == Spec => []TypeOK
  <1>1. StoreInv => TypeOK
    BY DEF StoreInv
  <1>2. QED
    BY <1>1, StoreInvHolds, PTL

\* Whatever Store.open reads of the committed database in one piece, it
\* accepts, at every moment and after every failure.
THEOREM CommittedAlwaysVerifies == Spec => []CommittedVerifies
  <1>1. StoreInv => CommittedVerifies
    BY DEF StoreInv
  <1>2. QED
    BY <1>1, StoreInvHolds, PTL

\* Store.command runs an operation at most once under an idempotency key, and
\* records the whole of it or nothing.
THEOREM KeysAreUsedOnce == Spec => []OneCommandPerKey
  <1>1. StoreInv => OneCommandPerKey
    BY DEF StoreInv
  <1>2. QED
    BY <1>1, StoreInvHolds, PTL

\* A result Store.command returned stays the one on record under its key.
THEOREM AnswersStand == Spec => []AnswersOnRecord
  <1>1. StoreInv => AnswersOnRecord
    BY DEF StoreInv
  <1>2. QED
    BY <1>1, StoreInvHolds, PTL

-----------------------------------------------------------------------------
(* Refinement: Commit is the instant at which the ledger applies a command,*)
(* Return the one at which it tells its result; the rest is stuttering.    *)

LEMMA CommitApplies ==
  ASSUME StoreInv, NEW p \in Processes, Commit(p)
  PROVE  LedgerView!Next
  <1> DEFINE k == call[p].key
             c == call[p].command
             e == Done(db, k, c)
             ver == [a \in Aggregates |-> db.row[a].version]
  <1>1. /\ UNCHANGED told
        /\ k \in Keys /\ c \in Commands /\ c.agg # c.also
        /\ Verified(db) /\ MayOperate(db, k, c)
        /\ db' = e
    BY CommitIs
  <1>2. LogWithEvents(db, e, k, c) /\ RowsWithCommand(db, e, c)
        /\ RecordsWithCommand(db, e, k, c)
    <2>1. /\ LogWithEvents(db, AfterAll(db, k, c), k, c)
          /\ RowsWithCommand(db, AfterAll(db, k, c), c)
      BY <1>1, CommandEffect
    <2>2. /\ e.log = AfterAll(db, k, c).log /\ e.row = AfterAll(db, k, c).row
          /\ RecordsWithCommand(db, e, k, c)
      BY <1>1, DoneEffect
    <2>3. QED
      BY <2>1, <2>2 DEF LogWithEvents, RowsWithCommand
  <1> HIDE DEF e
  <1>3. c.agg \in Aggregates /\ c.also \in Aggregates \cup {NULL}
        /\ c = LedgerView!Command(c.agg, c.expected, c.also)
    BY <1>1 DEF Commands, LedgerView!Command
  <1>4. c.expected = ver[c.agg] /\ db.dedup[k] = NULL
    BY <1>1, <1>3 DEF MayOperate
  <1>5. Len(e.log) = Len(db.log) + LedgerView!EventsOf(c)
    BY <1>2 DEF LogWithEvents, EventCount, LedgerView!EventsOf
  <1>6. [a \in Aggregates |-> e.row[a].version] =
          [a \in Aggregates |-> IF a \in LedgerView!Written(c)
                                THEN ver[a] + 1 ELSE ver[a]]
    BY <1>2 DEF RowsWithCommand, LedgerView!Written
  <1> DEFINE cc == LedgerView!Command(c.agg, ver[c.agg], c.also)
  <1>7. c = cc
    BY <1>3, <1>4
  <1>8. LedgerView!Apply(k, cc)
    <2> HIDE DEF cc, c, k
    <2>1. QED
      BY <1>1, <1>2, <1>4, <1>5, <1>6, <1>7
         DEF LedgerView!Apply, RecordsWithCommand
  <1>9. \E a \in Aggregates, b \in Aggregates \cup {NULL} :
           a # b /\ LedgerView!Apply(k, LedgerView!Command(a, ver[a], b))
    <2>1. c.agg \in Aggregates /\ c.also \in Aggregates \cup {NULL}
          /\ c.agg # c.also
      BY <1>1, <1>3
    <2> DEFINE P(a, b) ==
                 a # b /\ LedgerView!Apply(k, LedgerView!Command(a, ver[a], b))
    <2>2. P(c.agg, c.also)
      BY <2>1, <1>8
    <2> HIDE DEF P, c, k
    <2>3. \E a \in Aggregates, b \in Aggregates \cup {NULL} : P(a, b)
      BY <2>1, <2>2
    <2>4. QED
      BY <2>3 DEF P
  <1>10. QED
    BY <1>1, <1>9 DEF LedgerView!Next

LEMMA ReturnTells ==
  ASSUME StoreInv, NEW p \in Processes, Return(p)
  PROVE  LedgerView!Next
  <1> DEFINE k == call[p].key
             r == [command |-> call[p].command, result |-> reply[p]]
  <1>1. /\ UNCHANGED db /\ reply[p] # NULL
        /\ told' = told \cup {<<k, r>>}
    BY DEF Return
  <1>2. /\ call \in [Processes -> Calls \cup {NULL}]
        /\ reply \in [Processes -> Nat \cup {NULL}]
    BY DEF StoreInv, TypeOK
  <1>3. call[p] # NULL /\ db.dedup[k] = r
    BY <1>1 DEF StoreInv, RepliesOnRecord
  <1>4. k \in Keys /\ r \in Records
    BY <1>1, <1>2, <1>3 DEF Calls, Records
  <1> HIDE DEF r
  <1>5. LedgerView!Tell(k)
    BY <1>1, <1>3, <1>4, NullAssumption DEF LedgerView!Tell
  <1>6. QED
    BY <1>4, <1>5 DEF LedgerView!Next

\* Store.command implements the abstract ledger: to its callers a command
\* happens whole, at one instant, at the version they read, and once.
THEOREM StoreImplementsLedger == Spec => ImplementsLedger
  <1>1. Init => LedgerView!Init
    <2> SUFFICES ASSUME Init PROVE LedgerView!Init
      OBVIOUS
    <2>1. /\ db.log = <<>>
          /\ db.row = [a \in Aggregates |-> [version |-> 0, event |-> 0]]
          /\ db.dedup = [k \in Keys |-> NULL] /\ told = {}
      BY DatabaseParts DEF Init, EmptyDatabase
    <2>2. Len(db.log) = 0
      BY <2>1
    <2>3. [a \in Aggregates |-> db.row[a].version] = [a \in Aggregates |-> 0]
      BY <2>1
    <2>4. QED
      BY <2>1, <2>2, <2>3 DEF LedgerView!Init
  <1>2. StoreInv /\ [Next]_vars => [LedgerView!Next]_(LedgerView!ledgerVars)
    <2> SUFFICES ASSUME StoreInv, [Next]_vars
                 PROVE  [LedgerView!Next]_(LedgerView!ledgerVars)
      OBVIOUS
    <2>1. CASE UNCHANGED <<db, told>>
      BY <2>1 DEF LedgerView!ledgerVars
    <2>2. CASE ~UNCHANGED <<db, told>>
      <3>1. PICK p \in Processes : Commit(p) \/ Return(p)
        BY <2>2 DEF Next, vars, Open, Ask, Proceed, ReadEvents, ReadRows, Prepare,
           GiveUp, Begin, Replay, AppendFirst, AppendSecond, AppendEvent,
           UpdateRow, RecordResult, RollBack, Crash
      <3>2. QED
        BY <3>1, CommitApplies, ReturnTells
    <2>3. QED
      BY <2>1, <2>2
  <1>3. QED
    BY <1>1, <1>2, StoreInvHolds, PTL DEF Spec, ImplementsLedger, LedgerView!Spec

=============================================================================
