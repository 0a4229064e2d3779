---------------------------- MODULE StreamProofs ----------------------------
(* Theorems about the streams table: the optimistic lock of StreamRecords    *)
(* and the pages of StreamExport, which share the arithmetic of timestamps.  *)
EXTENDS StreamRecords, StreamExport, FiniteSetTheorems, WellFoundedInduction, TLAPS

-----------------------------------------------------------------------------
(* Milliseconds                                                            *)

\* Rounding goes down, to a stamp that a Date can hold.
LEMMA MsType ==
  ASSUME NEW t \in Times
  PROVE  Ms(t) \in Times /\ Ms(t) <= t
<1>1. t % PerMs \in Nat /\ t % PerMs <= t
  BY ClockAssumption DEF Times
<1>2. QED
  BY <1>1, ClockAssumption DEF Times, Ms

\* Ms is a multiple of PerMs, the greatest one that is not beyond t.
LEMMA MsQuotient ==
  ASSUME NEW t \in Times
  PROVE  t \div PerMs \in Nat /\ Ms(t) = PerMs * (t \div PerMs)
<1>1. t = PerMs * (t \div PerMs) + (t % PerMs) /\ t \div PerMs \in Nat /\ t % PerMs \in Nat
  BY ClockAssumption DEF Times
<1>2. PerMs * (t \div PerMs) \in Nat
  BY <1>1, ClockAssumption
<1>3. QED
  BY <1>1, <1>2 DEF Ms, Times

LEMMA MsMonotone ==
  ASSUME NEW s \in Times, NEW t \in Times, s <= t
  PROVE  Ms(s) <= Ms(t)
<1> DEFINE p == s \div PerMs
           q == t \div PerMs
<1>1. p \in Nat /\ q \in Nat /\ Ms(s) = PerMs * p /\ Ms(t) = PerMs * q
  BY MsQuotient
<1>2. p <= q
  BY ClockAssumption DEF Times
<1> HIDE DEF p, q
<1>3. q = p + (q - p) /\ q - p \in Nat
  BY <1>1, <1>2
<1>4. PerMs * q = PerMs * p + PerMs * (q - p)
  BY <1>1, <1>3, ClockAssumption
<1>5. PerMs * p \in Nat /\ PerMs * (q - p) \in Nat
  BY <1>1, <1>3, ClockAssumption
<1>6. QED
  BY <1>1, <1>4, <1>5

LEMMA MsIdempotent ==
  ASSUME NEW t \in Times
  PROVE  Ms(Ms(t)) = Ms(t)
<1> DEFINE q == t \div PerMs
<1>1. q \in Nat /\ Ms(t) = PerMs * q /\ Ms(t) \in Times
  BY MsQuotient, MsType
<1> HIDE DEF q
<1>2. (PerMs * q) % PerMs = 0
  BY <1>1, ClockAssumption
<1>3. QED
  BY <1>1, <1>2 DEF Ms, Times

-----------------------------------------------------------------------------
(* StreamRecords: the invariant                                            *)

\* A row that the application has written has a stamp that a Date can hold.
WholeStamp(r) == r # NoStream => r.byDatabase \/ Ms(r.updated) = r.updated

\* What a view says of its row R while the stamps of the row only grow: a view that
\* is current has its stamp, a stale one an earlier stamp.
Faithful(v, R, T) ==
  v # NoView =>
    /\ R # NoStream
    /\ ~v.stale => v.stamp = Ms(R.updated)
    /\ v.id \notin T => v.stamp <= R.updated /\ (v.stale => v.stamp < R.updated)

RecordsInv ==
  /\ TypeOK
  /\ \A i \in Ids : WholeStamp(streams[i])
  /\ \A c \in Clients : view[c] # NoView => Faithful(view[c], streams[view[c].id], tied)

-----------------------------------------------------------------------------
(* StreamRecords: stamps and views                                         *)

LEMMA StampsType ==
  ASSUME NEW stamp \in Stamps
  PROVE  stamp \in Times /\ Ms(stamp) = stamp
BY ClockAssumption DEF Stamps, Times, Ms

LEMMA SeenType ==
  ASSUME NEW i \in Ids, NEW stamp \in Times
  PROVE  SeenAt(i, stamp) \in View /\ SeenAt(i, stamp) # NoView
<1>1. SeenAt(i, stamp) \in View
  BY DEF SeenAt, View
<1>2. QED
  BY <1>1, NullAssumption

-----------------------------------------------------------------------------
(* StreamRecords: the invariant is inductive                               *)

LEMMA InitRecordsInv == Init => RecordsInv
BY DEF Init, RecordsInv, TypeOK, WholeStamp, Faithful, Nothing

\* Reading a row.
LEMMA SeenStep ==
  ASSUME RecordsInv, NEW c \in Clients, NEW i \in Ids, streams[i] # NoStream,
         view' = [view EXCEPT ![c] = SeenAt(i, Ms(streams[i].updated))],
         UNCHANGED <<streams, tied>>, asked' \in [Clients -> SUBSET Ids]
  PROVE  RecordsInv'
<1> DEFINE t == streams[i].updated
           v == SeenAt(i, Ms(t))
<1>1. t \in Times
  BY DEF RecordsInv, TypeOK, Row
<1>2. Ms(t) \in Times /\ Ms(t) <= t
  BY <1>1, MsType
<1>3. v \in View /\ v # NoView
  BY <1>2, SeenType
<1>4. v.id = i /\ v.stamp = Ms(t) /\ v.stale = FALSE
  BY DEF SeenAt
<1>5. Faithful(v, streams[i], tied)
  BY <1>2, <1>4 DEF Faithful
<1> HIDE DEF v
<1>6. view' = [view EXCEPT ![c] = v] /\ streams' = streams /\ tied' = tied
  BY DEF v
<1>7. view' \in [Clients -> View \cup {NoView}]
  BY <1>3, <1>6 DEF RecordsInv, TypeOK
<1>8. TypeOK'
  BY <1>6, <1>7 DEF RecordsInv, TypeOK
<1>9. ASSUME NEW d \in Clients, view'[d] # NoView
      PROVE  Faithful(view'[d], streams[view'[d].id], tied)
  <2>1. CASE d = c
    BY <1>4, <1>5, <1>6, <2>1 DEF RecordsInv, TypeOK
  <2>2. CASE d # c
    BY <1>6, <1>9, <2>2 DEF RecordsInv, TypeOK
  <2>3. QED
    BY <2>1, <2>2
<1>10. QED
  BY <1>6, <1>8, <1>9 DEF RecordsInv

\* Writing a row, with an answer to nobody or to c.
LEMMA WriteStep ==
  ASSUME RecordsInv, NEW c \in Clients, NEW i \in Ids, NEW stamp \in Stamps, NEW r,
         streams[i] # NoStream,
         r \in Row, r.updated = stamp,
         streams' = [streams EXCEPT ![i] = r],
         tied' = TiedBy(i, stamp),
         view' = Outdated(i) \/ view' = [Outdated(i) EXCEPT ![c] = SeenAt(i, stamp)],
         asked' \in [Clients -> SUBSET Ids]
  PROVE  RecordsInv'
<1>1. stamp \in Times /\ Ms(stamp) = stamp
  BY StampsType
<1>2. SeenAt(i, stamp) \in View /\ SeenAt(i, stamp) # NoView
  BY <1>1, SeenType
<1>3. r # NoStream /\ streams'[i] = r /\ WholeStamp(r)
  BY <1>1, NullAssumption DEF WholeStamp, RecordsInv, TypeOK
<1>4. streams[i].updated \in Times
  BY DEF RecordsInv, TypeOK, Row
<1>5. /\ tied \subseteq tied' /\ tied' \subseteq Ids
      /\ i \notin tied' => streams[i].updated < stamp
  BY <1>1, <1>4, ClockAssumption DEF TiedBy, Times, RecordsInv, TypeOK
<1>6. ASSUME NEW d \in Clients
      PROVE  /\ Outdated(i)[d] \in View \cup {NoView}
             /\ Outdated(i)[d] # NoView =>
                  Faithful(Outdated(i)[d], streams'[Outdated(i)[d].id], tied')
  <2> DEFINE v == view[d]
             w == Outdated(i)[d]
  <2>1. v \in View \cup {NoView} /\ (v # NoView => Faithful(v, streams[v.id], tied))
    BY DEF RecordsInv, TypeOK
  <2>2. CASE v # NoView /\ v.id = i
    <3>1. w = [v EXCEPT !.stale = TRUE]
      BY <2>2 DEF Outdated
    <3>2. w \in View /\ w.id = i /\ w.stamp = v.stamp /\ w.stale = TRUE
      BY <2>1, <2>2, <3>1 DEF View
    <3>3. v.stamp \in Times
      BY <2>1, <2>2 DEF View
    <3>4. i \notin tied' => v.stamp <= streams[i].updated
      BY <1>5, <2>1, <2>2 DEF Faithful
    <3>5. i \notin tied' => v.stamp < stamp
      BY <1>1, <1>4, <1>5, <3>3, <3>4, ClockAssumption DEF Times
    <3> HIDE DEF w
    <3>6. i \notin tied' => w.stamp <= r.updated /\ w.stamp < r.updated
      BY <1>1, <3>2, <3>3, <3>5, ClockAssumption DEF Times
    <3>7. Faithful(w, streams'[w.id], tied')
      BY <1>3, <3>2, <3>6 DEF Faithful
    <3>8. QED
      BY <3>2, <3>7 DEF w
  <2>3. CASE ~(v # NoView /\ v.id = i)
    <3>1. w = v
      BY <2>3 DEF Outdated
    <3>2. v # NoView => streams'[v.id] = streams[v.id]
      BY <2>1, <2>3 DEF View, RecordsInv, TypeOK
    <3>3. v # NoView => Faithful(v, streams'[v.id], tied')
      BY <1>5, <2>1, <3>2 DEF Faithful
    <3>4. QED
      BY <2>1, <3>1, <3>3
  <2>4. QED
    BY <2>2, <2>3
<1>7. Faithful(SeenAt(i, stamp), r, tied')
  BY <1>1, <1>3, ClockAssumption DEF Faithful, SeenAt, Times
<1>8. SeenAt(i, stamp).id = i
  BY DEF SeenAt
<1>9. Outdated(i) = [d \in Clients |-> Outdated(i)[d]]
  BY DEF Outdated
<1>10. ASSUME NEW d \in Clients
       PROVE  /\ view'[d] \in View \cup {NoView}
              /\ view'[d] # NoView => Faithful(view'[d], streams'[view'[d].id], tied')
  <2>1. view'[d] = Outdated(i)[d] \/ view'[d] = SeenAt(i, stamp)
    BY <1>9
  <2>2. QED
    BY <1>2, <1>3, <1>6, <1>7, <1>8, <2>1
<1>11. view' \in [Clients -> View \cup {NoView}]
  BY <1>9, <1>10
<1>12. \A k \in Ids : WholeStamp(streams'[k])
  BY <1>3 DEF RecordsInv, TypeOK
<1>13. TypeOK'
  BY <1>5, <1>11 DEF RecordsInv, TypeOK
<1>14. QED
  BY <1>10, <1>12, <1>13 DEF RecordsInv

LEMMA CreateStep ==
  ASSUME RecordsInv, NEW c \in Clients, NEW i \in Ids, Create(c, i)
  PROVE  RecordsInv'
<1>1. PICK now \in Times :
        /\ streams' = [streams EXCEPT ![i] = [updated |-> now, byDatabase |-> TRUE, live |-> TRUE]]
        /\ view' = [view EXCEPT ![c] = SeenAt(i, Ms(now))] \/ view' = view
  BY DEF Create
<1> DEFINE r == [updated |-> now, byDatabase |-> TRUE, live |-> TRUE]
           v == SeenAt(i, Ms(now))
<1>2. streams[i] = NoStream /\ UNCHANGED <<asked, tied>>
  BY DEF Create
<1>3. Ms(now) \in Times /\ Ms(now) <= now
  BY MsType
<1>4. v \in View /\ v # NoView /\ v.id = i /\ v.stamp = Ms(now) /\ v.stale = FALSE
  BY <1>3, SeenType DEF SeenAt
<1>5. r \in Row /\ r # NoStream /\ r.updated = now /\ r.byDatabase = TRUE
  <2>1. r \in Row
    BY DEF Row
  <2>2. r # NoStream
    <3> HIDE DEF r
    <3>1. QED
      BY <2>1, NullAssumption
  <2>3. QED
    BY <2>1, <2>2
<1>6. Faithful(v, r, tied)
  BY <1>3, <1>4, <1>5 DEF Faithful
<1>7. /\ streams' = [streams EXCEPT ![i] = r]
      /\ view' = [view EXCEPT ![c] = v] \/ view' = view
  BY <1>1
<1> HIDE DEF r, v
<1>8. streams' \in [Ids -> Row \cup {NoStream}]
  BY <1>5, <1>7 DEF RecordsInv, TypeOK
<1>9. view' \in [Clients -> View \cup {NoView}]
  BY <1>4, <1>7 DEF RecordsInv, TypeOK
<1>10. TypeOK'
  BY <1>2, <1>8, <1>9 DEF RecordsInv, TypeOK
<1>11. \A k \in Ids : WholeStamp(streams'[k])
  BY <1>5, <1>7 DEF RecordsInv, TypeOK, WholeStamp
<1>12. ASSUME NEW d \in Clients, view'[d] # NoView
       PROVE  Faithful(view'[d], streams'[view'[d].id], tied)
  <2>1. CASE view'[d] = v
    <3>1. streams'[i] = r
      BY <1>7 DEF RecordsInv, TypeOK
    <3>2. QED
      BY <1>4, <1>6, <2>1, <3>1
  <2>2. CASE view'[d] = view[d]
    <3>1. view[d] \in View /\ Faithful(view[d], streams[view[d].id], tied)
      BY <1>12, <2>2 DEF RecordsInv, TypeOK
    <3>2. streams[view[d].id] # NoStream
      BY <1>12, <2>2, <3>1 DEF Faithful
    <3>3. streams'[view[d].id] = streams[view[d].id]
      BY <1>2, <1>7, <3>1, <3>2 DEF RecordsInv, TypeOK, View
    <3>4. QED
      BY <2>2, <3>1, <3>3
  <2>3. QED
    BY <1>7, <2>1, <2>2 DEF RecordsInv, TypeOK
<1>13. QED
  BY <1>2, <1>10, <1>11, <1>12 DEF RecordsInv

LEMMA UpdateStep ==
  ASSUME RecordsInv, NEW c \in Clients, NEW i \in Ids, NEW stamp \in Stamps,
         Live(i), Update(c, i, stamp)
  PROVE  RecordsInv'
<1>1. streams[i] # NoStream /\ streams[i] \in Row /\ stamp \in Times
  BY StampsType DEF Live, RecordsInv, TypeOK
<1>2. Written(i, stamp) \in Row /\ Written(i, stamp).updated = stamp
  BY <1>1 DEF Written, Row
<1>3. /\ streams' = [streams EXCEPT ![i] = Written(i, stamp)] /\ tied' = TiedBy(i, stamp)
      /\ view' = Outdated(i) \/ view' = [Outdated(i) EXCEPT ![c] = SeenAt(i, stamp)]
      /\ asked' \in [Clients -> SUBSET Ids]
  BY DEF Update, RecordsInv, TypeOK
<1>4. QED
  BY <1>1, <1>2, <1>3, WriteStep

LEMMA DeleteStep ==
  ASSUME RecordsInv, NEW i \in Ids, Delete(i)
  PROVE  RecordsInv'
<1> DEFINE r == [streams[i] EXCEPT !.live = FALSE]
<1>1. streams[i] \in Row /\ streams[i] # NoStream
  BY DEF Delete, Live, RecordsInv, TypeOK
<1>2. /\ r \in Row /\ r # NoStream /\ r.updated = streams[i].updated
      /\ r.byDatabase = streams[i].byDatabase
  BY <1>1, NullAssumption DEF Row
<1>3. streams' = [streams EXCEPT ![i] = r] /\ UNCHANGED <<view, asked, tied>>
  BY DEF Delete, RecordsInv, TypeOK
<1> HIDE DEF r
<1>4. TypeOK'
  BY <1>2, <1>3 DEF RecordsInv, TypeOK
<1>5. \A k \in Ids : WholeStamp(streams'[k])
  BY <1>1, <1>2, <1>3 DEF RecordsInv, TypeOK, WholeStamp
<1>6. ASSUME NEW d \in Clients, view[d] # NoView
      PROVE  Faithful(view[d], streams'[view[d].id], tied)
  <2>1. view[d] \in View /\ Faithful(view[d], streams[view[d].id], tied)
    BY <1>6 DEF RecordsInv, TypeOK
  <2>2. CASE view[d].id = i
    <3>1. streams'[i] = r
      BY <1>3 DEF RecordsInv, TypeOK
    <3>2. QED
      BY <1>2, <2>1, <2>2, <3>1 DEF Faithful
  <2>3. CASE view[d].id # i
    <3>1. streams'[view[d].id] = streams[view[d].id]
      BY <1>3, <2>1, <2>3 DEF RecordsInv, TypeOK, View
    <3>2. QED
      BY <2>1, <3>1
  <2>4. QED
    BY <2>2, <2>3
<1>7. QED
  BY <1>3, <1>4, <1>5, <1>6 DEF RecordsInv

LEMMA RestoreStep ==
  ASSUME RecordsInv, NEW c \in Clients, NEW i \in Ids, Restore(c, i)
  PROVE  RecordsInv'
<1>1. streams[i] # NoStream /\ streams[i] \in Row
  BY DEF Restore, RecordsInv, TypeOK
<1>2. PICK stamp \in Stamps :
        streams' = [streams EXCEPT ![i] = Restored(i, stamp)] /\ tied' = TiedBy(i, stamp)
  BY DEF Restore
<1>3. stamp \in Times
  BY StampsType
<1>4. Restored(i, stamp) \in Row /\ Restored(i, stamp).updated = stamp
  BY <1>1, <1>3 DEF Restored, Written, Row
<1>5. view' = Outdated(i) /\ asked' \in [Clients -> SUBSET Ids]
  BY DEF Restore, RecordsInv, TypeOK
<1>6. QED
  BY <1>1, <1>2, <1>4, <1>5, WriteStep

LEMMA RereadStep ==
  ASSUME RecordsInv, NEW c \in Clients, Reread(c)
  PROVE  RecordsInv'
<1>1. asked' \in [Clients -> SUBSET Ids] /\ UNCHANGED <<streams, tied>>
  BY DEF Reread, Nothing, RecordsInv, TypeOK
<1>2. CASE UNCHANGED view
  BY <1>1, <1>2 DEF RecordsInv, TypeOK
<1>3. ASSUME NEW i \in asked[c], Live(i),
             view' = [view EXCEPT ![c] = SeenAt(i, Ms(streams[i].updated))]
      PROVE  RecordsInv'
  <2>1. i \in Ids /\ streams[i] # NoStream
    BY <1>3 DEF Live, RecordsInv, TypeOK
  <2>2. QED
    BY <1>1, <1>3, <2>1, SeenStep
<1>4. QED
  BY <1>2, <1>3 DEF Reread

LEMMA StepRecordsInv == RecordsInv /\ [Next]_vars => RecordsInv'
<1> SUFFICES ASSUME RecordsInv, [Next]_vars PROVE RecordsInv'
  OBVIOUS
<1>1. CASE UNCHANGED vars
  BY <1>1 DEF vars, RecordsInv, TypeOK
<1>2. ASSUME NEW c \in Clients, NEW i \in Ids, Get(c, i)
      PROVE  RecordsInv'
  <2>1. asked' \in [Clients -> SUBSET Ids]
    BY <1>2 DEF Get, RecordsInv, TypeOK
  <2>2. QED
    BY <1>2, <2>1, SeenStep DEF Get
<1>3. ASSUME NEW c \in Clients, NEW i \in Ids, Patch(c, i)
      PROVE  RecordsInv'
  BY <1>3, UpdateStep DEF Patch
<1>4. ASSUME NEW c \in Clients, PatchSeen(c)
      PROVE  RecordsInv'
  <2>1. view[c].id \in Ids
    BY <1>4 DEF PatchSeen, RecordsInv, TypeOK, View
  <2>2. QED
    BY <1>4, <2>1, UpdateStep DEF PatchSeen
<1>5. QED
  BY <1>1, <1>2, <1>3, <1>4, CreateStep, RestoreStep, RereadStep, DeleteStep DEF Next

LEMMA RecordsInductive == Spec => []RecordsInv
BY InitRecordsInv, StepRecordsInv, PTL DEF Spec

-----------------------------------------------------------------------------
(* StreamRecords: theorems                                                 *)

\* The table and the views of clients keep their types, for any clients, streams and
\* precision of a Date.
THEOREM RecordsTypeCorrect == Spec => []TypeOK
<1>1. RecordsInv => TypeOK
  BY DEF RecordsInv
<1>2. QED
  BY <1>1, RecordsInductive, PTL

\* No lost update: a PATCH under the updatedAt of a stream that has been written since
\* matches no row, unless two writes of the stream were not stamped in their order.
THEOREM StaleUpdatesAreRefused == Spec => []StaleIsRefused
<1>1. RecordsInv => StaleIsRefused
  <2>1. SUFFICES ASSUME RecordsInv, NEW c \in Clients, view[c] # NoView, view[c].stale,
                        view[c].id \notin tied, Unmodified(view[c])
                 PROVE  FALSE
    BY DEF StaleIsRefused
  <2>2. view[c].stamp < streams[view[c].id].updated
    BY <2>1 DEF RecordsInv, Faithful
  <2>3. view[c].stamp \in Nat
    BY <2>1, ClockAssumption DEF RecordsInv, TypeOK, View, Times
  <2>4. QED
    BY <2>1, <2>2, <2>3 DEF Unmodified
<1>2. QED
  BY <1>1, RecordsInductive, PTL

\* A PATCH under the updatedAt of a stream that nobody has written since matches, unless
\* the stream has the stamp of its creation.
THEOREM CurrentUpdatesAreAccepted == Spec => []CurrentIsAccepted
<1>1. RecordsInv => CurrentIsAccepted
  <2>1. SUFFICES ASSUME RecordsInv, NEW c \in Clients, view[c] # NoView, ~view[c].stale,
                        ~streams[view[c].id].byDatabase
                 PROVE  Unmodified(view[c])
    BY DEF CurrentIsAccepted
  <2>2. view[c].id \in Ids /\ Faithful(view[c], streams[view[c].id], tied)
    BY <2>1 DEF RecordsInv, TypeOK, View
  <2>3. WholeStamp(streams[view[c].id])
    BY <2>1, <2>2 DEF RecordsInv
  <2>4. QED
    BY <2>1, <2>2, <2>3 DEF Faithful, WholeStamp, Unmodified
<1>2. QED
  BY <1>1, RecordsInductive, PTL

\* The stamp that the database gives a row has more digits than a Date: until the first
\* write of the application no updatedAt that a client was answered matches the row, so
\* every conditional PATCH of it is refused.
THEOREM FreshStreamsAreRefused ==
  Spec => [](\A c \in Clients :
               /\ view[c] # NoView /\ ~view[c].stale
               /\ Ms(streams[view[c].id].updated) # streams[view[c].id].updated
               => ~Unmodified(view[c]))
<1>1. RecordsInv =>
        \A c \in Clients :
          /\ view[c] # NoView /\ ~view[c].stale
          /\ Ms(streams[view[c].id].updated) # streams[view[c].id].updated
          => ~Unmodified(view[c])
  BY DEF RecordsInv, Faithful, Unmodified
<1>2. QED
  BY <1>1, RecordsInductive, PTL

-----------------------------------------------------------------------------
(* StreamExport: the invariant                                             *)

\* What the export has not written yet is beyond its cursor.
NothingPassedOver == at = "reading" => \A i \in present \ out : Beyond(i, cursor)

\* What it has written is not beyond the millisecond of its cursor.
WrittenIsBehind ==
  at = "reading" =>
    /\ cursor = NoCursor => out = {}
    /\ cursor # NoCursor =>
         /\ Ms(cursor.created) = cursor.created
         /\ \A i \in out : Ms(created[i]) <= cursor.created

ExportInv ==
  /\ ExportTypeOK
  /\ out \subseteq known
  /\ NothingPassedOver
  /\ WrittenIsBehind
  /\ ExportIsComplete

-----------------------------------------------------------------------------
(* StreamExport: pages                                                     *)

\* The rows of a page come before the rows that it leaves.
LEMMA PageIsFirst ==
  ASSUME created \in [Ids -> Times], NEW S \in SUBSET Ids,
         NEW i \in FirstRows(S), NEW j \in S \ FirstRows(S)
  PROVE  Before(i, j)
<1>1. i \in Ids /\ j \in Ids /\ i \in S /\ j \in S /\ i # j
  BY DEF FirstRows
<1>2. SUFFICES ASSUME Before(j, i) PROVE FALSE
  BY <1>1, IdsAssumption, ClockAssumption DEF Before, Times
<1>3. Ahead(S, j) \subseteq Ahead(S, i)
  <2>1. SUFFICES ASSUME NEW k \in Ahead(S, j) PROVE Before(k, i)
    BY DEF Ahead
  <2>2. Before(k, j) /\ k \in Ids
    BY DEF Ahead
  <2>3. k \in Nat /\ j \in Nat /\ i \in Nat
    BY <1>1, <2>2, IdsAssumption
  <2>4. created[k] \in Nat /\ created[j] \in Nat /\ created[i] \in Nat
    BY <1>1, <2>2 DEF Times
  <2>5. QED
    BY <1>2, <2>2, <2>3, <2>4 DEF Before
<1>4. IsFiniteSet(Ahead(S, i))
  BY IdsAssumption, FS_Subset DEF Ahead
<1>5. Cardinality(Ahead(S, j)) <= Cardinality(Ahead(S, i))
  BY <1>3, <1>4, FS_Subset
<1>6. Cardinality(Ahead(S, i)) < BatchSize /\ ~(Cardinality(Ahead(S, j)) < BatchSize)
  BY <1>1 DEF FirstRows
<1>7. Cardinality(Ahead(S, i)) \in Nat /\ Cardinality(Ahead(S, j)) \in Nat
  BY <1>3, <1>4, FS_Subset, FS_CardinalityType
<1>8. QED
  BY <1>5, <1>6, <1>7, BatchAssumption

-----------------------------------------------------------------------------
(* StreamExport: the invariant is inductive                                *)

LEMMA InitExportInv == ExportInit => ExportInv
<1> SUFFICES ASSUME ExportInit PROVE ExportInv
  OBVIOUS
<1>1. ExportTypeOK
  BY ClockAssumption DEF ExportInit, ExportTypeOK, Times
<1>2. QED
  BY <1>1 DEF ExportInit, ExportInv, NothingPassedOver, WrittenIsBehind, ExportIsComplete

\* A new row is not one that the export has to write or has written.
LEMMA CreateRowStep ==
  ASSUME ExportInv, NEW i \in Ids, CreateRow(i)
  PROVE  ExportInv'
<1>1. PICK now \in Times : created' = [created EXCEPT ![i] = now]
  BY DEF CreateRow
<1>2. /\ i \notin known /\ live' = live \cup {i} /\ known' = known \cup {i}
      /\ UNCHANGED <<at, cursor, out, present>>
  BY DEF CreateRow, export
<1>3. ExportTypeOK'
  BY <1>1, <1>2 DEF ExportInv, ExportTypeOK
<1>4. \A k \in out \cup present : created'[k] = created[k]
  BY <1>1, <1>2 DEF ExportInv, ExportTypeOK
<1>5. NothingPassedOver'
  BY <1>2, <1>4 DEF ExportInv, NothingPassedOver, Beyond
<1>6. WrittenIsBehind'
  BY <1>2, <1>4 DEF ExportInv, WrittenIsBehind, Ms
<1>7. QED
  BY <1>2, <1>3, <1>5, <1>6 DEF ExportInv, ExportIsComplete

LEMMA DeleteRowStep ==
  ASSUME ExportInv, NEW i \in Ids, DeleteRow(i)
  PROVE  ExportInv'
<1>1. /\ live' = live \ {i} /\ present' = present \ {i}
      /\ UNCHANGED <<created, known, at, cursor, out>>
  BY DEF DeleteRow
<1>2. QED
  BY <1>1 DEF ExportInv, ExportTypeOK, NothingPassedOver, WrittenIsBehind, ExportIsComplete, Beyond, Ms

LEMMA RestoreRowStep ==
  ASSUME ExportInv, NEW i \in Ids, RestoreRow(i)
  PROVE  ExportInv'
<1>1. i \in known /\ live' = live \cup {i} /\ UNCHANGED <<created, known, at, cursor, out, present>>
  BY DEF RestoreRow, export
<1>2. QED
  BY <1>1 DEF ExportInv, ExportTypeOK, NothingPassedOver, WrittenIsBehind, ExportIsComplete, Beyond, Ms

LEMMA StartStep ==
  ASSUME ExportInv, StartExport
  PROVE  ExportInv'
<1>1. /\ at' = "reading" /\ cursor' = NoCursor /\ out' = {} /\ present' = live
      /\ UNCHANGED <<created, live, known>>
  BY DEF StartExport, table
<1>2. QED
  BY <1>1 DEF ExportInv, ExportTypeOK, NothingPassedOver, WrittenIsBehind, ExportIsComplete, Beyond

LEMMA PageFailsStep ==
  ASSUME ExportInv, PageFails
  PROVE  ExportInv'
BY DEF PageFails, table, ExportInv, ExportTypeOK, NothingPassedOver, WrittenIsBehind, ExportIsComplete

\* The last page has what was left; another page leaves what comes after its last row,
\* and the cursor, which is rounded down, does not pass over it.
LEMMA PageStep ==
  ASSUME ExportInv, Page
  PROVE  ExportInv'
<1> DEFINE S == Remaining
           rows == FirstRows(S)
<1>1. /\ at = "reading" /\ out' = out \cup rows
      /\ UNCHANGED <<created, live, known, present>>
  BY DEF Page, table
<1>2. S \in SUBSET Ids /\ rows \subseteq S /\ S \subseteq live
  BY DEF Remaining, FirstRows, ExportInv, ExportTypeOK
<1>3. \A i \in present \ out : i \in S
  BY <1>1 DEF ExportInv, ExportTypeOK, NothingPassedOver, Remaining
<1>4. out' \subseteq known' /\ out' \subseteq Ids
  BY <1>1, <1>2 DEF ExportInv, ExportTypeOK
<1>5. CASE rows = S
  <2>1. at' = "done" /\ cursor' = cursor
    BY <1>5 DEF Page
  <2>2. present' \subseteq out'
    BY <1>1, <1>3, <1>5
  <2>3. ExportTypeOK'
    BY <1>1, <1>4, <2>1 DEF ExportInv, ExportTypeOK
  <2>4. QED
    BY <1>4, <2>1, <2>2, <2>3 DEF ExportInv, NothingPassedOver, WrittenIsBehind, ExportIsComplete
<1>6. CASE rows # S
  <2>1. at' = at /\ cursor' \in CursorBehind(rows)
    BY <1>6 DEF Page
  <2>2. PICK k \in rows : rows \ {k} \subseteq Ahead(rows, k) /\ cursor' = CursorAt(k)
    BY <2>1 DEF CursorBehind
  <2>3. k \in Ids /\ k \in S /\ created[k] \in Times
    BY <1>2, <2>2 DEF ExportInv, ExportTypeOK
  <2>4. Ms(created[k]) \in Times /\ Ms(created[k]) <= created[k]
    BY <2>3, MsType
  <2>5. /\ cursor' \in Cursor /\ cursor' # NoCursor
        /\ cursor'.created = Ms(created[k]) /\ cursor'.id = k
    BY <2>2, <2>3, <2>4, NoCursorAssumption DEF CursorAt, Cursor
  <2>6. ExportTypeOK'
    BY <1>1, <1>4, <2>1, <2>5 DEF ExportInv, ExportTypeOK
  <2>7. \A i \in present' \ out' : Beyond(i, cursor)'
    <3>1. SUFFICES ASSUME NEW i \in present \ out, i \notin rows
                   PROVE  Beyond(i, cursor)'
      BY <1>1
    <3>2. i \in S \ rows /\ i \in Ids /\ created[i] \in Times
      BY <1>2, <1>3, <3>1 DEF ExportInv, ExportTypeOK
    <3>3. Before(k, i)
      BY <1>2, <2>2, <3>2, PageIsFirst DEF ExportInv, ExportTypeOK
    <3>4. created[i] > Ms(created[k]) \/ (created[i] = Ms(created[k]) /\ i > k)
      BY <2>3, <2>4, <3>2, <3>3, IdsAssumption, ClockAssumption DEF Before, Times
    <3>5. QED
      BY <1>1, <2>5, <3>4 DEF Beyond
  <2>8. \A i \in out' : Ms(created[i]) <= Ms(created[k])
    <3>1. CASE cursor = NoCursor
      <4>1. out' = rows
        BY <1>1, <3>1 DEF ExportInv, WrittenIsBehind
      <4>2. ASSUME NEW i \in rows PROVE Ms(created[i]) <= Ms(created[k])
        <5>1. i = k \/ Before(i, k)
          BY <2>2 DEF Ahead
        <5>2. created[i] \in Times /\ created[i] <= created[k]
          BY <1>2, <2>3, <5>1, ClockAssumption DEF Before, Times, ExportInv, ExportTypeOK
        <5>3. QED
          BY <2>3, <5>2, MsMonotone
      <4>3. QED
        BY <4>1, <4>2
    <3>2. CASE cursor # NoCursor
      <4>1. ASSUME NEW i \in rows PROVE Ms(created[i]) <= Ms(created[k])
        <5>1. i = k \/ Before(i, k)
          BY <2>2 DEF Ahead
        <5>2. created[i] \in Times /\ created[i] <= created[k]
          BY <1>2, <2>3, <5>1, ClockAssumption DEF Before, Times, ExportInv, ExportTypeOK
        <5>3. QED
          BY <2>3, <5>2, MsMonotone
      <4>2. cursor.created \in Times /\ Ms(cursor.created) = cursor.created
        BY <1>1, <3>2 DEF ExportInv, ExportTypeOK, WrittenIsBehind, Cursor
      <4>3. cursor.created <= created[k]
        BY <2>3, <3>2, <4>2, ClockAssumption DEF Remaining, Beyond, Times
      <4>4. cursor.created <= Ms(created[k])
        BY <2>3, <4>2, <4>3, MsMonotone
      <4>5. ASSUME NEW i \in out PROVE Ms(created[i]) <= Ms(created[k])
        <5>1. created[i] \in Times /\ Ms(created[i]) <= cursor.created
          BY <1>1, <3>2 DEF ExportInv, ExportTypeOK, WrittenIsBehind
        <5>2. Ms(created[i]) \in Times
          BY <5>1, MsType
        <5>3. QED
          BY <2>4, <4>2, <4>4, <5>1, <5>2, ClockAssumption DEF Times
      <4>6. QED
        BY <1>1, <4>1, <4>5
    <3>3. QED
      BY <3>1, <3>2
  <2>9. Ms(Ms(created[k])) = Ms(created[k])
    BY <2>3, MsIdempotent
  <2>10. WrittenIsBehind'
    BY <1>1, <2>5, <2>8, <2>9 DEF WrittenIsBehind, Ms
  <2>11. NothingPassedOver' /\ ExportIsComplete'
    BY <1>1, <2>1, <2>7 DEF NothingPassedOver, ExportIsComplete
  <2>12. QED
    BY <1>4, <2>6, <2>10, <2>11 DEF ExportInv
<1>7. QED
  BY <1>5, <1>6

LEMMA StepExportInv == ExportInv /\ [ExportNext]_exportVars => ExportInv'
<1> SUFFICES ASSUME ExportInv, [ExportNext]_exportVars PROVE ExportInv'
  OBVIOUS
<1>1. CASE UNCHANGED exportVars
  BY <1>1 DEF exportVars, ExportInv, ExportTypeOK, NothingPassedOver, WrittenIsBehind, ExportIsComplete, Beyond, Ms
<1>2. QED
  BY <1>1, CreateRowStep, DeleteRowStep, RestoreRowStep, StartStep, PageStep, PageFailsStep DEF ExportNext

LEMMA ExportInductive == ExportSpec => []ExportInv
BY InitExportInv, StepExportInv, PTL DEF ExportSpec

-----------------------------------------------------------------------------
(* StreamExport: theorems                                                  *)

\* The table and the export keep their types, for any finite set of streams, page size
\* and precision of a Date.
THEOREM ExportTypeCorrect == ExportSpec => []ExportTypeOK
<1>1. ExportInv => ExportTypeOK
  BY DEF ExportInv
<1>2. QED
  BY <1>1, ExportInductive, PTL

\* An export that ends has every row that was live from its start on, whatever is
\* inserted, deleted and restored between its pages.
THEOREM ExportsAreComplete == ExportSpec => []ExportIsComplete
<1>1. ExportInv => ExportIsComplete
  BY DEF ExportInv
<1>2. QED
  BY <1>1, ExportInductive, PTL

\* A row is read again only if it was created in the millisecond of the cursor.
THEOREM RepeatsAreInTheMillisecond == ExportSpec => []RepeatsShareTheMillisecond
<1>1. ExportInv => RepeatsShareTheMillisecond
  <2>1. SUFFICES ASSUME ExportInv, at = "reading", cursor # NoCursor, NEW i \in out \cap Remaining
                 PROVE  Ms(created[i]) = cursor.created
    BY DEF RepeatsShareTheMillisecond
  <2>2. created[i] \in Times /\ cursor.created \in Times
    BY <2>1 DEF ExportInv, ExportTypeOK, Cursor
  <2>3. Ms(created[i]) <= cursor.created /\ Ms(cursor.created) = cursor.created
    BY <2>1 DEF ExportInv, WrittenIsBehind
  <2>4. cursor.created <= created[i]
    BY <2>1, <2>2, ClockAssumption DEF Remaining, Beyond, Times
  <2>5. cursor.created <= Ms(created[i])
    BY <2>2, <2>3, <2>4, MsMonotone
  <2>6. Ms(created[i]) \in Times
    BY <2>2, MsType
  <2>7. QED
    BY <2>2, <2>3, <2>5, <2>6, ClockAssumption DEF Times
<1>2. QED
  BY <1>1, ExportInductive, PTL

-----------------------------------------------------------------------------
(* StreamExport: progress of the cursor                                    *)

LEMMA SmallestExists ==
  ASSUME NEW S \in SUBSET Nat, S # {}
  PROVE  \E m \in S : \A k \in S : m <= k
<1> DEFINE Less == OpToRel(<, Nat)
<1>1. IsWellFoundedOn(Less, Nat)
  BY NatLessThanWellFounded
<1>2. PICK m \in S : \A k \in S : ~ (<<k, m>> \in Less)
  <2> HIDE DEF Less
  <2>1. QED
    BY <1>1, WFMin
<1>3. \A k, n \in Nat : k < n => <<k, n>> \in Less
  BY DEF OpToRel
<1> HIDE DEF Less
<1>4. ASSUME NEW k \in S PROVE m <= k
  <2>1. k \in Nat /\ m \in Nat
    OBVIOUS
  <2>2. ~ (k < m)
    BY <1>2, <1>3, <2>1
  <2>3. QED
    BY <2>1, <2>2
<1>5. QED
  BY <1>4

\* A page that leaves rows is full.
LEMMA FullPage ==
  ASSUME created \in [Ids -> Times], NEW S \in SUBSET Ids, FirstRows(S) # S
  PROVE  IsFiniteSet(FirstRows(S)) /\ Cardinality(FirstRows(S)) >= BatchSize
<1> DEFINE rows == FirstRows(S)
           Left == {Cardinality(Ahead(S, j)) : j \in S \ rows}
<1>1. rows \subseteq S /\ IsFiniteSet(S) /\ IsFiniteSet(rows)
  BY IdsAssumption, FS_Subset DEF FirstRows
<1>2. \A j \in S : IsFiniteSet(Ahead(S, j)) /\ Cardinality(Ahead(S, j)) \in Nat
  BY <1>1, FS_Subset, FS_CardinalityType DEF Ahead
<1>3. Left \in SUBSET Nat /\ Left # {}
  BY <1>1, <1>2
<1>4. PICK j \in S \ rows :
        \A k \in S \ rows : Cardinality(Ahead(S, j)) <= Cardinality(Ahead(S, k))
  <2>1. PICK m \in Left : \A n \in Left : m <= n
    <3> HIDE DEF Left
    <3>1. QED
      BY <1>3, SmallestExists
  <2>2. QED
    BY <2>1
<1>5. Cardinality(Ahead(S, j)) >= BatchSize
  BY <1>2, BatchAssumption DEF FirstRows
<1>6. Ahead(S, j) \subseteq rows
  <2>1. SUFFICES ASSUME NEW i \in Ahead(S, j), i \notin rows PROVE FALSE
    OBVIOUS
  <2>2. i \in S /\ j \in S /\ Before(i, j)
    BY DEF Ahead
  <2>3. \A k \in Ahead(S, i) : k \in Ahead(S, j) /\ k # i
    <3>1. SUFFICES ASSUME NEW k \in Ahead(S, i) PROVE Before(k, j) /\ k # i
      BY DEF Ahead
    <3>2. Before(k, i) /\ k \in S
      BY DEF Ahead
    <3>3. k \in Nat /\ i \in Nat /\ j \in Nat
      BY <2>2, <3>2, IdsAssumption
    <3>4. created[k] \in Nat /\ created[i] \in Nat /\ created[j] \in Nat
      BY <2>2, <3>2 DEF Times
    <3>5. QED
      BY <2>2, <3>2, <3>3, <3>4 DEF Before
  <2>4. Ahead(S, i) \subseteq Ahead(S, j) /\ Ahead(S, i) # Ahead(S, j)
    BY <2>1, <2>3
  <2>5. Cardinality(Ahead(S, i)) < Cardinality(Ahead(S, j))
    BY <1>2, <2>2, <2>4, FS_Subset
  <2>6. Cardinality(Ahead(S, j)) <= Cardinality(Ahead(S, i))
    BY <1>4, <2>1, <2>2
  <2>7. QED
    BY <1>2, <2>2, <2>5, <2>6
<1>7. Cardinality(Ahead(S, j)) <= Cardinality(rows)
  BY <1>1, <1>6, FS_Subset
<1>8. Cardinality(rows) \in Nat /\ Cardinality(Ahead(S, j)) \in Nat
  BY <1>1, <1>2, FS_CardinalityType
<1>9. QED
  BY <1>1, <1>5, <1>7, <1>8, BatchAssumption

LEMMA PageMovesOn ==
  ASSUME ExportInv, Page
  PROVE  \/ at' = "done"
         \/ cursor' # NoCursor /\ (cursor = NoCursor \/ cursor'.created > cursor.created)
         \/ Crowded
<1> DEFINE S == Remaining
           rows == FirstRows(S)
<1>1. SUFFICES ASSUME at' # "done"
               PROVE  \/ /\ cursor' # NoCursor
                         /\ cursor = NoCursor \/ cursor'.created > cursor.created
                      \/ Crowded
  OBVIOUS
<1>2. rows # S /\ cursor' \in CursorBehind(rows) /\ at = "reading"
  BY <1>1 DEF Page
<1>3. S \in SUBSET Ids /\ rows \subseteq S /\ S \subseteq live /\ IsFiniteSet(live)
      /\ created \in [Ids -> Times]
  BY IdsAssumption, FS_Subset DEF Remaining, FirstRows, ExportInv, ExportTypeOK
<1>4. PICK k \in rows : rows \ {k} \subseteq Ahead(rows, k) /\ cursor' = CursorAt(k)
  BY <1>2 DEF CursorBehind
<1>5. k \in Ids /\ created[k] \in Times /\ Ms(created[k]) \in Times
  BY <1>3, <1>4, MsType
<1>6. cursor' \in Cursor /\ cursor' # NoCursor /\ cursor'.created = Ms(created[k])
  BY <1>4, <1>5, NoCursorAssumption DEF CursorAt, Cursor
<1>7. ASSUME cursor # NoCursor, ~(cursor'.created > cursor.created) PROVE Crowded
  <2> DEFINE t == cursor.created
             full == {i \in live : Ms(created[i]) = t}
  <2>1. t \in Times /\ Ms(t) = t /\ Ms(created[k]) <= t
    BY <1>1, <1>2, <1>5, <1>6, <1>7, ClockAssumption
    DEF ExportInv, ExportTypeOK, WrittenIsBehind, Cursor, Times
  <2>2. ASSUME NEW i \in rows PROVE Ms(created[i]) = t
    <3>1. created[i] \in Times /\ Ms(created[i]) \in Times /\ t <= created[i]
      <4>1. i \in S /\ created[i] \in Times
        BY <1>3
      <4>2. created[i] > t \/ created[i] = t
        BY <1>7, <4>1 DEF Remaining, Beyond
      <4>3. QED
        BY <2>1, <4>1, <4>2, MsType, ClockAssumption DEF Times
    <3>2. i = k \/ Before(i, k)
      BY <1>4 DEF Ahead
    <3>3. created[i] <= created[k]
      BY <1>5, <3>1, <3>2, ClockAssumption DEF Before, Times
    <3>4. t <= Ms(created[i]) /\ Ms(created[i]) <= Ms(created[k])
      BY <1>5, <2>1, <3>1, <3>3, MsMonotone
    <3>5. QED
      BY <1>5, <2>1, <3>1, <3>4, ClockAssumption DEF Times
  <2>3. rows \subseteq full /\ IsFiniteSet(full)
    BY <1>3, <2>2, FS_Subset
  <2>4. IsFiniteSet(rows) /\ Cardinality(rows) >= BatchSize
    BY <1>2, <1>3, FullPage
  <2>5. Cardinality(rows) <= Cardinality(full) /\ Cardinality(rows) \in Nat
        /\ Cardinality(full) \in Nat
    BY <2>3, <2>4, FS_Subset, FS_CardinalityType
  <2>6. Cardinality(full) >= BatchSize
    BY <2>4, <2>5, BatchAssumption
  <2>7. QED
    BY <2>1, <2>6 DEF Crowded
<1>8. QED
  BY <1>6, <1>7

\* Why an export ends: a page that is not the last takes the cursor into a later
\* millisecond, unless some millisecond has as many rows as a page.
THEOREM PagesMoveOn ==
  ExportSpec =>
    [][Page => \/ at' = "done"
               \/ cursor' # NoCursor /\ (cursor = NoCursor \/ cursor'.created > cursor.created)
               \/ Crowded]_exportVars
<1>1. ExportInv /\ [ExportNext]_exportVars =>
        [Page => \/ at' = "done"
                 \/ cursor' # NoCursor /\ (cursor = NoCursor \/ cursor'.created > cursor.created)
                 \/ Crowded]_exportVars
  BY PageMovesOn
<1>2. QED
  BY <1>1, ExportInductive, PTL DEF ExportSpec
=============================================================================
