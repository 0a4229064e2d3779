--------------------------- MODULE StreamRecords ---------------------------
(***************************************************************************)
(* The streams table under the handlers of api/v1/streams.ts: create, read,*)
(* PATCH with optimistic locking on updated_at, soft delete and restore.   *)
(*                                                                         *)
(* Two clocks stamp a row: the column's default is the database's now(), a *)
(* write of the application takes new Date().  A stamp is taken before its *)
(* statement waits for a connection and for the row, and on any of several *)
(* hosts, so stamps may take effect in any order.                          *)
(***************************************************************************)
EXTENDS StreamTimes

CONSTANTS
  Clients,
  NoStream,      \* no such row
  NoView         \* the client has not seen a stream

VARIABLES
  streams,       \* the table
  view,          \* view[c]: the stream that c was answered last
  asked,         \* asked[c]: the PATCH or restore of c that has a read to follow
  \* History, read by properties only:
  tied           \* streams with a write that was stamped no later than the one before

vars == <<streams, view, asked, tied>>

Row == [updated : Times, byDatabase : BOOLEAN, live : BOOLEAN]

\* "stale" is history: the stream has been written since.
View == [id : Ids, stamp : Times, stale : BOOLEAN]

\* "byDatabase" is history too: the row has its default stamp still.
ASSUME NullAssumption == NoStream \notin Row /\ NoView \notin View

Nothing == {}

Init ==
  /\ streams = [i \in Ids |-> NoStream]
  /\ view = [c \in Clients |-> NoView]
  /\ asked = [c \in Clients |-> Nothing]
  /\ tied = {}

-----------------------------------------------------------------------------
(* Rows and what clients see of them                                       *)

Live(i) == streams[i] # NoStream /\ streams[i].live

StampsInTicks == Times
Stamps == {t \in Times : t % PerMs = 0}

SeenAt(i, stamp) == [id |-> i, stamp |-> stamp, stale |-> FALSE]

\* Stream i has been written: what clients know of it is out of date.
Outdated(i) ==
  [c \in Clients |-> IF view[c] # NoView /\ view[c].id = i
                     THEN [view[c] EXCEPT !.stale = TRUE] ELSE view[c]]

TiedBy(i, stamp) == IF stamp <= streams[i].updated THEN tied \cup {i} ELSE tied

\* The WHERE of updateById under the updatedAt of the client's view.
Unmodified(v) == streams[v.id].updated = v.stamp

Written(i, stamp) == [streams[i] EXCEPT !.updated = stamp, !.byDatabase = FALSE]
RestoredQuietly(i, stamp) == [streams[i] EXCEPT !.live = TRUE]
Restored(i, stamp) == [Written(i, stamp) EXCEPT !.live = TRUE]

-----------------------------------------------------------------------------
(* Requests                                                                *)

Idle(c) == asked[c] = Nothing

\* POST.  An answer may be lost, here as in the other requests.
Create(c, i) ==
  /\ Idle(c)
  /\ streams[i] = NoStream
  /\ \E now \in Times :
       /\ streams' = [streams EXCEPT ![i] = [updated |-> now, byDatabase |-> TRUE, live |-> TRUE]]
       /\ \/ view' = [view EXCEPT ![c] = SeenAt(i, Ms(now))]
          \/ UNCHANGED view
  /\ UNCHANGED <<asked, tied>>

\* GET of a stream or of a list, deleted ones on request.
Get(c, i) ==
  /\ Idle(c)
  /\ streams[i] # NoStream
  /\ view' = [view EXCEPT ![c] = SeenAt(i, Ms(streams[i].updated))]
  /\ UNCHANGED <<streams, asked, tied>>

\* updateById; without a row it has matched, the request is a conflict.
Update(c, i, stamp) ==
  /\ streams' = [streams EXCEPT ![i] = Written(i, stamp)]
  /\ tied' = TiedBy(i, stamp)
  /\ \/ /\ view' = [Outdated(i) EXCEPT ![c] = SeenAt(i, stamp)]
        /\ asked' = [asked EXCEPT ![c] = {i}]
     \/ view' = Outdated(i) /\ UNCHANGED asked

\* PATCH without updatedAt.
Patch(c, i) ==
  /\ Idle(c)
  /\ Live(i)
  /\ \E stamp \in Stamps : Update(c, i, stamp)

\* PATCH with the updatedAt of the client's view.
PatchSeen(c) ==
  /\ Idle(c)
  /\ view[c] # NoView
  /\ Live(view[c].id)
  /\ Unmodified(view[c])
  /\ \E stamp \in Stamps : Update(c, view[c].id, stamp)

\* DELETE leaves updated_at alone.
Delete(i) ==
  /\ Live(i)
  /\ streams' = [streams EXCEPT ![i].live = FALSE]
  /\ UNCHANGED <<view, asked, tied>>

Restore(c, i) ==
  /\ Idle(c)
  /\ streams[i] # NoStream
  /\ ~streams[i].live
  /\ \E stamp \in Stamps :
       /\ streams' = [streams EXCEPT ![i] = Restored(i, stamp)]
       /\ tied' = TiedBy(i, stamp)
  /\ view' = Outdated(i)
  /\ asked' = [asked EXCEPT ![c] = {i}] \/ UNCHANGED asked

\* findById after a PATCH or a restore.  If the stream has been deleted in between,
\* PATCH answers with the row it wrote and restore with nothing.
Reread(c) ==
  /\ \E i \in asked[c] :
       \/ Live(i) /\ view' = [view EXCEPT ![c] = SeenAt(i, Ms(streams[i].updated))]
       \/ UNCHANGED view
  /\ asked' = [asked EXCEPT ![c] = Nothing]
  /\ UNCHANGED <<streams, tied>>

Next ==
  \/ \E c \in Clients, i \in Ids : Create(c, i) \/ Get(c, i) \/ Patch(c, i) \/ Restore(c, i)
  \/ \E c \in Clients : PatchSeen(c) \/ Reread(c)
  \/ \E i \in Ids : Delete(i)

Spec == Init /\ [][Next]_vars

-----------------------------------------------------------------------------
(* Properties                                                              *)

\* The variables keep their types.
TypeOK ==
  /\ streams \in [Ids -> Row \cup {NoStream}]
  /\ view \in [Clients -> View \cup {NoView}]
  /\ asked \in [Clients -> SUBSET Ids]
  /\ tied \subseteq Ids

\* No lost update: a PATCH with the updatedAt of a stream that has been written,
\* or deleted and restored, since the client saw it matches no row, as long as every
\* write is stamped later than the one before.  Two writes in a millisecond, and a
\* write that another one overtook, are ties.
StaleIsRefused ==
  \A c \in Clients :
    view[c] # NoView /\ view[c].stale /\ view[c].id \notin tied
      => ~Unmodified(view[c])

\* A PATCH with the updatedAt of a stream that nobody has written since matches,
\* once the stream has been written at all: until then it has a stamp that no Date
\* can hold.
CurrentIsAccepted ==
  \A c \in Clients :
    view[c] # NoView /\ ~view[c].stale => Unmodified(view[c]) \/ streams[view[c].id].byDatabase
=============================================================================
