---------------------------- MODULE StreamExport ----------------------------
(***************************************************************************)
(* GET export.csv: the live rows of the streams table in the order of      *)
(* (created_at, id), read page by page while rows come and go.  The cursor *)
(* between two pages has passed through a Date; created_at is the          *)
(* database's now() of a transaction that may commit after later ones.     *)
(***************************************************************************)
EXTENDS StreamTimes, FiniteSets

CONSTANTS
  BatchSize,     \* rows of a page
  NoCursor

\* Ids have an order; a new row may have any of them.
ASSUME IdsAssumption == Ids \subseteq Nat /\ IsFiniteSet(Ids)
ASSUME BatchAssumption == BatchSize \in Nat \ {0}

VARIABLES
  created,       \* created[i]: created_at of stream i
  live,          \* rows that are not deleted
  known,         \* rows that exist
  at,            \* where the export is
  cursor,        \* where its next page begins
  out,           \* rows it has written
  \* History, read by properties only:
  present        \* rows that were live from the start of the export on

exportVars == <<created, live, known, at, cursor, out, present>>
table == <<created, live, known>>
export == <<at, cursor, out, present>>

Cursor == [created : Times, id : Ids]

ASSUME NoCursorAssumption == NoCursor \notin Cursor

ExportInit ==
  /\ created = [i \in Ids |-> 0]
  /\ live = {}
  /\ known = {}
  /\ at = "none"
  /\ cursor = NoCursor
  /\ out = {}
  /\ present = {}

-----------------------------------------------------------------------------
(* The table                                                               *)

CreateRow(i) ==
  /\ i \notin known
  /\ \E now \in Times : created' = [created EXCEPT ![i] = now]
  /\ live' = live \cup {i}
  /\ known' = known \cup {i}
  /\ UNCHANGED export

DeleteRow(i) ==
  /\ i \in live
  /\ live' = live \ {i}
  /\ present' = present \ {i}
  /\ UNCHANGED <<created, known, at, cursor, out>>

RestoreRow(i) ==
  /\ i \in known \ live
  /\ live' = live \cup {i}
  /\ UNCHANGED <<created, known, export>>

-----------------------------------------------------------------------------
(* The pages                                                               *)

Before(i, j) == created[i] < created[j] \/ (created[i] = created[j] /\ i < j)

BeyondInstant(i, c) == c = NoCursor \/ created[i] > c.created
Beyond(i, c) ==
  \/ c = NoCursor
  \/ created[i] > c.created
  \/ created[i] = c.created /\ i > c.id

Remaining == {i \in live : Beyond(i, cursor)}
Ahead(S, i) == {j \in S : Before(j, i)}

\* ORDER BY created_at, id, and LIMIT.
FirstRows(S) == {i \in S : Cardinality(Ahead(S, i)) < BatchSize}

\* The cursor after a page.
CursorAt(i) == [created |-> Ms(created[i]), id |-> i]
CursorForgotten(S) == {NoCursor}
CursorAtFirst(S) == {CursorAt(i) : i \in {k \in S : Ahead(S, k) = {}}}
CursorBehind(S) == {CursorAt(i) : i \in {k \in S : S \ {k} \subseteq Ahead(S, k)}}

StartExport ==
  /\ at # "reading"
  /\ at' = "reading"
  /\ cursor' = NoCursor
  /\ out' = {}
  /\ present' = live
  /\ UNCHANGED table

\* The rows of a page are written before the next is read; a page that is short
\* of a row beyond it is the last.
Page ==
  /\ at = "reading"
  /\ LET rows == FirstRows(Remaining)
     IN /\ out' = out \cup rows
        /\ IF rows = Remaining
           THEN at' = "done" /\ UNCHANGED cursor
           ELSE cursor' \in CursorBehind(rows) /\ UNCHANGED at
  /\ UNCHANGED <<table, present>>

\* A page throws: the response just ends.
PageFails ==
  /\ at = "reading"
  /\ at' = "failed"
  /\ UNCHANGED <<table, cursor, out, present>>

ExportNext ==
  \/ \E i \in Ids : CreateRow(i) \/ DeleteRow(i) \/ RestoreRow(i)
  \/ StartExport \/ Page \/ PageFails

ExportSpec == ExportInit /\ [][ExportNext]_exportVars

\* The queries of an export end.
FairExportSpec == ExportSpec /\ WF_exportVars(Page)

-----------------------------------------------------------------------------
(* Properties                                                              *)

\* The variables keep their types.
ExportTypeOK ==
  /\ created \in [Ids -> Times]
  /\ live \subseteq known /\ known \subseteq Ids
  /\ at \in {"none", "reading", "done", "failed"}
  /\ cursor \in Cursor \cup {NoCursor}
  /\ out \subseteq Ids /\ present \subseteq live

\* An export that has ended has every row that was there all along, although rows
\* are inserted, deleted and restored between its pages.
ExportIsComplete == at = "done" => present \subseteq out

\* "Exclusive cursor" of findForExport: a row that was written is read again only if
\* it was created in the millisecond of the cursor.
RepeatsShareTheMillisecond ==
  at = "reading" /\ cursor # NoCursor =>
    \A i \in out \cap Remaining : Ms(created[i]) = cursor.created

\* Some millisecond has as many rows as a page.
Crowded == \E t \in Times : Cardinality({i \in live : Ms(created[i]) = t}) >= BatchSize

\* An export ends, unless it meets a millisecond with as many rows as a page.
ExportEnds == []<>Crowded \/ (at = "reading" ~> at # "reading")
=============================================================================
