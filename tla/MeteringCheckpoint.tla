------------------------- MODULE MeteringCheckpoint -------------------------
(***************************************************************************)
(* Metering events of the indexer webhook: the table                       *)
(* metering_event_checkpoints, the two stores behind apply and the calls   *)
(* of ingest that deliver an event.  In PostgreSQL apply is a transaction  *)
(* under an advisory lock derived from the stream id; its statements read  *)
(* what has committed when each of them starts.                            *)
(***************************************************************************)
EXTENDS Integers, FiniteSets

CONSTANTS
  Streams, Events, Callers,
  Stores,        \* the stores a process may be started with
  Hash,          \* hashtext: the advisory lock of a stream
  MaxSequence,   \* bound: the highest sequence delivered
  MaxGap,        \* MAX_METERING_GAP
  MaxFaults,     \* bound: database errors
  NoRow, NoCall

ASSUME StoresAssumption == Stores \subseteq {"postgres", "memory"}
ASSUME SequenceAssumption == MaxSequence \in Nat \ {0} /\ MaxGap \in Nat /\ MaxFaults \in Nat
ASSUME HashAssumption == DOMAIN Hash = Streams

VARIABLES
  store,         \* the store createDefaultMeteringCheckpointStore picked
  table,         \* the row of each event id, NoRow if there is none
  call,          \* call[c]: the event c delivered last
  step,          \* step[c]: the statement c is at, or the answer it was given
  faults

vars == <<store, table, call, step, faults>>

Row == [stream : Streams, sequence : 1..MaxSequence]

\* parseSequence lets positive integers through.
SequencesFromZero == 0..MaxSequence
Sequences == 1..MaxSequence
Call == [stream : Streams, event : Events, sequence : Sequences]

ASSUME NoRowAssumption == NoRow \notin Row
ASSUME NoCallAssumption == NoCall \notin Call

\* The four statements of the transaction; a caller in any other step is idle.
Running == {"locking", "finding", "measuring", "inserting"}
Answers == {"accepted", "duplicate", "late", "gap", "unavailable"}
Steps == Running \cup Answers \cup {"idle"}

Init ==
  /\ store \in Stores
  /\ table = [e \in Events |-> NoRow]
  /\ call = [c \in Callers |-> NoCall]
  /\ step = [c \in Callers |-> "idle"]
  /\ faults = 0

-----------------------------------------------------------------------------
(* The table                                                               *)

Recorded(s) == {table[e].sequence : e \in {d \in Events : table[d] # NoRow /\ table[d].stream = s}}

\* max(sequence), or 0 for a stream without rows.
Checkpoint(s) == CHOOSE n \in Recorded(s) \cup {0} : \A m \in Recorded(s) : m <= n

\* The primary key and the unique index of (stream_id, sequence).
VacantSequence(r) == r.sequence \notin Recorded(r.stream)
Vacant(r) == table[r.event] = NoRow /\ r.sequence \notin Recorded(r.stream)

\* The decision of apply on an event id it has not seen.
WindowDecision(r) ==
  LET expected == Checkpoint(r.stream) + 1 IN
  CASE r.sequence < expected -> "late"
    [] r.sequence > expected + MaxGap -> "gap_too_large"
    [] OTHER -> "next"
Decision(r) ==
  LET expected == Checkpoint(r.stream) + 1 IN
  CASE r.sequence < expected -> "late"
    [] r.sequence > expected + MaxGap -> "gap_too_large"
    [] r.sequence > expected /\ r.sequence <= expected + MaxGap -> "gap"
    [] OTHER -> "next"

\* ingest answers metering_gap to both kinds of gap.
AnswerTo(decision) == IF decision = "gap_too_large" THEN "gap" ELSE decision

WithRow(r) == [table EXCEPT ![r.event] = [stream |-> r.stream, sequence |-> r.sequence]]

\* The advisory lock is held from the first statement to the end.
Unlocked(c) == TRUE
EventLockFree(c) ==
  \A d \in Callers : step[d] \in Running \ {"locking"} => call[d].event # call[c].event
LockFree(c) ==
  \A d \in Callers : step[d] \in Running \ {"locking"} => Hash[call[d].stream] # Hash[call[c].stream]

-----------------------------------------------------------------------------
(* ingest and apply                                                        *)

GoTo(c, s) == step' = [step EXCEPT ![c] = s]

\* Any stream, event id and sequence may arrive, in any order, repeated or reused.
Deliver(c) ==
  /\ step[c] \notin Running
  /\ \E r \in Call : call' = [call EXCEPT ![c] = r]
  /\ GoTo(c, "locking")
  /\ UNCHANGED <<store, table, faults>>

Lock(c) ==
  /\ store = "postgres" /\ step[c] = "locking" /\ LockFree(c)
  /\ GoTo(c, "finding")
  /\ UNCHANGED <<store, table, call, faults>>

Find(c) ==
  /\ step[c] = "finding"
  /\ GoTo(c, IF table[call[c].event] # NoRow THEN "duplicate" ELSE "measuring")
  /\ UNCHANGED <<store, table, call, faults>>

Measure(c) ==
  /\ step[c] = "measuring"
  /\ GoTo(c, IF Decision(call[c]) = "next" THEN "inserting" ELSE AnswerTo(Decision(call[c])))
  /\ UNCHANGED <<store, table, call, faults>>

\* An insert that meets a row of the same event id or sequence waits for its
\* transaction and then fails: ingest answers idempotency_unavailable.
Insert(c) ==
  /\ step[c] = "inserting"
  /\ IF Vacant(call[c])
     THEN table' = WithRow(call[c]) /\ GoTo(c, "accepted")
     ELSE UNCHANGED table /\ GoTo(c, "unavailable")
  /\ UNCHANGED <<store, call, faults>>

\* The database fails: the transaction is rolled back, or its insert commits and
\* the reply is lost.
Fault(c) ==
  /\ store = "postgres" /\ step[c] \in Running
  /\ faults < MaxFaults
  /\ faults' = faults + 1
  /\ \/ UNCHANGED table
     \/ step[c] = "inserting" /\ Vacant(call[c]) /\ table' = WithRow(call[c])
  /\ GoTo(c, "unavailable")
  /\ UNCHANGED <<store, call>>

\* The in-memory store decides and records without an await.
Apply(c) ==
  /\ store = "memory" /\ step[c] = "locking"
  /\ LET r == call[c] IN
     CASE table[r.event] # NoRow -> UNCHANGED table /\ GoTo(c, "duplicate")
       [] table[r.event] = NoRow /\ Decision(r) = "next" ->
            table' = WithRow(r) /\ GoTo(c, "accepted")
       [] OTHER -> UNCHANGED table /\ GoTo(c, AnswerTo(Decision(r)))
  /\ UNCHANGED <<store, call, faults>>

Next ==
  \E c \in Callers :
    Deliver(c) \/ Lock(c) \/ Find(c) \/ Measure(c) \/ Insert(c) \/ Fault(c) \/ Apply(c)

Spec == Init /\ [][Next]_vars

-----------------------------------------------------------------------------
(* Properties                                                              *)

\* The variables keep their types; a caller that runs has an event to apply.
TypeOK ==
  /\ store \in Stores
  /\ table \in [Events -> Row \cup {NoRow}]
  /\ call \in [Callers -> [stream : Streams, event : Events, sequence : 1..MaxSequence] \cup {NoCall}]
  /\ step \in [Callers -> Steps]
  /\ \A c \in Callers : step[c] \in Running => call[c] # NoCall
  /\ faults \in 0..MaxFaults

\* README, Metering webhook ordering: only the next contiguous sequence of a
\* stream is accepted, whatever order, repetition or race the events arrive in.
Contiguous == \A s \in Streams : Recorded(s) = 1..Cardinality(Recorded(s))

\* README: "a repeated eventId is a harmless duplicate": the retry of an event
\* its stream has recorded is never turned down as late or as a gap, not even
\* when it races the first delivery.
RetryIsHarmless ==
  [][\A c \in Callers :
       step[c] \in Running /\ step'[c] \in {"late", "gap"} =>
         table[call[c].event] = NoRow \/ table[call[c].event].stream # call[c].stream]_vars

\* Without a database error apply throws only when the event id was recorded
\* for another stream: callers of one stream never collide in the insert.
CollisionsCrossStreams ==
  [][\A c \in Callers :
       step[c] \in Running /\ step'[c] = "unavailable" /\ UNCHANGED faults =>
         table[call[c].event] # NoRow /\ table[call[c].event].stream # call[c].stream]_vars

\* The table is an append-only log of distinct events per stream.
EventAt(s, n) == CHOOSE e \in Events : table[e] = [stream |-> s, sequence |-> n]
Ledger ==
  INSTANCE StreamLedger WITH log <- [s \in Streams |-> [n \in 1..Checkpoint(s) |-> EventAt(s, n)]]
ImplementsLedger == Ledger!Spec
=============================================================================
