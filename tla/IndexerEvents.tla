--------------------------- MODULE IndexerEvents ---------------------------
(***************************************************************************)
(* Replay protection of the indexer webhook: the table                     *)
(* processed_indexer_events, its two stores, and the calls of ingest that  *)
(* claim an event, complete it and answer.  Metering events take the other *)
(* branch of ingest: see MeteringCheckpoint.                               *)
(***************************************************************************)
EXTENDS Naturals

CONSTANTS
  Events,        \* event ids
  Fingerprints,  \* fingerprints of the payloads delivered
  Callers,       \* calls of ingest that may run at the same time
  Stores,        \* the stores a process may be started with
  Legacy,        \* ids recorded before the migration to fingerprints
  Sentinel,      \* the hash the migration gave them
  MaxFaults,     \* bound: database errors
  NoRow, NoCall

ASSUME StoresAssumption == Stores \subseteq {"postgres", "memory"}
ASSUME LegacyAssumption == Legacy \subseteq Events /\ Sentinel \notin Fingerprints
ASSUME FaultsAssumption == MaxFaults \in Nat

VARIABLES
  store,         \* the store createDefaultReplayStore picked
  table,         \* the row of each event id
  call,          \* call[c]: the event c delivered last
  step,          \* step[c]: the store call c awaits, or the answer it was given
  faults,
  \* History, read by properties only:
  accepted,      \* answers "accepted" given for the event, 0, 1 or 2
  acknowledged   \* fingerprints answered "accepted" or "duplicate"

vars == <<store, table, call, step, faults, accepted, acknowledged>>
history == <<accepted, acknowledged>>

Row == [hash : Fingerprints \cup {Sentinel}, status : {"processing", "completed", "failed"}]
Call == [event : Events, hash : Fingerprints]

ASSUME NoRowAssumption == NoRow \notin Row
ASSUME NoCallAssumption == NoCall \notin Call

\* Awaiting claim (its insert, then its select) and complete.
Running == {"claiming", "reading", "completing"}
Answers == {"accepted", "duplicate", "in_progress", "conflict", "unavailable"}

\* The migration left the rows of PostgreSQL completed under a sentinel hash.
Init ==
  /\ store \in Stores
  /\ table = [e \in Events |->
                IF store = "postgres" /\ e \in Legacy
                THEN [hash |-> Sentinel, status |-> "completed"] ELSE NoRow]
  /\ call = [c \in Callers |-> NoCall]
  /\ step = [c \in Callers |-> "idle"]
  /\ faults = 0
  /\ accepted = [e \in Events |-> 0]
  /\ acknowledged = [e \in Events |-> {}]

-----------------------------------------------------------------------------

GoTo(c, s) == step' = [step EXCEPT ![c] = s]

\* The answer to a claim that found a row, or "claimed".
DecisionByStatus(row, hash) ==
  CASE row.status = "completed" -> "duplicate"
    [] row.status = "processing" -> "in_progress"
    [] OTHER -> "claimed"
Decision(row, hash) ==
  CASE row.hash # hash -> "conflict"
    [] row.hash = hash /\ row.status = "completed" -> "duplicate"
    [] row.hash = hash /\ row.status = "processing" -> "in_progress"
    [] OTHER -> "claimed"

UncompletedClaim(decision) == decision
\* A claimed event is completed first, any other is answered at once.
AfterClaim(decision) == IF decision = "claimed" THEN "completing" ELSE decision

Acknowledge(r, answer) ==
  acknowledged' = IF answer \in {"accepted", "duplicate"}
                  THEN [acknowledged EXCEPT ![r.event] = @ \cup {r.hash}] ELSE acknowledged

Deliver(c) ==
  /\ step[c] \notin Running
  /\ \E r \in Call : call' = [call EXCEPT ![c] = r]
  /\ GoTo(c, "claiming")
  /\ UNCHANGED <<store, table, faults, history>>

\* The in-memory claim does not await: it finds a row or inserts one.
UnlockedRow(hash) == [hash |-> hash, status |-> "failed"]
ClaimedRow(hash) == [hash |-> hash, status |-> "processing"]
Claim(c) ==
  /\ store = "memory" /\ step[c] = "claiming"
  /\ LET r == call[c]
         decision == IF table[r.event] = NoRow THEN "claimed" ELSE Decision(table[r.event], r.hash)
     IN /\ table' = IF decision = "claimed" THEN [table EXCEPT ![r.event] = ClaimedRow(r.hash)] ELSE table
        /\ GoTo(c, AfterClaim(decision))
        /\ Acknowledge(r, decision)
  /\ UNCHANGED <<store, call, faults, accepted>>

\* INSERT ... ON CONFLICT DO NOTHING, a statement of its own.
ClaimInsert(c) ==
  /\ store = "postgres" /\ step[c] = "claiming"
  /\ LET r == call[c] IN
     table' = IF table[r.event] = NoRow
              THEN [table EXCEPT ![r.event] = ClaimedRow(r.hash)] ELSE table
  /\ GoTo(c, "reading")
  /\ UNCHANGED <<store, call, faults, history>>

\* The select then decides from the row, one it has just inserted included.
ClaimRead(c) ==
  /\ step[c] = "reading"
  /\ LET decision == Decision(table[call[c].event], call[c].hash) IN
     GoTo(c, AfterClaim(decision)) /\ Acknowledge(call[c], decision)
  /\ UNCHANGED <<store, table, call, faults, accepted>>

\* complete finds its row by event id.  Its catch is never reached: the in-memory
\* store does not throw, and PostgreSQL never answers "claimed".
Complete(c) ==
  /\ step[c] = "completing"
  /\ table' = [table EXCEPT ![call[c].event].status = "completed"]
  /\ accepted' = [accepted EXCEPT ![call[c].event] = IF @ < 2 THEN @ + 1 ELSE @]
  /\ Acknowledge(call[c], "accepted")
  /\ GoTo(c, "accepted")
  /\ UNCHANGED <<store, call, faults>>

\* A statement of claim fails, its insert committed or not.
Fault(c) ==
  /\ store = "postgres" /\ step[c] \in {"claiming", "reading"}
  /\ faults < MaxFaults
  /\ faults' = faults + 1
  /\ \/ UNCHANGED table
     \/ step[c] = "claiming" /\ table[call[c].event] = NoRow
        /\ table' = [table EXCEPT ![call[c].event] = ClaimedRow(call[c].hash)]
  /\ GoTo(c, "unavailable")
  /\ UNCHANGED <<store, call, history>>

Next ==
  \E c \in Callers :
    Deliver(c) \/ Claim(c) \/ ClaimInsert(c) \/ ClaimRead(c) \/ Complete(c) \/ Fault(c)

Spec == Init /\ [][Next]_vars

-----------------------------------------------------------------------------
(* Properties                                                              *)

\* The variables keep their types; a running call has an event.
TypeOK ==
  /\ store \in Stores
  /\ table \in [Events -> Row \cup {NoRow}]
  /\ call \in [Callers -> Call \cup {NoCall}]
  /\ step \in [Callers -> Running \cup Answers \cup {"idle"}]
  /\ \A c \in Callers : step[c] \in Running => call[c] # NoCall
  /\ faults \in 0..MaxFaults
  /\ accepted \in [Events -> 0..2]
  /\ acknowledged \in [Events -> SUBSET Fingerprints]

\* "claims a new immutable event exactly once": however deliveries of an event
\* race, at most one of them is answered accepted.
AcceptedOnce == \A e \in Events : accepted[e] < 2

\* An event id is bound to one payload: no other payload is ever acknowledged,
\* and a duplicate is acknowledged only after the event was accepted here.
BoundToOnePayload ==
  \A e \in Events :
    /\ \A f, g \in acknowledged[e] : f = g
    /\ acknowledged[e] # {} => accepted[e] = 1

\* settlement_in_progress says "Settlement for this event is already being
\* processed": another call is between its claim and its completion.
InProgressIsTrue ==
  [][\A c \in Callers :
       step[c] \in Running /\ step'[c] = "in_progress" =>
         \E d \in Callers \ {c} :
           step[d] \in {"reading", "completing"} /\ call[d].event = call[c].event]_vars
=============================================================================
