------------------------ MODULE IndexerEventsProofs ------------------------
(* Theorems of the replay protection, for any events, payloads and callers *)
(* and for both stores.                                                    *)
EXTENDS IndexerEvents, TLAPS

\* What a row says of the answers given so far.
RowSaysAnswers ==
  \A e \in Events :
    IF table[e] = NoRow THEN accepted[e] = 0 /\ acknowledged[e] = {}
    ELSE /\ table[e].status # "failed"
         /\ table[e].status = "processing" => accepted[e] = 0
         /\ table[e].hash = Sentinel => table[e].status = "completed" /\ accepted[e] = 0
         /\ table[e].status = "completed" /\ table[e].hash # Sentinel => accepted[e] = 1
         /\ acknowledged[e] \subseteq {table[e].hash}
         /\ accepted[e] = 0 => acknowledged[e] = {}

\* A call that has inserted or claimed a row finds it again, and has it alone
\* until it is completed.
ClaimsStand ==
  /\ \A c \in Callers : step[c] = "reading" => table[call[c].event] # NoRow
  /\ \A c \in Callers : step[c] = "completing" =>
       table[call[c].event] = [hash |-> call[c].hash, status |-> "processing"]
  /\ \A c, d \in Callers :
       c # d /\ step[c] = "completing" /\ step[d] = "completing" => call[c].event # call[d].event

IInv == TypeOK /\ RowSaysAnswers /\ ClaimsStand

LEMMA DecisionType ==
  ASSUME NEW row, NEW hash
  PROVE  /\ Decision(row, hash) \in {"conflict", "duplicate", "in_progress", "claimed"}
         /\ row.status \in {"processing", "completed"} => Decision(row, hash) # "claimed"
         /\ Decision(row, hash) = "duplicate" => row.hash = hash /\ row.status = "completed"
BY DEF Decision

LEMMA InitIInv == Init => IInv
<1> SUFFICES ASSUME Init PROVE IInv
  OBVIOUS
<1>1. TypeOK
  BY FaultsAssumption DEF Init, TypeOK, Row, Running
<1>2. RowSaysAnswers
  BY NoRowAssumption DEF Init, RowSaysAnswers, Row
<1>3. ClaimsStand
  BY DEF Init, ClaimsStand
<1> QED
  BY <1>1, <1>2, <1>3 DEF IInv

LEMMA StepTyped ==
  ASSUME TypeOK, NEW c \in Callers, NEW a, GoTo(c, a)
  PROVE  /\ step' = [step EXCEPT ![c] = a]
         /\ \A d \in Callers : step'[d] = IF d = c THEN a ELSE step[d]
         /\ a \in Running \cup Answers \cup {"idle"} =>
              step' \in [Callers -> Running \cup Answers \cup {"idle"}]
BY DEF TypeOK, GoTo

\* Acknowledging a payload or answering otherwise keeps the history's type.
LEMMA AcknowledgeTyped ==
  ASSUME TypeOK, NEW r \in Call, NEW a, Acknowledge(r, a)
  PROVE  /\ acknowledged' \in [Events -> SUBSET Fingerprints]
         /\ \A e \in Events : acknowledged'[e] =
              IF e = r.event /\ a \in {"accepted", "duplicate"}
              THEN acknowledged[e] \cup {r.hash} ELSE acknowledged[e]
BY DEF TypeOK, Acknowledge, Call

LEMMA StepIInv == IInv /\ [Next]_vars => IInv'
<1> SUFFICES ASSUME IInv, [Next]_vars PROVE IInv'
  OBVIOUS
<1>1. \A c \in Callers : step[c] \in Running => call[c] # NoCall /\ call[c] \in Call
  BY DEF IInv, TypeOK
<1>2. \A e \in Events : table[e] # NoRow => table[e] \in Row
  BY DEF IInv, TypeOK
<1>3. ASSUME NEW c \in Callers, Deliver(c) PROVE IInv'
  <2>1. PICK r \in Call : call' = [call EXCEPT ![c] = r]
    BY <1>3 DEF Deliver
  <2>2. /\ call' \in [Callers -> Call \cup {NoCall}]
        /\ \A d \in Callers : call'[d] = IF d = c THEN r ELSE call[d]
    BY <2>1 DEF IInv, TypeOK
  <2>3. /\ step' \in [Callers -> Running \cup Answers \cup {"idle"}]
        /\ \A d \in Callers : step'[d] = IF d = c THEN "claiming" ELSE step[d]
    BY <1>3, StepTyped DEF Deliver, IInv, Running
  <2>4. UNCHANGED <<store, table, faults, accepted, acknowledged>>
    BY <1>3 DEF Deliver, history
  <2>5. TypeOK'
    BY <2>2, <2>3, <2>4, NoCallAssumption DEF IInv, TypeOK
  <2>6. RowSaysAnswers'
    BY <2>4 DEF IInv, RowSaysAnswers
  <2>7. ClaimsStand'
    BY <2>2, <2>3, <2>4 DEF IInv, ClaimsStand
  <2> QED
    BY <2>5, <2>6, <2>7 DEF IInv
\* A step that answers c without touching the table, except for a duplicate.
<1>4. ASSUME NEW c \in Callers, step[c] \in Running, NEW a \in Answers \cup {"reading"},
             a # "accepted", GoTo(c, a),
             UNCHANGED <<store, table, call, accepted>>, faults' \in 0..MaxFaults,
             Acknowledge(call[c], a),
             a = "reading" => table[call[c].event] # NoRow,
             a = "duplicate" => /\ table[call[c].event] # NoRow
                                /\ table[call[c].event].status = "completed"
                                /\ table[call[c].event].hash = call[c].hash
      PROVE  IInv'
  <2>1. /\ step' \in [Callers -> Running \cup Answers \cup {"idle"}]
        /\ \A d \in Callers : step'[d] = IF d = c THEN a ELSE step[d]
    BY <1>4, StepTyped DEF IInv, Running
  <2>2. call[c] \in Call
    BY <1>1, <1>4
  <2>3. /\ acknowledged' \in [Events -> SUBSET Fingerprints]
        /\ \A e \in Events : acknowledged'[e] =
             IF e = call[c].event /\ a = "duplicate"
             THEN acknowledged[e] \cup {call[c].hash} ELSE acknowledged[e]
    BY <1>4, <2>2, AcknowledgeTyped DEF IInv
  <2>4. TypeOK'
    BY <1>1, <1>4, <2>1, <2>3 DEF IInv, TypeOK
  <2>5. RowSaysAnswers'
    <3>1. call[c].hash # Sentinel
      BY <2>2, LegacyAssumption DEF Call
    <3> QED
      BY <1>4, <2>3, <3>1 DEF IInv, RowSaysAnswers
  <2>6. ClaimsStand'
    BY <1>4, <2>1 DEF IInv, ClaimsStand, Answers
  <2> QED
    BY <2>4, <2>5, <2>6 DEF IInv
\* A step that inserts the row of an event that has none.
<1>5. ASSUME NEW c \in Callers, step[c] \in Running, table[call[c].event] = NoRow,
             table' = [table EXCEPT ![call[c].event] = ClaimedRow(call[c].hash)],
             NEW a \in {"reading", "completing", "unavailable"}, GoTo(c, a),
             UNCHANGED <<store, call, accepted, acknowledged>>, faults' \in 0..MaxFaults
      PROVE  IInv'
  <2> DEFINE row == ClaimedRow(call[c].hash)
  <2>1. /\ step' \in [Callers -> Running \cup Answers \cup {"idle"}]
        /\ \A d \in Callers : step'[d] = IF d = c THEN a ELSE step[d]
    BY <1>5, StepTyped DEF IInv, Running, Answers
  <2>2. call[c] \in Call /\ call[c].hash # Sentinel /\ call[c].event \in Events
    BY <1>1, <1>5, LegacyAssumption DEF Call
  <2>3. /\ row \in Row /\ row # NoRow /\ row.status = "processing" /\ row.hash = call[c].hash
        /\ row = [hash |-> call[c].hash, status |-> "processing"]
    BY <2>2, NoRowAssumption DEF ClaimedRow, Row, Call
  <2> HIDE DEF row
  <2>4. /\ table' \in [Events -> Row \cup {NoRow}]
        /\ \A e \in Events : table'[e] = IF e = call[c].event THEN row ELSE table[e]
    BY <1>5, <2>2, <2>3 DEF IInv, TypeOK, row
  <2>5. TypeOK'
    BY <1>1, <1>5, <2>1, <2>4 DEF IInv, TypeOK
  <2>6. RowSaysAnswers'
    BY <1>5, <2>2, <2>3, <2>4 DEF IInv, RowSaysAnswers
  <2>7. ClaimsStand'
    <3>1. \A d \in Callers : step[d] = "completing" =>
            /\ call[d].event \in Events /\ call[d].event # call[c].event
            /\ [hash |-> call[d].hash, status |-> "processing"] # NoRow
      <4> SUFFICES ASSUME NEW d \in Callers, step[d] = "completing"
                   PROVE  /\ call[d].event \in Events /\ call[d].event # call[c].event
                          /\ [hash |-> call[d].hash, status |-> "processing"] # NoRow
        OBVIOUS
      <4>1. call[d] \in Call
        BY <1>1 DEF Running
      <4>2. [hash |-> call[d].hash, status |-> "processing"] \in Row
        BY <4>1 DEF Call, Row
      <4> QED
        BY <1>5, <4>1, <4>2, NoRowAssumption DEF IInv, ClaimsStand, Call
    <3>2. \A d \in Callers : step[d] = "reading" => call[d].event \in Events
      BY <1>1 DEF Running, Call
    <3> QED
      BY <1>5, <2>1, <2>2, <2>3, <2>4, <3>1, <3>2 DEF IInv, ClaimsStand
  <2> QED
    BY <2>5, <2>6, <2>7 DEF IInv
<1>6. ASSUME NEW c \in Callers, step[c] \in Running, table[call[c].event] # NoRow
      PROVE  /\ Decision(table[call[c].event], call[c].hash) \in Answers
             /\ Decision(table[call[c].event], call[c].hash) # "accepted"
             /\ AfterClaim(Decision(table[call[c].event], call[c].hash))
                  = Decision(table[call[c].event], call[c].hash)
             /\ Decision(table[call[c].event], call[c].hash) = "duplicate" =>
                  /\ table[call[c].event].status = "completed"
                  /\ table[call[c].event].hash = call[c].hash
  <2>1. call[c].event \in Events
    BY <1>1, <1>6 DEF Call
  <2>2. table[call[c].event].status \in {"processing", "completed"}
    BY <1>2, <1>6, <2>1 DEF IInv, RowSaysAnswers, Row
  <2> QED
    BY <2>2, DecisionType DEF AfterClaim, Answers
<1>7. ASSUME NEW c \in Callers, Claim(c) PROVE IInv'
  <2>1. step[c] \in Running /\ UNCHANGED <<store, call, faults, accepted>>
    BY <1>7 DEF Claim, Running
  <2>2. faults' \in 0..MaxFaults
    BY <2>1 DEF IInv, TypeOK
  <2>3. CASE table[call[c].event] = NoRow
    <3>1. /\ table' = [table EXCEPT ![call[c].event] = ClaimedRow(call[c].hash)]
          /\ GoTo(c, "completing") /\ UNCHANGED acknowledged
      BY <1>7, <2>3 DEF Claim, AfterClaim, Acknowledge
    <3> QED
      BY <1>5, <2>1, <2>2, <2>3, <3>1
  <2>4. CASE table[call[c].event] # NoRow
    <3> DEFINE a == Decision(table[call[c].event], call[c].hash)
    <3>1. /\ a \in Answers /\ a # "accepted" /\ a # "claimed" /\ AfterClaim(a) = a
          /\ a = "duplicate" => /\ table[call[c].event].status = "completed"
                                /\ table[call[c].event].hash = call[c].hash
      BY <1>6, <2>1, <2>4 DEF Answers
    <3>2. UNCHANGED table /\ GoTo(c, a) /\ Acknowledge(call[c], a)
      BY <1>7, <2>4, <3>1 DEF Claim
    <3>3. a # "reading"
      BY <3>1 DEF Answers
    <3> HIDE DEF a
    <3> QED
      BY <1>4, <2>1, <2>2, <2>4, <3>1, <3>2, <3>3
  <2> QED
    BY <2>3, <2>4
<1>8. ASSUME NEW c \in Callers, ClaimInsert(c) PROVE IInv'
  <2>1. /\ step[c] \in Running /\ GoTo(c, "reading")
        /\ UNCHANGED <<store, call, faults, accepted, acknowledged>>
    BY <1>8 DEF ClaimInsert, Running, history
  <2>2. faults' \in 0..MaxFaults
    BY <2>1 DEF IInv, TypeOK
  <2>3. CASE table[call[c].event] = NoRow
    <3>1. table' = [table EXCEPT ![call[c].event] = ClaimedRow(call[c].hash)]
      BY <1>8, <2>3 DEF ClaimInsert
    <3> QED
      BY <1>5, <2>1, <2>2, <2>3, <3>1
  <2>4. CASE table[call[c].event] # NoRow
    <3>1. UNCHANGED table /\ Acknowledge(call[c], "reading")
      BY <1>8, <2>1, <2>4 DEF ClaimInsert, Acknowledge
    <3> QED
      BY <1>4, <2>1, <2>2, <2>4, <3>1
  <2> QED
    BY <2>3, <2>4
<1>9. ASSUME NEW c \in Callers, ClaimRead(c) PROVE IInv'
  <2> DEFINE a == Decision(table[call[c].event], call[c].hash)
  <2>1. /\ step[c] = "reading" /\ step[c] \in Running
        /\ UNCHANGED <<store, table, call, faults, accepted>>
    BY <1>9 DEF ClaimRead, Running
  <2>2. table[call[c].event] # NoRow /\ faults' \in 0..MaxFaults
    BY <2>1 DEF IInv, ClaimsStand, TypeOK
  <2>3. /\ a \in Answers /\ a # "accepted" /\ AfterClaim(a) = a
        /\ a = "duplicate" => /\ table[call[c].event].status = "completed"
                              /\ table[call[c].event].hash = call[c].hash
    BY <1>6, <2>1, <2>2
  <2>4. GoTo(c, a) /\ Acknowledge(call[c], a)
    BY <1>9, <2>3 DEF ClaimRead
  <2>5. a # "reading"
    BY <2>3 DEF Answers
  <2> HIDE DEF a
  <2> QED
    BY <1>4, <2>1, <2>2, <2>3, <2>4, <2>5
<1>10. ASSUME NEW c \in Callers, Complete(c) PROVE IInv'
  <2> DEFINE e0 == call[c].event
             row == [hash |-> call[c].hash, status |-> "completed"]
  <2>1. /\ step[c] = "completing" /\ GoTo(c, "accepted") /\ Acknowledge(call[c], "accepted")
        /\ UNCHANGED <<store, call, faults>>
    BY <1>10 DEF Complete
  <2>2. /\ step' \in [Callers -> Running \cup Answers \cup {"idle"}]
        /\ \A d \in Callers : step'[d] = IF d = c THEN "accepted" ELSE step[d]
    BY <2>1, StepTyped DEF IInv, Answers
  <2>3. call[c] \in Call /\ e0 \in Events /\ call[c].hash \in Fingerprints /\ call[c].hash # Sentinel
    BY <1>1, <2>1, LegacyAssumption DEF Call, Running
  <2>4. table[e0] = [hash |-> call[c].hash, status |-> "processing"]
    BY <2>1 DEF IInv, ClaimsStand
  <2>5. row \in Row /\ row # NoRow /\ table[e0] # NoRow
    BY <2>3, <2>4, NoRowAssumption DEF Row
  <2>6. /\ table' \in [Events -> Row \cup {NoRow}]
        /\ \A e \in Events : table'[e] = IF e = e0 THEN row ELSE table[e]
    <3>1. table' = [table EXCEPT ![e0] = row]
      <4>1. table' = [table EXCEPT ![e0] = [table[e0] EXCEPT !.status = "completed"]]
        BY <1>10 DEF Complete
      <4>2. [table[e0] EXCEPT !.status = "completed"] = row
        BY <2>4
      <4> QED
        BY <4>1, <4>2
    <3> HIDE DEF row, e0
    <3> QED
      BY <2>3, <2>5, <3>1 DEF IInv, TypeOK
  <2>7. accepted[e0] = 0 /\ acknowledged[e0] = {}
    BY <2>3, <2>4, <2>5 DEF IInv, RowSaysAnswers
  <2>8. /\ accepted' \in [Events -> 0..2]
        /\ \A e \in Events : accepted'[e] = IF e = e0 THEN 1 ELSE accepted[e]
    BY <1>10, <2>3, <2>7 DEF Complete, IInv, TypeOK
  <2>9. /\ acknowledged' \in [Events -> SUBSET Fingerprints]
        /\ \A e \in Events : acknowledged'[e] =
             IF e = e0 THEN {call[c].hash} ELSE acknowledged[e]
    <3>1. /\ acknowledged' \in [Events -> SUBSET Fingerprints]
          /\ \A e \in Events : acknowledged'[e] =
               IF e = e0 THEN acknowledged[e] \cup {call[c].hash} ELSE acknowledged[e]
      BY <2>1, <2>3, AcknowledgeTyped DEF IInv
    <3> QED
      BY <2>7, <3>1
  <2>10. TypeOK'
    <3>1. \A d \in Callers : step'[d] \in Running => call'[d] # NoCall
      BY <1>1, <2>1, <2>2 DEF Running
    <3> QED
      BY <2>1, <2>2, <2>6, <2>8, <2>9, <3>1 DEF IInv, TypeOK
  <2>11. RowSaysAnswers'
    BY <2>3, <2>5, <2>6, <2>8, <2>9 DEF IInv, RowSaysAnswers
  <2>12. ClaimsStand'
    <3>1. \A d \in Callers : step[d] \in {"reading", "completing"} => call[d].event \in Events
      BY <1>1 DEF Running, Call
    <3> QED
      BY <2>1, <2>2, <2>5, <2>6, <3>1 DEF IInv, ClaimsStand
  <2> QED
    BY <2>10, <2>11, <2>12 DEF IInv
<1>11. ASSUME NEW c \in Callers, Fault(c) PROVE IInv'
  <2>1. /\ step[c] \in Running /\ GoTo(c, "unavailable")
        /\ UNCHANGED <<store, call, accepted, acknowledged>>
    BY <1>11 DEF Fault, Running, history
  <2>2. faults' \in 0..MaxFaults
    BY <1>11, FaultsAssumption DEF Fault, IInv, TypeOK
  <2>3. "unavailable" \in Answers /\ Acknowledge(call[c], "unavailable")
    BY <2>1 DEF Answers, Acknowledge
  <2> QED
    BY <1>4, <1>5, <1>11, <2>1, <2>2, <2>3 DEF Fault
<1>12. CASE UNCHANGED vars
  BY <1>12 DEF vars, IInv, TypeOK, RowSaysAnswers, ClaimsStand
<1> QED
  BY <1>3, <1>7, <1>8, <1>9, <1>10, <1>11, <1>12 DEF Next

LEMMA Inductive == Spec => []IInv
<1> QED
  BY InitIInv, StepIInv, PTL DEF Spec

\* The table, the calls and their answers keep their types.
THEOREM TypeCorrect == Spec => []TypeOK
<1>1. IInv => TypeOK
  BY DEF IInv
<1> QED
  BY <1>1, Inductive, PTL

\* However deliveries race, an event is answered accepted at most once.
THEOREM EventsAcceptedOnce == Spec => []AcceptedOnce
<1>1. IInv => AcceptedOnce
  <2> SUFFICES ASSUME IInv, NEW e \in Events PROVE accepted[e] < 2
    BY DEF AcceptedOnce
  <2>1. CASE table[e] = NoRow
    BY <2>1 DEF IInv, RowSaysAnswers
  <2>2. CASE table[e] # NoRow
    <3>1. table[e].status \in {"processing", "completed", "failed"}
      BY <2>2 DEF IInv, TypeOK, Row
    <3> QED
      BY <2>2, <3>1 DEF IInv, RowSaysAnswers
  <2> QED
    BY <2>1, <2>2
<1> QED
  BY <1>1, Inductive, PTL

\* No second payload of an event id is ever acknowledged, and no duplicate
\* before the event was accepted.
THEOREM EventsBoundToOnePayload == Spec => []BoundToOnePayload
<1>1. IInv => BoundToOnePayload
  <2> SUFFICES ASSUME IInv, NEW e \in Events
               PROVE  /\ \A f, g \in acknowledged[e] : f = g
                      /\ acknowledged[e] # {} => accepted[e] = 1
    BY DEF BoundToOnePayload
  <2>1. CASE table[e] = NoRow
    BY <2>1 DEF IInv, RowSaysAnswers
  <2>2. CASE table[e] # NoRow
    <3>1. table[e].status \in {"processing", "completed", "failed"}
      BY <2>2 DEF IInv, TypeOK, Row
    <3> QED
      BY <2>2, <3>1 DEF IInv, RowSaysAnswers
  <2> QED
    BY <2>1, <2>2
<1> QED
  BY <1>1, Inductive, PTL

-----------------------------------------------------------------------------
(* What the two stores do not share                                        *)

\* On PostgreSQL nobody gets as far as completing an event, for the row that the claim
\* has inserted is read back as someone else's.
NothingCompletes ==
  store = "postgres" =>
    /\ \A c \in Callers : step[c] \notin {"completing", "accepted"}
    /\ \A e \in Events : accepted[e] = 0

\* In memory a row in progress is in the hands of a call that is about to complete it.
SomeoneCompletes ==
  store = "memory" =>
    \A e \in Events : table[e] # NoRow /\ table[e].status = "processing" =>
      \E c \in Callers : step[c] = "completing" /\ call[c].event = e

LEMMA StepNothingCompletes == IInv /\ NothingCompletes /\ [Next]_vars => NothingCompletes'
<1> SUFFICES ASSUME IInv, NothingCompletes, [Next]_vars, store' = "postgres"
             PROVE  /\ \A c \in Callers : step'[c] \notin {"completing", "accepted"}
                    /\ \A e \in Events : accepted'[e] = 0
  BY DEF NothingCompletes
<1>1. store = "postgres"
  BY DEF Next, Deliver, Claim, ClaimInsert, ClaimRead, Complete, Fault, vars
<1>2. /\ \A c \in Callers : step[c] \notin {"completing", "accepted"}
      /\ \A e \in Events : accepted[e] = 0
  BY <1>1 DEF NothingCompletes
<1>3. ASSUME NEW c \in Callers, NEW a, GoTo(c, a), a \notin {"completing", "accepted"},
             UNCHANGED accepted
      PROVE  /\ \A d \in Callers : step'[d] \notin {"completing", "accepted"}
             /\ \A e \in Events : accepted'[e] = 0
  BY <1>2, <1>3 DEF GoTo, IInv, TypeOK
<1>4. ASSUME NEW c \in Callers, ClaimRead(c)
      PROVE  \E a : GoTo(c, a) /\ a \notin {"completing", "accepted"}
  <2> DEFINE row == table[call[c].event]
             decision == Decision(row, call[c].hash)
  <2>1. step[c] = "reading" /\ row # NoRow /\ call[c] \in Call
    BY <1>4 DEF ClaimRead, IInv, ClaimsStand, TypeOK, Running
  <2>2. row \in Row /\ row.status # "failed"
    BY <2>1 DEF IInv, TypeOK, RowSaysAnswers, Call
  <2>3. row.status \in {"processing", "completed"}
    BY <2>2 DEF Row
  <2> HIDE DEF row
  <2>4. decision \in {"conflict", "duplicate", "in_progress"}
    BY <2>3, DecisionType
  <2>5. GoTo(c, AfterClaim(decision))
    BY <1>4 DEF ClaimRead, row
  <2> HIDE DEF decision
  <2>6. AfterClaim(decision) = decision
    BY <2>4 DEF AfterClaim
  <2>7. QED
    BY <2>4, <2>5, <2>6
<1>5. CASE \E c \in Callers : ClaimRead(c)
  BY <1>3, <1>4, <1>5 DEF ClaimRead
<1>6. CASE \E c \in Callers : Deliver(c) \/ ClaimInsert(c) \/ Fault(c)
  BY <1>3, <1>6 DEF Deliver, ClaimInsert, Fault, history
<1>7. CASE UNCHANGED vars
  BY <1>2, <1>7 DEF vars
<1>8. QED
  BY <1>1, <1>2, <1>5, <1>6, <1>7 DEF Next, Claim, Complete

LEMMA StepSomeoneCompletes == IInv /\ SomeoneCompletes /\ [Next]_vars => SomeoneCompletes'
<1> SUFFICES ASSUME IInv, SomeoneCompletes, [Next]_vars, store' = "memory",
                    NEW e \in Events, table'[e] # NoRow, table'[e].status = "processing"
             PROVE  \E c \in Callers : step'[c] = "completing" /\ call'[c].event = e
  BY DEF SomeoneCompletes
<1>1. store = "memory"
  BY DEF Next, Deliver, Claim, ClaimInsert, ClaimRead, Complete, Fault, vars
<1>2. ASSUME table'[e] = table[e]
      PROVE  \E c \in Callers : step[c] = "completing" /\ call[c].event = e
  BY <1>1, <1>2 DEF SomeoneCompletes
<1>3. CASE \E c \in Callers : Deliver(c)
  <2>1. PICK c \in Callers : Deliver(c)
    BY <1>3
  <2>2. PICK d \in Callers : step[d] = "completing" /\ call[d].event = e
    BY <1>2, <2>1 DEF Deliver
  <2>3. d # c
    BY <2>1, <2>2 DEF Deliver, Running
  <2>4. step'[d] = step[d] /\ call'[d] = call[d]
    BY <2>1, <2>3 DEF Deliver, GoTo, IInv, TypeOK
  <2>5. QED
    BY <2>2, <2>4
<1>4. CASE \E c \in Callers : Claim(c)
  <2>1. PICK c \in Callers : Claim(c)
    BY <1>4
  <2> DEFINE r == call[c]
             decision == IF table[r.event] = NoRow THEN "claimed" ELSE Decision(table[r.event], r.hash)
  <2>2. /\ step[c] = "claiming" /\ call' = call
        /\ table' = IF decision = "claimed" THEN [table EXCEPT ![r.event] = ClaimedRow(r.hash)] ELSE table
        /\ step' = [step EXCEPT ![c] = AfterClaim(decision)]
    BY <2>1 DEF Claim, GoTo
  <2> HIDE DEF decision
  <2>3. CASE table'[e] = table[e]
    <3>1. PICK d \in Callers : step[d] = "completing" /\ call[d].event = e
      BY <1>2, <2>3
    <3>2. step'[d] = step[d]
      BY <2>2, <3>1 DEF IInv, TypeOK
    <3>3. QED
      BY <2>2, <3>1, <3>2
  <2>4. CASE table'[e] # table[e]
    <3>1. decision = "claimed" /\ e = r.event
      BY <2>2, <2>4 DEF IInv, TypeOK
    <3>2. step'[c] = "completing"
      BY <2>2, <3>1 DEF AfterClaim, IInv, TypeOK
    <3>3. QED
      BY <2>2, <3>1, <3>2
  <2>5. QED
    BY <2>3, <2>4
<1>5. CASE \E c \in Callers : Complete(c)
  <2>1. PICK c \in Callers : Complete(c)
    BY <1>5
  <2>2. /\ table' = [table EXCEPT ![call[c].event].status = "completed"] /\ call' = call
        /\ step' = [step EXCEPT ![c] = "accepted"]
    BY <2>1 DEF Complete, GoTo
  <2>3. table[call[c].event] = [hash |-> call[c].hash, status |-> "processing"]
    BY <2>1 DEF Complete, IInv, ClaimsStand
  <2>4. e # call[c].event
    BY <2>2, <2>3 DEF IInv, TypeOK
  <2>5. table'[e] = table[e]
    BY <2>2, <2>4
  <2>6. PICK d \in Callers : step[d] = "completing" /\ call[d].event = e
    BY <1>2, <2>5
  <2>7. step'[d] = step[d]
    BY <2>2, <2>4, <2>6 DEF IInv, TypeOK
  <2>8. QED
    BY <2>2, <2>6, <2>7
<1>6. CASE \E c \in Callers : ClaimRead(c)
  <2>1. PICK c \in Callers : ClaimRead(c)
    BY <1>6
  <2>2. PICK d \in Callers : step[d] = "completing" /\ call[d].event = e
    BY <1>2, <2>1 DEF ClaimRead
  <2>3. d # c /\ call' = call /\ \E a : step' = [step EXCEPT ![c] = a]
    BY <2>1, <2>2 DEF ClaimRead, GoTo
  <2>4. QED
    BY <2>2, <2>3 DEF IInv, TypeOK
<1>7. CASE UNCHANGED vars
  BY <1>2, <1>7 DEF vars
<1>8. QED
  BY <1>1, <1>3, <1>4, <1>5, <1>6, <1>7 DEF Next, ClaimInsert, Fault

\* On PostgreSQL no event is ever accepted, nor any payload of it acknowledged, whatever
\* is delivered: a new event is answered as one that is in progress.
THEOREM PostgresAcceptsNothing ==
  Spec => [](store = "postgres" => \A e \in Events : accepted[e] = 0 /\ acknowledged[e] = {})
<1>1. Init => NothingCompletes
  BY DEF Init, NothingCompletes
<1>2. Spec => []NothingCompletes
  BY <1>1, StepNothingCompletes, Inductive, PTL DEF Spec
<1>3. IInv /\ NothingCompletes =>
        (store = "postgres" => \A e \in Events : accepted[e] = 0 /\ acknowledged[e] = {})
  BY DEF IInv, RowSaysAnswers, NothingCompletes
<1>4. QED
  BY <1>2, <1>3, Inductive, PTL

\* In memory "already being processed" is true: another call has the event and will
\* complete it.
THEOREM InProgressIsTrueInMemory ==
  Spec => [][store = "memory" => \A c \in Callers :
               step[c] \in Running /\ step'[c] = "in_progress" =>
                 \E d \in Callers \ {c} : step[d] = "completing" /\ call[d].event = call[c].event]_vars
<1>1. Init => SomeoneCompletes
  BY DEF Init, SomeoneCompletes
<1>2. Spec => []SomeoneCompletes
  BY <1>1, StepSomeoneCompletes, Inductive, PTL DEF Spec
<1>3. ASSUME IInv, SomeoneCompletes, Next, store = "memory", NEW c \in Callers,
             step[c] \in Running, step'[c] = "in_progress"
      PROVE  \E d \in Callers \ {c} : step[d] = "completing" /\ call[d].event = call[c].event
  <2>1. PICK b \in Callers : Deliver(b) \/ Claim(b) \/ ClaimRead(b) \/ Complete(b)
    BY <1>3 DEF Next, ClaimInsert, Fault
  <2>2. \E a : step' = [step EXCEPT ![b] = a]
    BY <2>1 DEF Deliver, Claim, ClaimRead, Complete, GoTo
  <2>3. b = c /\ step[c] # "in_progress"
    BY <1>3, <2>2 DEF Running, IInv, TypeOK
  <2> DEFINE row == table[call[c].event]
  <2>4. call[c] \in Call
    BY <1>3 DEF IInv, TypeOK
  <2>5. step[c] \in {"claiming", "reading"} /\ row # NoRow /\ Decision(row, call[c].hash) = "in_progress"
    <3>1. CASE Claim(c)
      BY <1>3, <3>1 DEF Claim, GoTo, AfterClaim, IInv, TypeOK
    <3>2. CASE ClaimRead(c)
      BY <1>3, <3>2 DEF ClaimRead, GoTo, AfterClaim, IInv, TypeOK, ClaimsStand
    <3>3. CASE Deliver(c) \/ Complete(c)
      BY <1>3, <3>3 DEF Deliver, Complete, GoTo, IInv, TypeOK
    <3>4. QED
      BY <2>1, <2>3, <3>1, <3>2, <3>3
  <2>6. row.status = "processing"
    <3>1. row \in Row /\ row.status \in {"processing", "completed", "failed"}
      BY <1>3, <2>4, <2>5 DEF IInv, TypeOK, Call, Row
    <3>2. QED
      BY <2>5, <3>1 DEF Decision
  <2>7. PICK d \in Callers : step[d] = "completing" /\ call[d].event = call[c].event
    BY <1>3, <2>4, <2>5, <2>6 DEF SomeoneCompletes, Call
  <2>8. QED
    BY <2>5, <2>7
<1>4. IInv /\ SomeoneCompletes /\ [Next]_vars =>
        [store = "memory" => \A c \in Callers :
           step[c] \in Running /\ step'[c] = "in_progress" =>
             \E d \in Callers \ {c} : step[d] = "completing" /\ call[d].event = call[c].event]_vars
  BY <1>3
<1>5. QED
  BY <1>2, <1>4, Inductive, PTL DEF Spec
=============================================================================
