---------------------- MODULE MeteringCheckpointProofs ----------------------
(* Theorems of the metering checkpoints, for any streams, events, callers, *)
(* locks and gap, and for both stores.                                     *)
EXTENDS MeteringCheckpoint, FiniteSetTheorems, SequenceTheorems, TLAPS

\* A transaction that holds its advisory lock.
Locking(c) == step[c] \in Running \ {"locking"}

\* At most one transaction runs per stream, and only in PostgreSQL.
OnePerStream ==
  /\ \A c \in Callers : Locking(c) => store = "postgres"
  /\ \A c, d \in Callers :
       c # d /\ Locking(c) /\ Locking(d) => Hash[call[c].stream] # Hash[call[d].stream]

\* The sequences of a stream have no hole, and no two events share one.
Gapless == \A s \in Streams : \E n \in Nat : Recorded(s) = 1..n
Unshared == \A d, e \in Events : table[d] # NoRow /\ table[d] = table[e] => d = e

\* What a transaction has read of its stream still holds when it uses it.
StillAbsent ==
  \A c \in Callers : step[c] \in {"measuring", "inserting"} =>
    table[call[c].event] = NoRow \/ table[call[c].event].stream # call[c].stream
StillNext ==
  \A c \in Callers : step[c] = "inserting" =>
    Recorded(call[c].stream) = 1..(call[c].sequence - 1)

IInv == TypeOK /\ OnePerStream /\ Gapless /\ Unshared /\ StillAbsent /\ StillNext

-----------------------------------------------------------------------------
(* The table                                                               *)

LEMMA CheckpointOfInterval ==
  ASSUME NEW s \in Streams, NEW n \in Nat, Recorded(s) = 1..n
  PROVE  Checkpoint(s) = n
<1>1. n \in Recorded(s) \cup {0} /\ \A m \in Recorded(s) : m <= n
  OBVIOUS
<1>2. \A k \in Recorded(s) \cup {0} : (\A m \in Recorded(s) : m <= k) => k = n
  OBVIOUS
<1> QED
  BY <1>1, <1>2 DEF Checkpoint

LEMMA RecordedWithRow ==
  ASSUME TypeOK, NEW r \in [stream : Streams, event : Events, sequence : 1..MaxSequence],
         table[r.event] = NoRow, table' = WithRow(r), NEW s \in Streams
  PROVE  Recorded(s)' = IF s = r.stream THEN Recorded(s) \cup {r.sequence} ELSE Recorded(s)
<1> DEFINE row == [stream |-> r.stream, sequence |-> r.sequence]
<1>1. row \in Row /\ row # NoRow /\ row.stream = r.stream /\ row.sequence = r.sequence
  BY NoRowAssumption DEF Row
<1> HIDE DEF row
<1>2. \A e \in Events : table'[e] = IF e = r.event THEN row ELSE table[e]
  BY DEF WithRow, TypeOK, row
<1>3. \A q : q \in Recorded(s)' <=> \E e \in Events :
               table'[e] # NoRow /\ table'[e].stream = s /\ table'[e].sequence = q
  BY DEF Recorded
<1>4. \A q : q \in Recorded(s) <=> \E e \in Events :
               table[e] # NoRow /\ table[e].stream = s /\ table[e].sequence = q
  BY DEF Recorded
<1>5. CASE s = r.stream
  <2>1. \A q : q \in Recorded(s)' <=> q \in Recorded(s) \/ q = r.sequence
    BY <1>1, <1>2, <1>3, <1>4, <1>5
  <2> QED
    BY <2>1, <1>5
<1>6. CASE s # r.stream
  <2>1. \A q : q \in Recorded(s)' <=> q \in Recorded(s)
    BY <1>1, <1>2, <1>3, <1>4, <1>6
  <2> QED
    BY <2>1, <1>6
<1> QED
  BY <1>5, <1>6

LEMMA RecordedStable ==
  ASSUME UNCHANGED table, NEW s
  PROVE  Recorded(s)' = Recorded(s)
BY DEF Recorded

\* Recording the next sequence of a stream keeps the table an ordered log.
LEMMA WithNextRow ==
  ASSUME TypeOK, Gapless, Unshared,
         NEW r \in [stream : Streams, event : Events, sequence : 1..MaxSequence],
         table[r.event] = NoRow, table' = WithRow(r),
         Recorded(r.stream) = 1..(r.sequence - 1)
  PROVE  /\ table' \in [Events -> Row \cup {NoRow}]
         /\ Gapless' /\ Unshared'
<1> DEFINE row == [stream |-> r.stream, sequence |-> r.sequence]
<1>1. row \in Row /\ row.stream = r.stream /\ row.sequence = r.sequence
  BY DEF Row
<1>2. /\ table' = [table EXCEPT ![r.event] = row]
      /\ table \in [Events -> Row \cup {NoRow}]
  BY DEF WithRow, TypeOK
<1> HIDE DEF row
<1>3. table' \in [Events -> Row \cup {NoRow}]
  BY <1>1, <1>2
<1>4. Gapless'
  <2> SUFFICES ASSUME NEW s \in Streams PROVE \E n \in Nat : Recorded(s)' = 1..n
    BY DEF Gapless
  <2>1. CASE s = r.stream
    <3>1. Recorded(s)' = 1..(r.sequence - 1) \cup {r.sequence}
      BY <2>1, RecordedWithRow
    <3>2. 1..(r.sequence - 1) \cup {r.sequence} = 1..r.sequence
      BY SequenceAssumption
    <3> QED
      BY <3>1, <3>2, SequenceAssumption
  <2>2. CASE s # r.stream
    BY <2>2, RecordedWithRow DEF Gapless
  <2> QED
    BY <2>1, <2>2
<1>5. Unshared'
  <2>1. ASSUME NEW e \in Events, e # r.event, table[e] = row
        PROVE  FALSE
    <3>1. r.sequence \in Recorded(r.stream)
      BY <1>1, <2>1, NoRowAssumption DEF Recorded
    <3> QED
      BY <3>1, SequenceAssumption
  <2>2. \A e \in Events : table'[e] = IF e = r.event THEN row ELSE table[e]
    BY <1>2
  <2> QED
    BY <2>1, <2>2 DEF Unshared
<1> QED
  BY <1>3, <1>4, <1>5

\* The decision lets only the next sequence through.
LEMMA NextIsNext ==
  ASSUME NEW r \in [stream : Streams, event : Events, sequence : 1..MaxSequence],
         Gapless, Decision(r) = "next"
  PROVE  Recorded(r.stream) = 1..(r.sequence - 1)
<1>1. PICK n \in Nat : Recorded(r.stream) = 1..n
  BY DEF Gapless
<1>2. Checkpoint(r.stream) = n
  BY <1>1, CheckpointOfInterval
<1>3. r.sequence = n + 1
  BY <1>2, SequenceAssumption DEF Decision
<1> QED
  BY <1>1, <1>3

LEMMA DecisionType ==
  ASSUME NEW r
  PROVE  /\ Decision(r) \in {"late", "gap", "gap_too_large", "next"}
         /\ Decision(r) # "next" => AnswerTo(Decision(r)) \in {"late", "gap"}
<1>1. Decision(r) \in {"late", "gap", "gap_too_large", "next"}
  BY DEF Decision
<1> QED
  BY <1>1 DEF AnswerTo

-----------------------------------------------------------------------------
(* The inductive invariant                                                 *)

LEMMA InitIInv == Init => IInv
<1> SUFFICES ASSUME Init PROVE IInv
  OBVIOUS
<1>1. TypeOK
  BY SequenceAssumption DEF Init, TypeOK, Steps, Running, Answers
<1>2. \A s \in Streams : Recorded(s) = 1..0
  BY DEF Init, Recorded
<1>3. Gapless
  BY <1>2 DEF Gapless
<1> QED
  BY <1>1, <1>3 DEF Init, IInv, OnePerStream, Locking, Running, Unshared, StillAbsent, StillNext

\* A step of c that leaves the table alone and keeps c's lock as it is, or
\* gives it up, preserves all but what c itself has read.
LEMMA QuietStep ==
  ASSUME IInv, NEW c \in Callers, NEW a \in Steps, GoTo(c, a),
         UNCHANGED <<store, table>>,
         call' \in [Callers -> [stream : Streams, event : Events, sequence : 1..MaxSequence] \cup {NoCall}],
         \A d \in Callers \ {c} : call'[d] = call[d],
         a \in Running => call'[c] # NoCall,
         a \in Running \ {"locking"} => Locking(c) /\ call'[c] = call[c],
         a \in {"measuring", "inserting"} => table[call[c].event] = NoRow
                                             \/ table[call[c].event].stream # call[c].stream,
         a = "inserting" => Recorded(call[c].stream) = 1..(call[c].sequence - 1),
         faults' \in 0..MaxFaults
  PROVE  IInv'
<1> USE DEF IInv, GoTo
<1>1. step' \in [Callers -> Steps] /\ \A d \in Callers : step'[d] = IF d = c THEN a ELSE step[d]
  BY DEF TypeOK
<1>2. TypeOK'
  BY <1>1 DEF TypeOK
<1>3. OnePerStream'
  <2>1. \A d \in Callers : Locking(d)' => Locking(d) /\ call'[d] = call[d]
    BY <1>1 DEF Locking
  <2> QED
    BY <2>1 DEF OnePerStream
<1>4. Gapless' /\ Unshared'
  BY RecordedStable DEF Gapless, Unshared
<1>5. StillAbsent'
  <2> SUFFICES ASSUME NEW d \in Callers, step'[d] \in {"measuring", "inserting"}
               PROVE  table[call'[d].event] = NoRow \/ table[call'[d].event].stream # call'[d].stream
    BY DEF StillAbsent
  <2>1. CASE d = c
    BY <2>1, <1>1 DEF Running
  <2>2. CASE d # c
    BY <2>2, <1>1 DEF StillAbsent
  <2> QED
    BY <2>1, <2>2
<1>6. StillNext'
  <2> SUFFICES ASSUME NEW d \in Callers, step'[d] = "inserting"
               PROVE  Recorded(call[d].stream)' = 1..(call'[d].sequence - 1)
    BY DEF StillNext
  <2>1. Recorded(call[d].stream)' = Recorded(call'[d].stream)
    BY DEF Recorded
  <2>2. CASE d = c
    BY <2>1, <2>2, <1>1 DEF Running
  <2>3. CASE d # c
    BY <2>1, <2>3, <1>1 DEF StillNext
  <2> QED
    BY <2>2, <2>3
<1> QED
  BY <1>2, <1>3, <1>4, <1>5, <1>6

\* A step of c that records its event and is done.
LEMMA RecordStep ==
  ASSUME IInv, NEW c \in Callers, NEW a \in Answers, GoTo(c, a), call[c] # NoCall,
         UNCHANGED <<store, call>>, faults' \in 0..MaxFaults,
         table[call[c].event] = NoRow, table' = WithRow(call[c]),
         Recorded(call[c].stream) = 1..(call[c].sequence - 1),
         \A d \in Callers \ {c} : Locking(d) => call[d].stream # call[c].stream
  PROVE  IInv'
<1> USE DEF IInv, GoTo
<1> DEFINE r == call[c]
<1>1. r \in [stream : Streams, event : Events, sequence : 1..MaxSequence]
  BY DEF TypeOK
<1>2. /\ step' \in [Callers -> Steps]
      /\ \A d \in Callers : step'[d] = IF d = c THEN a ELSE step[d]
  BY DEF TypeOK, Steps
<1>3. a \notin Running
  BY DEF Answers, Running
<1>4. \A d \in Callers : Locking(d)' => d # c /\ Locking(d)
  BY <1>2, <1>3 DEF Locking
<1>5. table' \in [Events -> Row \cup {NoRow}] /\ Gapless' /\ Unshared'
  BY <1>1, WithNextRow
<1>6. TypeOK'
  BY <1>2, <1>3, <1>5 DEF TypeOK
<1>7. OnePerStream'
  BY <1>4 DEF OnePerStream
<1>8. StillAbsent'
  <2> SUFFICES ASSUME NEW d \in Callers, step'[d] \in {"measuring", "inserting"}
               PROVE  table'[call[d].event] = NoRow \/ table'[call[d].event].stream # call[d].stream
    BY DEF StillAbsent
  <2>1. d # c /\ Locking(d) /\ step[d] \in {"measuring", "inserting"}
    BY <1>2, <1>3, <1>4 DEF Locking, Running
  <2>2. call[d].event \in Events
    BY <2>1 DEF TypeOK, Running
  <2>3. table'[call[d].event] = IF call[d].event = r.event
                                THEN [stream |-> r.stream, sequence |-> r.sequence]
                                ELSE table[call[d].event]
    BY <2>2 DEF WithRow, TypeOK
  <2> QED
    BY <2>1, <2>3 DEF StillAbsent
<1>9. StillNext'
  <2> SUFFICES ASSUME NEW d \in Callers, step'[d] = "inserting"
               PROVE  Recorded(call[d].stream)' = 1..(call[d].sequence - 1)
    BY DEF StillNext
  <2>1. d # c /\ Locking(d) /\ step[d] = "inserting"
    BY <1>2, <1>3, <1>4 DEF Locking, Running
  <2>2. call[d].stream \in Streams
    BY <2>1 DEF TypeOK, Running
  <2> QED
    BY <1>1, <2>1, <2>2, RecordedWithRow DEF StillNext
<1> QED
  BY <1>5, <1>6, <1>7, <1>8, <1>9

\* The transaction that inserts has its stream for itself.
LEMMA OwnStream ==
  ASSUME IInv, NEW c \in Callers, Locking(c) \/ store = "memory"
  PROVE  \A d \in Callers \ {c} : Locking(d) => call[d].stream # call[c].stream
<1>1. "postgres" # "memory"
  OBVIOUS
<1> QED
  BY <1>1 DEF IInv, OnePerStream

LEMMA StepIInv == IInv /\ [Next]_vars => IInv'
<1> SUFFICES ASSUME IInv, [Next]_vars PROVE IInv'
  OBVIOUS
<1> DEFINE FullCall == [stream : Streams, event : Events, sequence : 1..MaxSequence]
<1>1. /\ faults \in 0..MaxFaults /\ store \in Stores
      /\ call \in [Callers -> FullCall \cup {NoCall}]
      /\ \A c \in Callers : step[c] \in Running => call[c] # NoCall /\ call[c] \in FullCall
  BY DEF IInv, TypeOK
<1>2. /\ Running \subseteq Steps /\ Answers \subseteq Steps
      /\ \A a \in Answers : a \notin Running
  BY DEF Steps, Running, Answers
<1>3. ASSUME NEW c \in Callers, Deliver(c) PROVE IInv'
  <2>1. PICK r \in Call : call' = [call EXCEPT ![c] = r]
    BY <1>3 DEF Deliver
  <2>2. r \in FullCall /\ r # NoCall
    BY NoCallAssumption DEF Call, Sequences
  <2>3. /\ call' \in [Callers -> FullCall \cup {NoCall}]
        /\ call'[c] # NoCall
        /\ \A d \in Callers \ {c} : call'[d] = call[d]
    BY <1>1, <2>1, <2>2
  <2>4. GoTo(c, "locking") /\ UNCHANGED <<store, table, faults>>
    BY <1>3 DEF Deliver
  <2>5. "locking" \in Steps
    BY DEF Steps, Running
  <2> HIDE DEF FullCall
  <2> QED
    BY <1>1, <2>3, <2>4, <2>5, QuietStep DEF FullCall
<1>4. ASSUME NEW c \in Callers, Lock(c) PROVE IInv'
  \* The lock is free: no transaction of this stream holds it.
  <2>1. /\ step[c] = "locking" /\ store = "postgres" /\ LockFree(c)
        /\ step' = [step EXCEPT ![c] = "finding"] /\ UNCHANGED <<store, table, call, faults>>
    BY <1>4 DEF Lock, GoTo
  <2>2. /\ step' \in [Callers -> Steps]
        /\ \A d \in Callers : step'[d] = IF d = c THEN "finding" ELSE step[d]
    BY <2>1 DEF IInv, TypeOK, Steps, Running
  <2>3. TypeOK'
    BY <2>1, <2>2 DEF IInv, TypeOK, Running
  <2>4. OnePerStream'
    BY <2>1, <2>2 DEF IInv, OnePerStream, Locking, LockFree
  <2>5. Gapless' /\ Unshared'
    BY <2>1, RecordedStable DEF IInv, Gapless, Unshared
  <2>6. StillAbsent'
    BY <2>1, <2>2 DEF IInv, StillAbsent
  <2>7. StillNext'
    BY <2>1, <2>2 DEF IInv, StillNext, Recorded
  <2> QED
    BY <2>3, <2>4, <2>5, <2>6, <2>7 DEF IInv
<1>5. ASSUME NEW c \in Callers, Find(c) PROVE IInv'
  <2> DEFINE a == IF table[call[c].event] # NoRow THEN "duplicate" ELSE "measuring"
  <2>1. step[c] = "finding" /\ GoTo(c, a) /\ UNCHANGED <<store, table, call, faults>>
    BY <1>5 DEF Find
  <2>2. /\ a \in Steps /\ a # "inserting" /\ a # "locking"
        /\ a \in {"measuring", "inserting"} => table[call[c].event] = NoRow
        /\ Locking(c)
    BY <2>1 DEF Steps, Running, Answers, Locking
  <2> HIDE DEF a, FullCall
  <2>3. call[c] # NoCall
    BY <1>1, <2>1 DEF Running
  <2> QED
    BY <1>1, <2>1, <2>2, <2>3, QuietStep DEF FullCall
<1>6. ASSUME NEW c \in Callers, Measure(c) PROVE IInv'
  <2> DEFINE a == IF Decision(call[c]) = "next" THEN "inserting" ELSE AnswerTo(Decision(call[c]))
  <2>1. step[c] = "measuring" /\ GoTo(c, a) /\ UNCHANGED <<store, table, call, faults>>
    BY <1>6 DEF Measure
  <2>2. /\ a \in Steps /\ a # "locking" /\ Locking(c)
        /\ a = "inserting" => Decision(call[c]) = "next"
    BY <2>1, DecisionType DEF Steps, Running, Answers, Locking
  <2>3. table[call[c].event] = NoRow \/ table[call[c].event].stream # call[c].stream
    BY <2>1 DEF IInv, StillAbsent
  <2>4. call[c] # NoCall /\ call[c] \in FullCall
    BY <1>1, <2>1 DEF Running
  <2>5. a = "inserting" => Recorded(call[c].stream) = 1..(call[c].sequence - 1)
    BY <2>2, <2>4, NextIsNext DEF IInv
  <2> HIDE DEF a, FullCall
  <2> QED
    BY <1>1, <2>1, <2>2, <2>3, <2>4, <2>5, QuietStep DEF FullCall
<1>7. ASSUME NEW c \in Callers, step[c] = "inserting", Vacant(call[c]), table' = WithRow(call[c]),
             NEW a \in Answers, GoTo(c, a), UNCHANGED <<store, call>>, faults' \in 0..MaxFaults
      PROVE  IInv'
  <2>1. Locking(c) /\ call[c] # NoCall
    BY <1>1, <1>7 DEF Locking, Running
  <2>2. table[call[c].event] = NoRow
    BY <1>7 DEF Vacant
  <2>3. Recorded(call[c].stream) = 1..(call[c].sequence - 1)
    BY <1>7 DEF IInv, StillNext
  <2> QED
    BY <1>7, <2>1, <2>2, <2>3, OwnStream, RecordStep
<1>8. ASSUME NEW c \in Callers, NEW a \in Answers, GoTo(c, a),
             UNCHANGED <<store, table, call>>, faults' \in 0..MaxFaults
      PROVE  IInv'
  <2>1. a \in Steps /\ a \notin Running /\ a \notin {"measuring", "inserting"}
    BY <1>2 DEF Running
  <2> HIDE DEF FullCall
  <2> QED
    BY <1>1, <1>8, <2>1, QuietStep DEF FullCall
<1>9. ASSUME NEW c \in Callers, Insert(c) PROVE IInv'
  <2>1. "accepted" \in Answers /\ "unavailable" \in Answers
    BY DEF Answers
  <2> QED
    BY <1>1, <1>7, <1>8, <1>9, <2>1 DEF Insert
<1>10. ASSUME NEW c \in Callers, Fault(c) PROVE IInv'
  <2>1. faults' \in 0..MaxFaults
    BY <1>1, <1>10, SequenceAssumption DEF Fault
  <2>2. "unavailable" \in Answers
    BY DEF Answers
  <2> QED
    BY <1>7, <1>8, <1>10, <2>1, <2>2 DEF Fault
<1>11. ASSUME NEW c \in Callers, Apply(c) PROVE IInv'
  <2>1. /\ store = "memory" /\ step[c] = "locking" /\ UNCHANGED <<store, call, faults>>
        /\ call[c] # NoCall /\ call[c] \in FullCall
    BY <1>1, <1>11 DEF Apply, Running
  <2>2. {"duplicate", "accepted", "late", "gap"} \subseteq Answers
    BY DEF Answers
  <2>3. CASE table[call[c].event] # NoRow
    <3>1. UNCHANGED table /\ GoTo(c, "duplicate")
      BY <1>11, <2>3 DEF Apply
    <3> QED
      BY <1>1, <1>8, <2>1, <2>2, <3>1
  <2>4. CASE table[call[c].event] = NoRow /\ Decision(call[c]) = "next"
    <3>1. table' = WithRow(call[c]) /\ GoTo(c, "accepted")
      BY <1>11, <2>4 DEF Apply
    <3>2. Recorded(call[c].stream) = 1..(call[c].sequence - 1)
      BY <2>1, <2>4, NextIsNext DEF IInv
    <3> QED
      BY <1>1, <2>1, <2>2, <2>4, <3>1, <3>2, OwnStream, RecordStep
  <2>5. CASE table[call[c].event] = NoRow /\ Decision(call[c]) # "next"
    <3>1. UNCHANGED table /\ GoTo(c, AnswerTo(Decision(call[c])))
      BY <1>11, <2>5 DEF Apply
    <3>2. AnswerTo(Decision(call[c])) \in Answers
      BY <2>2, <2>5, DecisionType
    <3> QED
      BY <1>1, <1>8, <2>1, <3>1, <3>2
  <2> QED
    BY <2>3, <2>4, <2>5
<1>12. CASE UNCHANGED vars
  BY <1>12 DEF vars, IInv, TypeOK, OnePerStream, Locking, Gapless, Unshared, StillAbsent, StillNext, Recorded
<1> QED
  BY <1>3, <1>4, <1>5, <1>6, <1>9, <1>10, <1>11, <1>12 DEF Next

LEMMA Inductive == Spec => []IInv
<1> QED
  BY InitIInv, StepIInv, PTL DEF Spec

-----------------------------------------------------------------------------
(* The theorems                                                            *)

\* The table, the calls and the statements they are at keep their types.
THEOREM TypeCorrect == Spec => []TypeOK
<1>1. IInv => TypeOK
  BY DEF IInv
<1> QED
  BY <1>1, Inductive, PTL

\* Whatever arrives, raced, repeated or out of order, the sequences recorded
\* for a stream are 1..n.
THEOREM SequencesContiguous == Spec => []Contiguous
<1>1. IInv => Contiguous
  <2> SUFFICES ASSUME Gapless, NEW s \in Streams
               PROVE  Recorded(s) = 1..Cardinality(Recorded(s))
    BY DEF IInv, Contiguous
  <2>1. PICK n \in Nat : Recorded(s) = 1..n
    BY DEF Gapless
  <2>2. Cardinality(1..n) = n
    BY <2>1, FS_Interval
  <2> QED
    BY <2>1, <2>2
<1> QED
  BY <1>1, Inductive, PTL

\* A retry of an event that its stream has recorded is answered duplicate, and
\* neither late nor gap, however it races the first delivery.
THEOREM RetriesAreHarmless == Spec => RetryIsHarmless
<1>1. IInv /\ [Next]_vars =>
        [\A c \in Callers :
           step[c] \in Running /\ step'[c] \in {"late", "gap"} =>
             table[call[c].event] = NoRow \/ table[call[c].event].stream # call[c].stream]_vars
  <2> SUFFICES ASSUME IInv, Next, NEW c \in Callers, step[c] \in Running, step'[c] \in {"late", "gap"}
               PROVE  table[call[c].event] = NoRow \/ table[call[c].event].stream # call[c].stream
    OBVIOUS
  <2>1. step'[c] # step[c]
    BY DEF Running
  <2>2. \A d \in Callers, a \in Steps : GoTo(d, a) => d = c /\ step'[c] = a
    BY <2>1 DEF IInv, TypeOK, GoTo
  <2>3. PICK d \in Callers :
          Deliver(d) \/ Lock(d) \/ Find(d) \/ Measure(d) \/ Insert(d) \/ Fault(d) \/ Apply(d)
    BY DEF Next
  <2>4. CASE Measure(d)
    <3>1. d = c
      BY <2>1, <2>4 DEF Measure, GoTo, IInv, TypeOK
    <3> QED
      BY <2>4, <3>1 DEF Measure, IInv, StillAbsent
  <2>5. CASE Apply(d)
    <3>1. d = c
      BY <2>1, <2>5 DEF Apply, GoTo, IInv, TypeOK
    <3>2. step' = [step EXCEPT ![c] = "duplicate"] => step'[c] = "duplicate"
      BY DEF IInv, TypeOK
    <3> QED
      BY <2>5, <3>1, <3>2 DEF Apply, GoTo
  <2>6. CASE Deliver(d)
    BY <2>2, <2>6 DEF Deliver, Steps, Running
  <2>7. CASE Lock(d)
    BY <2>2, <2>7 DEF Lock, Steps, Running
  <2>8. CASE Find(d)
    BY <2>2, <2>8 DEF Find, Steps, Running, Answers
  <2>9. CASE Insert(d)
    BY <2>2, <2>9 DEF Insert, Steps, Running, Answers
  <2>10. CASE Fault(d)
    BY <2>2, <2>10 DEF Fault, Steps, Running, Answers
  <2> QED
    BY <2>3, <2>4, <2>5, <2>6, <2>7, <2>8, <2>9, <2>10
<1> QED
  BY <1>1, Inductive, PTL DEF Spec, RetryIsHarmless

\* The insert of a transaction fails for an event id of another stream only.
THEOREM CollisionsAreForeign == Spec => CollisionsCrossStreams
<1>1. IInv /\ [Next]_vars =>
        [\A c \in Callers :
           step[c] \in Running /\ step'[c] = "unavailable" /\ UNCHANGED faults =>
             table[call[c].event] # NoRow /\ table[call[c].event].stream # call[c].stream]_vars
  <2> SUFFICES ASSUME IInv, Next, NEW c \in Callers, step[c] \in Running,
                      step'[c] = "unavailable", UNCHANGED faults
               PROVE  table[call[c].event] # NoRow /\ table[call[c].event].stream # call[c].stream
    OBVIOUS
  <2>1. step'[c] # step[c]
    BY DEF Running
  <2>2. \A d \in Callers, a \in Steps : GoTo(d, a) => d = c /\ step'[c] = a
    BY <2>1 DEF IInv, TypeOK, GoTo
  <2>3. PICK d \in Callers :
          Deliver(d) \/ Lock(d) \/ Find(d) \/ Measure(d) \/ Insert(d) \/ Fault(d) \/ Apply(d)
    BY DEF Next
  <2>4. CASE Insert(d)
    <3>1. d = c /\ ~Vacant(call[c]) /\ step[c] = "inserting"
      BY <2>2, <2>4 DEF Insert, Steps, Answers
    <3>2. call[c].sequence \notin Recorded(call[c].stream)
      <4>1. call[c].sequence \in Nat
        BY <3>1 DEF IInv, TypeOK, Running
      <4> QED
        BY <3>1, <4>1 DEF IInv, StillNext
    <3> QED
      BY <3>1, <3>2 DEF Vacant, IInv, StillAbsent
  <2>5. CASE Apply(d)
    BY <2>2, <2>5, DecisionType DEF Apply, Steps, Answers
  <2>6. CASE Fault(d)
    BY <2>6, SequenceAssumption DEF Fault, IInv, TypeOK
  <2>7. CASE Deliver(d)
    BY <2>2, <2>7 DEF Deliver, Steps, Running
  <2>8. CASE Lock(d)
    BY <2>2, <2>8 DEF Lock, Steps, Running
  <2>9. CASE Find(d)
    BY <2>2, <2>9 DEF Find, Steps, Running, Answers
  <2>10. CASE Measure(d)
    BY <2>2, <2>10, DecisionType DEF Measure, Steps, Running, Answers
  <2> QED
    BY <2>3, <2>4, <2>5, <2>6, <2>7, <2>8, <2>9, <2>10
<1> QED
  BY <1>1, Inductive, PTL DEF Spec, CollisionsCrossStreams

-----------------------------------------------------------------------------
(* The refinement: a step records the next event of one stream or stutters *)

LEMMA TableSteps ==
  ASSUME IInv, [Next]_vars, ~UNCHANGED table
  PROVE  \E r \in [stream : Streams, event : Events, sequence : 1..MaxSequence] :
           /\ table[r.event] = NoRow /\ table' = WithRow(r)
           /\ Recorded(r.stream) = 1..(r.sequence - 1)
<1>1. PICK c \in Callers : Insert(c) \/ Fault(c) \/ Apply(c)
  BY DEF Next, vars, Deliver, Lock, Find, Measure
<1>2. step[c] \in Running
  BY <1>1 DEF Insert, Fault, Apply, Running
<1>3. call[c] \in [stream : Streams, event : Events, sequence : 1..MaxSequence]
  BY <1>2 DEF IInv, TypeOK
<1>4. CASE Insert(c) \/ Fault(c)
  <2>1. step[c] = "inserting" /\ Vacant(call[c]) /\ table' = WithRow(call[c])
    BY <1>4 DEF Insert, Fault
  <2> QED
    BY <1>3, <2>1 DEF Vacant, IInv, StillNext
<1>5. CASE Apply(c)
  <2>1. table[call[c].event] = NoRow /\ Decision(call[c]) = "next" /\ table' = WithRow(call[c])
    BY <1>5 DEF Apply
  <2> QED
    BY <1>3, <2>1, NextIsNext DEF IInv
<1> QED
  BY <1>1, <1>4, <1>5

LEMMA EventAtUnique ==
  ASSUME Unshared, NEW s, NEW n, NEW e \in Events, table[e] = [stream |-> s, sequence |-> n],
         table[e] # NoRow
  PROVE  EventAt(s, n) = e
<1>1. \A d \in Events : table[d] = [stream |-> s, sequence |-> n] => d = e
  BY DEF Unshared
<1> QED
  BY <1>1 DEF EventAt

LEMMA EventAtRow ==
  ASSUME TypeOK, NEW s \in Streams, NEW n \in Recorded(s)
  PROVE  /\ EventAt(s, n) \in Events
         /\ table[EventAt(s, n)] = [stream |-> s, sequence |-> n]
         /\ table[EventAt(s, n)] # NoRow
<1>1. PICK e \in Events : table[e] # NoRow /\ table[e].stream = s /\ table[e].sequence = n
  BY DEF Recorded
<1>2. table[e] \in Row
  BY <1>1 DEF TypeOK
<1>3. table[e] = [stream |-> s, sequence |-> n]
  BY <1>1, <1>2 DEF Row
<1>4. EventAt(s, n) \in Events /\ table[EventAt(s, n)] = [stream |-> s, sequence |-> n]
  BY <1>3 DEF EventAt
<1> QED
  BY <1>1, <1>3, <1>4

LogOf(s) == [n \in 1..Checkpoint(s) |-> EventAt(s, n)]

LogTyped(s) ==
  /\ Checkpoint(s) \in Nat /\ Recorded(s) = 1..Checkpoint(s)
  /\ LogOf(s) \in Seq(Events) /\ Len(LogOf(s)) = Checkpoint(s)

AllTyped == \A s \in Streams : LogTyped(s)

LEMMA LogType == IInv => AllTyped
<1> SUFFICES ASSUME IInv, NEW s \in Streams PROVE LogTyped(s)
  BY DEF AllTyped
<1>1. PICK n \in Nat : Recorded(s) = 1..n
  BY DEF IInv, Gapless
<1>2. Checkpoint(s) = n
  BY <1>1, CheckpointOfInterval
<1>3. \A m \in 1..n : EventAt(s, m) \in Events
  BY <1>1, EventAtRow DEF IInv
<1> QED
  BY <1>1, <1>2, <1>3 DEF LogOf, LogTyped

LEMMA LogTypeNext == IInv' => AllTyped'
BY LogType, PTL

\* One row more is one entry more at the end of its stream's log.
LEMMA LogGrows ==
  ASSUME IInv, IInv', NEW r \in [stream : Streams, event : Events, sequence : 1..MaxSequence],
         table[r.event] = NoRow, table' = WithRow(r),
         Recorded(r.stream) = 1..(r.sequence - 1), NEW s \in Streams
  PROVE  LogOf(s)' = IF s = r.stream THEN Append(LogOf(s), r.event) ELSE LogOf(s)
<1> DEFINE row == [stream |-> r.stream, sequence |-> r.sequence]
<1>1. Recorded(s)' = IF s = r.stream THEN Recorded(s) \cup {r.sequence} ELSE Recorded(s)
  BY RecordedWithRow DEF IInv
<1>2. row \in Row /\ row # NoRow
  BY NoRowAssumption DEF Row
<1>3. /\ table'[r.event] = row
      /\ \A e \in Events : table[e] # NoRow => table'[e] = table[e]
  BY DEF WithRow, IInv, TypeOK
<1>4. \A n \in Recorded(s) : EventAt(s, n)' = EventAt(s, n)
  <2> SUFFICES ASSUME NEW n \in Recorded(s) PROVE EventAt(s, n)' = EventAt(s, n)
    OBVIOUS
  <2> DEFINE e == EventAt(s, n)
  <2>1. e \in Events /\ table[e] = [stream |-> s, sequence |-> n] /\ table[e] # NoRow
    BY EventAtRow DEF IInv
  <2> HIDE DEF e
  <2>2. table'[e] = [stream |-> s, sequence |-> n] /\ table'[e] # NoRow
    BY <1>3, <2>1
  <2>3. \A d \in Events : table'[d] = [stream |-> s, sequence |-> n] => d = e
    BY <2>1, <2>2 DEF IInv, Unshared
  <2>4. EventAt(s, n)' = e
    BY <2>1, <2>2, <2>3 DEF EventAt
  <2> QED
    BY <2>4 DEF e
<1>5. /\ Checkpoint(s) \in Nat /\ Recorded(s) = 1..Checkpoint(s)
      /\ LogOf(s) \in Seq(Events) /\ Len(LogOf(s)) = Checkpoint(s)
  BY LogType DEF LogTyped, AllTyped
<1>6. /\ Checkpoint(s)' \in Nat /\ Recorded(s)' = 1..Checkpoint(s)'
      /\ LogOf(s)' \in Seq(Events) /\ Len(LogOf(s)') = Checkpoint(s)'
  BY LogTypeNext DEF LogTyped, AllTyped
<1>7. CASE s # r.stream
  <2>1. Recorded(s)' = Recorded(s)
    BY <1>1, <1>7
  <2>2. Checkpoint(s)' = Checkpoint(s)
    BY <2>1, CheckpointOfInterval, <1>5, <1>6
  <2> QED
    BY <1>4, <1>5, <1>7, <2>2 DEF LogOf
<1>8. CASE s = r.stream
  <2>1. r.sequence \in Nat \ {0} /\ Checkpoint(s) = r.sequence - 1
    BY <1>8, SequenceAssumption, CheckpointOfInterval
  <2>2. Recorded(s)' = 1..r.sequence
    BY <1>1, <1>8, <2>1
  <2>3. Checkpoint(s)' = r.sequence
    BY <1>6, <2>1, <2>2
  <2>4. EventAt(s, r.sequence)' = r.event
    <3>1. \A d \in Events : table'[d] = [stream |-> s, sequence |-> r.sequence] => d = r.event
      BY <1>2, <1>3, <1>8 DEF IInv, Unshared
    <3> QED
      BY <1>3, <1>8, <3>1 DEF EventAt
  <2>5. \A n \in 1..r.sequence : LogOf(s)'[n] = IF n = r.sequence THEN r.event ELSE LogOf(s)[n]
    <3> SUFFICES ASSUME NEW n \in 1..r.sequence
                 PROVE  LogOf(s)'[n] = IF n = r.sequence THEN r.event ELSE LogOf(s)[n]
      OBVIOUS
    <3>1. LogOf(s)'[n] = EventAt(s, n)'
      BY <2>3 DEF LogOf
    <3>2. CASE n = r.sequence
      BY <2>4, <3>1, <3>2
    <3>3. CASE n # r.sequence
      <4>1. n \in 1..Checkpoint(s)
        BY <2>1, <3>3
      <4>2. LogOf(s)[n] = EventAt(s, n)
        BY <4>1 DEF LogOf
      <4> QED
        BY <1>4, <1>5, <3>1, <3>3, <4>1, <4>2
    <3> QED
      BY <3>2, <3>3
  <2> DEFINE old == LogOf(s)
             new == LogOf(s)'
  <2>6. /\ old \in Seq(Events) /\ Len(old) = r.sequence - 1
        /\ new \in Seq(Events) /\ Len(new) = r.sequence
        /\ \A n \in 1..r.sequence : new[n] = IF n = r.sequence THEN r.event ELSE old[n]
    BY <1>5, <1>6, <2>1, <2>3, <2>5
  <2> HIDE DEF old, new
  <2>7. /\ Append(old, r.event) \in Seq(Events) /\ Len(Append(old, r.event)) = r.sequence
        /\ \A n \in 1..r.sequence :
             Append(old, r.event)[n] = IF n = r.sequence THEN r.event ELSE old[n]
    BY <2>1, <2>6, AppendProperties
  <2>8. new = Append(old, r.event)
    BY <2>1, <2>6, <2>7, SeqEqual
  <2> QED
    BY <1>8, <2>8 DEF old, new
<1> QED
  BY <1>7, <1>8

\* Both stores keep an append-only log of distinct events per stream.
THEOREM CheckpointsImplementLedger == Spec => ImplementsLedger
<1> DEFINE Log == [s \in Streams |-> LogOf(s)]
<1>1. Init => Log = [s \in Streams |-> << >>]
  <2> SUFFICES ASSUME Init, NEW s \in Streams PROVE LogOf(s) = << >>
    OBVIOUS
  <2>1. LogOf(s) \in Seq(Events) /\ Len(LogOf(s)) = Checkpoint(s)
    BY InitIInv, LogType DEF LogTyped, AllTyped
  <2>2. Recorded(s) = 1..0
    BY DEF Init, Recorded
  <2>3. Checkpoint(s) = 0
    BY <2>2, CheckpointOfInterval
  <2> QED
    BY <2>1, <2>3, EmptySeq
<1>2. IInv /\ [Next]_vars => [Ledger!Next]_Log
  <2> SUFFICES ASSUME IInv, [Next]_vars PROVE Ledger!Next \/ Log' = Log
    OBVIOUS
  <2>1. CASE UNCHANGED table
    BY <2>1 DEF LogOf, Checkpoint, EventAt, Recorded
  <2>2. CASE ~UNCHANGED table
    <3>1. PICK r \in [stream : Streams, event : Events, sequence : 1..MaxSequence] :
            /\ table[r.event] = NoRow /\ table' = WithRow(r)
            /\ Recorded(r.stream) = 1..(r.sequence - 1)
      BY <2>2, TableSteps
    <3>2. IInv'
      BY StepIInv
    <3>3. \A s \in Streams :
            LogOf(s)' = IF s = r.stream THEN Append(LogOf(s), r.event) ELSE LogOf(s)
      BY <3>1, <3>2, LogGrows
    <3>4. Log' = [Log EXCEPT ![r.stream] = Append(@, r.event)]
      BY <3>3
    <3>5. r.event \notin UNION {{Log[s][n] : n \in DOMAIN Log[s]} : s \in Streams}
      <4> SUFFICES ASSUME NEW s \in Streams, NEW n \in DOMAIN LogOf(s), LogOf(s)[n] = r.event
                   PROVE  FALSE
        OBVIOUS
      <4>1. n \in Recorded(s) /\ LogOf(s)[n] = EventAt(s, n)
        BY LogType DEF LogOf, LogTyped, AllTyped
      <4>2. TypeOK
        BY DEF IInv
      <4>3. table[EventAt(s, n)] # NoRow
        BY <4>1, <4>2, EventAtRow
      <4> QED
        BY <3>1, <4>1, <4>3
    <3>6. Ledger!Accept(r.stream, r.event)
      BY <3>4, <3>5 DEF Ledger!Accept, Ledger!Logged, LogOf
    <3> QED
      BY <3>6 DEF Ledger!Next
  <2> QED
    BY <2>1, <2>2
<1>3. Log = [s \in Streams |-> [n \in 1..Checkpoint(s) |-> EventAt(s, n)]]
  BY DEF LogOf
<1>4. Init => Ledger!Init
  BY <1>1, <1>3 DEF Ledger!Init
<1>5. IInv /\ [Next]_vars =>
        [Ledger!Next]_([s \in Streams |-> [n \in 1..Checkpoint(s) |-> EventAt(s, n)]])
  BY <1>2 DEF LogOf
<1> QED
  BY <1>4, <1>5, Inductive, PTL DEF Spec, ImplementsLedger, Ledger!Spec

=============================================================================
