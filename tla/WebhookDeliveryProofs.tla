----------------------- MODULE WebhookDeliveryProofs -----------------------
(* Theorems about the webhook deliveries, for any deliveries, processes and  *)
(* overlapping calls of processDue.  They rest on what holds of a delivery   *)
(* as long as it has met no cause of redelivery: who works on it has its     *)
(* key, and the row has not changed since it was read.                       *)
EXTENDS WebhookDelivery, Sequences, FiniteSetTheorems, TLAPS

Busy(p, d) == At(p, d) \in InFlight \cup {"leased"}
Holds(p, d) == lease[d] # NoKey /\ lease[d].value = Nonced(p)
Current(p, d) == Due(rows[d]) /\ rows[d].attempts = job[p][d].attempts
Gone(d) == rows[d].status = "gone"
Senders(d) == {p \in Pollers : At(p, d) \in InFlight}

\* The key and the row are the worker's own, and its request is counted.
Sound(d) ==
  ~excused[d] =>
    /\ \A p \in Pollers : Busy(p, d) => Holds(p, d) /\ (Gone(d) \/ Current(p, d))
    /\ Gone(d) \/ sent[d] = rows[d].attempts + Cardinality(Senders(d))

\* A row that may still be sent, and a job that was read from one, has attempts left.
RowsAreOpen ==
  \A d \in Deliveries :
    /\ rows[d].status = "absent" => rows[d].attempts = 0
    /\ rows[d].status = "pending" => rows[d].attempts < MaxAttempts
JobsAreOpen == \A p \in Pollers, d \in Deliveries : job[p][d].attempts < MaxAttempts

IInv == TypeOK /\ RowsAreOpen /\ JobsAreOpen /\ \A d \in Deliveries : Sound(d)

Job == [at : Places, attempts : 0..MaxAttempts]

-----------------------------------------------------------------------------
(* Pollers                                                                 *)

LEMMA PollersFinite ==
  ASSUME NEW S \in SUBSET Pollers
  PROVE  IsFiniteSet(S) /\ Cardinality(S) \in Nat
BY SizeAssumption, FS_Subset, FS_CardinalityType

\* The value of a key names its poller.
LEMMA OneHolder ==
  ASSUME IInv, NEW d \in Deliveries, ~excused[d],
         NEW p \in Pollers, NEW q \in Pollers, Busy(p, d), Busy(q, d)
  PROVE  p = q
<1>1. lease[d].value = Nonced(p) /\ lease[d].value = Nonced(q)
  BY DEF IInv, Sound, Holds
<1>2. Nonced(p) = Nonced(q)
  BY <1>1
<1>3. QED
  BY <1>2 DEF Nonced

LEMMA FreeMeansIdle ==
  ASSUME IInv, NEW d \in Deliveries, ~excused[d], KeyFree(d), NEW p \in Pollers
  PROVE  ~Busy(p, d)
BY DEF IInv, Sound, Holds, KeyFree

\* A poller at work is the only one, so at most its own request is in the air.
LEMMA LoneSender ==
  ASSUME IInv, NEW d \in Deliveries, ~excused[d], NEW p \in Pollers, Busy(p, d)
  PROVE  /\ \A q \in Pollers \ {p} : ~Busy(q, d)
         /\ Cardinality(Senders(d)) = IF At(p, d) \in InFlight THEN 1 ELSE 0
<1>1. \A q \in Pollers \ {p} : ~Busy(q, d)
  BY OneHolder
<1>2. CASE At(p, d) \in InFlight
  <2>1. Senders(d) = {p}
    BY <1>1, <1>2 DEF Senders, Busy
  <2>2. QED
    BY <1>1, <1>2, <2>1, FS_Singleton
<1>3. CASE At(p, d) \notin InFlight
  <2>1. Senders(d) = {}
    BY <1>1, <1>3 DEF Senders, Busy
  <2>2. QED
    BY <1>1, <1>3, <2>1, FS_EmptySet
<1>4. QED
  BY <1>2, <1>3

\* Where p is with d becomes j; nothing else of the jobs changes.
BecomesJob(p, d, j) ==
  /\ job' \in [Pollers -> [Deliveries -> Job]]
  /\ job'[p][d] = j
  /\ \A q \in Pollers, e \in Deliveries : q # p \/ e # d => job'[q][e] = job[q][e]

LEMMA Moved ==
  ASSUME TypeOK, NEW p \in Pollers, NEW d \in Deliveries, NEW place \in Places,
         Move(p, d, place)
  PROVE  BecomesJob(p, d, [at |-> place, attempts |-> job[p][d].attempts])
<1> DEFINE j == [job[p][d] EXCEPT !.at = place]
<1>1. job \in [Pollers -> [Deliveries -> Job]]
  BY DEF TypeOK, Job
<1>2. j \in Job /\ j = [at |-> place, attempts |-> job[p][d].attempts]
  BY <1>1 DEF Job
<1>3. job' = [job EXCEPT ![p] = [job[p] EXCEPT ![d] = j]]
  BY DEF Move
<1> HIDE DEF j
<1>4. QED
  BY <1>1, <1>2, <1>3 DEF BecomesJob

LEMMA Left ==
  ASSUME TypeOK, NEW p \in Pollers, NEW d \in Deliveries, Leave(p, d)
  PROVE  BecomesJob(p, d, Out)
<1>1. job \in [Pollers -> [Deliveries -> Job]]
  BY DEF TypeOK, Job
<1>2. Out \in Job
  BY AttemptsAssumption DEF Job, Out, Places
<1>3. job' = [job EXCEPT ![p] = [job[p] EXCEPT ![d] = Out]]
  BY DEF Leave
<1>4. QED
  BY <1>1, <1>2, <1>3 DEF BecomesJob

LEMMA ChargeType ==
  ASSUME TypeOK, NEW fault \in BOOLEAN, Charge(fault)
  PROVE  faults' \in 0..MaxFaults
BY LeaseAssumption DEF TypeOK, Charge

LEMMA ExcuseType ==
  ASSUME TypeOK, NEW d \in Deliveries, NEW cause \in BOOLEAN, Excuse(d, cause)
  PROVE  /\ excused' \in [Deliveries -> BOOLEAN]
         /\ ~excused'[d] => ~excused[d] /\ ~cause
         /\ \A e \in Deliveries \ {d} : excused'[e] = excused[e]
BY DEF TypeOK, Excuse

\* What another delivery keeps while a poller works on d.
LEMMA OthersKeep ==
  ASSUME IInv, NEW p \in Pollers, NEW d \in Deliveries, NEW j, BecomesJob(p, d, j),
         \A e \in Deliveries \ {d} : /\ rows'[e] = rows[e] /\ lease'[e] = lease[e]
                                     /\ sent'[e] = sent[e] /\ excused'[e] = excused[e],
         TypeOK', Sound(d)', j.attempts < MaxAttempts,
         /\ rows'[d].status = "absent" => rows'[d].attempts = 0
         /\ rows'[d].status = "pending" => rows'[d].attempts < MaxAttempts
  PROVE  IInv'
<1>1. ASSUME NEW e \in Deliveries \ {d}
      PROVE  Sound(e)'
  <2>1. \A q \in Pollers : job'[q][e] = job[q][e]
    BY DEF BecomesJob
  <2>2. Senders(e)' = Senders(e)
    BY <2>1 DEF Senders, At
  <2>3. rows'[e] = rows[e] /\ lease'[e] = lease[e] /\ sent'[e] = sent[e] /\ excused'[e] = excused[e]
    OBVIOUS
  <2>4. Sound(e)
    BY DEF IInv
  <2>5. QED
    BY <2>1, <2>2, <2>3, <2>4 DEF Sound, Busy, Holds, Current, Gone, At
<1>2. RowsAreOpen'
  BY DEF IInv, RowsAreOpen
<1>3. JobsAreOpen'
  BY DEF IInv, JobsAreOpen, BecomesJob
<1>4. QED
  BY <1>1, <1>2, <1>3 DEF IInv

-----------------------------------------------------------------------------
(* The table                                                               *)

LEMMA EnqueueStep ==
  ASSUME IInv, NEW d \in Deliveries, Enqueue(d)
  PROVE  IInv'
<1> DEFINE r == [rows[d] EXCEPT !.status = "pending"]
<1>1. rows' = [rows EXCEPT ![d] = r] /\ UNCHANGED <<lease, job, faults, sent, excused>>
  BY DEF Enqueue
<1>2. rows[d] \in Row /\ rows[d].status = "absent" /\ rows[d].attempts = 0
  BY DEF Enqueue, IInv, TypeOK, RowsAreOpen
<1>3. r \in Row /\ r.status = "pending" /\ r.attempts = rows[d].attempts
  BY <1>2 DEF Row
<1> HIDE DEF r
<1>4. TypeOK'
  BY <1>1, <1>3 DEF IInv, TypeOK
<1>5. RowsAreOpen' /\ JobsAreOpen'
  BY <1>1, <1>2, <1>3, AttemptsAssumption DEF IInv, TypeOK, RowsAreOpen, JobsAreOpen
<1>6. ASSUME NEW e \in Deliveries
      PROVE  Sound(e)'
  <2>1. Senders(e)' = Senders(e)
    BY <1>1 DEF Senders, At
  <2>2. CASE e = d
    <3>1. rows'[d].attempts = rows[d].attempts
      BY <1>1, <1>3 DEF IInv, TypeOK
    <3>2. ASSUME ~excused[d], NEW p \in Pollers
          PROVE  ~Busy(p, d)
      BY <1>2, <3>2 DEF IInv, Sound, Gone, Current, Due
    <3>3. ~excused[d] => sent[d] = rows[d].attempts + Cardinality(Senders(d))
      BY <1>2 DEF IInv, Sound, Gone
    <3>4. QED
      BY <1>1, <2>1, <2>2, <3>1, <3>2, <3>3 DEF Sound, Busy, At
  <2>3. CASE e # d
    <3>1. rows'[e] = rows[e] /\ Sound(e)
      BY <1>1, <2>3 DEF IInv, TypeOK
    <3>2. QED
      BY <1>1, <2>1, <3>1 DEF Sound, Busy, Holds, Current, Gone, At
  <2>4. QED
    BY <2>2, <2>3
<1>7. QED
  BY <1>4, <1>5, <1>6 DEF IInv

\* A row that is gone is nobody's any more, whoever works on it still has its key.
LEMMA DeleteSubscriptionStep ==
  ASSUME IInv, NEW d \in Deliveries, DeleteSubscription(d)
  PROVE  IInv'
<1> DEFINE r == [status |-> "gone", attempts |-> 0, wait |-> 0]
<1>1. rows' = [rows EXCEPT ![d] = r] /\ UNCHANGED <<lease, job, faults, sent, excused>>
  BY DEF DeleteSubscription
<1>2. r \in Row /\ r.status = "gone"
  BY AttemptsAssumption DEF Row
<1> HIDE DEF r
<1>3. TypeOK'
  BY <1>1, <1>2 DEF IInv, TypeOK
<1>4. RowsAreOpen' /\ JobsAreOpen'
  BY <1>1, <1>2 DEF IInv, TypeOK, RowsAreOpen, JobsAreOpen
<1>5. ASSUME NEW e \in Deliveries
      PROVE  Sound(e)'
  <2>1. Senders(e)' = Senders(e)
    BY <1>1 DEF Senders, At
  <2>2. Sound(e) /\ (rows'[e] = rows[e] \/ rows'[e].status = "gone")
    BY <1>1, <1>2 DEF IInv, TypeOK
  <2>3. QED
    BY <1>1, <2>1, <2>2 DEF Sound, Busy, Holds, Current, Gone, At
<1>6. QED
  BY <1>3, <1>4, <1>5 DEF IInv

\* What is listed has attempts left; the poller had no other work.
LEMMA ListStep ==
  ASSUME IInv, NEW p \in Pollers, List(p)
  PROVE  IInv'
<1>1. PICK S \in SUBSET {d \in Deliveries : Due(rows[d])} :
        job' = [job EXCEPT ![p] = [d \in Deliveries |->
                  IF d \in S THEN [at |-> "listed", attempts |-> rows[d].attempts] ELSE Out]]
  BY DEF List
<1>2. UNCHANGED <<rows, lease, faults, sent, excused>>
  BY DEF List
<1>3. job \in [Pollers -> [Deliveries -> Job]]
  BY DEF IInv, TypeOK, Job
<1>4. ASSUME NEW d \in S
      PROVE  rows[d].attempts \in 0..MaxAttempts /\ rows[d].attempts < MaxAttempts
  BY DEF IInv, TypeOK, Row, RowsAreOpen, Due
<1>5. \A d \in S : [at |-> "listed", attempts |-> rows[d].attempts] \in Job
  BY <1>4 DEF Job, Places
<1>6. Out \in Job /\ Out.at = "out" /\ Out.attempts < MaxAttempts
  BY AttemptsAssumption DEF Job, Out, Places
<1>7. \A d \in Deliveries : /\ job'[p][d] \in Job
                             /\ job'[p][d].at \in {"listed", "out"}
                             /\ job'[p][d].attempts < MaxAttempts
  BY <1>1, <1>3, <1>4, <1>5, <1>6
<1>8. \A q \in Pollers \ {p} : job'[q] = job[q]
  BY <1>1, <1>3
<1>9. job' \in [Pollers -> [Deliveries -> Job]]
  BY <1>1, <1>3, <1>5, <1>6
<1>10. TypeOK'
  BY <1>2, <1>9 DEF IInv, TypeOK, Job
<1>11. RowsAreOpen' /\ JobsAreOpen'
  BY <1>2, <1>7, <1>8 DEF IInv, RowsAreOpen, JobsAreOpen
<1>12. ASSUME NEW d \in Deliveries
       PROVE  Sound(d)'
  <2>1. job[p][d].at = "out" /\ job'[p][d].at \in {"listed", "out"}
    BY <1>7 DEF List, At
  <2>2. \A q \in Pollers : Busy(q, d)' => Busy(q, d) /\ job'[q] = job[q]
    BY <1>8, <2>1 DEF Busy, At, InFlight
  <2>3. Senders(d)' = Senders(d)
    BY <1>8, <2>1 DEF Senders, At, InFlight
  <2>4. Sound(d)
    BY DEF IInv
  <2>5. QED
    BY <1>2, <2>2, <2>3, <2>4 DEF Sound, Holds, Current, Gone
<1>13. QED
  BY <1>10, <1>11, <1>12 DEF IInv

-----------------------------------------------------------------------------
(* The lease                                                               *)

LEMMA NewKey ==
  ASSUME TypeOK, NEW p \in Pollers, NEW d \in Deliveries,
         lease' = [lease EXCEPT ![d] = [value |-> Nonced(p), ttl |-> LeaseTicks]]
  PROVE  /\ lease' \in [Deliveries -> Key \cup {NoKey}]
         /\ lease'[d] # NoKey /\ lease'[d].value = Nonced(p)
         /\ \A e \in Deliveries \ {d} : lease'[e] = lease[e]
<1> DEFINE k == [value |-> Nonced(p), ttl |-> LeaseTicks]
<1>1. k \in Key /\ k.value = Nonced(p)
  BY LeaseAssumption DEF Key
<1> HIDE DEF k
<1>2. k # NoKey
  BY <1>1, NoKeyAssumption
<1>3. lease' = [lease EXCEPT ![d] = k]
  BY DEF k
<1>4. QED
  BY <1>1, <1>2, <1>3 DEF TypeOK

\* A stale listing apart, the poller that takes the key finds the row as it was listed,
\* and nobody at work on it.
LEMMA AcquireStep ==
  ASSUME IInv, NEW p \in Pollers, NEW d \in Deliveries, Acquire(p, d)
  PROVE  IInv'
<1> DEFINE j == [at |-> "leased", attempts |-> job[p][d].attempts]
<1>1. /\ At(p, d) = "listed" /\ KeyFree(d) /\ Move(p, d, "leased")
      /\ UNCHANGED <<rows, faults, sent>>
      /\ Excuse(d, ~Due(rows[d]) \/ rows[d].attempts # job[p][d].attempts)
      /\ lease' = [lease EXCEPT ![d] = [value |-> Nonced(p), ttl |-> LeaseTicks]]
  BY DEF Acquire
<1>2. TypeOK /\ "leased" \in Places
  BY DEF IInv, Places
<1>3. BecomesJob(p, d, j) /\ j.at = "leased" /\ j.attempts = job[p][d].attempts
  BY <1>1, <1>2, Moved
<1> HIDE DEF j
<1>4. /\ lease' \in [Deliveries -> Key \cup {NoKey}]
      /\ Holds(p, d)'
      /\ \A e \in Deliveries \ {d} : lease'[e] = lease[e]
  BY <1>1, <1>2, NewKey DEF Holds, Nonced
<1>5. (~Due(rows[d]) \/ rows[d].attempts # job[p][d].attempts) \in BOOLEAN
  OBVIOUS
<1>6. /\ excused' \in [Deliveries -> BOOLEAN]
      /\ ~excused'[d] => ~excused[d] /\ Due(rows[d]) /\ rows[d].attempts = job[p][d].attempts
      /\ \A e \in Deliveries \ {d} : excused'[e] = excused[e]
  BY <1>1, <1>2, <1>5, ExcuseType
<1>7. TypeOK'
  BY <1>1, <1>3, <1>4, <1>6 DEF IInv, TypeOK, BecomesJob, Job
<1>8. Sound(d)'
  <2>1. SUFFICES ASSUME ~excused'[d]
                 PROVE  /\ \A q \in Pollers : Busy(q, d)' => Holds(q, d)' /\ Current(q, d)'
                        /\ rows[d].status = "gone" \/ sent[d] = rows[d].attempts + Cardinality(Senders(d)')
    BY <1>1 DEF Sound, Gone
  <2>2. ~excused[d] /\ \A q \in Pollers : ~Busy(q, d)
    BY <1>1, <1>6, <2>1, FreeMeansIdle
  <2>3. Senders(d)' = Senders(d)
    BY <1>1, <1>3 DEF Senders, At, BecomesJob, InFlight
  <2>4. \A q \in Pollers : Busy(q, d)' => q = p
    BY <1>3, <2>2 DEF Busy, At, BecomesJob
  <2>5. Current(p, d)'
    BY <1>1, <1>3, <1>6, <2>1 DEF Current, BecomesJob, Due
  <2>6. QED
    BY <1>4, <2>2, <2>3, <2>4, <2>5 DEF IInv, Sound, Gone
<1>9. QED
  BY <1>1, <1>3, <1>4, <1>6, <1>7, <1>8, OthersKeep DEF IInv, RowsAreOpen, JobsAreOpen

\* A key that is taken for nobody is taken when nobody is at work.
LEMMA SkipStep ==
  ASSUME IInv, NEW p \in Pollers, NEW d \in Deliveries, Skip(p, d)
  PROVE  IInv'
<1>1. /\ At(p, d) = "listed" /\ Leave(p, d) /\ UNCHANGED <<rows, sent, excused>>
      /\ Charge(KeyFree(d))
  BY DEF Skip
<1>2. TypeOK /\ KeyFree(d) \in BOOLEAN
  BY DEF IInv, KeyFree
<1>3. BecomesJob(p, d, Out) /\ Out.at = "out" /\ Out.attempts < MaxAttempts
  BY <1>1, <1>2, Left, AttemptsAssumption DEF Out
<1>4. /\ lease' \in [Deliveries -> Key \cup {NoKey}]
      /\ lease'[d] = lease[d] \/ KeyFree(d)
      /\ \A e \in Deliveries \ {d} : lease'[e] = lease[e]
  <2>1. CASE UNCHANGED lease
    BY <1>2, <2>1 DEF TypeOK
  <2>2. CASE KeyFree(d) /\ lease' = [lease EXCEPT ![d] = [value |-> Nonced(p), ttl |-> LeaseTicks]]
    BY <1>2, <2>2, NewKey
  <2>3. QED
    BY <2>1, <2>2 DEF Skip
<1>5. faults' \in 0..MaxFaults
  BY <1>1, <1>2, ChargeType
<1>6. TypeOK'
  BY <1>1, <1>3, <1>4, <1>5 DEF IInv, TypeOK, BecomesJob, Job
<1>7. Sound(d)'
  <2>1. \A q \in Pollers : Busy(q, d)' => Busy(q, d) /\ job'[q][d] = job[q][d]
    BY <1>3 DEF Busy, At, BecomesJob, InFlight
  <2>2. Senders(d)' = Senders(d)
    BY <1>1, <1>3 DEF Senders, At, BecomesJob, InFlight
  <2>3. \A q \in Pollers : ~excused[d] /\ Busy(q, d) => lease'[d] = lease[d]
    BY <1>4, FreeMeansIdle
  <2>4. Sound(d)
    BY DEF IInv
  <2>5. QED
    BY <1>1, <2>1, <2>2, <2>3, <2>4 DEF Sound, Holds, Current, Gone
<1>8. QED
  BY <1>1, <1>3, <1>4, <1>6, <1>7, OthersKeep DEF IInv, RowsAreOpen

\* A poller that stops without having sent.
LEMMA QuietStep ==
  ASSUME IInv, NEW p \in Pollers, NEW d \in Deliveries, NEW j, BecomesJob(p, d, j),
         At(p, d) \notin InFlight, j.at \notin InFlight \cup {"leased"},
         j.attempts < MaxAttempts, UNCHANGED <<rows, lease, sent, excused>>,
         faults' \in 0..MaxFaults
  PROVE  IInv'
<1>1. TypeOK'
  BY DEF IInv, TypeOK, BecomesJob, Job
<1>2. Sound(d)'
  <2>1. \A q \in Pollers : Busy(q, d)' => Busy(q, d) /\ job'[q][d] = job[q][d]
    BY DEF Busy, At, BecomesJob
  <2>2. Senders(d)' = Senders(d)
    BY DEF Senders, At, BecomesJob
  <2>3. Sound(d)
    BY DEF IInv
  <2>4. QED
    BY <2>1, <2>2, <2>3 DEF Sound, Holds, Current, Gone
<1>3. QED
  BY <1>1, <1>2, OthersKeep DEF IInv, RowsAreOpen

LEMMA LookupFailsStep ==
  ASSUME IInv, NEW p \in Pollers, NEW d \in Deliveries, LookupFails(p, d)
  PROVE  IInv'
<1> DEFINE j == [at |-> "releasing", attempts |-> job[p][d].attempts]
<1>1. At(p, d) = "leased" /\ Charge(TRUE) /\ UNCHANGED <<rows, lease, sent, excused>>
  BY DEF LookupFails
<1>2. BecomesJob(p, d, j)
  BY Moved DEF LookupFails, IInv, Places
<1>3. At(p, d) \notin InFlight /\ j.at \notin InFlight \cup {"leased"}
  BY <1>1 DEF InFlight
<1>4. j.attempts < MaxAttempts
  BY DEF IInv, JobsAreOpen
<1>5. faults' \in 0..MaxFaults
  BY <1>1, ChargeType DEF IInv
<1> HIDE DEF j
<1>6. QED
  BY <1>1, <1>2, <1>3, <1>4, <1>5, QuietStep

\* The script of release compares with a value no key ever has.
LEMMA ReleaseMisses ==
  ASSUME TypeOK, NEW p \in Pollers, NEW d \in Deliveries
  PROVE  ~ReleaseFinds(p, d)
<1>1. SUFFICES ASSUME lease[d] # NoKey, lease[d].value = <<Worker[p]>> PROVE FALSE
  BY DEF ReleaseFinds, Unnonced
<1>2. PICK q \in Pollers : lease[d].value = <<Worker[q], q>>
  BY <1>1 DEF TypeOK, Key, Nonced
<1>3. <<Worker[q], q>> = <<Worker[p]>>
  BY <1>1, <1>2
<1>4. Len(<<Worker[q], q>>) = 2 /\ Len(<<Worker[p]>>) = 1
  OBVIOUS
<1>5. QED
  BY <1>3, <1>4

LEMMA ReleaseStep ==
  ASSUME IInv, NEW p \in Pollers, NEW d \in Deliveries, Release(p, d)
  PROVE  IInv'
<1>1. /\ At(p, d) = "releasing" /\ Leave(p, d) /\ UNCHANGED <<rows, faults, sent, excused>>
      /\ lease' = IF ReleaseFinds(p, d) THEN [lease EXCEPT ![d] = NoKey] ELSE lease
  BY DEF Release
<1>2. lease' = lease
  BY <1>1, ReleaseMisses DEF IInv
<1>3. BecomesJob(p, d, Out)
  BY <1>1, Left DEF IInv
<1>4. At(p, d) \notin InFlight /\ Out.at \notin InFlight \cup {"leased"} /\ Out.attempts < MaxAttempts
  BY <1>1, AttemptsAssumption DEF InFlight, Out
<1>5. faults' \in 0..MaxFaults
  BY <1>1 DEF IInv, TypeOK
<1>6. QED
  BY <1>1, <1>2, <1>3, <1>4, <1>5, QuietStep

-----------------------------------------------------------------------------
(* The request and its result                                              *)

\* The request that starts is the only one of its delivery, and the next one counted.
LEMMA SendStep ==
  ASSUME IInv, NEW p \in Pollers, NEW d \in Deliveries, Send(p, d)
  PROVE  IInv'
<1>1. At(p, d) = "leased" /\ UNCHANGED <<rows, lease, faults, excused>>
  BY DEF Send
<1>2. CASE rows[d].status = "gone"
  <2> DEFINE j == [at |-> "releasing", attempts |-> job[p][d].attempts]
  <2>1. BecomesJob(p, d, j) /\ sent' = sent
    BY <1>2, Moved DEF Send, IInv, Places
  <2>2. At(p, d) \notin InFlight /\ j.at \notin InFlight \cup {"leased"} /\ j.attempts < MaxAttempts
    BY <1>1 DEF InFlight, IInv, JobsAreOpen
  <2>3. faults' \in 0..MaxFaults
    BY <1>1 DEF IInv, TypeOK
  <2> HIDE DEF j
  <2>4. QED
    BY <1>1, <2>1, <2>2, <2>3, QuietStep
<1>3. CASE rows[d].status # "gone"
  <2> DEFINE j == [at |-> "sending", attempts |-> job[p][d].attempts]
             n == IF sent[d] <= MaxAttempts THEN sent[d] + 1 ELSE sent[d]
  <2>1. BecomesJob(p, d, j) /\ sent' = [sent EXCEPT ![d] = n]
    BY <1>3, Moved DEF Send, IInv, Places, InFlight
  <2>2. j.at = "sending" /\ j.attempts = job[p][d].attempts /\ j.attempts < MaxAttempts
    BY DEF IInv, JobsAreOpen
  <2>3. sent[d] \in 0..(MaxAttempts + 1) /\ n \in 0..(MaxAttempts + 1)
    BY AttemptsAssumption DEF IInv, TypeOK
  <2>4. ASSUME ~excused[d]
        PROVE  n = rows[d].attempts + 1
    <3>1. Busy(p, d)
      BY <1>1 DEF Busy
    <3>2. Current(p, d) /\ sent[d] = rows[d].attempts + Cardinality(Senders(d))
      BY <1>3, <2>4, <3>1 DEF IInv, Sound, Gone
    <3>3. Cardinality(Senders(d)) = 0
      BY <1>1, <2>4, <3>1, LoneSender DEF InFlight
    <3>4. rows[d].attempts \in 0..MaxAttempts
      BY DEF IInv, TypeOK, Row
    <3>5. QED
      BY <3>2, <3>3, <3>4, AttemptsAssumption
  <2> HIDE DEF j, n
  <2>5. sent' \in [Deliveries -> 0..(MaxAttempts + 1)]
    BY <2>1, <2>3 DEF IInv, TypeOK
  <2>6. TypeOK'
    BY <1>1, <2>1, <2>5 DEF IInv, TypeOK, BecomesJob, Job
  <2>7. Sound(d)'
    <3>1. SUFFICES ASSUME ~excused[d]
                   PROVE  /\ \A q \in Pollers : Busy(q, d)' => Holds(q, d)' /\ Current(q, d)'
                          /\ sent'[d] = rows[d].attempts + Cardinality(Senders(d)')
      BY <1>1 DEF Sound, Gone
    <3>2. Busy(p, d) /\ \A q \in Pollers \ {p} : ~Busy(q, d)
      BY <1>1, <3>1, LoneSender DEF Busy
    <3>3. Holds(p, d) /\ Current(p, d)
      BY <1>3, <3>1, <3>2 DEF IInv, Sound, Gone
    <3>4. Holds(p, d)' /\ Current(p, d)'
      BY <1>1, <2>1, <2>2, <3>3 DEF Holds, Current, BecomesJob, Nonced
    <3>5. \A q \in Pollers \ {p} : ~Busy(q, d)'
      BY <2>1, <3>2 DEF Busy, At, BecomesJob
    <3>6. Senders(d)' = {p}
      BY <2>1, <2>2, <3>5 DEF Senders, Busy, At, BecomesJob, InFlight
    <3>7. Cardinality(Senders(d)') = 1
      BY <3>6, FS_Singleton
    <3>8. sent'[d] = n
      BY <2>1 DEF IInv, TypeOK
    <3>9. QED
      BY <2>4, <3>1, <3>4, <3>5, <3>7, <3>8
  <2>8. QED
    BY <1>1, <2>1, <2>2, <2>6, <2>7, OthersKeep DEF IInv, TypeOK, RowsAreOpen
<1>4. QED
  BY <1>2, <1>3

LEMMA ResponseStep ==
  ASSUME IInv, NEW p \in Pollers, NEW d \in Deliveries, Response(p, d)
  PROVE  IInv'
<1>1. PICK place \in {"succeeding", "failing"} : Move(p, d, place)
  BY DEF Response
<1> DEFINE j == [at |-> place, attempts |-> job[p][d].attempts]
<1>2. At(p, d) = "sending" /\ UNCHANGED <<rows, lease, faults, sent, excused>>
  BY DEF Response
<1>3. BecomesJob(p, d, j)
  BY <1>1, Moved DEF IInv, Places, InFlight
<1>4. j.at \in InFlight /\ j.attempts = job[p][d].attempts /\ j.attempts < MaxAttempts
  BY DEF InFlight, IInv, JobsAreOpen
<1> HIDE DEF j
<1>5. TypeOK'
  BY <1>2, <1>3 DEF IInv, TypeOK, BecomesJob, Job
<1>6. Sound(d)'
  <2>1. \A q \in Pollers : Busy(q, d)' => Busy(q, d) /\ job'[q][d].attempts = job[q][d].attempts
    BY <1>2, <1>3, <1>4 DEF Busy, At, BecomesJob, InFlight
  <2>2. Senders(d)' = Senders(d)
    BY <1>2, <1>3, <1>4 DEF Senders, At, BecomesJob, InFlight
  <2>3. Sound(d)
    BY DEF IInv
  <2>4. QED
    BY <1>2, <2>1, <2>2, <2>3 DEF Sound, Holds, Current, Gone
<1>7. QED
  BY <1>2, <1>3, <1>4, <1>5, <1>6, OthersKeep DEF IInv, RowsAreOpen

\* An update finds its row unless the row is absent or gone.
LEMMA UpdatedRow ==
  ASSUME TypeOK, NEW d \in Deliveries, NEW status \in {"pending", "success", "failed"},
         NEW attempts \in 0..MaxAttempts, NEW wait \in Nat
  PROVE  /\ Updated(d, status, attempts, wait) \in [Deliveries -> Row]
         /\ \A e \in Deliveries \ {d} : Updated(d, status, attempts, wait)[e] = rows[e]
         /\ rows[d].status \in {"absent", "gone"} => Updated(d, status, attempts, wait)[d] = rows[d]
         /\ rows[d].status \notin {"absent", "gone"} =>
              /\ Updated(d, status, attempts, wait)[d].status = status
              /\ Updated(d, status, attempts, wait)[d].attempts = attempts
<1> DEFINE r == [status |-> status, attempts |-> attempts, wait |-> wait]
<1>1. r \in Row /\ r.status = status /\ r.attempts = attempts
  BY DEF Row
<1>2. Updated(d, status, attempts, wait) =
        IF rows[d].status \in {"absent", "gone"} THEN rows ELSE [rows EXCEPT ![d] = r]
  BY DEF Updated
<1> HIDE DEF r
<1>3. QED
  BY <1>1, <1>2 DEF TypeOK

LEMMA UpdatedStatus ==
  ASSUME TypeOK, NEW d \in Deliveries, NEW e \in Deliveries, NEW status, NEW attempts, NEW wait
  PROVE  \/ Updated(e, status, attempts, wait)[d] = rows[d]
         \/ e = d /\ Updated(e, status, attempts, wait)[d].status = status
<1> DEFINE r == [status |-> status, attempts |-> attempts, wait |-> wait]
<1>1. r.status = status
  OBVIOUS
<1>2. Updated(e, status, attempts, wait) =
        IF rows[e].status \in {"absent", "gone"} THEN rows ELSE [rows EXCEPT ![e] = r]
  BY DEF Updated
<1> HIDE DEF r
<1>3. QED
  BY <1>1, <1>2 DEF TypeOK

\* The request of p has ended: the row counts it when the update has replied.
LEMMA MarkStep ==
  ASSUME IInv, NEW p \in Pollers, NEW d \in Deliveries, At(p, d) \in InFlight,
         NEW status \in {"pending", "success", "failed"}, NEW wait \in Nat,
         status = "pending" => job[p][d].attempts + 1 < MaxAttempts,
         NEW o \in Calls, Charge(~o.reply), Excuse(d, ~o.reply),
         rows' = IF o.commit THEN Updated(d, status, job[p][d].attempts + 1, wait) ELSE rows,
         NEW place \in {"releasing", "failing"}, Move(p, d, place),
         o.reply => place = "releasing", UNCHANGED <<lease, sent>>
  PROVE  IInv'
<1> DEFINE j == [at |-> place, attempts |-> job[p][d].attempts]
           n == job[p][d].attempts + 1
           written == Updated(d, status, n, wait)
<1>1. BecomesJob(p, d, j) /\ j.at = place /\ j.attempts < MaxAttempts
  BY Moved DEF IInv, Places, InFlight, JobsAreOpen
<1>2. n \in 0..MaxAttempts /\ (status = "pending" => n < MaxAttempts)
  <2>1. job[p][d].attempts \in 0..MaxAttempts /\ job[p][d].attempts < MaxAttempts
    BY DEF IInv, TypeOK, JobsAreOpen
  <2>2. QED
    BY <2>1, AttemptsAssumption
<1>3. o.reply \in BOOLEAN /\ o.commit \in BOOLEAN /\ (o.reply => o.commit)
  BY DEF Calls
<1>4. rows' = IF o.commit THEN written ELSE rows
  OBVIOUS
<1> HIDE DEF j, n
<1>5. /\ written \in [Deliveries -> Row]
      /\ \A e \in Deliveries \ {d} : written[e] = rows[e]
      /\ rows[d].status \in {"absent", "gone"} => written[d] = rows[d]
      /\ rows[d].status \notin {"absent", "gone"} => written[d].status = status /\ written[d].attempts = n
  BY <1>2, UpdatedRow DEF IInv
<1> HIDE DEF written
<1>6. rows' \in [Deliveries -> Row] /\ \A e \in Deliveries \ {d} : rows'[e] = rows[e]
  BY <1>3, <1>4, <1>5 DEF IInv, TypeOK
<1>7. /\ rows'[d].status = "absent" => rows'[d].attempts = 0
      /\ rows'[d].status = "pending" => rows'[d].attempts < MaxAttempts
  <2>1. rows'[d] = rows[d] \/ (rows'[d].status = status /\ rows'[d].attempts = n)
    BY <1>3, <1>4, <1>5
  <2>2. QED
    BY <1>2, <2>1 DEF IInv, RowsAreOpen
<1>8. faults' \in 0..MaxFaults
  BY <1>3, ChargeType DEF IInv
<1>9. /\ excused' \in [Deliveries -> BOOLEAN]
      /\ ~excused'[d] => ~excused[d] /\ o.reply
      /\ \A e \in Deliveries \ {d} : excused'[e] = excused[e]
  <2>1. (~o.reply) \in BOOLEAN
    OBVIOUS
  <2>2. QED
    BY <2>1, ExcuseType DEF IInv
<1>10. TypeOK'
  BY <1>1, <1>6, <1>8, <1>9 DEF IInv, TypeOK, BecomesJob, Job
<1>11. Sound(d)'
  <2>1. SUFFICES ASSUME ~excused'[d]
                 PROVE  /\ \A q \in Pollers : ~Busy(q, d)'
                        /\ Gone(d)' \/ sent[d] = rows'[d].attempts + Cardinality(Senders(d)')
    BY DEF Sound
  <2>2. ~excused[d] /\ Busy(p, d) /\ j.at = "releasing" /\ rows' = written
    BY <1>1, <1>3, <1>4, <1>9, <2>1 DEF Busy
  <2>3. \A q \in Pollers : ~Busy(q, d)'
    <3>1. ~Busy(p, d)'
      BY <1>1, <2>2 DEF Busy, At, BecomesJob, InFlight
    <3>2. ASSUME NEW q \in Pollers \ {p}
          PROVE  ~Busy(q, d)'
      <4>1. ~Busy(q, d)
        BY <2>2, LoneSender
      <4>2. QED
        BY <1>1, <4>1 DEF Busy, At, BecomesJob
    <3>3. QED
      BY <3>1, <3>2
  <2>4. Senders(d)' = {}
    BY <2>3 DEF Senders, Busy
  <2>5. Cardinality(Senders(d)') = 0
    BY <2>4, FS_EmptySet
  <2>6. CASE Gone(d)
    <3>1. rows'[d] = rows[d]
      BY <1>5, <2>2, <2>6 DEF Gone
    <3>2. QED
      BY <2>3, <2>6, <3>1 DEF Gone
  <2>7. CASE ~Gone(d)
    <3>1. Current(p, d) /\ sent[d] = rows[d].attempts + Cardinality(Senders(d))
      BY <2>2, <2>7 DEF IInv, Sound
    <3>2. Cardinality(Senders(d)) = 1
      BY <2>2, LoneSender
    <3>3. sent[d] = n
      BY <3>1, <3>2 DEF Current, n
    <3>4. rows'[d].attempts = n
      BY <1>5, <2>2, <3>1 DEF Current, Due
    <3>5. QED
      BY <1>2, <2>3, <2>5, <3>3, <3>4
  <2>8. QED
    BY <2>6, <2>7
<1>12. QED
  BY <1>1, <1>6, <1>7, <1>9, <1>10, <1>11, OthersKeep

LEMMA MarkSuccessStep ==
  ASSUME IInv, NEW p \in Pollers, NEW d \in Deliveries, MarkSuccess(p, d)
  PROVE  IInv'
<1>1. At(p, d) \in InFlight /\ UNCHANGED <<lease, sent>>
  BY DEF MarkSuccess, InFlight
<1>2. PICK o \in Calls :
        /\ Charge(~o.reply) /\ Excuse(d, ~o.reply)
        /\ rows' = IF o.commit THEN Updated(d, "success", job[p][d].attempts + 1, 0) ELSE rows
        /\ Move(p, d, IF o.reply THEN "releasing" ELSE "failing")
  BY DEF MarkSuccess
<1>3. PICK place \in {"releasing", "failing"} : Move(p, d, place) /\ (o.reply => place = "releasing")
  BY <1>2
<1>4. QED
  BY <1>1, <1>2, <1>3, MarkStep

\* What a failure writes: an attempt more, and a delay while there are attempts left.
LEMMA AfterFailureIs ==
  ASSUME IInv, NEW p \in Pollers, NEW d \in Deliveries
  PROVE  \E status \in {"pending", "failed"}, wait \in Nat :
           /\ AfterFailure(p, d) = Updated(d, status, job[p][d].attempts + 1, wait)
           /\ status = "pending" => job[p][d].attempts + 1 < MaxAttempts
<1> DEFINE n == job[p][d].attempts + 1
<1>1. job[p][d].attempts \in 0..MaxAttempts /\ job[p][d].attempts < MaxAttempts
  BY DEF IInv, TypeOK, JobsAreOpen
<1>2. n \in 1..MaxAttempts
  BY <1>1, AttemptsAssumption
<1>3. CASE Exhausted(n)
  BY <1>3 DEF AfterFailure
<1>4. CASE ~Exhausted(n)
  <2>1. n < MaxAttempts /\ RetryDelay[n] \in Nat
    BY <1>2, <1>4, AttemptsAssumption DEF Exhausted
  <2>2. AfterFailure(p, d) = Updated(d, "pending", n, RetryDelay[n])
    BY <1>4 DEF AfterFailure
  <2>3. QED
    BY <2>1, <2>2
<1>5. QED
  BY <1>3, <1>4

LEMMA MarkFailureStep ==
  ASSUME IInv, NEW p \in Pollers, NEW d \in Deliveries, MarkFailure(p, d)
  PROVE  IInv'
<1>1. At(p, d) \in InFlight /\ Move(p, d, "releasing") /\ UNCHANGED <<lease, sent>>
  BY DEF MarkFailure, InFlight
<1>2. PICK o \in Calls :
        /\ Charge(~o.reply) /\ Excuse(d, ~o.reply)
        /\ rows' = IF o.commit THEN AfterFailure(p, d) ELSE rows
  BY DEF MarkFailure
<1>3. PICK status \in {"pending", "failed"}, wait \in Nat :
        /\ AfterFailure(p, d) = Updated(d, status, job[p][d].attempts + 1, wait)
        /\ status = "pending" => job[p][d].attempts + 1 < MaxAttempts
  BY AfterFailureIs
<1>4. QED
  BY <1>1, <1>2, <1>3, MarkStep

-----------------------------------------------------------------------------
(* Crashes and time                                                        *)

\* The requests of a process that dies are excused; its other work never started.
LEMMA CrashStep ==
  ASSUME IInv, NEW w, Crash(w)
  PROVE  IInv'
<1> DEFINE dead == {p \in Pollers : Worker[p] = w}
<1>1. UNCHANGED <<rows, lease, sent>> /\ Charge(TRUE)
  BY DEF Crash
<1>2. job' = [p \in Pollers |-> IF p \in dead THEN [d \in Deliveries |-> Out] ELSE job[p]]
  BY DEF Crash
<1>3. excused' = [d \in Deliveries |-> excused[d] \/ \E p \in dead : At(p, d) \in InFlight]
  BY DEF Crash
<1> HIDE DEF dead
<1>4. Out \in Job /\ Out.at = "out" /\ Out.attempts < MaxAttempts
  BY AttemptsAssumption DEF Job, Out, Places
<1>5. job \in [Pollers -> [Deliveries -> Job]]
  BY DEF IInv, TypeOK, Job
<1>6. job' \in [Pollers -> [Deliveries -> Job]]
  BY <1>2, <1>4, <1>5
<1>7. \A p \in Pollers, d \in Deliveries :
        job'[p][d] = IF p \in dead THEN Out ELSE job[p][d]
  BY <1>2
<1>8. excused' \in [Deliveries -> BOOLEAN]
  BY <1>3
<1>9. faults' \in 0..MaxFaults
  BY <1>1, ChargeType DEF IInv
<1>10. TypeOK'
  BY <1>1, <1>6, <1>8, <1>9 DEF IInv, TypeOK, Job
<1>11. RowsAreOpen' /\ JobsAreOpen'
  BY <1>1, <1>4, <1>7 DEF IInv, RowsAreOpen, JobsAreOpen
<1>12. ASSUME NEW d \in Deliveries
       PROVE  Sound(d)'
  <2>1. SUFFICES ASSUME ~excused'[d]
                 PROVE  /\ \A q \in Pollers : Busy(q, d)' => Holds(q, d)' /\ (Gone(d)' \/ Current(q, d)')
                        /\ Gone(d)' \/ sent'[d] = rows'[d].attempts + Cardinality(Senders(d)')
    BY DEF Sound
  <2>2. ~excused[d] /\ \A p \in Pollers : p \in dead => At(p, d) \notin InFlight
    BY <1>3, <2>1
  <2>3. Senders(d)' = Senders(d)
    BY <1>4, <1>7, <2>2 DEF Senders, At, InFlight
  <2>4. \A q \in Pollers : Busy(q, d)' => Busy(q, d) /\ job'[q][d] = job[q][d]
    BY <1>4, <1>7 DEF Busy, At, InFlight
  <2>5. Sound(d)
    BY DEF IInv
  <2>6. QED
    BY <1>1, <2>2, <2>3, <2>4, <2>5 DEF Sound, Holds, Current, Gone
<1>13. QED
  BY <1>10, <1>11, <1>12 DEF IInv

LEMMA AgedKey ==
  ASSUME NEW key \in Key \cup {NoKey}
  PROVE  Aged(key) \in Key \cup {NoKey}
<1>1. CASE key = NoKey \/ key.ttl = 1
  BY <1>1 DEF Aged
<1>2. CASE key # NoKey /\ key.ttl # 1
  <2>1. key \in Key /\ key.ttl \in 1..LeaseTicks /\ key.ttl # 1
    BY <1>2 DEF Key
  <2>2. key.ttl - 1 \in 1..LeaseTicks
    BY <2>1, LeaseAssumption
  <2>3. Aged(key) = [key EXCEPT !.ttl = key.ttl - 1]
    BY <1>2 DEF Aged
  <2>4. QED
    BY <2>1, <2>2, <2>3 DEF Key
<1>3. QED
  BY <1>1, <1>2

\* Whoever has lost its key to time is excused; a row that is due stays due.
LEMMA TickStep ==
  ASSUME IInv, Tick
  PROVE  IInv'
<1>1. /\ rows' = [d \in Deliveries |-> [rows[d] EXCEPT !.wait = IF @ > 0 THEN @ - 1 ELSE @]]
      /\ UNCHANGED <<job, faults, sent>>
  BY DEF Tick
<1>2. lease' = [d \in Deliveries |-> Aged(lease[d])]
  BY DEF Tick
<1>3. excused' = [d \in Deliveries |-> excused[d] \/ Outlived(d, lease')]
  BY DEF Tick
<1>4. ASSUME NEW d \in Deliveries
      PROVE  /\ rows'[d] \in Row
             /\ rows'[d].status = rows[d].status /\ rows'[d].attempts = rows[d].attempts
             /\ rows[d].wait = 0 => rows'[d].wait = 0
  <2>1. rows[d] \in Row /\ rows[d].wait \in Nat
    BY DEF IInv, TypeOK, Row
  <2>2. PICK n \in Nat : n = (IF rows[d].wait > 0 THEN rows[d].wait - 1 ELSE rows[d].wait)
                          /\ (rows[d].wait = 0 => n = 0)
    BY <2>1
  <2>3. rows'[d] = [rows[d] EXCEPT !.wait = n]
    BY <1>1, <2>2
  <2>4. QED
    BY <2>1, <2>2, <2>3 DEF Row
<1>5. rows' \in [Deliveries -> Row]
  BY <1>1, <1>4
<1>6. lease' \in [Deliveries -> Key \cup {NoKey}]
  BY <1>2, AgedKey DEF IInv, TypeOK
<1>7. excused' \in [Deliveries -> BOOLEAN]
  <2>1. \A d \in Deliveries : (excused[d] \/ Outlived(d, lease')) \in BOOLEAN
    OBVIOUS
  <2>2. QED
    BY <1>3, <2>1
<1>8. TypeOK'
  BY <1>1, <1>5, <1>6, <1>7 DEF IInv, TypeOK
<1>9. RowsAreOpen' /\ JobsAreOpen'
  BY <1>1, <1>4 DEF IInv, RowsAreOpen, JobsAreOpen
<1>10. ASSUME NEW d \in Deliveries
       PROVE  Sound(d)'
  <2>1. SUFFICES ASSUME ~excused'[d]
                 PROVE  /\ \A q \in Pollers : Busy(q, d)' => Holds(q, d)' /\ (Gone(d)' \/ Current(q, d)')
                        /\ Gone(d)' \/ sent'[d] = rows'[d].attempts + Cardinality(Senders(d)')
    BY DEF Sound
  <2>2. ~excused[d] /\ ~Outlived(d, lease')
    BY <1>3, <2>1
  <2>3. Senders(d)' = Senders(d) /\ \A q \in Pollers : Busy(q, d)' <=> Busy(q, d)
    BY <1>1 DEF Senders, Busy, At
  <2>4. \A q \in Pollers : Busy(q, d) => Holds(q, d)'
    BY <2>2 DEF Outlived, Busy, Holds, Nonced
  <2>5. Sound(d)
    BY DEF IInv
  <2>6. \A q \in Pollers : Current(q, d) => Current(q, d)'
    BY <1>1, <1>4 DEF Current, Due
  <2>7. Gone(d)' <=> Gone(d)
    BY <1>4 DEF Gone
  <2>8. QED
    BY <1>1, <1>4, <2>2, <2>3, <2>4, <2>5, <2>6, <2>7 DEF Sound
<1>11. QED
  BY <1>8, <1>9, <1>10 DEF IInv

-----------------------------------------------------------------------------
(* The invariant is inductive                                              *)

LEMMA InitIInv == Init => IInv
<1> SUFFICES ASSUME Init PROVE IInv
  OBVIOUS
<1>1. Out \in Job /\ Out.at = "out" /\ Out.attempts < MaxAttempts
  BY AttemptsAssumption DEF Job, Out, Places
<1>2. TypeOK
  BY <1>1, AttemptsAssumption, LeaseAssumption DEF Init, TypeOK, Job, Row
<1>3. RowsAreOpen /\ JobsAreOpen
  BY <1>1 DEF Init, RowsAreOpen, JobsAreOpen
<1>4. ASSUME NEW d \in Deliveries
      PROVE  Sound(d)
  <2>1. \A p \in Pollers : ~Busy(p, d)
    BY <1>1 DEF Init, Busy, At, InFlight
  <2>2. Senders(d) = {}
    BY <2>1 DEF Senders, Busy
  <2>3. Cardinality(Senders(d)) = 0
    BY <2>2, FS_EmptySet
  <2>4. sent[d] = 0 /\ rows[d].attempts = 0
    BY DEF Init
  <2>5. QED
    BY <2>1, <2>3, <2>4 DEF Sound
<1>5. QED
  BY <1>2, <1>3, <1>4 DEF IInv

LEMMA StutterStep ==
  ASSUME IInv, UNCHANGED vars
  PROVE  IInv'
<1>1. UNCHANGED <<rows, lease, job, faults, sent, excused>>
  BY DEF vars
<1>2. \A d \in Deliveries : Senders(d)' = Senders(d)
  BY <1>1 DEF Senders, At
<1>3. \A d \in Deliveries : Sound(d)'
  BY <1>1, <1>2 DEF IInv, Sound, Busy, Holds, Current, Gone, At
<1>4. TypeOK' /\ RowsAreOpen' /\ JobsAreOpen'
  BY <1>1 DEF IInv, TypeOK, RowsAreOpen, JobsAreOpen
<1>5. QED
  BY <1>3, <1>4 DEF IInv

LEMMA StepIInv == IInv /\ [Next]_vars => IInv'
BY EnqueueStep, DeleteSubscriptionStep, ListStep, AcquireStep, SkipStep, SendStep, LookupFailsStep,
   ResponseStep, MarkSuccessStep, MarkFailureStep, ReleaseStep, CrashStep, TickStep, StutterStep
   DEF Next, PollerStep

LEMMA Inductive == Spec => []IInv
BY InitIInv, StepIInv, PTL DEF Spec

-----------------------------------------------------------------------------
(* Theorems                                                                *)

\* The table, the keys and the pollers keep their types: no attempt beyond the last is
\* written, and no delay is read beyond the list of delays.
THEOREM TypeCorrect == Spec => []TypeOK
<1>1. IInv => TypeOK
  BY DEF IInv
<1>2. QED
  BY <1>1, Inductive, PTL

\* Two requests of a delivery are in the air only after a lease ran out under its holder
\* or a row was leased on an outdated listing, for any number of processes and calls.
THEOREM SendsExclude == Spec => []NoConcurrentSend
<1>1. IInv => NoConcurrentSend
  <2>1. SUFFICES ASSUME IInv, NEW d \in Deliveries, NEW p \in Pollers, NEW q \in Pollers,
                        p # q, At(p, d) = "sending", At(q, d) = "sending", ~excused[d]
                 PROVE  FALSE
    BY DEF NoConcurrentSend
  <2>2. Busy(p, d) /\ Busy(q, d)
    BY <2>1 DEF Busy, InFlight
  <2>3. QED
    BY <2>1, <2>2, OneHolder
<1>2. QED
  BY <1>1, Inductive, PTL

\* The attempts of a row and the request under way are the requests that were sent.
THEOREM AttemptsCountRequests == Spec => []AttemptsAreCounted
<1>1. IInv => AttemptsAreCounted
  BY DEF IInv, Sound, Gone, Senders, AttemptsAreCounted
<1>2. QED
  BY <1>1, Inductive, PTL

\* max_attempts bounds the requests of a delivery that has met no cause of redelivery:
\* the last one is sent when the row has an attempt left.
THEOREM RequestsAreBounded ==
  Spec => [](\A d \in Deliveries : excused[d] \/ Gone(d) \/ sent[d] <= MaxAttempts)
<1>1. ASSUME IInv, NEW d \in Deliveries, ~excused[d], ~Gone(d)
      PROVE  sent[d] <= MaxAttempts
  <2>1. sent[d] = rows[d].attempts + Cardinality(Senders(d)) /\ rows[d].attempts \in 0..MaxAttempts
    BY <1>1 DEF IInv, TypeOK, Row, Sound
  <2>2. CASE Senders(d) = {}
    BY <2>1, <2>2, FS_EmptySet, AttemptsAssumption
  <2>3. CASE Senders(d) # {}
    <3>1. PICK p \in Pollers : At(p, d) \in InFlight
      BY <2>3 DEF Senders
    <3>2. Busy(p, d)
      BY <3>1 DEF Busy
    <3>3. Cardinality(Senders(d)) = 1
      BY <1>1, <3>1, <3>2, LoneSender
    <3>4. rows[d].attempts < MaxAttempts
      BY <1>1, <3>2 DEF IInv, Sound, Current, Due, RowsAreOpen
    <3>5. QED
      BY <2>1, <3>3, <3>4, AttemptsAssumption
  <2>4. QED
    BY <2>2, <2>3
<1>2. IInv => \A d \in Deliveries : excused[d] \/ Gone(d) \/ sent[d] <= MaxAttempts
  BY <1>1
<1>3. QED
  BY <1>2, Inductive, PTL

\* A success is overwritten only by a poller that outlived its lease, read an outdated
\* row or lost a reply: whoever else has a result to write has found the row due.
THEOREM SuccessStays == Spec => SuccessIsKept
<1>1. ASSUME IInv, Next, NEW d \in Deliveries, rows[d].status = "success",
             rows'[d].status \in {"pending", "failed"}
      PROVE  excused[d]
  <2>1. CASE \E p \in Pollers, e \in Deliveries : MarkFailure(p, e)
    <3>1. PICK p \in Pollers, e \in Deliveries : MarkFailure(p, e)
      BY <2>1
    <3>2. rows' = AfterFailure(p, e) \/ rows' = rows
      BY <3>1 DEF MarkFailure
    <3>3. PICK status \in {"pending", "failed"}, wait \in Nat :
            AfterFailure(p, e) = Updated(e, status, job[p][e].attempts + 1, wait)
      BY <1>1, AfterFailureIs
    <3>4. e = d
      BY <1>1, <3>2, <3>3, UpdatedStatus DEF IInv
    <3>5. Busy(p, d)
      BY <3>1, <3>4 DEF MarkFailure, Busy, InFlight
    <3>6. QED
      BY <1>1, <3>5 DEF IInv, Sound, Gone, Current, Due
  <2>2. CASE \E p \in Pollers, e \in Deliveries : MarkSuccess(p, e)
    <3>1. PICK p \in Pollers, e \in Deliveries :
            rows' = Updated(e, "success", job[p][e].attempts + 1, 0) \/ rows' = rows
      BY <2>2 DEF MarkSuccess
    <3>2. rows'[d] = rows[d] \/ rows'[d].status = "success"
      BY <1>1, <3>1, UpdatedStatus DEF IInv
    <3>3. QED
      BY <1>1, <3>2
  <2>3. CASE \E e \in Deliveries : Enqueue(e) \/ DeleteSubscription(e)
    BY <1>1, <2>3 DEF Enqueue, DeleteSubscription, IInv, TypeOK
  <2>4. CASE Tick
    <3>1. rows'[d] = [rows[d] EXCEPT !.wait = IF @ > 0 THEN @ - 1 ELSE @]
      BY <2>4 DEF Tick
    <3>2. rows'[d].status = rows[d].status
      BY <3>1 DEF IInv, TypeOK, Row
    <3>3. QED
      BY <1>1, <3>2
  <2>5. CASE rows' = rows
    BY <1>1, <2>5
  <2>6. rows' = rows \/ Tick
        \/ (\E e \in Deliveries : Enqueue(e) \/ DeleteSubscription(e))
        \/ (\E p \in Pollers, e \in Deliveries : MarkSuccess(p, e) \/ MarkFailure(p, e))
    BY <1>1 DEF Next, PollerStep, List, Acquire, Skip, Send, LookupFails, Response, Release, Crash
  <2>7. QED
    BY <2>1, <2>2, <2>3, <2>4, <2>5, <2>6
<1>2. ASSUME UNCHANGED vars, NEW d \in Deliveries
      PROVE  rows'[d] = rows[d]
  BY <1>2 DEF vars
<1>3. IInv /\ [Next]_vars => [\A d \in Deliveries :
        rows[d].status = "success" /\ rows'[d].status \in {"pending", "failed"} => excused[d]]_vars
  BY <1>1, <1>2
<1>4. QED
  BY <1>3, Inductive, PTL DEF Spec, SuccessIsKept

\* The attempts of a delivery go up one at a time and never down: a poll writes one more
\* than it has read, which is one more than the row has, as nobody wrote in between.
THEOREM AttemptsGoUpByOne ==
  Spec => [][\A d \in Deliveries :
               rows'[d].status # "gone" /\ rows'[d].attempts # rows[d].attempts =>
                 excused[d] \/ rows'[d].attempts = rows[d].attempts + 1]_vars
<1>1. ASSUME IInv, Next, NEW d \in Deliveries, ~excused[d],
             rows'[d].status # "gone", rows'[d].attempts # rows[d].attempts
      PROVE  rows'[d].attempts = rows[d].attempts + 1
  <2>1. CASE \E p \in Pollers, e \in Deliveries : MarkSuccess(p, e) \/ MarkFailure(p, e)
    <3>1. PICK p \in Pollers, e \in Deliveries : MarkSuccess(p, e) \/ MarkFailure(p, e)
      BY <2>1
    <3>2. Busy(p, e)
      BY <3>1 DEF MarkSuccess, MarkFailure, Busy, InFlight
    <3>3. job[p][e].attempts + 1 \in 0..MaxAttempts
      BY <1>1, AttemptsAssumption DEF IInv, TypeOK, JobsAreOpen
    <3>4. PICK status \in {"pending", "success", "failed"}, wait \in Nat :
            rows' = rows \/ rows' = Updated(e, status, job[p][e].attempts + 1, wait)
      <4>1. CASE MarkSuccess(p, e)
        BY <4>1 DEF MarkSuccess
      <4>2. CASE MarkFailure(p, e)
        BY <1>1, <4>2, AfterFailureIs DEF MarkFailure
      <4>3. QED
        BY <3>1, <4>1, <4>2
    <3>5. /\ \A f \in Deliveries \ {e} : rows'[f] = rows[f]
          /\ \/ rows'[e] = rows[e]
             \/ rows'[e].attempts = job[p][e].attempts + 1 /\ ~Gone(e)
      BY <1>1, <3>3, <3>4, UpdatedRow DEF IInv, Gone
    <3>6. e = d /\ ~Gone(d) /\ rows'[d].attempts = job[p][d].attempts + 1
      BY <1>1, <3>5
    <3>7. rows[d].attempts = job[p][d].attempts
      BY <1>1, <3>2, <3>6 DEF IInv, Sound, Current
    <3>8. QED
      BY <3>6, <3>7
  <2>2. CASE \E e \in Deliveries : Enqueue(e) \/ DeleteSubscription(e)
    BY <1>1, <2>2 DEF Enqueue, DeleteSubscription, IInv, TypeOK, Row
  <2>3. CASE Tick
    <3>1. rows'[d] = [rows[d] EXCEPT !.wait = IF @ > 0 THEN @ - 1 ELSE @]
      BY <2>3 DEF Tick
    <3>2. rows'[d].attempts = rows[d].attempts
      BY <3>1 DEF IInv, TypeOK, Row
    <3>3. QED
      BY <1>1, <3>2
  <2>4. CASE rows' = rows
    BY <1>1, <2>4
  <2>5. rows' = rows \/ Tick
        \/ (\E e \in Deliveries : Enqueue(e) \/ DeleteSubscription(e))
        \/ (\E p \in Pollers, e \in Deliveries : MarkSuccess(p, e) \/ MarkFailure(p, e))
    BY <1>1 DEF Next, PollerStep, List, Acquire, Skip, Send, LookupFails, Response, Release, Crash
  <2>6. QED
    BY <2>1, <2>2, <2>3, <2>4, <2>5
<1>2. ASSUME UNCHANGED vars, NEW d \in Deliveries
      PROVE  rows'[d] = rows[d]
  BY <1>2 DEF vars
<1>3. IInv /\ [Next]_vars => [\A d \in Deliveries :
        rows'[d].status # "gone" /\ rows'[d].attempts # rows[d].attempts =>
          excused[d] \/ rows'[d].attempts = rows[d].attempts + 1]_vars
  BY <1>1, <1>2
<1>4. QED
  BY <1>3, Inductive, PTL DEF Spec

\* A key goes only when its time is up: no release ever deletes one, so a delivery that
\* was sent stays locked until its lease expires.
THEOREM KeysOnlyExpire ==
  Spec => [][\A d \in Deliveries : lease[d] # NoKey /\ lease'[d] = NoKey => Tick]_vars
<1>1. ASSUME IInv, Next, ~Tick, NEW d \in Deliveries, lease[d] # NoKey
      PROVE  lease'[d] # NoKey
  <2>1. CASE \E p \in Pollers, e \in Deliveries : Release(p, e)
    <3>1. lease' = lease
      BY <1>1, <2>1, ReleaseMisses DEF Release, IInv
    <3>2. QED
      BY <1>1, <3>1
  <2>2. CASE \E p \in Pollers, e \in Deliveries :
               lease' = [lease EXCEPT ![e] = [value |-> Nonced(p), ttl |-> LeaseTicks]]
    <3>1. PICK p \in Pollers, e \in Deliveries :
            lease' = [lease EXCEPT ![e] = [value |-> Nonced(p), ttl |-> LeaseTicks]]
      BY <2>2
    <3>2. lease'[e] # NoKey /\ \A f \in Deliveries \ {e} : lease'[f] = lease[f]
      BY <1>1, <3>1, NewKey DEF IInv
    <3>3. QED
      BY <1>1, <3>2
  <2>3. CASE lease' = lease
    BY <1>1, <2>3
  <2>4. \/ lease' = lease
        \/ \E p \in Pollers, e \in Deliveries : Acquire(p, e) \/ Skip(p, e) \/ Release(p, e)
    BY <1>1 DEF Next, PollerStep, Enqueue, DeleteSubscription, List, Send, LookupFails, Response,
       MarkSuccess, MarkFailure, Crash
  <2>5. ASSUME NEW p \in Pollers, NEW e \in Deliveries, Acquire(p, e) \/ Skip(p, e)
        PROVE  \/ lease' = lease
               \/ lease' = [lease EXCEPT ![e] = [value |-> Nonced(p), ttl |-> LeaseTicks]]
    BY <2>5 DEF Acquire, Skip
  <2>6. QED
    BY <2>1, <2>2, <2>3, <2>4, <2>5
<1>2. ASSUME UNCHANGED vars, NEW d \in Deliveries
      PROVE  lease'[d] = lease[d]
  BY <1>2 DEF vars
<1>3. IInv /\ [Next]_vars =>
        [\A d \in Deliveries : lease[d] # NoKey /\ lease'[d] = NoKey => Tick]_vars
  BY <1>1, <1>2
<1>4. QED
  BY <1>3, Inductive, PTL DEF Spec
=============================================================================
