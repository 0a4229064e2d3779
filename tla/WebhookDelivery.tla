-------------------------- MODULE WebhookDelivery --------------------------
(***************************************************************************)
(* Outbound webhooks: the table webhook_deliveries, the Redis job lease of *)
(* a delivery and the overlapping calls of processDue that poll the table, *)
(* lease what is due, call the subscriber and write the result back.       *)
(*                                                                         *)
(* Time is relative, as ticks left of a retry delay and of a lease.  A     *)
(* poller is one running call of processDue; startWorker starts one every  *)
(* ten seconds whether the last has ended or not, in every process.        *)
(***************************************************************************)
EXTENDS Integers, FiniteSets

CONSTANTS
  Deliveries,    \* ids of rows; each is inserted once
  Pollers,       \* calls of processDue that may run at the same time
  Worker,        \* the workerId a poller runs under
  MaxAttempts,   \* MAX_ATTEMPTS
  RetryDelay,    \* nextRetryDelay, in ticks
  LeaseTicks,    \* DEFAULT_JOB_LEASE_TTL_MS
  Limit,         \* of findDueDeliveries
  MaxFaults,     \* bound: crashes, errors of Redis and of the database
  NoKey          \* the lease key does not exist

ASSUME SizeAssumption == IsFiniteSet(Deliveries) /\ IsFiniteSet(Pollers) /\ Limit \in Nat \ {0}
ASSUME AttemptsAssumption == MaxAttempts \in Nat \ {0} /\ RetryDelay \in [1..MaxAttempts -> Nat]
ASSUME LeaseAssumption == LeaseTicks \in Nat \ {0} /\ MaxFaults \in Nat
ASSUME WorkerAssumption == DOMAIN Worker = Pollers

VARIABLES
  rows,          \* the table, by id
  lease,         \* the Redis key of each delivery
  job,           \* job[p][d]: where p is with d, and the attempts it read
  faults,
  \* History, read by properties only:
  sent,          \* requests sent for d, up to MaxAttempts + 1
  excused        \* d met a cause of redelivery (see Acquire, Crash, Tick, Call errors)

vars == <<rows, lease, job, faults, sent, excused>>

Row == [status : {"absent", "pending", "success", "failed", "gone"},
        attempts : 0..MaxAttempts, wait : Nat]

\* The value of the key is `${owner}:${randomId}`; a poller takes one per row.
Nonced(p) == <<Worker[p], p>>
Unnonced(p) == <<Worker[p]>>
Key == [value : {Nonced(p) : p \in Pollers}, ttl : 1..LeaseTicks]

ASSUME NoKeyAssumption == NoKey \notin Key

\* Places in processDue and attempt, in their order.
InFlight == {"sending", "succeeding", "failing"}
Places == {"out", "listed", "leased", "releasing"} \cup InFlight

Out == [at |-> "out", attempts |-> 0]

Init ==
  /\ rows = [d \in Deliveries |-> [status |-> "absent", attempts |-> 0, wait |-> 0]]
  /\ lease = [d \in Deliveries |-> NoKey]
  /\ job = [p \in Pollers |-> [d \in Deliveries |-> Out]]
  /\ faults = 0
  /\ sent = [d \in Deliveries |-> 0]
  /\ excused = [d \in Deliveries |-> FALSE]

-----------------------------------------------------------------------------
(* The table and the lease                                                 *)

DueOrDone(r) == r.status \in {"pending", "success"} /\ r.wait = 0
Due(r) == r.status = "pending" /\ r.wait = 0

\* updateDelivery finds its row by id alone, whatever its status has become.
Updated(d, status, attempts, wait) ==
  IF rows[d].status \in {"absent", "gone"} THEN rows
  ELSE [rows EXCEPT ![d] = [status |-> status, attempts |-> attempts, wait |-> wait]]

KeyFreeAlways(d) == TRUE
KeyFree(d) == lease[d] = NoKey

\* The script of release deletes the key when its value equals the owner.
ReleaseFinds(p, d) == lease[d] # NoKey /\ lease[d].value = Unnonced(p)

\* PX: the key expires.
Unexpiring(key) == key
Aged(key) ==
  IF key = NoKey \/ key.ttl = 1 THEN NoKey ELSE [key EXCEPT !.ttl = @ - 1]

-----------------------------------------------------------------------------
(* The service                                                             *)

At(p, d) == job[p][d].at

Move(p, d, place) == job' = [job EXCEPT ![p][d].at = place]
Leave(p, d) == job' = [job EXCEPT ![p][d] = Out]

Charge(fault) ==
  /\ fault => faults < MaxFaults
  /\ faults' = IF fault THEN faults + 1 ELSE faults

\* An update commits and replies, commits and loses the reply, or fails.
Calls == {o \in [commit : BOOLEAN, reply : BOOLEAN] : o.reply => o.commit}

Excuse(d, cause) == excused' = [excused EXCEPT ![d] = @ \/ cause]

Enqueue(d) ==
  /\ rows[d].status = "absent"
  /\ rows' = [rows EXCEPT ![d].status = "pending"]
  /\ UNCHANGED <<lease, job, faults, sent, excused>>

\* Deleting the subscription cascades to its deliveries.
DeleteSubscription(d) ==
  /\ rows[d].status \notin {"absent", "gone"}
  /\ rows' = [rows EXCEPT ![d] = [status |-> "gone", attempts |-> 0, wait |-> 0]]
  /\ UNCHANGED <<lease, job, faults, sent, excused>>

\* findDueDeliveries: some due rows, in no order, without locking them.
List(p) ==
  /\ \A d \in Deliveries : At(p, d) = "out"
  /\ \E S \in SUBSET {d \in Deliveries : Due(rows[d])} :
       /\ S # {} /\ Cardinality(S) <= Limit
       /\ Cardinality(S) < Limit => \A d \in Deliveries \ S : ~Due(rows[d])
       /\ job' = [job EXCEPT ![p] = [d \in Deliveries |->
            IF d \in S THEN [at |-> "listed", attempts |-> rows[d].attempts] ELSE Out]]
  /\ UNCHANGED <<rows, lease, faults, sent, excused>>

\* SET NX PX.  A row that changed since it was listed is leased all the same.
Acquire(p, d) ==
  /\ At(p, d) = "listed" /\ KeyFree(d)
  /\ lease' = [lease EXCEPT ![d] = [value |-> Nonced(p), ttl |-> LeaseTicks]]
  /\ Move(p, d, "leased")
  /\ Excuse(d, ~Due(rows[d]) \/ rows[d].attempts # job[p][d].attempts)
  /\ UNCHANGED <<rows, faults, sent>>

\* The key is taken, or Redis fails, its SET done or not: the row is left for a
\* later poll.
Skip(p, d) ==
  /\ At(p, d) = "listed"
  /\ Charge(KeyFree(d))
  /\ \/ UNCHANGED lease
     \/ KeyFree(d) /\ lease' = [lease EXCEPT ![d] = [value |-> Nonced(p), ttl |-> LeaseTicks]]
  /\ Leave(p, d)
  /\ UNCHANGED <<rows, sent, excused>>

\* attempt starts when every lease of the call has been decided.  A subscription
\* that is gone took its rows with it.
Send(p, d) ==
  /\ At(p, d) = "leased" /\ \A e \in Deliveries : At(p, e) # "listed"
  /\ IF rows[d].status = "gone"
     THEN Move(p, d, "releasing") /\ UNCHANGED sent
     ELSE /\ Move(p, d, "sending")
          /\ sent' = [sent EXCEPT ![d] = IF @ <= MaxAttempts THEN @ + 1 ELSE @]
  /\ UNCHANGED <<rows, lease, faults, excused>>

\* The query for the subscription fails: attempt throws and the finally releases.
LookupFails(p, d) ==
  /\ At(p, d) = "leased" /\ \A e \in Deliveries : At(p, e) # "listed"
  /\ Charge(TRUE)
  /\ Move(p, d, "releasing")
  /\ UNCHANGED <<rows, lease, sent, excused>>

\* A 2xx answer; any other status, a network error or the timeout.
Response(p, d) ==
  /\ At(p, d) = "sending"
  /\ \E ok \in BOOLEAN : Move(p, d, IF ok THEN "succeeding" ELSE "failing")
  /\ UNCHANGED <<rows, lease, faults, sent, excused>>

\* The update of a success is inside the try: its error is taken for a failed
\* delivery.
MarkSuccess(p, d) ==
  /\ At(p, d) = "succeeding"
  /\ \E o \in Calls :
       /\ Charge(~o.reply)
       /\ rows' = IF o.commit THEN Updated(d, "success", job[p][d].attempts + 1, 0) ELSE rows
       /\ Move(p, d, IF o.reply THEN "releasing" ELSE "failing")
       /\ Excuse(d, ~o.reply)
  /\ UNCHANGED <<lease, sent>>

ExhaustedLate(attempts) == attempts > MaxAttempts
Exhausted(attempts) == attempts >= MaxAttempts

AfterFailureUncounted(p, d) ==
  LET attempts == job[p][d].attempts + 1 IN
  IF Exhausted(attempts) THEN Updated(d, "failed", attempts, 0)
  ELSE Updated(d, "pending", job[p][d].attempts, RetryDelay[attempts])
AfterFailure(p, d) ==
  LET attempts == job[p][d].attempts + 1 IN
  IF Exhausted(attempts) THEN Updated(d, "failed", attempts, 0)
  ELSE Updated(d, "pending", attempts, RetryDelay[attempts])

\* Retry later, or give up; the finally releases even when the update throws.
MarkFailure(p, d) ==
  /\ At(p, d) = "failing"
  /\ \E o \in Calls :
       /\ Charge(~o.reply)
       /\ rows' = IF o.commit THEN AfterFailure(p, d) ELSE rows
       /\ Excuse(d, ~o.reply)
  /\ Move(p, d, "releasing")
  /\ UNCHANGED <<lease, sent>>

Release(p, d) ==
  /\ At(p, d) = "releasing"
  /\ lease' = IF ReleaseFinds(p, d) THEN [lease EXCEPT ![d] = NoKey] ELSE lease
  /\ Leave(p, d)
  /\ UNCHANGED <<rows, faults, sent, excused>>

\* A process dies with all of its pollers; the rows and the leases stay.
Crash(w) ==
  LET dead == {p \in Pollers : Worker[p] = w} IN
  /\ \E p \in dead, d \in Deliveries : At(p, d) # "out"
  /\ Charge(TRUE)
  /\ job' = [p \in Pollers |-> IF p \in dead THEN [d \in Deliveries |-> Out] ELSE job[p]]
  /\ excused' = [d \in Deliveries |-> excused[d] \/ \E p \in dead : At(p, d) \in InFlight]
  /\ UNCHANGED <<rows, lease, sent>>

\* A poller that works on d after its own key is gone.
Outlived(d, keys) ==
  \E p \in Pollers : At(p, d) \in InFlight \cup {"leased"}
                     /\ (keys[d] = NoKey \/ keys[d].value # Nonced(p))

\* Time passes: delays run down and keys expire, under a slow poller's feet too.
Tick ==
  /\ rows' = [d \in Deliveries |-> [rows[d] EXCEPT !.wait = IF @ > 0 THEN @ - 1 ELSE @]]
  /\ lease' = [d \in Deliveries |-> Aged(lease[d])]
  /\ excused' = [d \in Deliveries |-> excused[d] \/ Outlived(d, lease')]
  /\ UNCHANGED <<job, faults, sent>>

PollerStep(p) ==
  \E d \in Deliveries :
    \/ Acquire(p, d) \/ Skip(p, d) \/ Send(p, d) \/ LookupFails(p, d) \/ Response(p, d)
    \/ MarkSuccess(p, d) \/ MarkFailure(p, d) \/ Release(p, d)

Next ==
  \/ \E d \in Deliveries : Enqueue(d) \/ DeleteSubscription(d)
  \/ \E p \in Pollers : List(p) \/ PollerStep(p)
  \/ \E w \in {Worker[p] : p \in Pollers} : Crash(w)
  \/ Tick

Spec == Init /\ [][Next]_vars

\* startWorker keeps polling, calls end (fetch within ten seconds), time passes.
Fairness ==
  /\ \A p \in Pollers : WF_vars(List(p)) /\ WF_vars(PollerStep(p))
  /\ WF_vars(Tick)

FairSpec == Spec /\ Fairness

-----------------------------------------------------------------------------
(* Properties                                                              *)

\* The variables keep their types.
TypeOK ==
  /\ rows \in [Deliveries -> Row]
  /\ lease \in [Deliveries -> Key \cup {NoKey}]
  /\ job \in [Pollers -> [Deliveries -> [at : Places, attempts : 0..MaxAttempts]]]
  /\ faults \in 0..MaxFaults
  /\ sent \in [Deliveries -> 0..(MaxAttempts + 1)]
  /\ excused \in [Deliveries -> BOOLEAN]

\* docs/REDIS-OUTAGE.md: two workers do not "send concurrently while one valid
\* lease is held": two requests of a delivery are in the air only after a lease
\* ran out under its holder or a row was leased on an outdated listing.
NoConcurrentSend ==
  \A d \in Deliveries, p, q \in Pollers :
    p # q /\ At(p, d) = "sending" /\ At(q, d) = "sending" => excused[d]

\* The attempts of a row count the requests it caused, so max_attempts bounds
\* them, unless a write was lost, a process died or a lease was outlived.
AttemptsAreCounted ==
  \A d \in Deliveries :
    rows[d].status = "gone" \/ excused[d]
    \/ sent[d] = rows[d].attempts + Cardinality({p \in Pollers : At(p, d) \in InFlight})

\* docs/REDIS-OUTAGE.md: a success is never enqueued again; it can be lost only
\* to a poller that outlived its lease, read an outdated row or lost a reply.
SuccessIsKept ==
  [][\A d \in Deliveries :
       rows[d].status = "success" /\ rows'[d].status \in {"pending", "failed"} => excused[d]]_vars

\* docs/REDIS-OUTAGE.md: "The lease is released in a finally block after
\* success, permanent failure, or retry scheduling."
LeaseIsReleased ==
  [][\A p \in Pollers, d \in Deliveries :
       At(p, d) = "releasing" /\ job'[p][d].at = "out" =>
         lease'[d] = NoKey \/ lease'[d].value # Nonced(p) \/ faults' # faults]_vars

\* Every delivery is sent to an end or given up, unless pollers outlive their
\* leases for ever.
EventuallyDone ==
  \/ []<>(\E d \in Deliveries : Outlived(d, lease))
  \/ \A d \in Deliveries : rows[d].status = "pending" ~> rows[d].status # "pending"
=============================================================================
