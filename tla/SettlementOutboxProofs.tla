----------------------- MODULE SettlementOutboxProofs -----------------------
(***************************************************************************)
(* What the settlement outbox guarantees for every set of keys, workers    *)
(* and tokens, both stores and every bound.  The argument: lease tokens of *)
(* different workers never coincide (Fencing), so a worker whose claim was *)
(* taken over cannot settle the row; and a row that met no cause of        *)
(* redelivery has its side effect run by the one holder of its token       *)
(* (Causes).                                                               *)
(***************************************************************************)
EXTENDS SettlementOutbox, FiniteSetTheorems, TLAPS

-----------------------------------------------------------------------------
(* The row operators                                                       *)

\* A saturated counter stays under its cap and never goes down.
LEMMA SaturateType ==
  ASSUME NEW n \in 0..AttemptsCap
  PROVE  Saturate(n) \in 0..AttemptsCap /\ Saturate(n) >= n
BY CapAssumption DEF Saturate

\* The statuses the operators below assign.
LEMMA StatusType ==
  /\ "pending" \in Statuses /\ "processing" \in Statuses
  /\ "succeeded" \in Statuses /\ "dead" \in Statuses
BY DEF Statuses

\* Inserting keeps an existing row and otherwise makes a pending one.
LEMMA InsertedRow ==
  ASSUME NEW r \in Row
  PROVE  /\ Inserted(r) \in Row
         /\ r.status # "absent" => Inserted(r) = r
         /\ r.status = "absent" =>
              Inserted(r).status = "pending" /\ Inserted(r).token = NoToken /\ Inserted(r).attempts = 0
<1>1. Cardinality(Stored) \in Nat
  <2>1. Stored \subseteq Keys
    BY DEF Stored
  <2>2. IsFiniteSet(Stored)
    BY <2>1, KeysAssumption, FS_Subset
  <2> QED
    BY <2>2, FS_CardinalityType
<1>2. 0 \in 0..AttemptsCap
  BY CapAssumption
<1>3. Cardinality(Stored) + 1 \in Nat
  BY <1>1
<1>4. Absent \in Row
  <2>1. /\ "absent" \in Statuses /\ 0 \in 0..AttemptsCap /\ 0 \in Nat /\ 0 \in Int
        /\ NoToken \in Tokens \cup {NoToken}
    BY <1>2 DEF Statuses
  <2> QED
    BY <2>1 DEF Absent, Row
<1> DEFINE new == [Absent EXCEPT !.status = "pending", !.born = Cardinality(Stored) + 1]
<1>5. /\ new \in Row /\ new.status = "pending"
      /\ new.token = Absent.token /\ new.attempts = Absent.attempts
  BY <1>3, <1>4, StatusType DEF Row
<1>6. new.token = NoToken /\ new.attempts = 0
  BY <1>5 DEF Absent
<1> QED
  BY <1>5, <1>6 DEF Inserted

\* Claiming leases the row under the new token.
LEMMA ClaimedRowFields ==
  ASSUME NEW r \in Row, NEW t \in Tokens
  PROVE  /\ ClaimedRow(r, t) \in Row
         /\ ClaimedRow(r, t).status = "processing"
         /\ ClaimedRow(r, t).token = t
         /\ ClaimedRow(r, t).lease = LeaseTicks
         /\ ClaimedRow(r, t).attempts \in 0..AttemptsCap
         /\ ClaimedRow(r, t).attempts \in {r.attempts, Saturate(r.attempts)}
<1> DEFINE n == IF store = "memory" THEN Saturate(r.attempts) ELSE r.attempts
<1>1. r.attempts \in 0..AttemptsCap
  BY DEF Row
<1>2. n \in 0..AttemptsCap /\ n \in {r.attempts, Saturate(r.attempts)}
  BY <1>1, SaturateType
<1>3. ClaimedRow(r, t) =
        [r EXCEPT !.status = "processing", !.lease = LeaseTicks, !.token = t, !.attempts = n]
  BY DEF ClaimedRow
<1> HIDE DEF n
<1>4. t \in Tokens \cup {NoToken} /\ LeaseTicks \in Int
  BY LeaseAssumption
<1> QED
  BY <1>2, <1>3, <1>4, StatusType DEF Row

\* Settling as succeeded gives up the token.
LEMMA SucceededRow ==
  ASSUME NEW r \in Row
  PROVE  /\ Succeeded(r) \in Row
         /\ Succeeded(r).status = "succeeded"
         /\ Succeeded(r).token = NoToken
         /\ Succeeded(r).attempts = r.attempts
<1>1. NoToken \in Tokens \cup {NoToken} /\ 0 \in Int
  OBVIOUS
<1> QED
  BY <1>1, StatusType DEF Succeeded, Row

\* A recorded failure gives up the token and either retries or buries.
LEMMA FailedRow ==
  ASSUME NEW r \in Row, NEW delay \in Nat, NEW dead \in BOOLEAN
  PROVE  /\ Failed(r, delay, dead) \in Row
         /\ Failed(r, delay, dead).status = IF dead THEN "dead" ELSE "pending"
         /\ Failed(r, delay, dead).token = NoToken
         /\ Failed(r, delay, dead).attempts = r.attempts
<1> DEFINE s == IF dead THEN "dead" ELSE "pending"
           d == IF dead THEN 0 ELSE delay
<1>1. s \in Statuses /\ d \in Nat /\ NoToken \in Tokens \cup {NoToken} /\ 0 \in Int
  BY StatusType
<1>2. Failed(r, delay, dead) = [r EXCEPT !.status = s, !.wait = d, !.lease = 0, !.token = NoToken]
  BY DEF Failed
<1>3. s = IF dead THEN "dead" ELSE "pending"
  OBVIOUS
<1> HIDE DEF s, d
<1>4. /\ Failed(r, delay, dead) \in Row
      /\ Failed(r, delay, dead).status = s
      /\ Failed(r, delay, dead).token = NoToken
      /\ Failed(r, delay, dead).attempts = r.attempts
  BY <1>1, <1>2 DEF Row
<1> QED
  BY <1>3, <1>4

\* Time passing changes neither the status, the token nor the attempts.
LEMMA ElapsedRow ==
  ASSUME NEW r \in Row
  PROVE  /\ Elapsed(r) \in Row
         /\ Elapsed(r).status = r.status
         /\ Elapsed(r).token = r.token
         /\ Elapsed(r).attempts = r.attempts
<1> DEFINE a == IF r.wait > 0 THEN r.wait - 1 ELSE r.wait
           l == IF r.status = "processing" /\ r.lease >= 0 THEN r.lease - 1 ELSE r.lease
<1>1. r.wait \in Nat /\ r.lease \in Int
  BY DEF Row
<1>2. a \in Nat /\ l \in Int
  BY <1>1
<1>3. Elapsed(r) = [r EXCEPT !.wait = a, !.lease = l]
  BY DEF Elapsed
<1> HIDE DEF a, l
<1> QED
  BY <1>2, <1>3 DEF Row

\* The retry delay is a number of ticks whatever the attempt count.
LEMMA RetryDelayType ==
  ASSUME NEW n \in 0..AttemptsCap
  PROVE  RetryDelay(n) \in Nat
BY CapAssumption, BackoffAssumption DEF RetryDelay

LEMMA IsDeadType ==
  ASSUME NEW c \in Claims
  PROVE  IsDead(c) \in BOOLEAN
BY DEF IsDead

-----------------------------------------------------------------------------
(* Types                                                                   *)

LEMMA InitType == Init => TypeOK
BY DeploymentsAssumption, CapAssumption, MaxFaultsAssumption
DEF Init, TypeOK, Absent, Row, Statuses, Phases

\* A charged fault stays within the budget.
LEMMA ChargeType ==
  ASSUME NEW fault \in BOOLEAN, faults \in 0..MaxFaults, Charge(fault)
  PROVE  faults' \in 0..MaxFaults
BY MaxFaultsAssumption DEF Charge

LEMMA CallsType ==
  ASSUME NEW o \in Calls
  PROVE  o.commit \in BOOLEAN /\ o.reply \in BOOLEAN /\ (o.reply => o.commit)
BY DEF Calls

\* What a claim does, with the choices of the action named.
LEMMA ClaimEffect ==
  ASSUME TypeOK, NEW w \in Workers, Claim(w)
  PROVE  \E S \in SUBSET Keys : (\A k \in S : Due(rows[k])) /\ Lease(w, S)
<1>1. PICK locked \in SUBSET Contended(w) :
        Lease(w, Oldest({k \in Keys \ locked : Due(rows[k])}))
  BY DEF Claim
<1>2. /\ Oldest({k \in Keys \ locked : Due(rows[k])}) \in SUBSET Keys
      /\ \A k \in Oldest({j \in Keys \ locked : Due(rows[j])}) : Due(rows[k])
  BY DEF Oldest
<1> QED
  BY <1>1, <1>2

LEMMA NextType == TypeOK /\ [Next]_vars => TypeOK'
<1> SUFFICES ASSUME TypeOK, [Next]_vars PROVE TypeOK'
  OBVIOUS
<1> USE DEF TypeOK
<1>1. ASSUME NEW k \in Keys, Enqueue(k) PROVE TypeOK'
  BY <1>1, InsertedRow DEF Enqueue, history, deployment
<1>2. ASSUME NEW w \in Workers, Claim(w) PROVE TypeOK'
  <2>a. PICK S \in SUBSET Keys : Lease(w, S)
    BY <1>2, ClaimEffect
  <2>1. PICK tok \in [S -> FreshTokens] :
          /\ rows' = [k \in Keys |-> IF k \in S THEN ClaimedRow(rows[k], tok[k]) ELSE rows[k]]
          /\ batch' = [batch EXCEPT ![w] =
               {[key |-> k, token |-> tok[k],
                 attempts |-> ClaimedRow(rows[k], tok[k]).attempts] : k \in S}]
    BY <2>a DEF Lease, ClaimOf
  <2>2. \A k \in S : tok[k] \in Tokens
    BY DEF FreshTokens
  <2>3. rows' \in [Keys -> Row]
    BY <2>1, <2>2, ClaimedRowFields
  <2>4. batch' \in [Workers -> SUBSET Claims]
    BY <2>1, <2>2, ClaimedRowFields DEF Claims
  <2>5. claimed' \in [Keys -> 0..AttemptsCap]
    BY <2>a, SaturateType DEF Lease
  <2> QED
    BY <1>2, <2>3, <2>4, <2>5 DEF Claim, deployment
<1>3. ASSUME NEW w \in Workers, NoHandler(w) PROVE TypeOK'
  <2>1. PICK c \in Dispatchable(w), o \in Calls :
          /\ Charge(~o.reply)
          /\ rows' = IF o.commit /\ Matches(rows[c.key], c)
                     THEN [rows EXCEPT ![c.key] = Failed(@, 0, TRUE)] ELSE rows
          /\ batch' = [batch EXCEPT ![w] = IF o.reply THEN @ \ {c} ELSE {}]
    BY <1>3 DEF NoHandler
  <2>2. c \in Claims /\ c.key \in Keys
    BY <1>3 DEF Dispatchable, Claims
  <2>3. rows' \in [Keys -> Row]
    BY <2>1, <2>2, FailedRow
  <2>4. batch' \in [Workers -> SUBSET Claims]
    BY <2>1
  <2> QED
    BY <1>3, <2>1, <2>3, <2>4, ChargeType, CallsType DEF NoHandler, history, deployment
<1>4. ASSUME NEW w \in Workers, HandlerDone(w) PROVE TypeOK'
  <2>1. PICK c \in Dispatchable(w) :
          /\ Deliver(c.key)
          /\ batch' = [batch EXCEPT ![w] = @ \ {c}]
          /\ current' = [current EXCEPT ![w] = c]
    BY <1>4 DEF HandlerDone
  <2>2. c \in Claims /\ c.key \in Keys
    BY <1>4 DEF Dispatchable, Claims
  <2>3. delivered' \in [Keys -> 0..2]
    BY <2>1, <2>2 DEF Deliver
  <2> QED
    BY <1>4, <2>1, <2>2, <2>3 DEF HandlerDone, Phases, deployment
<1>5. ASSUME NEW w \in Workers, HandlerThrow(w) PROVE TypeOK'
  <2>1. PICK c \in Dispatchable(w), effect \in BOOLEAN :
          /\ Charge(c.key \notin Poison)
          /\ IF effect
             THEN Deliver(c.key) /\ excused' = [excused EXCEPT ![c.key] = TRUE]
             ELSE UNCHANGED <<delivered, excused>>
          /\ batch' = [batch EXCEPT ![w] = @ \ {c}]
          /\ current' = [current EXCEPT ![w] = c]
    BY <1>5 DEF HandlerThrow
  <2>2. c \in Claims /\ c.key \in Keys
    BY <1>5 DEF Dispatchable, Claims
  <2>3. delivered' \in [Keys -> 0..2] /\ excused' \in [Keys -> BOOLEAN]
    <3>1. CASE effect
      <4>1. Deliver(c.key) /\ excused' = [excused EXCEPT ![c.key] = TRUE]
        BY <2>1, <3>1
      <4>2. delivered' \in [Keys -> 0..2]
        BY <2>2, <4>1 DEF Deliver
      <4> QED
        BY <2>2, <4>1, <4>2
    <3>2. CASE ~effect
      BY <2>1, <3>2
    <3> QED
      BY <3>1, <3>2
  <2>4. faults' \in 0..MaxFaults
    BY <2>1, MaxFaultsAssumption DEF Charge
  <2> QED
    BY <1>5, <2>1, <2>2, <2>3, <2>4 DEF HandlerThrow, Phases, deployment
<1>6. ASSUME NEW w \in Workers, Ack(w) PROVE TypeOK'
  <2> DEFINE c == current[w]
  <2>1. PICK o \in Calls :
          /\ Charge(~o.reply)
          /\ rows' = IF o.commit /\ Matches(rows[c.key], c)
                     THEN [rows EXCEPT ![c.key] = Succeeded(@)] ELSE rows
          /\ phase' = [phase EXCEPT ![w] = IF o.reply THEN "ready" ELSE "failing"]
          /\ current' = [current EXCEPT ![w] = IF o.reply THEN NoClaim ELSE @]
          /\ excused' = [excused EXCEPT ![c.key] = @ \/ ~o.reply]
    BY <1>6 DEF Ack
  <2>2. c \in Claims /\ c.key \in Keys
    BY <1>6 DEF Ack, Claims
  <2>3. rows' \in [Keys -> Row]
    BY <2>1, <2>2, SucceededRow
  <2> QED
    BY <1>6, <2>1, <2>2, <2>3, ChargeType, CallsType DEF Ack, Phases, deployment
<1>7. ASSUME NEW w \in Workers, Nack(w) PROVE TypeOK'
  <2> DEFINE c == current[w]
  <2>1. PICK o \in Calls :
          /\ Charge(~o.reply)
          /\ rows' = IF o.commit /\ Matches(rows[c.key], c)
                     THEN [rows EXCEPT ![c.key] = Failed(@, RetryDelay(c.attempts), IsDead(c))]
                     ELSE rows
          /\ batch' = [batch EXCEPT ![w] = IF o.reply THEN @ ELSE {}]
    BY <1>7 DEF Nack
  <2>2. c \in Claims /\ c.key \in Keys /\ c.attempts \in 0..AttemptsCap
    BY <1>7 DEF Nack, Claims
  <2>3. rows' \in [Keys -> Row]
    BY <2>1, <2>2, FailedRow, RetryDelayType, IsDeadType
  <2> QED
    BY <1>7, <2>1, <2>3, ChargeType, CallsType DEF Nack, Phases, history, deployment
<1>8. ASSUME NEW w \in Workers, Crash(w) PROVE TypeOK'
  BY <1>8, ChargeType DEF Crash, Phases, history, deployment
<1>9. ASSUME Tick PROVE TypeOK'
  BY <1>9, ElapsedRow DEF Tick, deployment
<1>10. CASE UNCHANGED vars
  BY <1>10 DEF vars
<1> QED
  BY <1>1, <1>2, <1>3, <1>4, <1>5, <1>6, <1>7, <1>8, <1>9, <1>10 DEF Next, WorkerStep

\* The type invariant of the outbox: in particular, a worker awaiting the end
\* of an iteration always holds a real claim, whatever crashed around it.
THEOREM TypeCorrect == Spec => []TypeOK
BY InitType, NextType, PTL DEF Spec

-----------------------------------------------------------------------------
(* The inductive invariant                                                 *)

\* A row carries a token exactly while it is being processed.
TokenIffProcessing ==
  \A k \in Keys : rows[k].token # NoToken <=> rows[k].status = "processing"

\* Claims are made of rows that exist, and rows are never deleted.
HeldIsStored == \A w \in Workers : \A c \in Held(w) : rows[c.key].status # "absent"

\* Two workers never hold the same token.
TokensApart ==
  \A v, w \in Workers : v # w => \A c \in Held(v), d \in Held(w) : c.token # d.token

\* A worker holds a key once; the claim in progress has left the batch.
OneClaimPerKey ==
  \A w \in Workers :
    /\ \A c, d \in Held(w) : c.key = d.key => c = d
    /\ phase[w] # "ready" => current[w] \notin batch[w]

Fencing == TokenIffProcessing /\ HeldIsStored /\ TokensApart /\ OneClaimPerKey

\* Whoever acknowledges has run the side effect.
AckingIsDelivered ==
  \A w \in Workers : phase[w] = "acking" => delivered[current[w].key] > 0

\* A row that met no cause of redelivery: its lease has not ended, every claim
\* of it is the valid one, and its side effect ran at most once, by the claim
\* that is being acknowledged or has been.
CleanRow(k) ==
  /\ delivered[k] <= 1
  /\ rows[k].status \in {"absent", "pending"} => delivered[k] = 0
  /\ rows[k].status = "processing" => rows[k].lease >= 0
  /\ \A w \in Workers : \A c \in Held(w) : c.key = k => c.token = rows[k].token
  /\ \A w \in Workers : \A c \in batch[w] : c.key = k => delivered[k] = 0
  /\ \A w \in Workers : phase[w] = "failing" /\ current[w].key = k => delivered[k] = 0

Causes == \A k \in Keys : ~excused[k] => CleanRow(k)

IInv == TypeOK /\ Fencing /\ AckingIsDelivered /\ Causes

-----------------------------------------------------------------------------
(* Fencing                                                                 *)

\* What a worker holds are claims.
LEMMA HeldClaims ==
  ASSUME TypeOK, NEW w \in Workers, NEW c \in Held(w)
  PROVE  c \in Claims /\ c.key \in Keys /\ c.token \in Tokens /\ c.token # NoToken
<1>1. c \in Claims
  BY DEF Held, TypeOK, Phases
<1> QED
  BY <1>1, TokenAssumption DEF Claims

\* Every step of a worker but a claim leaves the others alone, keeps or drops
\* claims of its own, and moves a dispatched claim out of the batch.
LEMMA HeldShrinks ==
  ASSUME TypeOK, OneClaimPerKey, NEW w \in Workers, WorkerStep(w) \/ Crash(w)
  PROVE  /\ \A v \in Workers : batch'[v] \subseteq batch[v] /\ Held(v)' \subseteq Held(v)
         /\ \A v \in Workers : phase'[v] # "ready" => current'[v] \notin batch'[v]
<1> USE DEF TypeOK, OneClaimPerKey, Held
<1>1. CASE NoHandler(w)
  BY <1>1 DEF NoHandler
<1>2. CASE HandlerDone(w)
  BY <1>2 DEF HandlerDone, Dispatchable
<1>3. CASE HandlerThrow(w)
  BY <1>3 DEF HandlerThrow, Dispatchable
<1>4. CASE Ack(w)
  BY <1>4 DEF Ack
<1>5. CASE Nack(w)
  BY <1>5 DEF Nack
<1>6. CASE Crash(w)
  BY <1>6 DEF Crash
<1> QED
  BY <1>1, <1>2, <1>3, <1>4, <1>5, <1>6 DEF WorkerStep

\* How a step of a worker but a claim can change a row: only the row of a claim
\* it holds, only under the current token of the row, and then for good or
\* back to waiting; either way the row gives up its token, and the worker its
\* claim unless the step is a cause of redelivery.
LEMMA RowStep ==
  ASSUME TypeOK, OneClaimPerKey, NEW w \in Workers, WorkerStep(w) \/ Crash(w), NEW k \in Keys
  PROVE  \/ rows'[k] = rows[k]
         \/ /\ \E c \in Held(w) : /\ c.key = k /\ c.token = rows[k].token
                                  /\ c \notin Held(w)' \/ excused'[k]
            /\ rows'[k].token = NoToken
            /\ \/ Ack(w) /\ current[w].key = k /\ rows'[k].status = "succeeded"
               \/ NoHandler(w) /\ k \notin handled /\ rows'[k].status = "dead"
               \/ Nack(w) /\ current[w].key = k /\ rows'[k].status \in {"pending", "dead"}
<1> USE DEF TypeOK
<1>1. CASE NoHandler(w)
  <2>1. PICK c \in batch[w], o \in Calls :
          /\ c.key \notin handled
          /\ batch' = [batch EXCEPT ![w] = IF o.reply THEN @ \ {c} ELSE {}]
          /\ rows' = IF o.commit /\ Matches(rows[c.key], c)
                     THEN [rows EXCEPT ![c.key] = Failed(@, 0, TRUE)] ELSE rows
    BY <1>1 DEF NoHandler, Dispatchable
  <2>2. c \in Held(w) /\ c.key \in Keys
    BY HeldClaims DEF Held
  <2>3. rows[c.key] \in Row /\ 0 \in Nat /\ TRUE \in BOOLEAN
    BY <2>2
  <2>4. Failed(rows[c.key], 0, TRUE).status = "dead" /\ Failed(rows[c.key], 0, TRUE).token = NoToken
    BY <2>3, FailedRow
  <2>5. c \notin Held(w)'
    BY <1>1, <2>1 DEF Held, NoHandler
  <2> QED
    BY <1>1, <2>1, <2>2, <2>4, <2>5 DEF Matches
<1>2. CASE HandlerDone(w) \/ HandlerThrow(w) \/ Crash(w)
  BY <1>2 DEF HandlerDone, HandlerThrow, Crash
<1>3. CASE Ack(w)
  <2> DEFINE c == current[w]
  <2>1. PICK o \in Calls :
          /\ rows' = IF o.commit /\ Matches(rows[c.key], c)
                     THEN [rows EXCEPT ![c.key] = Succeeded(@)] ELSE rows
          /\ phase' = [phase EXCEPT ![w] = IF o.reply THEN "ready" ELSE "failing"]
          /\ excused' = [excused EXCEPT ![c.key] = @ \/ ~o.reply]
    BY <1>3 DEF Ack
  <2>2. c \in Held(w) /\ c.key \in Keys
    BY <1>3, HeldClaims DEF Held, Ack
  <2>3. Succeeded(rows[c.key]).status = "succeeded" /\ Succeeded(rows[c.key]).token = NoToken
    BY <2>2, SucceededRow
  <2>4. c \notin Held(w)' \/ excused'[c.key]
    <3>1. CASE o.reply
      BY <1>3, <2>1, <3>1 DEF Held, Ack, OneClaimPerKey
    <3>2. CASE ~o.reply
      BY <2>1, <2>2, <3>2
    <3> QED
      BY <3>1, <3>2
  <2> QED
    BY <1>3, <2>1, <2>2, <2>3, <2>4 DEF Matches
<1>4. CASE Nack(w)
  <2> DEFINE c == current[w]
             delay == RetryDelay(c.attempts)
             dead == IsDead(c)
             r == Failed(rows[c.key], delay, dead)
  <2>1. PICK o \in Calls :
          rows' = IF o.commit /\ Matches(rows[c.key], c)
                  THEN [rows EXCEPT ![c.key] = r] ELSE rows
    BY <1>4 DEF Nack
  <2>2. c \in Held(w) /\ c \in Claims /\ c.key \in Keys
    BY <1>4, HeldClaims DEF Held, Nack
  <2>3. rows[c.key] \in Row /\ delay \in Nat /\ dead \in BOOLEAN
    BY <2>2, RetryDelayType, IsDeadType DEF Claims
  <2> HIDE DEF delay, dead
  <2>4. r.status = (IF dead THEN "dead" ELSE "pending") /\ r.token = NoToken
    BY <2>3, FailedRow
  <2> HIDE DEF r
  <2>5. c \notin Held(w)'
    BY <1>4 DEF Held, Nack, OneClaimPerKey
  <2> QED
    BY <1>4, <2>1, <2>2, <2>4, <2>5 DEF Matches
<1> QED
  BY <1>1, <1>2, <1>3, <1>4 DEF WorkerStep

\* No step of a worker but a claim breaks the fence.
LEMMA WorkerFencing ==
  ASSUME TypeOK, Fencing, NEW w \in Workers, WorkerStep(w) \/ Crash(w)
  PROVE  Fencing'
<1>1. /\ \A v \in Workers : Held(v)' \subseteq Held(v)
      /\ \A v \in Workers : phase'[v] # "ready" => current'[v] \notin batch'[v]
  BY HeldShrinks DEF Fencing
<1>2. \A k \in Keys :
        \/ rows'[k] = rows[k]
        \/ rows'[k].token = NoToken /\ rows'[k].status \notin {"processing", "absent"}
  BY RowStep DEF Fencing
<1>3. TokenIffProcessing'
  BY <1>2 DEF Fencing, TokenIffProcessing
<1>4. HeldIsStored'
  BY <1>1, <1>2, HeldClaims DEF Fencing, HeldIsStored
<1>5. TokensApart'
  BY <1>1 DEF Fencing, TokensApart
<1>6. OneClaimPerKey'
  BY <1>1 DEF Fencing, OneClaimPerKey
<1> QED
  BY <1>3, <1>4, <1>5, <1>6 DEF Fencing

\* A claim takes rows under tokens that nobody holds, and gives w exactly the
\* claims of those rows.
LEMMA ClaimStep ==
  ASSUME TypeOK, NEW w \in Workers, Claim(w)
  PROVE  \E S \in SUBSET Keys :
           /\ \A k \in S : /\ Due(rows[k])
                           /\ rows'[k].status = "processing"
                           /\ rows'[k].lease = LeaseTicks
                           /\ rows'[k].token \in FreshTokens
           /\ \A k \in Keys \ S : rows'[k] = rows[k]
           /\ \A c \in Held(w)' : c.key \in S /\ c.token = rows'[c.key].token /\ c \in batch'[w]
           /\ \A c, d \in Held(w)' : c.key = d.key => c = d
           /\ phase'[w] = "ready"
           /\ \A v \in Workers \ {w} :
                Held(v)' = Held(v) /\ batch'[v] = batch[v]
<1> USE DEF TypeOK
<1>1. PICK S \in SUBSET Keys : (\A k \in S : Due(rows[k])) /\ Lease(w, S)
  BY ClaimEffect
<1>2. PICK tok \in [S -> FreshTokens] :
        /\ rows' = [k \in Keys |-> IF k \in S THEN ClaimedRow(rows[k], tok[k]) ELSE rows[k]]
        /\ batch' = [batch EXCEPT ![w] =
             {[key |-> k, token |-> tok[k],
               attempts |-> ClaimedRow(rows[k], tok[k]).attempts] : k \in S}]
  BY <1>1 DEF Lease, ClaimOf
<1>3. \A k \in S : tok[k] \in FreshTokens /\ tok[k] \in Tokens
  BY DEF FreshTokens
<1>4. \A k \in S : /\ rows'[k].status = "processing"
                   /\ rows'[k].lease = LeaseTicks
                   /\ rows'[k].token = tok[k]
  BY <1>2, <1>3, ClaimedRowFields
<1>5. phase'[w] = "ready" /\ phase' = phase /\ current' = current
  BY DEF Claim
<1>6. Held(w)' = {[key |-> k, token |-> tok[k],
                   attempts |-> ClaimedRow(rows[k], tok[k]).attempts] : k \in S}
  BY <1>2, <1>5 DEF Held
<1>7. \A c \in Held(w)' : c.key \in S /\ c.token = tok[c.key] /\ c \in batch'[w]
  BY <1>2, <1>6
<1>8. \A c, d \in Held(w)' : c.key = d.key => c = d
  BY <1>6
<1>9. \A v \in Workers \ {w} : Held(v)' = Held(v) /\ batch'[v] = batch[v]
  BY <1>2, <1>5 DEF Held
<1>10. /\ \A k \in S : /\ Due(rows[k])
                        /\ rows'[k].status = "processing"
                        /\ rows'[k].lease = LeaseTicks
                        /\ rows'[k].token \in FreshTokens
       /\ \A k \in Keys \ S : rows'[k] = rows[k]
  BY <1>1, <1>2, <1>3, <1>4
<1>11. \A c \in Held(w)' : c.key \in S /\ c.token = rows'[c.key].token /\ c \in batch'[w]
  BY <1>4, <1>7
<1> HIDE DEF TypeOK
<1> QED
  BY <1>5, <1>8, <1>9, <1>10, <1>11

\* Fresh tokens are on no row and in no claim.
LEMMA FreshTokensAreNew ==
  ASSUME NEW t \in FreshTokens
  PROVE  /\ t \in Tokens /\ t # NoToken
         /\ \A k \in Keys : rows[k].token # t
         /\ \A w \in Workers : \A c \in Held(w) : c.token # t
BY TokenAssumption DEF FreshTokens

\* A claim keeps the fence: its tokens are new.
LEMMA ClaimFencing ==
  ASSUME TypeOK, Fencing, NEW w \in Workers, Claim(w)
  PROVE  Fencing'
<1>1. PICK S \in SUBSET Keys :
        /\ \A k \in S : /\ Due(rows[k])
                        /\ rows'[k].status = "processing"
                        /\ rows'[k].lease = LeaseTicks
                        /\ rows'[k].token \in FreshTokens
        /\ \A k \in Keys \ S : rows'[k] = rows[k]
        /\ \A c \in Held(w)' : c.key \in S /\ c.token = rows'[c.key].token /\ c \in batch'[w]
        /\ \A c, d \in Held(w)' : c.key = d.key => c = d
        /\ phase'[w] = "ready"
        /\ \A v \in Workers \ {w} :
             Held(v)' = Held(v) /\ batch'[v] = batch[v]
  BY ClaimStep
<1>2. TokenIffProcessing'
  BY <1>1, FreshTokensAreNew DEF Fencing, TokenIffProcessing
<1>3. HeldIsStored'
  <2> SUFFICES ASSUME NEW v \in Workers, NEW c \in Held(v)'
               PROVE  rows'[c.key].status # "absent"
    BY DEF HeldIsStored
  <2>1. CASE v = w
    BY <1>1, <2>1
  <2>2. CASE v # w
    BY <1>1, <2>2, HeldClaims DEF Fencing, HeldIsStored
  <2> QED
    BY <2>1, <2>2
<1>4. TokensApart'
  <2>1. \A v \in Workers \ {w} : \A c \in Held(v)', d \in Held(w)' : c.token # d.token
    BY <1>1, FreshTokensAreNew
  <2> QED
    BY <1>1, <2>1 DEF Fencing, TokensApart
<1>5. OneClaimPerKey'
  <2>1. phase' = phase /\ current' = current
    BY DEF Claim
  <2> QED
    BY <1>1, <2>1 DEF Fencing, OneClaimPerKey
<1> QED
  BY <1>2, <1>3, <1>4, <1>5 DEF Fencing

LEMMA NextFencing == TypeOK /\ Fencing /\ [Next]_vars => Fencing'
<1> SUFFICES ASSUME TypeOK, Fencing, [Next]_vars PROVE Fencing'
  OBVIOUS
<1>1. ASSUME NEW k \in Keys, Enqueue(k) PROVE Fencing'
  <2>1. \A j \in Keys : \/ rows'[j] = rows[j]
                        \/ /\ rows[j].status = "absent"
                           /\ rows'[j].token = NoToken /\ rows'[j].status = "pending"
    BY <1>1, InsertedRow DEF Enqueue, TypeOK
  <2>2. \A w \in Workers : Held(w)' = Held(w)
    BY <1>1 DEF Enqueue, Held
  <2>3. TokenIffProcessing'
    BY <2>1 DEF Fencing, TokenIffProcessing
  <2>4. HeldIsStored'
    BY <2>1, <2>2, HeldClaims DEF Fencing, HeldIsStored
  <2>5. TokensApart' /\ OneClaimPerKey'
    BY <1>1, <2>2 DEF Enqueue, Fencing, TokensApart, OneClaimPerKey
  <2> QED
    BY <2>3, <2>4, <2>5 DEF Fencing
<1>2. ASSUME Tick PROVE Fencing'
  <2>1. \A j \in Keys : rows'[j].token = rows[j].token /\ rows'[j].status = rows[j].status
    BY <1>2, ElapsedRow DEF Tick, TypeOK
  <2>2. \A w \in Workers : Held(w)' = Held(w)
    BY <1>2 DEF Tick, Held
  <2>3. TokenIffProcessing' /\ HeldIsStored'
    BY <2>1, <2>2, HeldClaims DEF Fencing, TokenIffProcessing, HeldIsStored
  <2>4. TokensApart' /\ OneClaimPerKey'
    BY <1>2, <2>2 DEF Tick, Fencing, TokensApart, OneClaimPerKey
  <2> QED
    BY <2>3, <2>4 DEF Fencing
<1>3. CASE UNCHANGED vars
  BY <1>3 DEF vars, Fencing, TokenIffProcessing, HeldIsStored, TokensApart, OneClaimPerKey, Held
<1> QED
  BY <1>1, <1>2, <1>3, WorkerFencing, ClaimFencing DEF Next

-----------------------------------------------------------------------------
(* Causes of redelivery                                                    *)

LEMMA DeliverCounts ==
  ASSUME TypeOK, NEW k \in Keys, Deliver(k)
  PROVE  /\ delivered'[k] > 0
         /\ delivered[k] = 0 => delivered'[k] = 1
         /\ \A j \in Keys : /\ delivered'[j] >= delivered[j]
                            /\ j # k => delivered'[j] = delivered[j]
BY DEF TypeOK, Deliver

\* Deliveries are never forgotten.
LEMMA DeliveredGrows ==
  ASSUME TypeOK, [Next]_vars, NEW k \in Keys
  PROVE  delivered'[k] >= delivered[k]
<1>1. ASSUME NEW w \in Workers, HandlerDone(w) PROVE delivered'[k] >= delivered[k]
  <2>1. PICK c \in batch[w] : Deliver(c.key)
    BY <1>1 DEF HandlerDone, Dispatchable
  <2> QED
    BY <2>1, DeliverCounts, HeldClaims DEF Held
<1>2. ASSUME NEW w \in Workers, HandlerThrow(w) PROVE delivered'[k] >= delivered[k]
  <2>1. PICK c \in batch[w] : Deliver(c.key) \/ UNCHANGED delivered
    BY <1>2 DEF HandlerThrow, Dispatchable
  <2> QED
    BY <2>1, DeliverCounts, HeldClaims DEF Held, TypeOK
<1>3. CASE UNCHANGED delivered
  BY <1>3 DEF TypeOK
<1> QED
  BY <1>1, <1>2, <1>3
  DEF Next, WorkerStep, Enqueue, Claim, NoHandler, Ack, Nack, Crash, Tick, vars, history

LEMMA NextAcking == TypeOK /\ AckingIsDelivered /\ [Next]_vars => AckingIsDelivered'
<1> SUFFICES ASSUME TypeOK, AckingIsDelivered, [Next]_vars,
                    NEW v \in Workers, phase'[v] = "acking"
             PROVE  delivered'[current'[v].key] > 0
  BY DEF AckingIsDelivered
<1>1. CASE phase[v] = "acking" /\ current'[v] = current[v]
  <2>1. delivered[current[v].key] > 0 /\ current[v].key \in Keys
    BY <1>1 DEF AckingIsDelivered, TypeOK, Claims
  <2>2. delivered'[current[v].key] >= delivered[current[v].key]
    BY <2>1, DeliveredGrows
  <2>3. delivered[current[v].key] \in 0..2
    BY <2>1 DEF TypeOK
  <2>4. TypeOK'
    BY NextType
  <2>5. delivered'[current[v].key] \in 0..2
    BY <2>1, <2>4 DEF TypeOK
  <2> QED
    BY <1>1, <2>1, <2>2, <2>3, <2>5
<1>2. CASE HandlerDone(v)
  <2>1. PICK c \in batch[v] : Deliver(c.key) /\ current' = [current EXCEPT ![v] = c]
    BY <1>2 DEF HandlerDone, Dispatchable
  <2> QED
    BY <2>1, DeliverCounts, HeldClaims DEF Held, TypeOK
<1>3. (phase[v] = "acking" /\ current'[v] = current[v]) \/ HandlerDone(v)
  <2> USE DEF TypeOK
  <2>1. ASSUME NEW w \in Workers, HandlerDone(w) \/ HandlerThrow(w)
        PROVE  (phase[v] = "acking" /\ current'[v] = current[v]) \/ HandlerDone(v)
    BY <2>1 DEF HandlerDone, HandlerThrow
  <2>2. ASSUME NEW w \in Workers, Ack(w) \/ Nack(w) \/ Crash(w)
        PROVE  phase[v] = "acking" /\ current'[v] = current[v]
    <3>2. CASE Ack(w)
      <4>1. PICK o, c :
              /\ phase' = [phase EXCEPT ![w] = IF o.reply THEN "ready" ELSE "failing"]
              /\ current' = [current EXCEPT ![w] = c]
        BY <3>2 DEF Ack
      <4> QED
        BY <4>1
    <3>3. CASE Nack(w) \/ Crash(w)
      <4>1. /\ phase' = [phase EXCEPT ![w] = "ready"]
            /\ current' = [current EXCEPT ![w] = NoClaim]
        BY <3>3 DEF Nack, Crash
      <4> QED
        BY <4>1
    <3> QED
      BY <2>2, <3>2, <3>3
  <2>3. CASE UNCHANGED <<phase, current>>
    BY <2>3
  <2>4. ASSUME NEW w \in Workers, Claim(w) \/ NoHandler(w)
        PROVE  UNCHANGED <<phase, current>>
    BY <2>4 DEF Claim, NoHandler
  <2>5. ((\E k \in Keys : Enqueue(k)) \/ Tick \/ UNCHANGED vars) => UNCHANGED <<phase, current>>
    BY DEF Enqueue, Tick, vars
  <2> QED
    BY <2>1, <2>2, <2>3, <2>4, <2>5 DEF Next, WorkerStep
<1> QED
  BY <1>1, <1>2, <1>3

\* The one holder of a clean row: whoever else claims to hold it does not.
LEMMA CleanHolder ==
  ASSUME TypeOK, Fencing, NEW k \in Keys, CleanRow(k),
         NEW v \in Workers, NEW w \in Workers, NEW c \in Held(v), NEW d \in Held(w),
         c.key = k, d.key = k
  PROVE  v = w /\ c = d
BY DEF Fencing, TokensApart, OneClaimPerKey, CleanRow

\* The claim in progress is held.
LEMMA CurrentIsHeld ==
  ASSUME NEW w \in Workers, phase[w] # "ready"
  PROVE  current[w] \in Held(w)
BY DEF Held

\* A step of a worker that settles a clean row leaves no claim of it behind.
LEMMA SettledClean ==
  ASSUME TypeOK, Fencing, NEW w \in Workers, WorkerStep(w) \/ Crash(w), NEW k \in Keys,
         CleanRow(k), ~excused'[k], rows'[k] # rows[k]
  PROVE  CleanRow(k)'
<1>1. PICK c \in Held(w) : c.key = k /\ c \notin Held(w)'
  BY RowStep DEF Fencing
<1>2. \A v \in Workers : Held(v)' \subseteq Held(v) /\ batch'[v] \subseteq Held(v)'
  BY HeldShrinks DEF Fencing, Held
<1>3. \A v \in Workers : \A d \in Held(v)' : d.key # k
  BY <1>1, <1>2, CleanHolder
<1>4. \A v \in Workers : phase'[v] # "ready" => current'[v] \in Held(v)'
  BY DEF Held
<1>5. rows'[k].status \in {"succeeded", "dead"} \/ (Nack(w) /\ current[w].key = k /\ rows'[k].status = "pending")
  BY RowStep DEF Fencing
<1>6. delivered' = delivered
  BY RowStep DEF Fencing, NoHandler, Ack, Nack, history
<1>7. rows'[k].status = "pending" => delivered'[k] = 0
  BY <1>5, <1>6 DEF CleanRow, Nack
<1> QED
  BY <1>2, <1>3, <1>4, <1>5, <1>6, <1>7 DEF CleanRow

\* Causes are kept by the steps of a worker that run no side effect.
LEMMA QuietCauses ==
  ASSUME TypeOK, Fencing, Causes, NEW w \in Workers,
         NoHandler(w) \/ Ack(w) \/ Nack(w) \/ Crash(w)
  PROVE  Causes'
<1> SUFFICES ASSUME NEW k \in Keys, ~excused'[k]
             PROVE  CleanRow(k)'
  BY DEF Causes
<1>1. ~excused[k] /\ CleanRow(k)
  BY DEF Causes, TypeOK, NoHandler, Ack, Nack, Crash, history
<1>2. \A v \in Workers : Held(v)' \subseteq Held(v) /\ batch'[v] \subseteq batch[v]
  BY HeldShrinks DEF Fencing, WorkerStep
<1>3. delivered' = delivered
  BY DEF NoHandler, Ack, Nack, Crash, history
<1>4. \A v \in Workers : phase'[v] = "failing" /\ current'[v].key = k =>
        phase[v] = "failing" /\ current[v].key = k
  <2>1. CASE Ack(w)
    BY <2>1 DEF Ack, TypeOK
  <2>2. CASE ~Ack(w)
    BY <2>2 DEF NoHandler, Nack, Crash, TypeOK
  <2> QED
    BY <2>1, <2>2
<1>5. CASE rows'[k] = rows[k]
  BY <1>1, <1>2, <1>3, <1>4, <1>5 DEF CleanRow
<1>6. CASE rows'[k] # rows[k]
  BY <1>1, <1>6, SettledClean DEF WorkerStep
<1> QED
  BY <1>5, <1>6

\* A dispatched claim of a clean row is the only one, and nothing ran before.
LEMMA DispatchClean ==
  ASSUME TypeOK, Fencing, NEW w \in Workers, NEW c \in batch[w], CleanRow(c.key),
         phase[w] = "ready"
  PROVE  /\ delivered[c.key] = 0
         /\ rows[c.key].status = "processing" /\ rows[c.key].token = c.token
         /\ \A v \in Workers : \A d \in Held(v) : d.key = c.key => v = w /\ d = c
         /\ \A v \in Workers : phase[v] # "ready" => current[v].key # c.key
<1>1. c \in Held(w) /\ c.key \in Keys /\ c.token # NoToken
  BY HeldClaims DEF Held
<1>2. \A v \in Workers : \A d \in Held(v) : d.key = c.key => v = w /\ d = c
  BY <1>1, CleanHolder
<1>3. rows[c.key].token = c.token /\ delivered[c.key] = 0
  BY <1>1 DEF CleanRow
<1>4. rows[c.key].status = "processing"
  BY <1>1, <1>3 DEF Fencing, TokenIffProcessing
<1>5. \A v \in Workers : phase[v] # "ready" => current[v].key # c.key
  BY <1>2, CurrentIsHeld
<1> QED
  BY <1>2, <1>3, <1>4, <1>5

LEMMA HandlerCauses ==
  ASSUME TypeOK, Fencing, Causes, NEW w \in Workers, HandlerDone(w) \/ HandlerThrow(w)
  PROVE  Causes'
<1> SUFFICES ASSUME NEW k \in Keys, ~excused'[k]
             PROVE  CleanRow(k)'
  BY DEF Causes
<1>1. PICK c \in batch[w] :
        /\ phase[w] = "ready"
        /\ batch' = [batch EXCEPT ![w] = @ \ {c}]
        /\ current' = [current EXCEPT ![w] = c]
        /\ \/ /\ Deliver(c.key) /\ phase' = [phase EXCEPT ![w] = "acking"]
              /\ excused' = excused
           \/ /\ Deliver(c.key) /\ phase' = [phase EXCEPT ![w] = "failing"]
              /\ excused' = [excused EXCEPT ![c.key] = TRUE]
           \/ /\ delivered' = delivered /\ phase' = [phase EXCEPT ![w] = "failing"]
              /\ excused' = excused
  BY DEF HandlerDone, HandlerThrow, Dispatchable
<1>2. c.key \in Keys /\ rows' = rows
  BY HeldClaims DEF Held, HandlerDone, HandlerThrow
<1>3. ~excused[k] /\ CleanRow(k)
  BY <1>1, <1>2 DEF Causes, TypeOK
<1>4. \A v \in Workers : Held(v)' \subseteq Held(v) /\ batch'[v] \subseteq batch[v]
  BY HeldShrinks DEF Fencing, WorkerStep
<1>5. \A v \in Workers \ {w} : phase'[v] = phase[v] /\ current'[v] = current[v]
  BY <1>1 DEF TypeOK
<1>6. CASE c.key # k
  <2>1. delivered'[k] = delivered[k]
    BY <1>1, <1>2, <1>6, DeliverCounts
  <2>2. \A v \in Workers : phase'[v] = "failing" /\ current'[v].key = k =>
          phase[v] = "failing" /\ current[v].key = k
    BY <1>1, <1>5, <1>6 DEF TypeOK
  <2> QED
    BY <1>2, <1>3, <1>4, <2>1, <2>2 DEF CleanRow
<1>7. CASE c.key = k
  <2>1. /\ delivered[k] = 0
        /\ rows[k].status = "processing" /\ rows[k].token = c.token
        /\ \A v \in Workers : \A d \in Held(v) : d.key = k => v = w /\ d = c
        /\ \A v \in Workers : phase[v] # "ready" => current[v].key # k
    BY <1>1, <1>3, <1>7, DispatchClean
  <2>2. \A v \in Workers : \A d \in batch'[v] : d.key # k
    BY <1>1, <2>1 DEF Held, TypeOK
  <2>3. /\ delivered'[k] <= 1
        /\ \A v \in Workers : phase'[v] = "failing" /\ current'[v].key = k => delivered'[k] = 0
    <3>1. CASE Deliver(c.key) /\ phase' = [phase EXCEPT ![w] = "acking"]
      BY <1>5, <1>7, <2>1, <3>1, DeliverCounts DEF TypeOK
    <3>2. CASE delivered' = delivered
      BY <2>1, <3>2
    <3>3. CASE excused' = [excused EXCEPT ![c.key] = TRUE]
      BY <1>2, <1>7, <3>3 DEF TypeOK
    <3> QED
      BY <1>1, <3>1, <3>2, <3>3
  <2> QED
    BY <1>2, <1>3, <1>4, <2>1, <2>2, <2>3 DEF CleanRow
<1> QED
  BY <1>6, <1>7

LEMMA ClaimCauses ==
  ASSUME TypeOK, Fencing, Causes, NEW w \in Workers, Claim(w)
  PROVE  Causes'
<1> SUFFICES ASSUME NEW k \in Keys, ~excused'[k]
             PROVE  CleanRow(k)'
  BY DEF Causes
<1>1. PICK S \in SUBSET Keys :
        /\ \A j \in S : /\ Due(rows[j])
                        /\ rows'[j].status = "processing"
                        /\ rows'[j].lease = LeaseTicks
                        /\ rows'[j].token \in FreshTokens
        /\ \A j \in Keys \ S : rows'[j] = rows[j]
        /\ \A c \in Held(w)' : c.key \in S /\ c.token = rows'[c.key].token /\ c \in batch'[w]
        /\ \A c, d \in Held(w)' : c.key = d.key => c = d
        /\ phase'[w] = "ready"
        /\ \A v \in Workers \ {w} :
             Held(v)' = Held(v) /\ batch'[v] = batch[v]
  BY ClaimStep
<1>2. ~excused[k] /\ CleanRow(k) /\ delivered' = delivered /\ phase' = phase /\ current' = current
  BY DEF Claim, Causes
<1>3. batch'[w] \subseteq Held(w)'
  BY DEF Held
<1>4. CASE k \in S
  <2>1. rows[k].status = "pending"
    BY <1>1, <1>2, <1>4 DEF Due, CleanRow, TypeOK, Row
  <2>2. delivered[k] = 0 /\ rows[k].token = NoToken
    BY <1>2, <2>1 DEF CleanRow, Fencing, TokenIffProcessing
  <2>3. \A v \in Workers : \A c \in Held(v) : c.key # k
    BY <1>2, <2>2, HeldClaims DEF CleanRow
  <2>4. \A v \in Workers : \A c \in Held(v)' : c.key = k => c.token = rows'[k].token
    BY <1>1, <2>3
  <2>5. rows'[k].status = "processing" /\ rows'[k].lease >= 0
    BY <1>1, <1>4, LeaseAssumption
  <2> QED
    BY <1>2, <2>2, <2>4, <2>5 DEF CleanRow
<1>5. CASE k \notin S
  <2>1. \A v \in Workers : \A c \in Held(v)' : c.key = k => c \in Held(v) /\ (c \in batch'[v] => c \in batch[v])
    BY <1>1, <1>5
  <2>2. \A v \in Workers : \A c \in batch'[v] : c \in Held(v)'
    BY DEF Held
  <2>3. rows'[k] = rows[k]
    BY <1>1, <1>5
  <2> QED
    BY <1>2, <2>1, <2>2, <2>3 DEF CleanRow
<1> QED
  BY <1>4, <1>5

LEMMA NextCauses == TypeOK /\ Fencing /\ Causes /\ [Next]_vars => Causes'
<1> SUFFICES ASSUME TypeOK, Fencing, Causes, [Next]_vars PROVE Causes'
  OBVIOUS
<1>1. ASSUME NEW k \in Keys, Enqueue(k) PROVE Causes'
  <2> SUFFICES ASSUME NEW j \in Keys, ~excused'[j]
               PROVE  CleanRow(j)'
    BY DEF Causes
  <2>1. CleanRow(j)
    BY <1>1 DEF Enqueue, Causes, history
  <2>2. \A w \in Workers : Held(w)' = Held(w)
    BY <1>1 DEF Enqueue, Held
  <2>3. CASE rows'[j] = rows[j]
    BY <1>1, <2>1, <2>2, <2>3 DEF Enqueue, CleanRow, history
  <2>4. CASE rows[j].status = "absent" /\ rows'[j].status = "pending"
    <3>1. \A w \in Workers : \A c \in Held(w)' : c.key # j
      BY <2>2, <2>4 DEF Fencing, HeldIsStored
    <3>2. \A w \in Workers : batch'[w] \subseteq Held(w)'
      BY DEF Held
    <3> QED
      BY <1>1, <2>1, <2>4, <3>1, <3>2 DEF Enqueue, CleanRow, history
  <2>5. rows'[j] = rows[j] \/ (rows[j].status = "absent" /\ rows'[j].status = "pending")
    BY <1>1, InsertedRow DEF Enqueue, TypeOK
  <2> QED
    BY <2>3, <2>4, <2>5
<1>2. ASSUME Tick PROVE Causes'
  <2> SUFFICES ASSUME NEW j \in Keys, ~excused'[j]
               PROVE  CleanRow(j)'
    BY DEF Causes
  <2>1. CleanRow(j) /\ ~(rows'[j].lease < 0)
    BY <1>2 DEF Tick, Causes
  <2>2. /\ rows'[j].token = rows[j].token /\ rows'[j].status = rows[j].status
        /\ rows'[j].lease \in Int
    BY <1>2, ElapsedRow DEF Tick, TypeOK, Row
  <2>3. \A w \in Workers : Held(w)' = Held(w)
    BY <1>2 DEF Tick, Held
  <2> QED
    BY <1>2, <2>1, <2>2, <2>3 DEF Tick, CleanRow
<1>3. CASE UNCHANGED vars
  BY <1>3 DEF vars, Causes, CleanRow, Held
<1> QED
  BY <1>1, <1>2, <1>3, QuietCauses, HandlerCauses, ClaimCauses DEF Next, WorkerStep

-----------------------------------------------------------------------------
(* The theorems                                                            *)

LEMMA InitIInv == Init => IInv
<1> SUFFICES ASSUME Init PROVE IInv
  OBVIOUS
<1>1. TypeOK
  BY InitType
<1>2. \A k \in Keys : rows[k].status = "absent" /\ rows[k].token = NoToken
  BY DEF Init, Absent
<1>3. \A w \in Workers : Held(w) = {} /\ batch[w] = {} /\ phase[w] = "ready"
  BY DEF Init, Held
<1>4. Fencing /\ AckingIsDelivered
  BY <1>2, <1>3 DEF Fencing, TokenIffProcessing, HeldIsStored, TokensApart, OneClaimPerKey,
                    AckingIsDelivered
<1>5. Causes
  BY <1>2, <1>3 DEF Init, Causes, CleanRow
<1> QED
  BY <1>1, <1>4, <1>5 DEF IInv

\* The inductive invariant behind the theorems below.
THEOREM Inductive == Spec => []IInv
<1>1. IInv /\ [Next]_vars => IInv'
  BY NextType, NextFencing, NextAcking, NextCauses DEF IInv
<1> QED
  BY InitIInv, <1>1, PTL DEF Spec

\* Of all the workers that still hold a claim of a row, crashed and slow ones
\* included, at most one can settle it.
THEOREM ValidClaimIsUnique == Spec => []OneValidClaim
<1>1. IInv => OneValidClaim
  BY DEF IInv, Fencing, TokensApart, OneClaimPerKey, OneValidClaim
<1> QED
  BY Inductive, <1>1, PTL

\* A side effect runs again only after an expired lease, a handler that threw
\* after its effect or a failed acknowledgement.
THEOREM DuplicatesAreCaused == Spec => []DuplicatesHaveACause
<1>1. IInv => DuplicatesHaveACause
  BY DEF IInv, Causes, CleanRow, DuplicatesHaveACause
<1> QED
  BY Inductive, <1>1, PTL

\* How any step changes the status of a row.
LEMMA StatusStep ==
  ASSUME IInv, [Next]_vars, NEW k \in Keys, rows'[k].status # rows[k].status
  PROVE  \/ /\ rows[k].status = "absent" /\ rows'[k].status = "pending"
            /\ \A j \in Keys : j # k => rows'[j] = rows[j]
            /\ delivered' = delivered
         \/ /\ rows[k].status = "pending" /\ rows'[k].status = "processing"
            /\ delivered' = delivered
            /\ \A j \in Keys : rows'[j].status = rows[j].status
                               \/ {rows'[j].status, rows[j].status} \subseteq {"pending", "processing"}
         \/ /\ rows[k].status = "processing"
            /\ rows'[k].status \in {"succeeded", "dead", "pending"}
            /\ rows'[k].status = "succeeded" => delivered[k] > 0
            /\ \A j \in Keys : j # k => rows'[j] = rows[j]
            /\ delivered' = delivered
<1> USE DEF IInv
<1>1. ASSUME NEW j \in Keys, Enqueue(j)
      PROVE  /\ rows[k].status = "absent" /\ rows'[k].status = "pending"
             /\ \A i \in Keys : i # k => rows'[i] = rows[i]
             /\ delivered' = delivered
  BY <1>1, InsertedRow DEF Enqueue, TypeOK, history
<1>2. ASSUME NEW w \in Workers, Claim(w)
      PROVE  /\ rows[k].status = "pending" /\ rows'[k].status = "processing"
             /\ delivered' = delivered
             /\ \A j \in Keys : rows'[j].status = rows[j].status
                                \/ {rows'[j].status, rows[j].status} \subseteq {"pending", "processing"}
  <2>1. PICK S \in SUBSET Keys :
          /\ \A j \in S : Due(rows[j]) /\ rows'[j].status = "processing"
          /\ \A j \in Keys \ S : rows'[j] = rows[j]
    BY <1>2, ClaimStep
  <2>2. \A j \in S : rows[j].status \in {"pending", "processing"}
    BY <2>1 DEF Due
  <2>3. k \in S
    BY <2>1
  <2>4. rows[k].status = "pending" /\ rows'[k].status = "processing"
    BY <2>1, <2>2, <2>3
  <2>5. ASSUME NEW j \in Keys
        PROVE  rows'[j].status = rows[j].status
               \/ {rows'[j].status, rows[j].status} \subseteq {"pending", "processing"}
    <3>1. CASE j \in S
      BY <2>1, <2>2, <3>1
    <3>2. CASE j \notin S
      BY <2>1, <3>2
    <3> QED
      BY <3>1, <3>2
  <2>6. delivered' = delivered
    BY <1>2 DEF Claim
  <2> QED
    BY <2>4, <2>5, <2>6
<1>3. ASSUME NEW w \in Workers, WorkerStep(w) \/ Crash(w)
      PROVE  /\ rows[k].status = "processing"
             /\ rows'[k].status \in {"succeeded", "dead", "pending"}
             /\ rows'[k].status = "succeeded" => delivered[k] > 0
             /\ \A j \in Keys : j # k => rows'[j] = rows[j]
             /\ delivered' = delivered
  <2>1. /\ \E c \in Held(w) : c.key = k /\ c.token = rows[k].token
        /\ \/ Ack(w) /\ current[w].key = k /\ rows'[k].status = "succeeded"
           \/ NoHandler(w) /\ k \notin handled /\ rows'[k].status = "dead"
           \/ Nack(w) /\ current[w].key = k /\ rows'[k].status \in {"pending", "dead"}
    BY <1>3, RowStep DEF Fencing
  <2>2. rows[k].status = "processing"
    BY <2>1, HeldClaims DEF Fencing, TokenIffProcessing
  <2>3. delivered' = delivered
    BY <2>1 DEF Ack, NoHandler, Nack, history
  <2>4. rows'[k].status = "succeeded" => delivered[k] > 0
    BY <2>1 DEF AckingIsDelivered, Ack
  <2>5. \A j \in Keys : j # k => rows'[j] = rows[j]
    <3>1. CASE Ack(w)
      <4>1. PICK r : rows' = rows \/ rows' = [rows EXCEPT ![current[w].key] = r]
        BY <3>1 DEF Ack
      <4> QED
        BY <4>1 DEF TypeOK
    <3>3. CASE Nack(w)
      <4>1. PICK r : rows' = rows \/ rows' = [rows EXCEPT ![current[w].key] = r]
        BY <3>3 DEF Nack
      <4> QED
        BY <4>1 DEF TypeOK
    <3>2. CASE NoHandler(w)
      <4>1. PICK c, r : c \in batch[w] /\ (rows' = rows \/ rows' = [rows EXCEPT ![c.key] = r])
        BY <3>2 DEF NoHandler, Dispatchable
      <4>2. c.key = k
        BY <4>1 DEF TypeOK
      <4> QED
        BY <4>1, <4>2 DEF TypeOK
    <3> QED
      BY <2>1, <3>1, <3>2, <3>3
  <2> QED
    BY <2>1, <2>2, <2>3, <2>4, <2>5
<1>4. ~Tick /\ ~UNCHANGED vars
  BY ElapsedRow DEF Tick, TypeOK, vars
<1> QED
  BY <1>1, <1>2, <1>3, <1>4 DEF Next

\* A row that succeeded or died keeps that status, whatever a stale worker, a
\* repeated enqueue or a lost reply does.
THEOREM TerminalStaysFinal == Spec => TerminalIsFinal
<1>1. IInv /\ [Next]_vars =>
        [\A k \in Keys : rows[k].status \in Terminal => rows'[k].status = rows[k].status]_vars
  BY StatusStep DEF Terminal
<1> QED
  BY Inductive, <1>1, PTL DEF Spec, TerminalIsFinal

-----------------------------------------------------------------------------
(* The outbox implements its contract                                      *)

\* The outcome of a row depends on its status alone.
LEMMA OutcomeOfStatus ==
  ASSUME NEW r, NEW q, r.status = q.status
  PROVE  Outcome(r) = Outcome(q)
BY DEF Outcome

LEMMA OutcomeValues ==
  ASSUME NEW r \in Row
  PROVE  /\ r.status = "absent" => Outcome(r) = "none"
         /\ r.status \in {"pending", "processing"} => Outcome(r) = "open"
         /\ r.status = "succeeded" => Outcome(r) = "succeeded"
         /\ r.status = "dead" => Outcome(r) = "dead"
         /\ r.status # "absent" => Outcome(r) # "none"
BY DEF Outcome, Row, Statuses

\* A step that runs a side effect is a delivery of the contract.
LEMMA DeliveryRefines ==
  ASSUME IInv, NEW w \in Workers, HandlerDone(w) \/ HandlerThrow(w)
  PROVE  [Contract!Next]_(Contract!contractVars)
<1>1. PICK c \in batch[w] : Deliver(c.key) \/ delivered' = delivered
  BY DEF HandlerDone, HandlerThrow, Dispatchable
<1>2. rows' = rows
  BY DEF HandlerDone, HandlerThrow
<1>3. c \in Held(w)
  BY DEF Held
<1>4. c.key \in Keys /\ rows[c.key] \in Row /\ rows[c.key].status # "absent"
  BY <1>3, HeldClaims DEF IInv, TypeOK, Fencing, HeldIsStored
<1>5. Outcome(rows[c.key]) # "none"
  BY <1>4, OutcomeValues
<1>6. CASE delivered' = delivered
  BY <1>2, <1>6 DEF Contract!contractVars
<1>7. CASE Deliver(c.key)
  <2>1. Contract!Deliver(c.key)
    BY <1>2, <1>4, <1>5, <1>7 DEF Contract!Deliver, Deliver
  <2> QED
    BY <1>4, <2>1 DEF Contract!Next
<1> QED
  BY <1>1, <1>6, <1>7

\* Every other step records, settles or buries one event, or changes no outcome.
LEMMA SettlingRefines ==
  ASSUME IInv, [Next]_vars, delivered' = delivered
  PROVE  [Contract!Next]_(Contract!contractVars)
<1> DEFINE before == [k \in Keys |-> Outcome(rows[k])]
           after == [k \in Keys |-> Outcome(rows'[k])]
<1>1. TypeOK /\ TypeOK'
  BY NextType DEF IInv
<1>2. CASE \A k \in Keys : Outcome(rows'[k]) = Outcome(rows[k])
  <2>1. after = before
    BY <1>2
  <2> QED
    BY <2>1 DEF Contract!contractVars
<1>3. CASE \E k \in Keys : Outcome(rows'[k]) # Outcome(rows[k])
  <2>1. PICK k \in Keys : Outcome(rows'[k]) # Outcome(rows[k])
    BY <1>3
  <2>2. rows'[k].status # rows[k].status
    BY <2>1, OutcomeOfStatus
  <2>3. rows[k] \in Row /\ rows'[k] \in Row
    BY <1>1 DEF TypeOK
  <2>4. \/ rows[k].status = "absent" /\ rows'[k].status = "pending"
        \/ /\ rows[k].status = "processing"
           /\ rows'[k].status \in {"succeeded", "dead"}
           /\ rows'[k].status = "succeeded" => delivered[k] > 0
    BY <2>1, <2>2, <2>3, StatusStep, OutcomeValues
  <2>5. \A j \in Keys : j # k => rows'[j] = rows[j]
    BY <2>2, <2>4, StatusStep
  <2>6. after = [before EXCEPT ![k] = Outcome(rows'[k])]
    BY <2>5
  <2>7. CASE rows[k].status = "absent" /\ rows'[k].status = "pending"
    <3>1. before[k] = "none" /\ Outcome(rows'[k]) = "open"
      BY <2>3, <2>7, OutcomeValues
    <3>2. Contract!Record(k)
      BY <2>6, <3>1 DEF Contract!Record
    <3> QED
      BY <3>2 DEF Contract!Next
  <2>8. CASE rows[k].status = "processing" /\ rows'[k].status = "succeeded"
    <3>1. before[k] = "open" /\ Outcome(rows'[k]) = "succeeded" /\ delivered[k] > 0
      BY <2>3, <2>4, <2>8, OutcomeValues
    <3>2. Contract!Succeed(k)
      BY <2>6, <3>1 DEF Contract!Succeed
    <3> QED
      BY <3>2 DEF Contract!Next
  <2>9. CASE rows[k].status = "processing" /\ rows'[k].status = "dead"
    <3>1. before[k] = "open" /\ Outcome(rows'[k]) = "dead"
      BY <2>3, <2>9, OutcomeValues
    <3>2. Contract!Bury(k)
      BY <2>6, <3>1 DEF Contract!Bury
    <3> QED
      BY <3>2 DEF Contract!Next
  <2> QED
    BY <2>4, <2>7, <2>8, <2>9
<1> QED
  BY <1>2, <1>3

\* The tables, leases, tokens and workers together implement the contract: one
\* event per key, success only after a side effect, outcomes kept for good.
THEOREM OutboxImplementsContract == Spec => ImplementsContract
<1>1. Init => Contract!Init
  BY DEF Init, Contract!Init, Absent, Outcome
<1>2. IInv /\ [Next]_vars => [Contract!Next]_(Contract!contractVars)
  <2> SUFFICES ASSUME IInv, [Next]_vars
               PROVE  [Contract!Next]_(Contract!contractVars)
    OBVIOUS
  <2>1. CASE delivered' = delivered
    BY <2>1, SettlingRefines
  <2>2. delivered' = delivered \/ \E w \in Workers : HandlerDone(w) \/ HandlerThrow(w)
    BY DEF Next, WorkerStep, Enqueue, Claim, NoHandler, Ack, Nack, Crash, Tick, vars, history
  <2> QED
    BY <2>1, <2>2, DeliveryRefines
<1> QED
  BY Inductive, <1>1, <1>2, PTL DEF Spec, ImplementsContract, Contract!Spec
-----------------------------------------------------------------------------
(* Counting attempts                                                       *)

\* Neither a row nor a claim of it has counted more attempts than the row had claims.
NotOvercounted ==
  /\ \A k \in Keys : rows[k].attempts <= claimed[k]
  /\ \A w \in Workers : \A c \in Held(w) : c.attempts <= claimed[c.key]

\* The in-memory store counts every claim, and the valid claim of a row knows the count.
MemoryCounts ==
  store = "memory" =>
    /\ \A k \in Keys : /\ rows[k].attempts = claimed[k]
                       /\ rows[k].status = "absent" => rows[k].attempts = 0
    /\ \A w \in Workers : \A c \in Held(w) :
         c.token = rows[c.key].token => c.attempts = rows[c.key].attempts

Counting == NotOvercounted /\ MemoryCounts /\ DeadWasTried /\ CountedPoisonIsBounded

LEMMA SaturateMonotone ==
  ASSUME NEW m \in 0..AttemptsCap, NEW n \in 0..AttemptsCap, m <= n
  PROVE  m <= Saturate(n) /\ Saturate(m) <= Saturate(n)
BY CapAssumption DEF Saturate

\* What a claim counts.
LEMMA ClaimCounts ==
  ASSUME TypeOK, NEW w \in Workers, Claim(w)
  PROVE  \E S \in SUBSET Keys :
           /\ \A k \in S :
                /\ rows'[k].status = "processing" /\ rows'[k].token \in FreshTokens
                /\ rows'[k].attempts =
                     IF store = "memory" THEN Saturate(rows[k].attempts) ELSE rows[k].attempts
                /\ claimed'[k] = Saturate(claimed[k])
           /\ \A k \in Keys \ S : rows'[k] = rows[k] /\ claimed'[k] = claimed[k]
           /\ \A c \in Held(w)' : c.key \in S /\ c.attempts = rows'[c.key].attempts
           /\ \A v \in Workers \ {w} : Held(v)' = Held(v)
<1> USE DEF TypeOK
<1>1. PICK S \in SUBSET Keys : Lease(w, S)
  BY ClaimEffect
<1>2. PICK tok \in [S -> FreshTokens] :
        /\ rows' = [k \in Keys |-> IF k \in S THEN ClaimedRow(rows[k], tok[k]) ELSE rows[k]]
        /\ batch' = [batch EXCEPT ![w] =
             {[key |-> k, token |-> tok[k],
               attempts |-> ClaimedRow(rows[k], tok[k]).attempts] : k \in S}]
  BY <1>1 DEF Lease, ClaimOf
<1>3. claimed' = [k \in Keys |-> IF k \in S THEN Saturate(claimed[k]) ELSE claimed[k]]
  BY <1>1 DEF Lease
<1>4. \A k \in S : tok[k] \in FreshTokens /\ tok[k] \in Tokens
  BY DEF FreshTokens
<1>5. ASSUME NEW k \in S
      PROVE  /\ rows'[k].status = "processing" /\ rows'[k].token \in FreshTokens
             /\ rows'[k].attempts =
                  IF store = "memory" THEN Saturate(rows[k].attempts) ELSE rows[k].attempts
  <2>1. rows'[k].status = "processing" /\ rows'[k].token \in FreshTokens
    BY <1>2, <1>4, ClaimedRowFields
  <2>2. rows'[k] = ClaimedRow(rows[k], tok[k]) /\ rows[k] \in Row
    BY <1>2
  <2> DEFINE n == IF store = "memory" THEN Saturate(rows[k].attempts) ELSE rows[k].attempts
  <2>3. ClaimedRow(rows[k], tok[k]) =
          [rows[k] EXCEPT !.status = "processing", !.lease = LeaseTicks, !.token = tok[k],
                          !.attempts = n]
    BY DEF ClaimedRow
  <2> HIDE DEF n
  <2>4. rows'[k].attempts = n
    BY <2>2, <2>3 DEF Row
  <2> QED
    BY <2>1, <2>4 DEF n
<1>6. \A k \in S : claimed'[k] = Saturate(claimed[k])
  BY <1>3
<1>7. \A k \in Keys \ S : rows'[k] = rows[k] /\ claimed'[k] = claimed[k]
  BY <1>2, <1>3
<1>8. phase'[w] = "ready" /\ phase' = phase /\ current' = current
  BY DEF Claim
<1>9. Held(w)' = {[key |-> k, token |-> tok[k],
                   attempts |-> ClaimedRow(rows[k], tok[k]).attempts] : k \in S}
  BY <1>2, <1>8 DEF Held
<1>10. \A c \in Held(w)' : c.key \in S /\ c.attempts = rows'[c.key].attempts
  BY <1>2, <1>9
<1>11. \A v \in Workers \ {w} : Held(v)' = Held(v)
  BY <1>2, <1>8 DEF Held
<1> HIDE DEF TypeOK
<1> QED
  BY <1>5, <1>6, <1>7, <1>10, <1>11

\* A claim counts one attempt more on both sides.
LEMMA ClaimCounting ==
  ASSUME TypeOK, Fencing, Counting, NEW w \in Workers, Claim(w)
  PROVE  Counting'
<1>1. PICK S \in SUBSET Keys :
        /\ \A k \in S :
             /\ rows'[k].status = "processing" /\ rows'[k].token \in FreshTokens
             /\ rows'[k].attempts =
                  IF store = "memory" THEN Saturate(rows[k].attempts) ELSE rows[k].attempts
             /\ claimed'[k] = Saturate(claimed[k])
        /\ \A k \in Keys \ S : rows'[k] = rows[k] /\ claimed'[k] = claimed[k]
        /\ \A c \in Held(w)' : c.key \in S /\ c.attempts = rows'[c.key].attempts
        /\ \A v \in Workers \ {w} : Held(v)' = Held(v)
  BY ClaimCounts
<1>2. store' = store /\ handled' = handled
  BY DEF Claim, deployment
<1>3. \A k \in Keys : /\ rows[k].attempts \in 0..AttemptsCap /\ claimed[k] \in 0..AttemptsCap
                      /\ rows[k].attempts <= claimed[k]
  BY DEF TypeOK, Row, Counting, NotOvercounted
<1>4. \A k \in Keys : rows'[k].attempts <= claimed'[k] /\ claimed[k] <= claimed'[k]
  <2> SUFFICES ASSUME NEW k \in Keys
               PROVE  rows'[k].attempts <= claimed'[k] /\ claimed[k] <= claimed'[k]
    OBVIOUS
  <2>1. CASE k \in S
    <3>1. /\ rows[k].attempts <= Saturate(claimed[k])
          /\ Saturate(rows[k].attempts) <= Saturate(claimed[k])
      BY <1>3, SaturateMonotone
    <3>2. claimed[k] <= Saturate(claimed[k])
      BY <1>3, SaturateType
    <3> QED
      BY <1>1, <2>1, <3>1, <3>2
  <2>2. CASE k \notin S
    BY <1>1, <1>3, <2>2
  <2> QED
    BY <2>1, <2>2
<1>5. NotOvercounted'
  <2> SUFFICES ASSUME NEW v \in Workers, NEW c \in Held(v)'
               PROVE  c.attempts <= claimed'[c.key]
    BY <1>4 DEF NotOvercounted
  <2>1. CASE v = w
    BY <1>1, <1>4, <2>1
  <2>2. CASE v # w
    <3>1. c \in Held(v)
      BY <1>1, <2>2
    <3>2. c.key \in Keys /\ c.attempts \in 0..AttemptsCap
      BY <3>1, HeldClaims DEF Claims
    <3>3. c.attempts <= claimed[c.key]
      BY <3>1 DEF Counting, NotOvercounted
    <3>4. claimed[c.key] <= claimed'[c.key] /\ claimed[c.key] \in 0..AttemptsCap
      BY <1>3, <1>4, <3>2
    <3>5. claimed'[c.key] \in 0..AttemptsCap
      BY <3>2, NextType DEF TypeOK, Next
    <3> QED
      BY <3>2, <3>3, <3>4, <3>5
  <2> QED
    BY <2>1, <2>2
<1>6. MemoryCounts'
  <2> SUFFICES ASSUME store = "memory" PROVE MemoryCounts'
    BY <1>2 DEF MemoryCounts
  <2>1. \A k \in Keys : rows'[k].attempts = claimed'[k]
    BY <1>1 DEF Counting, MemoryCounts
  <2>2. \A k \in Keys : rows'[k].status = "absent" => rows'[k].attempts = 0
    BY <1>1 DEF Counting, MemoryCounts
  <2>3. ASSUME NEW v \in Workers, NEW c \in Held(v)', c.token = rows'[c.key].token
        PROVE  c.attempts = rows'[c.key].attempts
    <3>1. CASE v = w
      BY <1>1, <3>1
    <3>2. CASE v # w
      <4>1. c \in Held(v) /\ c.key \in Keys
        BY <1>1, <3>2, HeldClaims
      <4>2. c.key \notin S
        BY <1>1, <2>3, <4>1, FreshTokensAreNew
      <4> QED
        BY <1>1, <2>3, <4>1, <4>2 DEF Counting, MemoryCounts
    <3> QED
      BY <3>1, <3>2
  <2> QED
    BY <2>1, <2>2, <2>3 DEF MemoryCounts
<1>7. DeadWasTried'
  BY <1>1, <1>2 DEF Counting, DeadWasTried, TypeOK
<1>8. CountedPoisonIsBounded'
  BY <1>1, <1>2 DEF Counting, CountedPoisonIsBounded, PoisonIsBounded
<1> QED
  BY <1>5, <1>6, <1>7, <1>8 DEF Counting

\* What a worker's steps other than a claim do to a row: attempts stay, a row
\* with a handler dies only at its limit and waits only below it.
LEMMA WorkerCounts ==
  ASSUME TypeOK, NEW w \in Workers, WorkerStep(w) \/ Crash(w), NEW k \in Keys
  PROVE  \/ rows'[k] = rows[k]
         \/ /\ rows'[k].attempts = rows[k].attempts
            /\ rows'[k].token = NoToken
            /\ \E c \in Held(w) :
                 /\ c.key = k /\ c.token = rows[k].token
                 /\ \/ rows'[k].status = "succeeded"
                    \/ rows'[k].status = "dead" /\ k \notin handled
                    \/ rows'[k].status = "dead" /\ c.attempts >= MaxAttempts[k]
                    \/ rows'[k].status = "pending" /\ c.attempts < MaxAttempts[k]
<1> USE DEF TypeOK
<1>1. CASE NoHandler(w)
  <2>1. PICK c \in batch[w] :
          /\ c.key \notin handled
          /\ \/ rows' = rows
             \/ /\ Matches(rows[c.key], c)
                /\ rows' = [rows EXCEPT ![c.key] = Failed(rows[c.key], 0, TRUE)]
    BY <1>1 DEF NoHandler, Dispatchable
  <2>2. c \in Held(w) /\ c.key \in Keys
    BY HeldClaims DEF Held
  <2>3. rows[c.key] \in Row /\ 0 \in Nat /\ TRUE \in BOOLEAN
    BY <2>2
  <2> DEFINE r == Failed(rows[c.key], 0, TRUE)
  <2>4. r.status = "dead" /\ r.token = NoToken /\ r.attempts = rows[c.key].attempts
    BY <2>3, FailedRow
  <2> HIDE DEF r
  <2>5. rows' = rows \/ (Matches(rows[c.key], c) /\ rows' = [rows EXCEPT ![c.key] = r])
    BY <2>1 DEF r
  <2> QED
    BY <2>1, <2>2, <2>4, <2>5 DEF Matches
<1>2. CASE HandlerDone(w) \/ HandlerThrow(w) \/ Crash(w)
  BY <1>2 DEF HandlerDone, HandlerThrow, Crash
<1>3. CASE Ack(w)
  <2> DEFINE c == current[w]
             r == Succeeded(rows[c.key])
  <2>1. rows' = rows \/ (Matches(rows[c.key], c) /\ rows' = [rows EXCEPT ![c.key] = r])
    BY <1>3 DEF Ack
  <2>2. c \in Held(w) /\ c.key \in Keys
    BY <1>3, HeldClaims DEF Held, Ack
  <2>3. r.status = "succeeded" /\ r.token = NoToken /\ r.attempts = rows[c.key].attempts
    BY <2>2, SucceededRow
  <2> HIDE DEF r
  <2> QED
    BY <2>1, <2>2, <2>3 DEF Matches
<1>4. CASE Nack(w)
  <2> DEFINE c == current[w]
             delay == RetryDelay(c.attempts)
             dead == IsDead(c)
             r == Failed(rows[c.key], delay, dead)
  <2>1. rows' = rows \/ (Matches(rows[c.key], c) /\ rows' = [rows EXCEPT ![c.key] = r])
    BY <1>4 DEF Nack
  <2>2. c \in Held(w) /\ c \in Claims /\ c.key \in Keys
    BY <1>4, HeldClaims DEF Held, Nack
  <2>3. rows[c.key] \in Row /\ delay \in Nat /\ dead \in BOOLEAN
    BY <2>2, RetryDelayType, IsDeadType DEF Claims
  <2>4. dead <=> c.attempts >= MaxAttempts[c.key]
    BY DEF IsDead
  <2>5. c.attempts \in Nat /\ MaxAttempts[c.key] \in Nat
    BY <2>2, CapAssumption, MaxAttemptsAssumption DEF Claims
  <2> HIDE DEF delay, dead
  <2>6. /\ r.status = (IF dead THEN "dead" ELSE "pending") /\ r.token = NoToken
        /\ r.attempts = rows[c.key].attempts
    <3> DEFINE old == rows[c.key]
    <3>1. old \in Row /\ r = Failed(old, delay, dead)
      BY <2>3
    <3> HIDE DEF old, r
    <3>2. /\ Failed(old, delay, dead).status = (IF dead THEN "dead" ELSE "pending")
          /\ Failed(old, delay, dead).token = NoToken
          /\ Failed(old, delay, dead).attempts = old.attempts
      BY <2>3, <3>1, FailedRow
    <3> QED
      BY <3>1, <3>2 DEF old
  <2> HIDE DEF r
  <2>7. \/ r.status = "dead" /\ c.attempts >= MaxAttempts[c.key]
        \/ r.status = "pending" /\ c.attempts < MaxAttempts[c.key]
    BY <2>3, <2>4, <2>5, <2>6
  <2>8. CASE rows' = rows
    BY <2>8
  <2>9. CASE Matches(rows[c.key], c) /\ rows' = [rows EXCEPT ![c.key] = r]
    <3>1. c.token = rows[c.key].token
      BY <2>9 DEF Matches
    <3>2. CASE k # c.key
      BY <2>9, <3>2
    <3>3. CASE k = c.key
      <4>1. rows'[k] = r
        BY <2>9, <3>3
      <4> QED
        BY <2>2, <2>6, <2>7, <3>1, <3>3, <4>1
    <3> QED
      BY <3>2, <3>3
  <2> QED
    BY <2>1, <2>8, <2>9
<1> QED
  BY <1>1, <1>2, <1>3, <1>4 DEF WorkerStep

\* Settling changes no count.
LEMMA WorkerCounting ==
  ASSUME TypeOK, Fencing, Counting, NEW w \in Workers, WorkerStep(w) \/ Crash(w)
  PROVE  Counting'
<1>1. store' = store /\ handled' = handled /\ claimed' = claimed
  BY DEF WorkerStep, NoHandler, HandlerDone, HandlerThrow, Ack, Nack, Crash, deployment, history
<1>2. \A v \in Workers : Held(v)' \subseteq Held(v)
  BY HeldShrinks DEF Fencing
<1>3. \A k \in Keys : rows'[k].attempts = rows[k].attempts
  BY WorkerCounts
<1>4. NotOvercounted'
  BY <1>1, <1>2, <1>3 DEF Counting, NotOvercounted
<1>5. MemoryCounts'
  <2> SUFFICES ASSUME store = "memory" PROVE MemoryCounts'
    BY <1>1 DEF MemoryCounts
  <2>1. \A k \in Keys : rows'[k].status = "absent" => rows'[k].attempts = 0
    BY WorkerCounts DEF Counting, MemoryCounts
  <2>2. ASSUME NEW v \in Workers, NEW c \in Held(v)', c.token = rows'[c.key].token
        PROVE  c.attempts = rows'[c.key].attempts
    <3>1. c \in Held(v) /\ c.key \in Keys /\ c.token # NoToken
      BY <1>2, HeldClaims
    <3>2. rows'[c.key] = rows[c.key]
      BY <2>2, <3>1, WorkerCounts
    <3> QED
      BY <2>2, <3>1, <3>2 DEF Counting, MemoryCounts
  <2> QED
    BY <1>1, <1>3, <2>1, <2>2 DEF Counting, MemoryCounts
<1>6. DeadWasTried'
  <2> SUFFICES ASSUME NEW k \in Keys, k \in handled, rows'[k].status = "dead"
               PROVE  claimed[k] >= MaxAttempts[k]
    BY <1>1 DEF DeadWasTried, TypeOK
  <2>1. CASE rows'[k] = rows[k]
    BY <2>1 DEF Counting, DeadWasTried
  <2>2. CASE rows'[k] # rows[k]
    <3>1. PICK c \in Held(w) : c.key = k /\ c.attempts >= MaxAttempts[k]
      BY <2>2, WorkerCounts
    <3>2. c.attempts <= claimed[k] /\ c.attempts \in 0..AttemptsCap /\ claimed[k] \in 0..AttemptsCap
      BY <3>1, HeldClaims DEF Counting, NotOvercounted, Claims, TypeOK
    <3> QED
      BY <3>1, <3>2, MaxAttemptsAssumption
  <2> QED
    BY <2>1, <2>2
<1>7. CountedPoisonIsBounded'
  <2> SUFFICES ASSUME store = "memory", NEW k \in Keys, rows'[k].status = "pending"
               PROVE  claimed[k] = 0 \/ claimed[k] < MaxAttempts[k]
    BY <1>1 DEF CountedPoisonIsBounded, PoisonIsBounded
  <2>1. CASE rows'[k] = rows[k]
    BY <2>1 DEF Counting, CountedPoisonIsBounded, PoisonIsBounded
  <2>2. CASE rows'[k] # rows[k]
    <3>1. PICK c \in Held(w) : c.key = k /\ c.token = rows[k].token /\ c.attempts < MaxAttempts[k]
      BY <2>2, WorkerCounts
    <3>2. c.attempts = claimed[k]
      BY <3>1 DEF Counting, MemoryCounts
    <3> QED
      BY <3>1, <3>2
  <2> QED
    BY <2>1, <2>2
<1> QED
  BY <1>4, <1>5, <1>6, <1>7 DEF Counting

\* Time and new rows change no count.
LEMMA QuietCounting ==
  ASSUME TypeOK, Counting, \/ \E k \in Keys : Enqueue(k)
                           \/ Tick
                           \/ UNCHANGED vars
  PROVE  Counting'
<1>1. /\ store' = store /\ handled' = handled /\ claimed' = claimed
      /\ batch' = batch /\ phase' = phase /\ current' = current
  BY DEF Enqueue, Tick, vars, deployment, history
<1>2. \A k \in Keys :
        \/ /\ rows'[k].attempts = rows[k].attempts
           /\ rows'[k].status = rows[k].status /\ rows'[k].token = rows[k].token
        \/ /\ rows[k].status = "absent" /\ rows'[k].status = "pending"
           /\ rows'[k].attempts = 0 /\ rows'[k].token = NoToken
  <2>1. CASE \E j \in Keys : Enqueue(j)
    BY <2>1, InsertedRow DEF Enqueue, TypeOK
  <2>2. CASE Tick
    BY <2>2, ElapsedRow DEF Tick, TypeOK
  <2>3. CASE UNCHANGED vars
    BY <2>3 DEF vars
  <2> QED
    BY <2>1, <2>2, <2>3
<1>3. \A v \in Workers : Held(v)' = Held(v)
  BY <1>1 DEF Held
<1>4. NotOvercounted'
  <2>1. \A k \in Keys : claimed[k] \in 0..AttemptsCap
    BY DEF TypeOK
  <2> QED
    BY <1>1, <1>2, <1>3, <2>1 DEF Counting, NotOvercounted
<1>5. MemoryCounts'
  <2> SUFFICES ASSUME store = "memory" PROVE MemoryCounts'
    BY <1>1 DEF MemoryCounts
  <2>1. \A k \in Keys : /\ rows'[k].attempts = claimed[k]
                        /\ rows'[k].status = "absent" => rows'[k].attempts = 0
    BY <1>2 DEF Counting, MemoryCounts
  <2>2. ASSUME NEW v \in Workers, NEW c \in Held(v), c.token = rows'[c.key].token
        PROVE  c.attempts = rows'[c.key].attempts
    <3>1. c.key \in Keys /\ c.token # NoToken
      BY HeldClaims
    <3> QED
      BY <1>2, <2>2, <3>1 DEF Counting, MemoryCounts
  <2> QED
    BY <1>1, <1>3, <2>1, <2>2 DEF MemoryCounts
<1>6. DeadWasTried'
  BY <1>1, <1>2 DEF Counting, DeadWasTried, TypeOK
<1>7. CountedPoisonIsBounded'
  BY <1>1, <1>2 DEF Counting, MemoryCounts, CountedPoisonIsBounded, PoisonIsBounded
<1> QED
  BY <1>4, <1>5, <1>6, <1>7 DEF Counting

LEMMA InitCounting == Init => Counting
<1> SUFFICES ASSUME Init PROVE Counting
  OBVIOUS
<1>1. /\ \A w \in Workers : Held(w) = {}
      /\ \A k \in Keys : /\ rows[k].status = "absent" /\ rows[k].attempts = 0
                         /\ claimed[k] = 0
  BY DEF Init, Absent, Held
<1>2. handled \subseteq Keys
  BY InitType DEF TypeOK
<1> QED
  BY <1>1, <1>2
  DEF Counting, NotOvercounted, MemoryCounts, DeadWasTried, CountedPoisonIsBounded, PoisonIsBounded

LEMMA CountingInductive == Spec => []Counting
<1>1. TypeOK /\ Fencing /\ Counting /\ [Next]_vars => Counting'
  BY ClaimCounting, WorkerCounting, QuietCounting DEF Next
<1>2. IInv => TypeOK /\ Fencing
  BY DEF IInv
<1> QED
  BY InitCounting, Inductive, <1>1, <1>2, PTL DEF Spec

\* A row whose effect has a handler is given up only after max_attempts claims,
\* on either store, whatever crashed, expired or was claimed twice in between.
THEOREM DeadWereTried == Spec => []DeadWasTried
<1>1. Counting => DeadWasTried
  BY DEF Counting
<1> QED
  BY CountingInductive, <1>1, PTL

\* On the in-memory store a row is never put back to wait once it had
\* max_attempts claims: retries of a handler that always throws come to an end.
THEOREM CountedPoisonIsBuried == Spec => []CountedPoisonIsBounded
<1>1. Counting => CountedPoisonIsBounded
  BY DEF Counting
<1> QED
  BY CountingInductive, <1>1, PTL

-----------------------------------------------------------------------------
(* What the PostgreSQL store does not count                                *)

\* No row and no claim of it ever says that an attempt was made, so a handler that
\* throws is never the last attempt.
NothingIsCounted ==
  store = "postgres" =>
    /\ \A k \in Keys : rows[k].attempts = 0
    /\ \A w \in Workers : \A c \in Held(w) : c.attempts = 0
    /\ \A k \in handled : rows[k].status = "dead" => MaxAttempts[k] = 0

LEMMA InitNothingIsCounted == Init => NothingIsCounted
<1> SUFFICES ASSUME Init PROVE NothingIsCounted
  OBVIOUS
<1>1. /\ \A w \in Workers : Held(w) = {}
      /\ \A k \in Keys : rows[k].status = "absent" /\ rows[k].attempts = 0
  BY DEF Init, Absent, Held
<1>2. handled \subseteq Keys
  BY InitType DEF TypeOK
<1> QED
  BY <1>1, <1>2 DEF NothingIsCounted

LEMMA NextNothingIsCounted ==
  TypeOK /\ Fencing /\ NothingIsCounted /\ [Next]_vars => NothingIsCounted'
<1> SUFFICES ASSUME TypeOK, Fencing, NothingIsCounted, [Next]_vars PROVE NothingIsCounted'
  OBVIOUS
<1>1. store' = store /\ handled' = handled /\ handled \subseteq Keys
  BY DEF Next, Enqueue, Claim, WorkerStep, NoHandler, HandlerDone, HandlerThrow, Ack, Nack,
         Crash, Tick, vars, deployment, TypeOK
<1>2. SUFFICES ASSUME store = "postgres" PROVE NothingIsCounted'
  BY <1>1 DEF NothingIsCounted
<1>3. /\ \A k \in Keys : rows[k].attempts = 0
      /\ \A v \in Workers : \A c \in Held(v) : c.attempts = 0
      /\ \A k \in handled : rows[k].status = "dead" => MaxAttempts[k] = 0
  BY <1>2 DEF NothingIsCounted
<1>4. ASSUME NEW w \in Workers, Claim(w) PROVE NothingIsCounted'
  <2>1. PICK S \in SUBSET Keys :
          /\ \A k \in S :
               /\ rows'[k].status = "processing" /\ rows'[k].token \in FreshTokens
               /\ rows'[k].attempts =
                    IF store = "memory" THEN Saturate(rows[k].attempts) ELSE rows[k].attempts
               /\ claimed'[k] = Saturate(claimed[k])
          /\ \A k \in Keys \ S : rows'[k] = rows[k] /\ claimed'[k] = claimed[k]
          /\ \A c \in Held(w)' : c.key \in S /\ c.attempts = rows'[c.key].attempts
          /\ \A v \in Workers \ {w} : Held(v)' = Held(v)
    BY <1>4, ClaimCounts
  <2>2. \A k \in Keys : rows'[k].attempts = 0
    BY <1>2, <1>3, <2>1
  <2>3. \A v \in Workers : \A c \in Held(v)' : c.attempts = 0
    BY <1>3, <2>1, <2>2
  <2>4. \A k \in handled : rows'[k].status = "dead" => MaxAttempts[k] = 0
    BY <1>1, <1>3, <2>1
  <2> QED
    BY <1>1, <2>2, <2>3, <2>4 DEF NothingIsCounted
<1>5. ASSUME NEW w \in Workers, WorkerStep(w) \/ Crash(w) PROVE NothingIsCounted'
  <2>1. \A v \in Workers : Held(v)' \subseteq Held(v)
    BY <1>5, HeldShrinks DEF Fencing
  <2>2. \A k \in Keys : rows'[k].attempts = 0
    BY <1>3, <1>5, WorkerCounts
  <2>3. ASSUME NEW k \in handled, rows'[k].status = "dead" PROVE MaxAttempts[k] = 0
    <3>1. CASE rows'[k] = rows[k]
      BY <1>3, <2>3, <3>1
    <3>2. CASE rows'[k] # rows[k]
      <4>1. PICK c \in Held(w) : c.attempts >= MaxAttempts[k]
        BY <1>1, <1>5, <2>3, <3>2, WorkerCounts
      <4>2. c.attempts = 0 /\ MaxAttempts[k] \in Nat
        BY <1>1, <1>3, MaxAttemptsAssumption
      <4> QED
        BY <4>1, <4>2
    <3> QED
      BY <3>1, <3>2
  <2> QED
    BY <1>1, <1>3, <2>1, <2>2, <2>3 DEF NothingIsCounted
<1>6. CASE (\E k \in Keys : Enqueue(k)) \/ Tick \/ UNCHANGED vars
  <2>1. \A v \in Workers : Held(v)' = Held(v)
    BY <1>6 DEF Held, Enqueue, Tick, vars
  <2>2. \A k \in Keys : /\ rows'[k].attempts = 0
                        /\ rows'[k].status = "dead" => rows[k].status = "dead"
    <3>1. CASE \E j \in Keys : Enqueue(j)
      BY <1>3, <3>1, InsertedRow DEF Enqueue, TypeOK
    <3>2. CASE Tick
      BY <1>3, <3>2, ElapsedRow DEF Tick, TypeOK
    <3>3. CASE UNCHANGED vars
      BY <1>3, <3>3 DEF vars
    <3> QED
      BY <1>6, <3>1, <3>2, <3>3
  <2> QED
    BY <1>1, <1>3, <2>1, <2>2 DEF NothingIsCounted
<1> QED
  BY <1>4, <1>5, <1>6 DEF Next

\* On PostgreSQL max_attempts has no effect: a row whose effect has a handler is never
\* buried, however often the handler throws (unless it was to have no attempt at all).
THEOREM PostgresNeverBuries ==
  Spec => [](store = "postgres" =>
               \A k \in handled : MaxAttempts[k] > 0 => rows[k].status # "dead")
<1>1. IInv => TypeOK /\ Fencing
  BY DEF IInv
<1>2. IInv /\ NothingIsCounted =>
        (store = "postgres" => \A k \in handled : MaxAttempts[k] > 0 => rows[k].status # "dead")
  BY DEF NothingIsCounted
<1> QED
  BY InitNothingIsCounted, NextNothingIsCounted, Inductive, <1>1, <1>2, PTL DEF Spec
=============================================================================
