-------------------------- MODULE SettlementOutbox --------------------------
(***************************************************************************)
(* The settlement outbox: the table settlement_outbox, the two stores that *)
(* keep it (PostgreSQL and in-memory) and the calls of processDue that     *)
(* claim its rows, run their side effects and settle them.                 *)
(*                                                                         *)
(* Time is relative: a row keeps the ticks left until it is available and  *)
(* until its lease ends, so no clock grows.  A "worker" is one caller of   *)
(* processDue; calls of several workers overlap freely.                    *)
(***************************************************************************)
EXTENDS Integers, FiniteSets

CONSTANTS
  Keys,          \* event keys (one row each)
  Workers,       \* callers of processDue
  Tokens,        \* lease tokens; the code draws them at random
  NoToken,       \* lease_token IS NULL
  NoClaim,       \* a worker between two iterations of its loop
  Deployments,   \* the stores services run on, and the keys they have handlers for
  Poison,        \* keys whose handler throws on every attempt
  MaxAttempts,   \* max_attempts of each row
  Backoff,       \* retry delay in ticks for the attempts 1..20
  Limit,         \* the limit given to processDue
  LeaseTicks,    \* length of a lease
  AttemptsCap,   \* bound: where the attempt counters saturate
  MaxFaults      \* bound: crashes, database errors and transient throws

ASSUME KeysAssumption == IsFiniteSet(Keys) /\ Poison \subseteq Keys
ASSUME DeploymentsAssumption ==
  Deployments \subseteq [store : {"postgres", "memory"}, handled : SUBSET Keys]
ASSUME TokenAssumption == NoToken \notin Tokens
ASSUME MaxAttemptsAssumption == MaxAttempts \in [Keys -> Nat]
ASSUME BackoffAssumption == Backoff \in [1..20 -> Nat]
ASSUME LimitAssumption == Limit \in Int
ASSUME LeaseAssumption == LeaseTicks \in Nat \ {0}
\* The saturated counter still orders every max_attempts and every delay.
ASSUME CapAssumption ==
  AttemptsCap \in Nat /\ \A k \in Keys : MaxAttempts[k] <= AttemptsCap
ASSUME MaxFaultsAssumption == MaxFaults \in Nat

\* What a worker keeps of a row it claimed: OutboxClaim.
Claims == [key : Keys, token : Tokens, attempts : 0..AttemptsCap]

ASSUME NoClaimAssumption == NoClaim \notin Claims

VARIABLES
  store,         \* "postgres" or "memory": the store behind the service, for good
  handled,       \* keys whose event type has a registered handler, for good
  rows,          \* the table, by event key
  batch,         \* batch[w]: claims that w's loop has not reached yet
  current,       \* current[w]: the claim of the running iteration
  phase,         \* phase[w]: the await that iteration is at
  faults,        \* faults spent so far
  \* History, read by properties only:
  delivered,     \* side effects run for the key: 0, 1 or 2 (two or more)
  claimed,       \* claims of the row, saturated at AttemptsCap
  excused        \* the row met a cause of redelivery (see HandlerThrow, Ack, Tick)

vars == <<store, handled, rows, batch, current, phase, faults, delivered, claimed, excused>>
deployment == <<store, handled>>
history == <<delivered, claimed, excused>>

Statuses == {"absent", "pending", "processing", "succeeded", "dead"}
Terminal == {"succeeded", "dead"}

Row == [status : Statuses, attempts : 0..AttemptsCap, wait : Nat, lease : Int,
        token : Tokens \cup {NoToken}, born : Nat]

\* "ready": picking the next claim of the batch (idle when there is none);
\* "acking" and "failing": awaiting markSucceeded, markFailed.
Phases == {"ready", "acking", "failing"}

Absent == [status |-> "absent", attempts |-> 0, wait |-> 0, lease |-> 0,
           token |-> NoToken, born |-> 0]

Init ==
  /\ \E d \in Deployments : store = d.store /\ handled = d.handled
  /\ rows = [k \in Keys |-> Absent]
  /\ batch = [w \in Workers |-> {}]
  /\ current = [w \in Workers |-> NoClaim]
  /\ phase = [w \in Workers |-> "ready"]
  /\ faults = 0
  /\ delivered = [k \in Keys |-> 0]
  /\ claimed = [k \in Keys |-> 0]
  /\ excused = [k \in Keys |-> FALSE]

-----------------------------------------------------------------------------
(* The store                                                               *)

Saturate(n) == IF n < AttemptsCap THEN n + 1 ELSE n

Stored == {k \in Keys : rows[k].status # "absent"}

\* An insert: a row that exists already is returned as it is.
UpsertedRow(r) == [Absent EXCEPT !.status = "pending", !.born = Cardinality(Stored) + 1]
Inserted(r) ==
  IF r.status = "absent"
  THEN [Absent EXCEPT !.status = "pending", !.born = Cardinality(Stored) + 1]
  ELSE r

\* available_at <= now, or a lease that ended strictly before now.
DueIgnoringLease(r) == r.status \in {"pending", "processing"} /\ r.wait = 0
DuePendingOnly(r) == r.status = "pending" /\ r.wait = 0
Due(r) ==
  \/ r.status = "pending" /\ r.wait = 0
  \/ r.status = "processing" /\ r.lease < 0

BoundedLimit == IF Limit < 1 THEN 1 ELSE IF Limit > 500 THEN 500 ELSE Limit

\* ORDER BY created_at ... LIMIT
Oldest(S) ==
  {k \in S : Cardinality({j \in S : rows[j].born < rows[k].born}) < BoundedLimit}

\* Rows an UPDATE of another worker may have locked (of the claim it is at, or of one
\* without a handler): SKIP LOCKED passes them over.
Contended(w) ==
  IF store = "memory" THEN {}
  ELSE {k \in Keys : \E v \in Workers \ {w} :
          \/ phase[v] # "ready" /\ current[v].key = k
          \/ phase[v] = "ready" /\ k \notin handled /\ \E c \in batch[v] : c.key = k}

Held(w) == batch[w] \cup (IF phase[w] = "ready" THEN {} ELSE {current[w]})

\* Tokens are random (or numbered): a new one equals none still in use.
RecycledTokens == Tokens
FreshTokens ==
  Tokens \ ({rows[k].token : k \in Keys} \cup {c.token : c \in UNION {Held(w) : w \in Workers}})

\* PostgreSQL stamps one token per statement, the in-memory store one per row.
TokenRule(S, tok) ==
  \A j, k \in S : j # k => (tok[j] = tok[k] <=> store = "postgres")

\* The PostgreSQL UPDATE leaves attempts alone; the in-memory store counts.
ClaimedRow(r, t) ==
  [r EXCEPT !.status = "processing", !.lease = LeaseTicks, !.token = t,
            !.attempts = IF store = "memory" THEN Saturate(@) ELSE @]

\* What the caller gets of a row: its columns as the claim has left them.
ClaimAsFound(k, t) == [key |-> k, token |-> rows[k].token, attempts |-> rows[k].attempts]
ClaimOf(k, t) == [key |-> k, token |-> t, attempts |-> ClaimedRow(rows[k], t).attempts]

Matches(r, c) ==
  /\ r.token = c.token
  /\ store = "memory" => r.status = "processing"

SucceededWithToken(r) == [r EXCEPT !.status = "succeeded", !.lease = 0]
Succeeded(r) == [r EXCEPT !.status = "succeeded", !.lease = 0, !.token = NoToken]

Failed(r, delay, dead) ==
  [r EXCEPT !.status = IF dead THEN "dead" ELSE "pending",
            !.wait = IF dead THEN 0 ELSE delay,
            !.lease = 0, !.token = NoToken]

-----------------------------------------------------------------------------
(* The service                                                             *)

RetryDelay(attempt) ==
  Backoff[IF attempt < 1 THEN 1 ELSE IF attempt > 20 THEN 20 ELSE attempt]

IsDeadEarly(c) == c.attempts + 1 >= MaxAttempts[c.key]
IsDeadLate(c) == c.attempts > MaxAttempts[c.key]
IsDead(c) == c.attempts >= MaxAttempts[c.key]

\* A database call commits and replies, commits and loses the reply, or fails.
\* The in-memory store always answers.
Calls ==
  {o \in [commit : BOOLEAN, reply : BOOLEAN] :
     (o.reply => o.commit) /\ (store = "memory" => o.reply)}

Charge(fault) ==
  /\ fault => faults < MaxFaults
  /\ faults' = IF fault THEN faults + 1 ELSE faults

\* The batch in the order of the loop: RETURNING gives PostgreSQL's none.
Dispatchable(w) ==
  IF store = "postgres" THEN batch[w]
  ELSE {c \in batch[w] : \A d \in batch[w] : rows[c.key].born <= rows[d.key].born}

Deliver(k) == delivered' = [delivered EXCEPT ![k] = IF @ < 2 THEN @ + 1 ELSE @]

Enqueue(k) ==
  /\ rows' = [rows EXCEPT ![k] = Inserted(@)]
  /\ UNCHANGED <<deployment, batch, current, phase, faults, history>>

\* One claimDue statement: the rows of S are leased to w under fresh tokens.
Lease(w, S) ==
  /\ \E tok \in [S -> FreshTokens] :
       /\ TokenRule(S, tok)
       /\ rows' = [k \in Keys |-> IF k \in S THEN ClaimedRow(rows[k], tok[k]) ELSE rows[k]]
       /\ batch' = [batch EXCEPT ![w] = {ClaimOf(k, tok[k]) : k \in S}]
  /\ claimed' = [k \in Keys |-> IF k \in S THEN Saturate(claimed[k]) ELSE claimed[k]]

\* processDue starts with the oldest due rows that no other statement locks.
Claim(w) ==
  /\ phase[w] = "ready" /\ batch[w] = {}
  /\ \E locked \in SUBSET Contended(w) :
       LET S == Oldest({k \in Keys \ locked : Due(rows[k])}) IN S # {} /\ Lease(w, S)
  /\ UNCHANGED <<deployment, current, phase, faults, delivered, excused>>

\* No handler for the event type: the row is buried at once; an error of that
\* call leaves processDue and drops the rest of the batch.
NoHandler(w) ==
  /\ phase[w] = "ready"
  /\ \E c \in Dispatchable(w), o \in Calls :
       /\ c.key \notin handled
       /\ Charge(~o.reply)
       /\ rows' = IF o.commit /\ Matches(rows[c.key], c)
                  THEN [rows EXCEPT ![c.key] = Failed(@, 0, TRUE)] ELSE rows
       /\ batch' = [batch EXCEPT ![w] = IF o.reply THEN @ \ {c} ELSE {}]
  /\ UNCHANGED <<deployment, current, phase, history>>

HandlerDone(w) ==
  /\ phase[w] = "ready"
  /\ \E c \in Dispatchable(w) :
       /\ c.key \in handled \ Poison
       /\ Deliver(c.key)
       /\ batch' = [batch EXCEPT ![w] = @ \ {c}]
       /\ current' = [current EXCEPT ![w] = c]
  /\ phase' = [phase EXCEPT ![w] = "acking"]
  /\ UNCHANGED <<deployment, rows, faults, claimed, excused>>

\* A handler may throw after its effect was felt outside (effect = TRUE).
HandlerThrow(w) ==
  /\ phase[w] = "ready"
  /\ \E c \in Dispatchable(w), effect \in BOOLEAN :
       /\ c.key \in handled
       /\ Charge(c.key \notin Poison)
       /\ IF effect
          THEN Deliver(c.key) /\ excused' = [excused EXCEPT ![c.key] = TRUE]
          ELSE UNCHANGED <<delivered, excused>>
       /\ batch' = [batch EXCEPT ![w] = @ \ {c}]
       /\ current' = [current EXCEPT ![w] = c]
  /\ phase' = [phase EXCEPT ![w] = "failing"]
  /\ UNCHANGED <<deployment, rows, claimed>>

\* markSucceeded runs inside the try of the handler: when it throws, committed
\* or not, the catch goes on to markFailed.
Ack(w) ==
  /\ phase[w] = "acking"
  /\ LET c == current[w] IN
     \E o \in Calls :
       /\ Charge(~o.reply)
       /\ rows' = IF o.commit /\ Matches(rows[c.key], c)
                  THEN [rows EXCEPT ![c.key] = Succeeded(@)] ELSE rows
       /\ phase' = [phase EXCEPT ![w] = IF o.reply THEN "ready" ELSE "failing"]
       /\ current' = [current EXCEPT ![w] = IF o.reply THEN NoClaim ELSE @]
       /\ excused' = [excused EXCEPT ![c.key] = @ \/ ~o.reply]
  /\ UNCHANGED <<deployment, batch, delivered, claimed>>

\* The catch: retry later, or bury at max_attempts.  An error of markFailed
\* leaves processDue and drops the rest of the batch.
Nack(w) ==
  /\ phase[w] = "failing"
  /\ LET c == current[w] IN
     \E o \in Calls :
       /\ Charge(~o.reply)
       /\ rows' = IF o.commit /\ Matches(rows[c.key], c)
                  THEN [rows EXCEPT ![c.key] = Failed(@, RetryDelay(c.attempts), IsDead(c))]
                  ELSE rows
       /\ batch' = [batch EXCEPT ![w] = IF o.reply THEN @ ELSE {}]
  /\ phase' = [phase EXCEPT ![w] = "ready"]
  /\ current' = [current EXCEPT ![w] = NoClaim]
  /\ UNCHANGED <<deployment, history>>

\* The worker's process dies, or the reply of its claim is lost: its claims are
\* forgotten and only their leases remain.  The in-memory store dies with it.
Crash(w) ==
  /\ store = "postgres"
  /\ Held(w) # {}
  /\ Charge(TRUE)
  /\ batch' = [batch EXCEPT ![w] = {}]
  /\ current' = [current EXCEPT ![w] = NoClaim]
  /\ phase' = [phase EXCEPT ![w] = "ready"]
  /\ UNCHANGED <<deployment, rows, history>>

Elapsed(r) ==
  [r EXCEPT !.wait = IF @ > 0 THEN @ - 1 ELSE @,
            !.lease = IF r.status = "processing" /\ @ >= 0 THEN @ - 1 ELSE @]

\* Time passes; a lease that ends is a cause of redelivery.
Tick ==
  /\ rows' = [k \in Keys |-> Elapsed(rows[k])]
  /\ excused' = [k \in Keys |-> excused[k] \/ rows'[k].lease < 0]
  /\ UNCHANGED <<deployment, batch, current, phase, faults, delivered, claimed>>

WorkerStep(w) ==
  NoHandler(w) \/ HandlerDone(w) \/ HandlerThrow(w) \/ Ack(w) \/ Nack(w)

Next ==
  \/ \E k \in Keys : Enqueue(k)
  \/ \E w \in Workers : Claim(w) \/ WorkerStep(w) \/ Crash(w)
  \/ Tick

Spec == Init /\ [][Next]_vars

\* Someone keeps calling processDue, handlers and database calls end, time passes.
Fairness ==
  /\ \A w \in Workers : WF_vars(Claim(w)) /\ WF_vars(WorkerStep(w))
  /\ WF_vars(Tick)

FairSpec == Spec /\ Fairness

-----------------------------------------------------------------------------
(* Properties                                                              *)

\* The variables keep their types; a claim in flight is a real claim.
TypeOK ==
  /\ store \in {"postgres", "memory"} /\ handled \subseteq Keys
  /\ rows \in [Keys -> Row]
  /\ batch \in [Workers -> SUBSET Claims]
  /\ current \in [Workers -> Claims \cup {NoClaim}]
  /\ phase \in [Workers -> Phases]
  /\ \A w \in Workers : phase[w] # "ready" => current[w] \in Claims
  /\ faults \in 0..MaxFaults
  /\ delivered \in [Keys -> 0..2]
  /\ claimed \in [Keys -> 0..AttemptsCap]
  /\ excused \in [Keys -> BOOLEAN]

\* markSucceeded and markFailed fence by token alone: of all the workers that
\* still hold a claim of a row, at most one holds the token that settles it.
OneValidClaim ==
  \A k \in Keys, v, w \in Workers :
    \A c \in Held(v), d \in Held(w) :
      c.key = k /\ d.key = k /\ c.token = rows[k].token /\ d.token = rows[k].token
        => v = w /\ c = d

\* The side effect of a row runs a second time only after a cause: an expired
\* lease, a handler that threw after its effect, or a failed acknowledgement.
DuplicatesHaveACause == \A k \in Keys : delivered[k] = 2 => excused[k]

\* A row whose handler exists is buried only after max_attempts claims.
DeadWasTried ==
  \A k \in handled : rows[k].status = "dead" => claimed[k] >= MaxAttempts[k]

\* docs/settlement-outbox.md: claiming "increments the attempt count ... Once
\* max_attempts is reached, the row becomes dead": a row that was claimed
\* max_attempts times is not put back to wait for another attempt.
PoisonIsBounded ==
  \A k \in Keys : rows[k].status = "pending" => claimed[k] = 0 \/ claimed[k] < MaxAttempts[k]

\* The same where claims are counted: the in-memory store buries a row whose
\* handler always throws at the failure that ends its last allowed claim.
CountedPoisonIsBounded == store = "memory" => PoisonIsBounded

\* A row that succeeded or died never changes again, whatever a stale worker,
\* a repeated enqueue or a lost reply does.
TerminalIsFinal ==
  [][\A k \in Keys : rows[k].status \in Terminal => rows'[k].status = rows[k].status]_vars

\* Some running claim has outlived its lease.
LeaseOutlived ==
  \E w \in Workers : \E c \in Held(w) :
    rows[c.key].token # c.token \/ rows[c.key].lease < 0

\* A row that PostgreSQL retries for ever, because it does not count its claims.
Endless(k) == store = "postgres" /\ k \in handled \cap Poison

\* Unless claims outlive their lease for ever, every enqueued row succeeds or dies.
EventuallySettled ==
  \/ []<>LeaseOutlived
  \/ \A k \in Keys :
       rows[k].status # "absent" /\ ~Endless(k) ~> rows[k].status \in Terminal

\* The store and its workers implement the contract of the outbox.
Outcome(r) ==
  CASE r.status = "absent" -> "none"
    [] r.status \in {"pending", "processing"} -> "open"
    [] OTHER -> r.status

Contract == INSTANCE OutboxContract WITH outcome <- [k \in Keys |-> Outcome(rows[k])]
ImplementsContract == Contract!Spec
=============================================================================
