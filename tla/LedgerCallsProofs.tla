-------------------------- MODULE LedgerCallsProofs --------------------------
(* Proofs of the safety properties of LedgerCalls.  Callers share nothing    *)
(* but the ledger, so the invariant is one of a single caller: its record,   *)
(* its requests, its executions, and the ledger it is compared with.         *)
EXTENDS LedgerCalls, TLAPS

\* Only the requests of the attempts made so far have been sent.
SentSoFar(r, w) ==
  /\ r.at \in {"idle", "signing", "awaiting", "unsigned"} => r.attempt = 0 /\ r.op \notin Reads
  /\ r.at # "idle" => r.op # "none"
  /\ r.at \in {"waiting", "submitting"} => r.attempt # 0
  /\ r.at = "sleeping" => r.attempt < AttemptLimit(r.op)
  /\ r.attempt <= AttemptLimit(r.op)
  /\ \A a \in Attempts : a > r.attempt => w[a] = Unsent

\* A reply to the last attempt was made after it was sent.
Fresh(r, w, l) ==
  /\ r.since <= l
  /\ \A a \in Attempts :
       a = r.attempt /\ w[a] \in Reply /\ w[a].ledger # NoLedger => w[a].ledger >= r.since
  /\ r.at = "returned" /\ r.reply.ledger # NoLedger => r.reply.ledger >= r.since

\* A reply that promises the submission was carried out.
Promises(op, q) ==
  q \in Reply /\ (q.kind = "result" \/ (op \in Signing /\ q.kind = "garbage"))

\* The one request of a submission is carried out at most once, when it is served.
Counted(r, w, n) ==
  r.op \notin Reads =>
    /\ n <= 1
    /\ w[1] \in {Unsent, Sent} => n = 0
    /\ Promises(r.op, w[1]) => n = 1
    /\ r.at = "returned" /\ (r.op \in Signing \/ r.reply.kind = "result") => n = 1

Sound(r, w, n, l) ==
  /\ r \in Call /\ w \in [Attempts -> Request] /\ n \in Nat
  /\ SentSoFar(r, w)
  /\ Fresh(r, w, l)
  /\ Counted(r, w, n)

IInv ==
  /\ TypeOK
  /\ \A c \in Callers : Sound(call[c], wire[c], executed[c], ledger)

-----------------------------------------------------------------------------
(* Requests and limits                                                     *)

LEMMA LimitType ==
  ASSUME NEW op
  PROVE  /\ AttemptLimit(op) \in Attempts
         /\ op \notin Reads => AttemptLimit(op) = 1
         /\ op \in Reads => AttemptLimit(op) = MaxRetries + 1
BY RetriesAssumption DEF AttemptLimit, Attempts

LEMMA RequestKinds ==
  /\ Unsent \in Request /\ Sent \in Request /\ Closed \in Request /\ Reply \subseteq Request
  /\ Unsent \notin Reply /\ Sent \notin Reply /\ Closed \notin Reply
  /\ Closed \notin {Unsent, Sent} /\ Sent # Unsent
<1>1. \A q \in Reply : q.kind \in Kinds
  BY DEF Reply
<1>2. Unsent.kind \notin Kinds /\ Sent.kind \notin Kinds /\ Closed.kind \notin Kinds
  BY DEF Unsent, Sent, Closed, Kinds
<1>3. Closed.kind # Unsent.kind /\ Closed.kind # Sent.kind /\ Sent.kind # Unsent.kind
  BY DEF Unsent, Sent, Closed
<1>4. QED
  BY <1>1, <1>2, <1>3 DEF Request

\* One caller moves, the others are as they were.
LEMMA OneMoves ==
  ASSUME IInv, NEW c \in Callers, NEW r, NEW w, NEW n,
         call' = [call EXCEPT ![c] = r],
         wire' = [wire EXCEPT ![c] = w],
         executed' = [executed EXCEPT ![c] = n],
         UNCHANGED ledger,
         Sound(r, w, n, ledger)
  PROVE  IInv'
<1>1. r \in Call /\ w \in [Attempts -> Request] /\ n \in Nat
  BY DEF Sound
<1>2. TypeOK'
  BY <1>1 DEF IInv, TypeOK
<1>3. ASSUME NEW d \in Callers
      PROVE  Sound(call'[d], wire'[d], executed'[d], ledger)
  <2>1. CASE d = c
    <3>1. call'[d] = r /\ wire'[d] = w /\ executed'[d] = n
      BY <2>1 DEF IInv, TypeOK
    <3>2. QED
      BY <3>1
  <2>2. CASE d # c
    <3>1. call'[d] = call[d] /\ wire'[d] = wire[d] /\ executed'[d] = executed[d]
      BY <2>2 DEF IInv, TypeOK
    <3>2. QED
      BY <3>1 DEF IInv
  <2>3. QED
    BY <2>1, <2>2
<1>4. ledger' = ledger
  OBVIOUS
<1>5. QED
  BY <1>2, <1>3, <1>4 DEF IInv

-----------------------------------------------------------------------------
(* Steps of a caller                                                       *)

\* A call may fail at any time, and sleep if it has attempts left.
LEMMA PlaceIsSound ==
  ASSUME NEW r \in Call, NEW w, NEW n, NEW l, Sound(r, w, n, l),
         r.at # "idle", NEW place \in {"unsigned", "sleeping", "failed"},
         place = "unsigned" => r.attempt = 0 /\ r.op \notin Reads,
         place = "sleeping" => r.attempt < AttemptLimit(r.op),
         NEW q, q = [r EXCEPT !.at = place]
  PROVE  Sound(q, w, n, l)
<1>1. q \in Call /\ q.at = place /\ q.op = r.op /\ q.attempt = r.attempt
      /\ q.since = r.since /\ q.reply = r.reply
  BY DEF Call, Places, Ended
<1>2. SentSoFar(q, w)
  BY <1>1 DEF Sound, SentSoFar
<1>3. Fresh(q, w, l)
  BY <1>1 DEF Sound, Fresh
<1>4. Counted(q, w, n)
  BY <1>1 DEF Sound, Counted
<1>5. QED
  BY <1>1, <1>2, <1>3, <1>4 DEF Sound

\* Where the call goes without a new attempt, its requests being the same.
LEMMA TurnIsSound ==
  ASSUME IInv, NEW c \in Callers, NEW place \in {"unsigned", "sleeping", "failed"},
         call[c].at # "idle", Turn(c, place), UNCHANGED <<wire, ledger, executed>>,
         place = "unsigned" => call[c].attempt = 0 /\ call[c].op \notin Reads,
         place = "sleeping" => call[c].attempt < AttemptLimit(call[c].op)
  PROVE  IInv'
<1> DEFINE q == [call[c] EXCEPT !.at = place]
<1>1. Sound(call[c], wire[c], executed[c], ledger) /\ call[c] \in Call
  BY DEF IInv, TypeOK
<1>2. call' = [call EXCEPT ![c] = q]
  BY DEF Turn
<1>3. Sound(q, wire[c], executed[c], ledger)
  BY <1>1, PlaceIsSound
<1>4. wire' = [wire EXCEPT ![c] = wire[c]] /\ executed' = [executed EXCEPT ![c] = executed[c]]
  BY DEF IInv, TypeOK
<1> HIDE DEF q
<1>5. QED
  BY <1>2, <1>3, <1>4, OneMoves

\* A new attempt of an operation that may make one more.
LEMMA SendIsSound ==
  ASSUME IInv, NEW c \in Callers, NEW op \in Ops \ {"none"}, NEW place \in {"waiting", "submitting"},
         Send(c, op, place), UNCHANGED <<ledger, executed>>,
         call[c].attempt < AttemptLimit(op),
         call[c].attempt # 0 => op = call[c].op,
         op \in Reads \/ call[c].op \notin Reads
  PROVE  IInv'
<1> DEFINE a == call[c].attempt + 1
           r == [op |-> op, at |-> place, attempt |-> a, reply |-> NoReply, since |-> ledger]
           w == [wire[c] EXCEPT ![a] = Sent]
<1>1. Sound(call[c], wire[c], executed[c], ledger) /\ call[c] \in Call
      /\ wire[c] \in [Attempts -> Request] /\ executed[c] \in Nat /\ ledger \in 0..MaxLedger
  BY DEF IInv, TypeOK
<1>2. call[c].attempt \in Nat /\ a \in Attempts /\ a # 0 /\ a <= AttemptLimit(op)
      /\ a \in 0..MaxRetries + 1
  BY <1>1, LimitType, RetriesAssumption DEF Call, Attempts
<1>3. w \in [Attempts -> Request] /\ w[a] = Sent /\ \A b \in Attempts \ {a} : w[b] = wire[c][b]
  BY <1>1, <1>2, RequestKinds
<1>4. NoReply \in Reply /\ NoReply.kind = "lost" /\ NoReply.ledger = NoLedger
  BY LedgerAssumption DEF NoReply, Reply, Kinds, NoLedger
<1>5. r \in Call /\ r.op = op /\ r.at = place /\ r.attempt = a /\ r.reply = NoReply /\ r.since = ledger
  BY <1>1, <1>2, <1>4 DEF Call, Places
<1>6. call' = [call EXCEPT ![c] = r] /\ wire' = [wire EXCEPT ![c] = w]
  BY DEF Send
<1> HIDE DEF r, w
<1>7. SentSoFar(r, w)
  <2>1. \A b \in Attempts : b > a => w[b] = Unsent
    <3>1. SUFFICES ASSUME NEW b \in Attempts, b > a
                   PROVE  w[b] = Unsent
      OBVIOUS
    <3>2. b # a /\ b > call[c].attempt
      BY <1>2, <3>1, RetriesAssumption DEF Attempts
    <3>3. QED
      BY <1>1, <1>3, <3>2 DEF Sound, SentSoFar
  <2>2. QED
    BY <1>2, <1>5, <2>1 DEF SentSoFar
<1>8. Fresh(r, w, ledger)
  BY <1>1, <1>3, <1>5, RequestKinds DEF Fresh
<1>9. Counted(r, w, executed[c])
  <2>1. SUFFICES ASSUME op \notin Reads
                 PROVE  Counted(r, w, executed[c])
    BY <1>5 DEF Counted
  <2>2. a = 1 /\ call[c].attempt = 0 /\ call[c].op \notin Reads
    BY <1>2, <2>1, LimitType
  <2>3. wire[c][1] = Unsent
    BY <1>1, <1>2, <2>2 DEF Sound, SentSoFar
  <2>4. executed[c] = 0
    BY <1>1, <2>2, <2>3 DEF Sound, Counted
  <2>5. w[1] = Sent /\ ~Promises(r.op, w[1])
    BY <1>3, <2>2, RequestKinds DEF Promises
  <2>6. QED
    BY <1>4, <1>5, <2>4, <2>5 DEF Counted
<1>10. Sound(r, w, executed[c], ledger)
  BY <1>1, <1>3, <1>5, <1>7, <1>8, <1>9 DEF Sound
<1>11. executed' = [executed EXCEPT ![c] = executed[c]]
  BY DEF IInv, TypeOK
<1>12. QED
  BY <1>6, <1>10, <1>11, OneMoves

LEMMA InitIsSound == Init => IInv
<1>1. SUFFICES ASSUME Init
               PROVE  IInv
  OBVIOUS
<1> DEFINE r == [op |-> "none", at |-> "idle", attempt |-> 0, reply |-> NoReply, since |-> 0]
           w == [a \in Attempts |-> Unsent]
<1>2. NoReply \in Reply
  BY LedgerAssumption DEF NoReply, Reply, Kinds, NoLedger
<1>3. r \in Call /\ w \in [Attempts -> Request] /\ 0 \in 0..MaxLedger
  BY <1>2, RequestKinds, RetriesAssumption, LedgerAssumption DEF Call, Ops, Places
<1>4. SentSoFar(r, w)
  BY LimitType, RetriesAssumption DEF SentSoFar, Attempts, Reads
<1>5. Fresh(r, w, 0)
  BY RequestKinds DEF Fresh
<1>6. Counted(r, w, 0)
  BY RequestKinds, RetriesAssumption DEF Counted, Promises, Attempts
<1>7. Sound(r, w, 0, 0)
  BY <1>3, <1>4, <1>5, <1>6 DEF Sound
<1>8. \A c \in Callers : call[c] = r /\ wire[c] = w /\ executed[c] = 0
  BY <1>1 DEF Init
<1>9. TypeOK
  BY <1>1, <1>3 DEF Init, TypeOK
<1> HIDE DEF r, w
<1>10. QED
  BY <1>1, <1>7, <1>8, <1>9 DEF Init, IInv

\* The closing of a ledger makes no answer older than it was.
LEMMA CloseIsSound ==
  ASSUME IInv, Close
  PROVE  IInv'
<1>1. ledger \in 0..MaxLedger /\ ledger' \in 0..MaxLedger /\ ledger <= ledger'
  BY LedgerAssumption DEF IInv, TypeOK, Close
<1>2. TypeOK'
  BY <1>1 DEF IInv, TypeOK, Close
<1>3. ASSUME NEW c \in Callers
      PROVE  Sound(call[c], wire[c], executed[c], ledger')
  <2>1. Sound(call[c], wire[c], executed[c], ledger) /\ call[c].since \in 0..MaxLedger
    BY DEF IInv, TypeOK, Call
  <2>2. Fresh(call[c], wire[c], ledger')
    BY <1>1, <2>1 DEF Sound, Fresh
  <2>3. QED
    BY <2>1, <2>2 DEF Sound
<1>4. UNCHANGED <<call, wire, executed>>
  BY DEF Close
<1>5. QED
  BY <1>2, <1>3, <1>4 DEF IInv

-----------------------------------------------------------------------------
(* Steps of the server and of the network                                  *)

\* A served request has been sent, so it is that of an attempt made, and the one of
\* a submission has not been carried out before.
LEMMA ServeIsSound ==
  ASSUME IInv, NEW c \in Callers, NEW a \in Attempts, Serve(c, a)
  PROVE  IInv'
<1> DEFINE r == call[c]
<1>1. Sound(r, wire[c], executed[c], ledger) /\ r \in Call /\ wire[c] \in [Attempts -> Request]
      /\ executed[c] \in Nat /\ ledger \in 0..MaxLedger
  BY DEF IInv, TypeOK
<1>2. PICK o \in Outcomes(r.op) :
        /\ wire' = [wire EXCEPT ![c][a] = o.reply]
        /\ executed' = [executed EXCEPT ![c] = @ + IF o.done /\ IsSubmission(c) THEN 1 ELSE 0]
  BY DEF Serve
<1> DEFINE w == [wire[c] EXCEPT ![a] = o.reply]
           n == executed[c] + IF o.done /\ IsSubmission(c) THEN 1 ELSE 0
<1>3. /\ o.reply \in Reply /\ o.done \in BOOLEAN
      /\ o.reply.ledger \in {ledger, NoLedger}
      /\ Promises(r.op, o.reply) => o.done
  BY DEF Outcomes, Promises
<1>4. /\ call' = [call EXCEPT ![c] = r] /\ wire' = [wire EXCEPT ![c] = w]
      /\ executed' = [executed EXCEPT ![c] = n] /\ UNCHANGED ledger
  BY <1>2 DEF Serve, IInv, TypeOK
<1>5. w \in [Attempts -> Request] /\ w[a] = o.reply /\ \A b \in Attempts \ {a} : w[b] = wire[c][b]
  BY <1>1, <1>3, RequestKinds
<1>6. n \in {executed[c], executed[c] + 1} /\ n \in Nat
      /\ (r.op \notin Reads => n = IF o.done THEN executed[c] + 1 ELSE executed[c])
  BY <1>1, <1>3 DEF IsSubmission
<1>7. wire[c][a] = Sent
  BY DEF Serve
<1> HIDE DEF w, n
<1>8. SentSoFar(r, w)
  <2>1. ASSUME NEW b \in Attempts, b > r.attempt
        PROVE  w[b] = Unsent
    <3>1. wire[c][b] = Unsent
      BY <1>1, <2>1 DEF Sound, SentSoFar
    <3>2. b # a
      BY <1>7, <3>1, RequestKinds
    <3>3. QED
      BY <1>5, <3>1, <3>2
  <2>2. QED
    BY <1>1, <2>1 DEF Sound, SentSoFar
<1>9. Fresh(r, w, ledger)
  <2>1. r.since <= ledger
    BY <1>1 DEF Sound, Fresh
  <2>2. ASSUME NEW b \in Attempts, b = r.attempt, w[b] \in Reply, w[b].ledger # NoLedger
        PROVE  w[b].ledger >= r.since
    <3>1. CASE b = a
      BY <1>1, <1>3, <1>5, <2>1, <2>2, <3>1, LedgerAssumption DEF Call
    <3>2. CASE b # a
      BY <1>1, <1>5, <2>2, <3>2 DEF Sound, Fresh
    <3>3. QED
      BY <3>1, <3>2
  <2>3. QED
    BY <1>1, <2>1, <2>2 DEF Sound, Fresh
<1>10. Counted(r, w, n)
  <2>1. SUFFICES ASSUME r.op \notin Reads
                 PROVE  Counted(r, w, n)
    BY DEF Counted
  <2>2. AttemptLimit(r.op) = 1 /\ r.attempt <= 1 /\ r.attempt \in Nat
    BY <1>1, <2>1, LimitType, RetriesAssumption DEF Sound, SentSoFar, Call
  <2>3. a = 1
    <3>1. ~(a > r.attempt)
      BY <1>1, <1>7, RequestKinds DEF Sound, SentSoFar
    <3>2. QED
      BY <2>2, <3>1, RetriesAssumption DEF Attempts
  <2>4. executed[c] = 0
    BY <1>1, <1>7, <2>1, <2>3 DEF Sound, Counted
  <2>5. ~(r.at = "returned" /\ (r.op \in Signing \/ r.reply.kind = "result"))
    BY <1>1, <2>1, <2>4 DEF Sound, Counted
  <2>6. n <= 1 /\ (o.done => n = 1)
    BY <1>6, <2>1, <2>4
  <2>7. w[1] = o.reply /\ w[1] \notin {Unsent, Sent}
    BY <1>3, <1>5, <2>3, RequestKinds
  <2>8. QED
    BY <1>3, <2>5, <2>6, <2>7 DEF Counted
<1>11. Sound(r, w, n, ledger)
  BY <1>1, <1>5, <1>6, <1>8, <1>9, <1>10 DEF Sound
<1> HIDE DEF r
<1>12. QED
  BY <1>4, <1>11, OneMoves

\* A reply closes its request, whatever is made of it.
LEMMA ClosedIsSound ==
  ASSUME IInv, NEW c \in Callers, NEW a \in Attempts, wire[c][a] \in Reply, NEW w,
         w = [wire[c] EXCEPT ![a] = Closed]
  PROVE  Sound(call[c], w, executed[c], ledger)
<1>1. Sound(call[c], wire[c], executed[c], ledger) /\ wire[c] \in [Attempts -> Request]
  BY DEF IInv, TypeOK
<1>2. w \in [Attempts -> Request] /\ w[a] = Closed /\ \A b \in Attempts \ {a} : w[b] = wire[c][b]
  BY <1>1, RequestKinds
<1>3. SentSoFar(call[c], w)
  <2>1. ASSUME NEW b \in Attempts, b > call[c].attempt
        PROVE  w[b] = Unsent
    <3>1. wire[c][b] = Unsent
      BY <1>1, <2>1 DEF Sound, SentSoFar
    <3>2. b # a
      BY <3>1, RequestKinds
    <3>3. QED
      BY <1>2, <3>1, <3>2
  <2>2. QED
    BY <1>1, <2>1 DEF Sound, SentSoFar
<1>4. Fresh(call[c], w, ledger)
  BY <1>1, <1>2, RequestKinds DEF Sound, Fresh
<1>5. Counted(call[c], w, executed[c])
  <2>1. w[1] = wire[c][1] \/ (w[1] = Closed /\ 1 \in Attempts)
    BY <1>2, RetriesAssumption DEF Attempts
  <2>2. QED
    BY <1>1, <2>1, RequestKinds DEF Sound, Counted, Promises
<1>6. QED
  BY <1>1, <1>2, <1>3, <1>4, <1>5 DEF Sound

\* The result of the attempt whose race is open.
LEMMA ReturnIsSound ==
  ASSUME IInv, NEW c \in Callers, NEW a \in Attempts, wire[c][a] \in Reply,
         Awaited(c, a), Accepts(call[c].op, wire[c][a]), NEW w, NEW r,
         w = [wire[c] EXCEPT ![a] = Closed],
         r = [call[c] EXCEPT !.at = "returned", !.reply = wire[c][a]]
  PROVE  Sound(r, w, executed[c], ledger)
<1>1. Sound(call[c], w, executed[c], ledger) /\ Sound(call[c], wire[c], executed[c], ledger)
      /\ call[c] \in Call
  BY ClosedIsSound DEF IInv, TypeOK
<1>2. r \in Call /\ r.at = "returned" /\ r.op = call[c].op /\ r.attempt = call[c].attempt
      /\ r.since = call[c].since /\ r.reply = wire[c][a]
  BY <1>1 DEF Call, Places, Ended
<1>3. SentSoFar(r, w)
  BY <1>1, <1>2 DEF Sound, SentSoFar, Awaited
<1>4. Fresh(r, w, ledger)
  <2>1. a = call[c].attempt
    BY DEF Awaited
  <2>2. QED
    BY <1>1, <1>2, <2>1 DEF Sound, Fresh
<1>5. Counted(r, w, executed[c])
  <2>1. SUFFICES ASSUME call[c].op \notin Reads
                 PROVE  Counted(r, w, executed[c])
    BY <1>2 DEF Counted
  <2>2. call[c].attempt <= 1 /\ call[c].attempt \in Nat
    BY <1>1, <2>1, LimitType, RetriesAssumption DEF Sound, SentSoFar, Call
  <2>3. a = 1
    BY <2>2, RetriesAssumption DEF Awaited, Attempts
  <2>4. call[c].op \in Signing \/ wire[c][a].kind = "result" => Promises(call[c].op, wire[c][1])
    BY <2>3 DEF Accepts, Submitted, ParseResponse, Promises
  <2>5. QED
    BY <1>1, <1>2, <2>1, <2>3, <2>4 DEF Sound, Counted
<1>6. QED
  BY <1>1, <1>2, <1>3, <1>4, <1>5 DEF Sound

LEMMA DeliverIsSound ==
  ASSUME IInv, NEW c \in Callers, NEW a \in Attempts, Deliver(c, a)
  PROVE  IInv'
<1> DEFINE w == [wire[c] EXCEPT ![a] = Closed]
<1>1. wire[c][a] \in Reply /\ call[c] \in Call
  BY DEF Deliver, IInv, TypeOK
<1>2. Sound(call[c], w, executed[c], ledger)
  BY <1>1, ClosedIsSound
<1>3. /\ wire' = [wire EXCEPT ![c] = w] /\ UNCHANGED ledger
      /\ executed' = [executed EXCEPT ![c] = executed[c]]
  BY DEF Deliver, IInv, TypeOK
<1>4. CASE ~Awaited(c, a)
  <2>1. call' = [call EXCEPT ![c] = call[c]]
    BY <1>4 DEF Deliver, IInv, TypeOK
  <2> HIDE DEF w
  <2>2. QED
    BY <1>2, <1>3, <2>1, OneMoves
<1>5. CASE Awaited(c, a) /\ Accepts(call[c].op, wire[c][a])
  <2> DEFINE r == [call[c] EXCEPT !.at = "returned", !.reply = wire[c][a]]
  <2>1. call' = [call EXCEPT ![c] = r]
    BY <1>5 DEF Deliver
  <2>2. Sound(r, w, executed[c], ledger)
    BY <1>1, <1>5, ReturnIsSound
  <2> HIDE DEF w, r
  <2>3. QED
    BY <1>3, <2>1, <2>2, OneMoves
<1>6. CASE Awaited(c, a) /\ ~Accepts(call[c].op, wire[c][a])
  <2> DEFINE q == [call[c] EXCEPT !.at = AfterError(c)]
  <2>1. call' = [call EXCEPT ![c] = q]
    BY <1>6 DEF Deliver, Turn
  <2>2. AfterError(c) \in {"sleeping", "failed"}
        /\ (AfterError(c) = "sleeping" => call[c].attempt < AttemptLimit(call[c].op))
    BY DEF AfterError
  <2>3. Sound(q, w, executed[c], ledger)
    <3>1. call[c].at # "idle"
      BY <1>6 DEF Awaited
    <3> HIDE DEF w
    <3>2. QED
      BY <1>1, <1>2, <2>2, <3>1, PlaceIsSound
  <2> HIDE DEF w, q
  <2>4. QED
    BY <1>3, <2>1, <2>3, OneMoves
<1>7. QED
  BY <1>4, <1>5, <1>6

-----------------------------------------------------------------------------
(* Steps of a client                                                       *)

LEMMA ClientIsSound ==
  ASSUME IInv, NEW c \in Callers, Client(c)
  PROVE  IInv'
<1>1. Sound(call[c], wire[c], executed[c], ledger) /\ call[c] \in Call
  BY DEF IInv, TypeOK
<1>2. call[c].at \in {"idle", "signing", "awaiting"} => call[c].attempt = 0 /\ call[c].op \notin Reads
  BY <1>1 DEF Sound, SentSoFar
<1>3. \A op : 0 < AttemptLimit(op)
  BY LimitType, RetriesAssumption DEF Attempts
<1>4. AfterError(c) \in {"sleeping", "failed"}
      /\ (AfterError(c) = "sleeping" => call[c].attempt < AttemptLimit(call[c].op))
  BY DEF AfterError
<1>5. ASSUME NEW op \in Ops, StartRpc(c, op)
      PROVE  IInv'
  <2>1. op \in Ops \ {"none"}
    BY <1>5 DEF StartRpc, Reads
  <2>2. QED
    BY <1>2, <1>3, <1>5, <2>1, SendIsSound DEF StartRpc
<1>6. ASSUME NEW op \in Ops, SubmitTransaction(c, op)
      PROVE  IInv'
  <2> DEFINE place == IF op = "external_signer" THEN "awaiting" ELSE "signing"
             r == [call[c] EXCEPT !.op = op, !.at = place]
  <2>1. call' = [call EXCEPT ![c] = r] /\ call[c].at = "idle" /\ op \in Signing
    BY <1>6 DEF SubmitTransaction
  <2>2. r \in Call /\ r.at \in {"awaiting", "signing"} /\ r.op = op /\ r.attempt = 0
        /\ r.since = call[c].since /\ op \notin Reads
    BY <1>1, <1>2, <2>1 DEF Call, Places, Ended, Signing, Reads
  <2> HIDE DEF r
  <2>3. SentSoFar(r, wire[c])
    <3>1. op # "none" /\ 0 <= AttemptLimit(op)
      BY <2>1, LimitType, RetriesAssumption DEF Signing, Attempts
    <3>2. \A a \in Attempts : a > 0
      BY RetriesAssumption DEF Attempts
    <3>3. QED
      BY <1>1, <1>2, <2>1, <2>2, <3>1, <3>2 DEF Sound, SentSoFar
  <2>4. Fresh(r, wire[c], ledger)
    BY <1>1, <1>2, <2>1, <2>2, RetriesAssumption DEF Sound, Fresh, Attempts
  <2>5. wire[c][1] = Unsent
    BY <1>1, <1>2, <2>1, RetriesAssumption DEF Sound, SentSoFar, Attempts
  <2>6. Counted(r, wire[c], executed[c])
    BY <1>1, <1>2, <2>1, <2>2, <2>5, RequestKinds DEF Sound, Counted, Promises
  <2>7. Sound(r, wire[c], executed[c], ledger)
    BY <1>1, <2>2, <2>3, <2>4, <2>6 DEF Sound
  <2>8. wire' = [wire EXCEPT ![c] = wire[c]] /\ executed' = [executed EXCEPT ![c] = executed[c]]
        /\ UNCHANGED ledger
    BY <1>6 DEF SubmitTransaction, IInv, TypeOK
  <2>9. QED
    BY <2>1, <2>7, <2>8, OneMoves
<1>7. CASE Signed(c) \/ SubmitSignedXdr(c)
  <2>1. call[c].at \in {"signing", "awaiting"} /\ Send(c, call[c].op, "submitting")
        /\ UNCHANGED <<ledger, executed>>
    BY <1>7 DEF Signed, SubmitSignedXdr, Submit
  <2>2. call[c].op \in Ops \ {"none"}
    BY <1>1, <2>1 DEF Sound, SentSoFar, Call
  <2>3. QED
    BY <1>2, <1>3, <2>1, <2>2, SendIsSound
<1>8. CASE NotSigned(c)
  BY <1>2, <1>8, TurnIsSound DEF NotSigned
<1>9. CASE Timeout(c)
  BY <1>4, <1>9, TurnIsSound DEF Timeout
<1>10. CASE Wake(c)
  <2>1. call[c].at = "sleeping" /\ Send(c, call[c].op, "waiting") /\ UNCHANGED <<ledger, executed>>
    BY <1>10 DEF Wake
  <2>2. call[c].attempt < AttemptLimit(call[c].op) /\ call[c].op \in Ops \ {"none"}
    BY <1>1, <2>1 DEF Sound, SentSoFar, Call
  <2>3. QED
    BY <2>1, <2>2, SendIsSound
<1>11. QED
  BY <1>5, <1>6, <1>7, <1>8, <1>9, <1>10, DeliverIsSound DEF Client

LEMMA StutterIsSound ==
  ASSUME IInv, UNCHANGED vars
  PROVE  IInv'
BY DEF IInv, TypeOK, vars

LEMMA Inductive == Spec => []IInv
<1>1. IInv /\ [Next]_vars => IInv'
  BY ClientIsSound, ServeIsSound, CloseIsSound, StutterIsSound DEF Next
<1>2. QED
  BY <1>1, InitIsSound, PTL DEF Spec

-----------------------------------------------------------------------------
(* Theorems                                                                *)

\* Calls, requests and counters keep their types for any number of callers, retries
\* and ledgers: rpcCall never makes more than maxRetries + 1 attempts.
THEOREM TypeCorrect == Spec => []TypeOK
<1>1. IInv => TypeOK
  BY DEF IInv
<1>2. QED
  BY <1>1, Inductive, PTL

\* No read returns an answer that is older than the sending of its last attempt,
\* however late the answers of abandoned attempts come.
THEOREM ReadsAreFresh == Spec => []AnswersAreFresh
<1>1. IInv => AnswersAreFresh
  BY DEF IInv, Sound, Fresh, AnswersAreFresh
<1>2. QED
  BY <1>1, Inductive, PTL

\* A submission is carried out at most once, has been if it is reported, and was
\* never sent if submitTransaction failed before it.
THEOREM SubmissionsAreReportedTruly == Spec => []OutcomeIsTrue
<1>1. IInv => OutcomeIsTrue
  <2>1. SUFFICES ASSUME IInv, NEW c \in Callers, call[c].op \notin Reads
                 PROVE  /\ executed[c] <= 1
                        /\ call[c].at = "returned"
                           /\ (call[c].op \in Signing \/ call[c].reply.kind = "result")
                             => executed[c] = 1
                        /\ call[c].at = "unsigned" => \A a \in Attempts : wire[c][a] = Unsent
    BY DEF OutcomeIsTrue, IsSubmission
  <2>2. Sound(call[c], wire[c], executed[c], ledger)
    BY <2>1 DEF IInv
  <2>3. \A a \in Attempts : a > 0
    BY RetriesAssumption DEF Attempts
  <2>4. QED
    BY <2>1, <2>2, <2>3 DEF Sound, Counted, SentSoFar
<1>2. QED
  BY <1>1, Inductive, PTL

-----------------------------------------------------------------------------
(* Why calls end                                                           *)

\* The steps that a call may still take: two for each attempt that it may still make, and
\* those of the place where it is.
PlaceSteps(place) ==
  IF place \in {"idle", "waiting", "submitting"} THEN 2
  ELSE IF place \in {"sleeping", "signing", "awaiting"} THEN 1
  ELSE 0
StepsLeft(r) == 2 * (MaxRetries + 1 - r.attempt) + PlaceSteps(r.at)

\* A step of one caller changes the record of that one only.
LEMMA OneRecord ==
  ASSUME TypeOK, NEW c \in Callers, NEW r, call' = [call EXCEPT ![c] = r],
         r # call[c] => StepsLeft(r) < StepsLeft(call[c])
  PROVE  \A d \in Callers : call'[d] # call[d] => StepsLeft(call'[d]) < StepsLeft(call[d])
BY DEF TypeOK

\* To wait somewhere else, nearer to the end.
LEMMA TurnProgresses ==
  ASSUME TypeOK, NEW c \in Callers, NEW place, Turn(c, place),
         PlaceSteps(place) < PlaceSteps(call[c].at)
  PROVE  \A d \in Callers : call'[d] # call[d] => StepsLeft(call'[d]) < StepsLeft(call[d])
<1> DEFINE r == [call[c] EXCEPT !.at = place]
<1>1. call' = [call EXCEPT ![c] = r]
  BY DEF Turn
<1>2. r.at = place /\ r.attempt = call[c].attempt /\ r.attempt \in 0..MaxRetries + 1
  BY DEF TypeOK, Call
<1> HIDE DEF r
<1>3. PlaceSteps(place) \in Nat /\ PlaceSteps(call[c].at) \in Nat
  BY DEF PlaceSteps
<1>4. StepsLeft(r) < StepsLeft(call[c])
  BY <1>2, <1>3, RetriesAssumption DEF StepsLeft
<1>5. QED
  BY <1>1, <1>4, OneRecord

\* To make one more attempt.
LEMMA SendProgresses ==
  ASSUME TypeOK, NEW c \in Callers, NEW op, NEW place \in {"waiting", "submitting"},
         Send(c, op, place), PlaceSteps(call[c].at) # 0
  PROVE  \A d \in Callers : call'[d] # call[d] => StepsLeft(call'[d]) < StepsLeft(call[d])
<1> DEFINE r == [op |-> op, at |-> place, attempt |-> call[c].attempt + 1,
                 reply |-> NoReply, since |-> ledger]
<1>1. call' = [call EXCEPT ![c] = r]
  BY DEF Send
<1>2. call[c].attempt \in 0..MaxRetries + 1 /\ r.attempt = call[c].attempt + 1 /\ r.at = place
  BY DEF TypeOK, Call
<1> HIDE DEF r
<1>3. PlaceSteps(place) = 2 /\ PlaceSteps(call[c].at) \in {1, 2}
  BY DEF PlaceSteps
<1>4. StepsLeft(r) < StepsLeft(call[c])
  BY <1>2, <1>3, RetriesAssumption DEF StepsLeft
<1>5. QED
  BY <1>1, <1>4, OneRecord

LEMMA ClientProgresses ==
  ASSUME TypeOK, NEW c \in Callers, Client(c)
  PROVE  \A d \in Callers : call'[d] # call[d] => StepsLeft(call'[d]) < StepsLeft(call[d])
<1>1. PlaceSteps(AfterError(c)) < 2
  BY DEF AfterError, PlaceSteps
<1>2. ASSUME NEW op \in Ops, StartRpc(c, op)
      PROVE  \A d \in Callers : call'[d] # call[d] => StepsLeft(call'[d]) < StepsLeft(call[d])
  BY <1>2, SendProgresses DEF StartRpc, PlaceSteps
<1>3. ASSUME NEW op \in Ops, SubmitTransaction(c, op)
      PROVE  \A d \in Callers : call'[d] # call[d] => StepsLeft(call'[d]) < StepsLeft(call[d])
  <2> DEFINE place == IF op = "external_signer" THEN "awaiting" ELSE "signing"
             r == [call[c] EXCEPT !.op = op, !.at = place]
  <2>1. call' = [call EXCEPT ![c] = r] /\ call[c].at = "idle"
    BY <1>3 DEF SubmitTransaction
  <2>2. /\ r.attempt = call[c].attempt /\ r.attempt \in 0..MaxRetries + 1
        /\ r.at \in {"awaiting", "signing"}
    BY DEF TypeOK, Call
  <2> HIDE DEF r
  <2>3. PlaceSteps(r.at) = 1 /\ PlaceSteps(call[c].at) = 2
    BY <2>1, <2>2 DEF PlaceSteps
  <2>4. StepsLeft(r) < StepsLeft(call[c])
    BY <2>2, <2>3, RetriesAssumption DEF StepsLeft
  <2>5. QED
    BY <2>1, <2>4, OneRecord
<1>4. CASE Signed(c) \/ SubmitSignedXdr(c)
  BY <1>4, SendProgresses DEF Signed, SubmitSignedXdr, Submit, PlaceSteps
<1>5. CASE NotSigned(c)
  BY <1>5, TurnProgresses DEF NotSigned, PlaceSteps
<1>6. CASE Timeout(c)
  BY <1>1, <1>6, TurnProgresses DEF Timeout, PlaceSteps
<1>7. CASE Wake(c)
  BY <1>7, SendProgresses DEF Wake, PlaceSteps
<1>8. ASSUME NEW a \in Attempts, Deliver(c, a)
      PROVE  \A d \in Callers : call'[d] # call[d] => StepsLeft(call'[d]) < StepsLeft(call[d])
  <2>1. CASE ~Awaited(c, a)
    BY <1>8, <2>1 DEF Deliver
  <2>2. CASE Awaited(c, a) /\ Accepts(call[c].op, wire[c][a])
    <3> DEFINE r == [call[c] EXCEPT !.at = "returned", !.reply = wire[c][a]]
    <3>1. call' = [call EXCEPT ![c] = r]
      BY <1>8, <2>2 DEF Deliver
    <3>2. r.at = "returned" /\ r.attempt = call[c].attempt /\ r.attempt \in 0..MaxRetries + 1
      BY DEF TypeOK, Call
    <3> HIDE DEF r
    <3>3. PlaceSteps(r.at) = 0 /\ PlaceSteps(call[c].at) = 2
      BY <2>2, <3>2 DEF Awaited, PlaceSteps
    <3>4. StepsLeft(r) < StepsLeft(call[c])
      BY <3>2, <3>3, RetriesAssumption DEF StepsLeft
    <3>5. QED
      BY <3>1, <3>4, OneRecord
  <2>3. CASE Awaited(c, a) /\ ~Accepts(call[c].op, wire[c][a])
    <3>1. Turn(c, AfterError(c))
      BY <1>8, <2>3 DEF Deliver
    <3>2. PlaceSteps(call[c].at) = 2
      BY <2>3 DEF Awaited, PlaceSteps
    <3>3. QED
      BY <1>1, <3>1, <3>2, TurnProgresses
  <2>4. QED
    BY <2>1, <2>2, <2>3
<1>9. QED
  BY <1>2, <1>3, <1>4, <1>5, <1>6, <1>7, <1>8 DEF Client

\* A call takes finitely many steps, 2 * maxRetries + 4 at most, whatever the server does
\* and however late it answers: whatever changes a call takes it nearer to its end.
THEOREM CallsOnlyProgress ==
  Spec => [][\A c \in Callers :
               /\ StepsLeft(call[c]) \in 0..2 * MaxRetries + 4
               /\ call'[c] # call[c] => StepsLeft(call'[c]) < StepsLeft(call[c])]_vars
<1>1. ASSUME IInv, NEW c \in Callers
      PROVE  StepsLeft(call[c]) \in 0..2 * MaxRetries + 4
  <2>1. call[c].attempt \in 0..MaxRetries + 1 /\ PlaceSteps(call[c].at) \in 0..2
    BY <1>1 DEF IInv, TypeOK, Call, PlaceSteps
  <2>2. QED
    BY <2>1, RetriesAssumption DEF StepsLeft
<1>2. ASSUME IInv, Next
      PROVE  \A c \in Callers : call'[c] # call[c] => StepsLeft(call'[c]) < StepsLeft(call[c])
  BY <1>2, ClientProgresses DEF IInv, Next, Close, Serve
<1>3. IInv /\ [Next]_vars =>
        [\A c \in Callers :
           /\ StepsLeft(call[c]) \in 0..2 * MaxRetries + 4
           /\ call'[c] # call[c] => StepsLeft(call'[c]) < StepsLeft(call[c])]_vars
  BY <1>1, <1>2
<1>4. QED
  BY <1>3, Inductive, PTL DEF Spec

\* A transaction is posted once: neither sendTransaction nor a submission to Horizon is
\* ever repeated, in particular not after a timeout.
THEOREM SubmissionsAreSentOnce ==
  Spec => [](\A c \in Callers : IsSubmission(c) =>
               \A a \in Attempts : a > 1 => wire[c][a] = Unsent)
<1>1. IInv =>
        \A c \in Callers : IsSubmission(c) => \A a \in Attempts : a > 1 => wire[c][a] = Unsent
  <2>1. SUFFICES ASSUME IInv, NEW c \in Callers, call[c].op \notin Reads,
                        NEW a \in Attempts, a > 1
                 PROVE  wire[c][a] = Unsent
    BY DEF IsSubmission
  <2>2. Sound(call[c], wire[c], executed[c], ledger)
    BY <2>1 DEF IInv
  <2>3. call[c].attempt \in Nat /\ call[c].attempt <= 1
    BY <2>1, <2>2, LimitType, RetriesAssumption DEF Sound, SentSoFar, Call
  <2>4. QED
    BY <2>1, <2>2, <2>3, RetriesAssumption DEF Sound, SentSoFar, Attempts
<1>2. QED
  BY <1>1, Inductive, PTL
=============================================================================
