----------------------------- MODULE LedgerCalls -----------------------------
(***************************************************************************)
(* The two clients of the ledger.  SorobanClient.rpcCall gives each        *)
(* attempt a time limit and repeats reads; TransactionService signs, or    *)
(* waits for a signature, and submits once through HorizonNetworkClient,   *)
(* which has no time limit.  A request whose time is up is abandoned, not  *)
(* cancelled: the server may still execute it, and its answer may still    *)
(* come, beside the attempt that followed it.                              *)
(*                                                                         *)
(* Timers end whenever they like: nothing relates 8 seconds of timeout and *)
(* 200 ms of backoff to the speed of the server.                           *)
(***************************************************************************)
EXTENDS Integers

CONSTANTS
  Callers,       \* async functions that make one call each
  MaxRetries,    \* of SorobanClientConfig
  MaxLedger      \* bound: ledgers closed by everybody else

ASSUME RetriesAssumption == MaxRetries \in Nat
ASSUME LedgerAssumption == MaxLedger \in Nat

VARIABLES
  call,          \* what each caller does and knows
  wire,          \* wire[c][a]: the request of attempt a, then its reply
  ledger,        \* sequence number of the last closed ledger
  executed       \* how often the network carried out the submission of c

vars == <<call, wire, ledger, executed>>

-----------------------------------------------------------------------------
(* Calls and replies                                                       *)

Reads == {"getLedgerEntries", "simulateTransaction"}
Signing == {"backend_sign", "external_signer"}
Ops == {"none", "sendTransaction"} \cup Reads \cup Signing

\* Where a call is.  The last four are the ways it ends: with a result, with
\* an error of the network client, with an error of submitTransaction, or with
\* the answer that a signature is needed.
Ended == {"returned", "failed", "unsigned", "awaiting"}
Places == {"idle", "waiting", "sleeping", "signing", "submitting"} \cup Ended

\* What fetch settles with.  "result" and "refused" are JSON-RPC results (the
\* second a status such as ERROR), "bare" is an envelope without a result, "rpc"
\* one with an error; "garbage" is any other 2xx body (for Horizon: no JSON
\* object), "http" a status outside 2xx, and "lost" a rejection.
Kinds == {"result", "refused", "bare", "rpc", "garbage", "http", "lost"}
NoLedger == -1       \* only the result of a read carries latestLedger
Reply == [kind : Kinds, ledger : NoLedger..MaxLedger]
NoReply == [kind |-> "lost", ledger |-> NoLedger]

Call == [op : Ops, at : Places, attempt : 0..MaxRetries + 1,
         reply : Reply,             \* what the returned result was made of
         since : 0..MaxLedger]      \* history: the ledger at the last send

Attempts == 1..MaxRetries + 1

\* A request before it is sent, while the server has it, and once its reply is
\* read; in between it holds the reply.
Unsent == [kind |-> "unsent", ledger |-> NoLedger]
Sent == [kind |-> "sent", ledger |-> NoLedger]
Closed == [kind |-> "closed", ledger |-> NoLedger]
Request == {Unsent, Sent, Closed} \cup Reply

Init ==
  /\ call = [c \in Callers |-> [op |-> "none", at |-> "idle", attempt |-> 0,
                                reply |-> NoReply, since |-> 0]]
  /\ wire = [c \in Callers |-> [a \in Attempts |-> Unsent]]
  /\ ledger = 0
  /\ executed = [c \in Callers |-> 0]

-----------------------------------------------------------------------------
(* Sending and settling                                                    *)

IsSubmission(c) == call[c].op \notin Reads

OneAttemptMore(op) == IF op \in Reads THEN MaxRetries + 2 ELSE 1
AttemptLimit(op) == IF op \in Reads THEN MaxRetries + 1 ELSE 1

\* The next attempt of op: its request goes out with the step that makes it.
Send(c, op, place) ==
  LET a == call[c].attempt + 1 IN
  /\ call' = [call EXCEPT ![c] = [op |-> op, at |-> place, attempt |-> a,
                                  reply |-> NoReply, since |-> ledger]]
  /\ wire' = [wire EXCEPT ![c][a] = Sent]

\* parseResponse takes a missing result for an empty one.
ParseResponse(reply) == reply.kind \in {"result", "refused", "bare"}

\* To Horizon's client any 2xx is a submission, with hash "unknown" if the body
\* cannot be read.
IgnoresStatus(reply) == reply.kind # "lost"
Submitted(reply) == reply.kind \in {"result", "garbage"}

Accepts(op, reply) == IF op \in Signing THEN Submitted(reply) ELSE ParseResponse(reply)

\* The catch of rpcCall: back off, or give up with the last attempt.
AfterError(c) ==
  IF call[c].attempt < AttemptLimit(call[c].op) THEN "sleeping" ELSE "failed"

Turn(c, place) == call' = [call EXCEPT ![c].at = place]

AnyRace(c, a) == call[c].at \in {"waiting", "submitting"} /\ wire[c][a].kind \in Kinds

\* The race of this attempt is still open, so its reply counts.
Awaited(c, a) == call[c].at \in {"waiting", "submitting"} /\ call[c].attempt = a

\* submitSignedTransaction posts once and waits as long as it takes.
Submit(c) == Send(c, call[c].op, "submitting")

-----------------------------------------------------------------------------
(* The clients                                                             *)

\* simulateContractCall, getLedgerEntry and sendTransaction.
StartRpc(c, op) ==
  /\ call[c].at = "idle" /\ op \in Reads \cup {"sendTransaction"}
  /\ Send(c, op, "waiting")
  /\ UNCHANGED <<ledger, executed>>

\* submitTransaction: with an external signer it hands the transaction back.
SubmitTransaction(c, op) ==
  /\ call[c].at = "idle" /\ op \in Signing
  /\ call' = [call EXCEPT ![c].op = op,
                          ![c].at = IF op = "external_signer" THEN "awaiting" ELSE "signing"]
  /\ UNCHANGED <<wire, ledger, executed>>

\* The signer resolves, and submitSignedXdr follows; its promise is returned,
\* not awaited, so the catch around it sees errors of the signer alone.
Signed(c) ==
  /\ call[c].at = "signing"
  /\ Submit(c)
  /\ UNCHANGED <<ledger, executed>>

\* The signer is missing, or throws, or the XDR it gives is blank.
NotSigned(c) ==
  /\ call[c].at = "signing"
  /\ Turn(c, "unsigned")
  /\ UNCHANGED <<wire, ledger, executed>>

\* Whoever holds the key comes back with the signed transaction.
SubmitSignedXdr(c) ==
  /\ call[c].at = "awaiting"
  /\ Submit(c)
  /\ UNCHANGED <<ledger, executed>>

\* The reply of attempt a arrives; the race may have been lost long ago.
Deliver(c, a) ==
  /\ wire[c][a] \in Reply
  /\ wire' = [wire EXCEPT ![c][a] = Closed]
  /\ IF ~Awaited(c, a) THEN UNCHANGED call
     ELSE IF Accepts(call[c].op, wire[c][a])
     THEN call' = [call EXCEPT ![c].at = "returned", ![c].reply = wire[c][a]]
     ELSE Turn(c, AfterError(c))
  /\ UNCHANGED <<ledger, executed>>

TimeoutOfReads(c) ==
  /\ call[c].at = "waiting" /\ ~IsSubmission(c)
  /\ Turn(c, AfterError(c))
  /\ UNCHANGED <<wire, ledger, executed>>

\* withTimeout rejects first.
Timeout(c) ==
  /\ call[c].at = "waiting"
  /\ Turn(c, AfterError(c))
  /\ UNCHANGED <<wire, ledger, executed>>

\* The backoff is over.
Wake(c) ==
  /\ call[c].at = "sleeping"
  /\ Send(c, call[c].op, "waiting")
  /\ UNCHANGED <<ledger, executed>>

-----------------------------------------------------------------------------
(* The network and the server                                              *)

\* The replies of the server to a request of op, with whether it carried the
\* submission out: a lost, garbled or failed reply tells nothing of that.
Outcomes(op) ==
  {o \in [reply : Reply, done : BOOLEAN] :
     /\ o.reply.ledger = IF op \in Reads /\ o.reply.kind = "result" THEN ledger ELSE NoLedger
     /\ o.reply.kind = "result" \/ (o.reply.kind = "garbage" /\ op \in Signing) => o.done
     /\ o.reply.kind \in {"rpc", "refused"} => ~o.done
     /\ op \in Reads => o.reply.kind # "refused"
     /\ op \in Signing => o.reply.kind \notin {"rpc", "refused", "bare"}}

\* The server takes up the request, waited for or not, and replies.
Serve(c, a) ==
  /\ wire[c][a] = Sent
  /\ \E o \in Outcomes(call[c].op) :
       /\ wire' = [wire EXCEPT ![c][a] = o.reply]
       /\ executed' = [executed EXCEPT ![c] = @ + IF o.done /\ IsSubmission(c) THEN 1 ELSE 0]
  /\ UNCHANGED <<call, ledger>>

Close ==
  /\ ledger < MaxLedger
  /\ ledger' = ledger + 1
  /\ UNCHANGED <<call, wire, executed>>
-----------------------------------------------------------------------------
Client(c) ==
  \/ \E op \in Ops : StartRpc(c, op) \/ SubmitTransaction(c, op)
  \/ Signed(c) \/ NotSigned(c) \/ SubmitSignedXdr(c)
  \/ Timeout(c) \/ Wake(c)
  \/ \E a \in Attempts : Deliver(c, a)

Next == Close \/ \E c \in Callers : Client(c) \/ \E a \in Attempts : Serve(c, a)

Spec == Init /\ [][Next]_vars

\* Timers end, a signer answers, and what reached the socket is read.  Nothing
\* is asked of the server, nor of the holder of an external key.
Fairness ==
  \A c \in Callers :
    /\ WF_vars(Timeout(c) \/ Wake(c) \/ Signed(c) \/ NotSigned(c))
    /\ WF_vars(\E a \in Attempts : Deliver(c, a))

FairSpec == Spec /\ Fairness

-----------------------------------------------------------------------------
(* Properties                                                              *)

\* Calls, requests and counters keep to their sets; in particular no call makes
\* more than maxRetries + 1 attempts.
TypeOK ==
  /\ call \in [Callers -> Call]
  /\ wire \in [Callers -> [Attempts -> Request]]
  /\ ledger \in 0..MaxLedger
  /\ executed \in [Callers -> Nat]

\* Requests abandoned by a timeout answer beside their retries; still a read
\* returns what the ledger was after its last attempt was sent, never an older
\* answer that arrived late (rpcCall, withTimeout).
AnswersAreFresh ==
  \A c \in Callers :
    call[c].at = "returned" /\ call[c].reply.ledger # NoLedger
      => call[c].reply.ledger >= call[c].since

\* What callers conclude from the end of a submission is true: the network has
\* carried it out at most once, whatever timed out; it has if a hash is reported,
\* even "unknown"; and nothing was or will be sent if submitTransaction itself
\* failed, so signing may be tried again.
OutcomeIsTrue ==
  \A c \in Callers :
    IsSubmission(c) =>
      /\ executed[c] <= 1
      /\ call[c].at = "returned" /\ (call[c].op \in Signing \/ call[c].reply.kind = "result")
           => executed[c] = 1
      /\ call[c].at = "unsigned" => \A a \in Attempts : wire[c][a] = Unsent

\* Horizon has not answered, and HorizonNetworkClient sets no limit.
Unanswered(c) == call[c].at = "submitting" /\ wire[c][1] = Sent

\* Every call ends, even if the server never answers a request again, except a
\* submission that Horizon leaves unanswered.
CallsEnd ==
  \A c \in Callers : <>[](call[c].at \in Ended \cup {"idle"} \/ Unanswered(c))
=============================================================================
