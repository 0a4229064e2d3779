------------------------------ MODULE RedisGate ------------------------------
(***************************************************************************)
(* The Redis connection of cache/redis.ts and the requests that wait for   *)
(* it: getRedisClient, the events of the clients it has created, and the   *)
(* guards of a request, in their order, from the API key to the handler.   *)
(*                                                                         *)
(* A step is what the process does between two awaits.  The promise of     *)
(* connect() resolves in the microtasks after the 'ready' event, so no     *)
(* other event comes between the two.                                      *)
(***************************************************************************)
EXTENDS Integers, FiniteSets

CONSTANTS
  Requests,      \* requests that may be under way at the same time
  Clients,       \* bound: clients created and not given up
  MaxFaults,     \* bound: outages, lost connections, refusals and closings
  NoClient       \* null

ASSUME ClientsAssumption == IsFiniteSet(Clients) /\ NoClient \notin Clients
ASSUME FaultsAssumption == MaxFaults \in Nat

VARIABLES
  deployment,      \* REDIS_URL and REDIS_REQUIRED_FOR_MUTATIONS
  conn,            \* what each client is doing
  client,          \* module variables of cache/redis.ts
  connected,
  failureReported,
  quitting,        \* the client closeRedisClient waits for
  request,         \* where each request is, and the client it waits for
  up,              \* the server can be reached
  faults

redisVars == <<conn, client, connected, failureReported, quitting>>
serverVars == <<up, faults>>
vars == <<deployment, redisVars, request, serverVars>>

-----------------------------------------------------------------------------
(* Types                                                                   *)

Deployments == [url : BOOLEAN, required : BOOLEAN]

\* A client that is "down" reconnects by itself; "absent" ones are not yet
\* created, closed, or given up.
ConnStates == {"absent", "connecting", "ready", "down"}

Methods == {"GET", "POST"}
Places == {"idle", "waiting", "handling", "refused", "unavailable", "done"}
Request == [method : Methods, at : Places, awaits : Clients \cup {NoClient}]

Init ==
  /\ deployment \in Deployments
  /\ conn = [i \in Clients |-> "absent"]
  /\ client = NoClient /\ connected = FALSE /\ failureReported = FALSE
  /\ quitting = NoClient
  /\ request = [r \in Requests |-> [method |-> "GET", at |-> "idle", awaits |-> NoClient]]
  /\ up = TRUE /\ faults = 0

Charge ==
  /\ faults < MaxFaults
  /\ faults' = faults + 1
  /\ UNCHANGED up

-----------------------------------------------------------------------------
(* cache/redis.ts                                                          *)

\* The counter of transitions is read by nobody; what it counts is the change
\* of failureReported.
ReportsOnly == failureReported' = TRUE /\ UNCHANGED connected
ReportFailure == connected' = FALSE /\ failureReported' = TRUE
ReportRecovery == connected' = TRUE /\ failureReported' = FALSE

Cached == client # NoClient /\ connected

ConnectUnkept(i) ==
  /\ conn[i] = "connecting" /\ up
  /\ conn' = [conn EXCEPT ![i] = "ready"]
  /\ ReportRecovery
  /\ UNCHANGED <<client, quitting>>

\* The client that connect() has established becomes the one of the module,
\* whatever was there.
Connect(i) ==
  /\ conn[i] = "connecting" /\ up
  /\ conn' = [conn EXCEPT ![i] = "ready"]
  /\ ReportRecovery
  /\ client' = i
  /\ UNCHANGED quitting

ConnectFails(i) ==
  /\ conn[i] = "connecting"
  /\ conn' = [conn EXCEPT ![i] = "absent"]
  /\ ReportFailure
  /\ UNCHANGED <<client, quitting>>

\* 'error' of a client whose socket closes, or that still finds no server.
Lose(i) ==
  /\ conn[i] = "ready"
  /\ conn' = [conn EXCEPT ![i] = "down"]
  /\ ReportFailure
  /\ UNCHANGED <<client, quitting>>

GiveUp(i) ==
  /\ conn[i] \in {"connecting", "down"} /\ ~up
  /\ conn' = [conn EXCEPT ![i] = "absent"]
  /\ ReportFailure
  /\ UNCHANGED <<client, quitting>>

Retry(i) ==
  /\ conn[i] \in {"connecting", "down"} /\ ~up
  /\ ReportFailure
  /\ UNCHANGED <<conn, client, quitting>>

Reconnecting(i) ==
  /\ conn[i] = "down"
  /\ ReportRecovery
  /\ UNCHANGED <<conn, client, quitting>>

\* 'ready' of a client that has reconnected, be it the module's or not.
Ready(i) ==
  /\ conn[i] = "down" /\ up
  /\ conn' = [conn EXCEPT ![i] = "ready"]
  /\ ReportRecovery
  /\ UNCHANGED <<client, quitting>>

\* closeRedisClient sends QUIT and waits, ...
Quit ==
  /\ client # NoClient /\ quitting = NoClient
  /\ quitting' = client
  /\ UNCHANGED <<conn, client, connected, failureReported>>

\* ... and resets the module: a client whose QUIT failed goes on reconnecting, and
\* one that took its place meanwhile stays open.
Closed ==
  /\ quitting # NoClient
  /\ conn' \in {[conn EXCEPT ![quitting] = "absent"]} \cup
               {c \in {conn} : c[quitting] = "down"}
  /\ client' = NoClient /\ connected' = FALSE /\ failureReported' = FALSE
  /\ quitting' = NoClient

-----------------------------------------------------------------------------
(* Requests                                                                *)

Guarded(method) == deployment.required /\ method = "POST"

Move(r, place) == request' = [request EXCEPT ![r].at = place, ![r].awaits = NoClient]

Free(r) == request[r].at \notin {"waiting", "handling"}

Enter(r, method, place, awaits) ==
  /\ Free(r)
  /\ request' = [request EXCEPT ![r] = [method |-> method, at |-> place, awaits |-> awaits]]
  /\ UNCHANGED <<deployment, serverVars>>

\* apiKeyAuthMiddleware comes first.
Unauthorized(r, method) ==
  /\ Enter(r, method, "refused", NoClient)
  /\ UNCHANGED redisVars

\* The guard lets the request pass at once: it needs no Redis, or has it.
Pass(r, method) ==
  /\ Guarded(method) => Cached
  /\ Enter(r, method, "handling", NoClient)
  /\ UNCHANGED redisVars

\* No REDIS_URL.
Disabled(r, method) ==
  /\ Guarded(method) /\ ~Cached /\ ~deployment.url
  /\ Enter(r, method, "unavailable", NoClient)
  /\ UNCHANGED redisVars

\* getRedisClient creates a client of its own and waits for it.
Open(r, method) ==
  /\ Guarded(method) /\ ~Cached /\ deployment.url
  /\ \E i \in Clients : conn[i] = "absent"
  /\ LET i == CHOOSE i \in Clients : conn[i] = "absent" IN
       /\ conn' = [conn EXCEPT ![i] = "connecting"]
       /\ Enter(r, method, "waiting", i)
  /\ UNCHANGED <<client, connected, failureReported, quitting>>

\* requireRedisForMutation goes on after its await.
Connected(r) ==
  /\ request[r].at = "waiting"
  /\ Connect(request[r].awaits)
  /\ Move(r, "handling")
  /\ UNCHANGED <<deployment, serverVars>>

\* connect() rejects: the server is away, or refuses this client.
Unavailable(r) ==
  /\ request[r].at = "waiting"
  /\ ConnectFails(request[r].awaits)
  /\ Move(r, "unavailable")
  /\ IF up THEN Charge ELSE UNCHANGED serverVars
  /\ UNCHANGED deployment

\* The rest of the request: rejectOversizedJsonPayload and express.json refuse
\* its body, or the handler runs and answers.
Respond(r) ==
  /\ request[r].at = "handling"
  /\ Move(r, "refused") \/ Move(r, "done")
  /\ UNCHANGED <<deployment, redisVars, serverVars>>

Arrive(r, method) ==
  Unauthorized(r, method) \/ Pass(r, method) \/ Disabled(r, method) \/ Open(r, method)

-----------------------------------------------------------------------------
(* The server, and the operator                                            *)

Outage == up /\ faults < MaxFaults /\ up' = FALSE /\ faults' = faults + 1
          /\ UNCHANGED <<deployment, redisVars, request>>
Return == ~up /\ up' = TRUE /\ UNCHANGED <<deployment, redisVars, request, faults>>

Event(i) ==
  /\ \/ Lose(i) /\ (IF up THEN Charge ELSE UNCHANGED serverVars)
     \/ (Retry(i) \/ Ready(i)) /\ UNCHANGED serverVars
  /\ UNCHANGED <<deployment, request>>

Close ==
  /\ \/ Quit /\ Charge
     \/ Closed /\ UNCHANGED serverVars
  /\ UNCHANGED <<deployment, request>>

Next ==
  \/ \E r \in Requests : \/ \E method \in Methods : Arrive(r, method)
                         \/ Connected(r) \/ Unavailable(r) \/ Respond(r)
  \/ \E i \in Clients : Event(i)
  \/ Close \/ Outage \/ Return

Spec == Init /\ [][Next]_vars

\* node-redis keeps trying to connect, and what runs comes to an end.  Requests
\* need not come, and the server need not return.
Fairness ==
  /\ \A r \in Requests : WF_vars(Connected(r)) /\ WF_vars(Respond(r))
  /\ \A i \in Clients : WF_vars(Ready(i) /\ UNCHANGED <<deployment, request, serverVars>>)
  /\ WF_vars(Closed /\ UNCHANGED <<deployment, request, serverVars>>)

FairSpec == Spec /\ Fairness

-----------------------------------------------------------------------------
(* Properties                                                              *)

\* Clients, the module's variables and requests keep to their sets, and a request
\* that waits does so for a client of its own that is connecting.
TypeOK ==
  /\ deployment \in Deployments
  /\ conn \in [Clients -> ConnStates]
  /\ client \in Clients \cup {NoClient} /\ quitting \in Clients \cup {NoClient}
  /\ connected \in BOOLEAN /\ failureReported \in BOOLEAN
  /\ request \in [Requests -> Request]
  /\ \A r \in Requests :
       request[r].at = "waiting" => request[r].awaits # NoClient /\ conn[request[r].awaits] = "connecting"
  /\ up \in BOOLEAN /\ faults \in 0..MaxFaults

Opened == {i \in Clients : conn[i] # "absent"}

\* docs/REDIS-OUTAGE.md: an outage answers 503 "before the handler mutates state".
\* Where Redis is required, no mutation gets past the guard while every connection
\* the process has opened is known to be lost, however many clients share the flag.
FailsClosed ==
  [][\A r \in Requests :
       request'[r].at = "handling" /\ request[r].at # "handling" /\ Guarded(request'[r].method)
         => \E i \in Clients : conn'[i] = "ready"]_vars

\* "Returns the singleton Redis client, or null if unavailable": the client that is
\* handed out is connected, as long as it is the only one.
AnswerIsLive ==
  Cached => conn[client] = "ready" \/ Cardinality(Opened) > 1

\* Mutations are sent again and again.
MutationsKeepComing == SF_vars(\E r \in Requests : Pass(r, "POST") \/ Open(r, "POST"))

\* Once Redis stays reachable, requests that wait for it get through, and if mutations
\* keep coming the connection is used again for good, whatever late errors, refusals
\* and abandoned clients the outage has left behind.
Recovers ==
  <>[]up =>
    /\ \A r \in Requests : []<>(request[r].at # "waiting")
    /\ deployment.required /\ deployment.url /\ MutationsKeepComing => <>[]Cached
=============================================================================
