--------------------------- MODULE RedisGateProofs ---------------------------
(* Proofs of FailsClosed and AnswerIsLive of RedisGate, for any number of    *)
(* requests, clients and faults.  Both rest on GaugeIsTrue: the flag that    *)
(* all clients share is set only while some client is connected.             *)
EXTENDS RedisGate, FiniteSetTheorems, TLAPS

GaugeIsTrue == connected => \E i \in Clients : conn[i] = "ready"

\* The client of the module, and the one that is being closed, have been connected
\* and have not been given up.
Kept ==
  /\ client # NoClient => conn[client] \in {"ready", "down"}
  /\ quitting # NoClient => conn[quitting] \in {"ready", "down"}

\* Requests wait for clients of their own.
OwnClients ==
  \A r, s \in Requests :
    r # s /\ request[r].at = "waiting" /\ request[s].at = "waiting"
      => request[r].awaits # request[s].awaits

RedisTypes ==
  /\ conn \in [Clients -> ConnStates]
  /\ client \in Clients \cup {NoClient} /\ quitting \in Clients \cup {NoClient}
  /\ connected \in BOOLEAN /\ failureReported \in BOOLEAN

Redis == RedisTypes /\ GaugeIsTrue /\ Kept

IInv == TypeOK /\ GaugeIsTrue /\ Kept /\ OwnClients

-----------------------------------------------------------------------------
(* cache/redis.ts                                                          *)

LEMMA ConnectKeeps ==
  ASSUME Redis, NEW i \in Clients, Connect(i)
  PROVE  Redis' /\ conn'[i] = "ready"
<1>1. conn' = [conn EXCEPT ![i] = "ready"] /\ conn'[i] = "ready" /\ connected' = TRUE
      /\ failureReported' = FALSE /\ client' = i /\ quitting' = quitting /\ conn[i] = "connecting"
  BY DEF Connect, ReportRecovery, Redis, RedisTypes
<1>2. RedisTypes'
  BY <1>1 DEF Redis, RedisTypes, ConnStates
<1>3. GaugeIsTrue'
  BY <1>1 DEF GaugeIsTrue
<1>4. Kept'
  <2>1. client' # NoClient => conn'[client'] \in {"ready", "down"}
    BY <1>1
  <2>2. quitting' # NoClient => conn'[quitting'] \in {"ready", "down"}
    BY <1>1 DEF Redis, RedisTypes, Kept
  <2>3. QED
    BY <2>1, <2>2 DEF Kept
<1>5. QED
  BY <1>1, <1>2, <1>3, <1>4 DEF Redis

LEMMA ConnectFailsKeeps ==
  ASSUME Redis, NEW i \in Clients, ConnectFails(i)
  PROVE  Redis'
<1>1. conn' = [conn EXCEPT ![i] = "absent"] /\ connected' = FALSE /\ failureReported' = TRUE
      /\ client' = client /\ quitting' = quitting /\ conn[i] = "connecting"
  BY DEF ConnectFails, ReportFailure
<1>2. RedisTypes'
  BY <1>1 DEF Redis, RedisTypes, ConnStates
<1>3. GaugeIsTrue'
  BY <1>1 DEF GaugeIsTrue
<1>4. Kept'
  BY <1>1 DEF Redis, RedisTypes, Kept
<1>5. QED
  BY <1>2, <1>3, <1>4 DEF Redis

LEMMA EventKeeps ==
  ASSUME Redis, NEW i \in Clients, Lose(i) \/ Retry(i) \/ Ready(i)
  PROVE  Redis'
<1>1. CASE Lose(i)
  <2>1. conn' = [conn EXCEPT ![i] = "down"] /\ connected' = FALSE /\ failureReported' = TRUE
        /\ client' = client /\ quitting' = quitting /\ conn[i] = "ready"
    BY <1>1 DEF Lose, ReportFailure
  <2>2. RedisTypes' /\ GaugeIsTrue'
    BY <2>1 DEF Redis, RedisTypes, ConnStates, GaugeIsTrue
  <2>3. Kept'
    BY <2>1 DEF Redis, RedisTypes, Kept
  <2>4. QED
    BY <2>2, <2>3 DEF Redis
<1>2. CASE Retry(i)
  <2>1. UNCHANGED <<conn, client, quitting>> /\ connected' = FALSE /\ failureReported' = TRUE
    BY <1>2 DEF Retry, ReportFailure
  <2>2. QED
    BY <2>1 DEF Redis, RedisTypes, Kept, GaugeIsTrue
<1>3. CASE Ready(i)
  <2>1. conn' = [conn EXCEPT ![i] = "ready"] /\ conn'[i] = "ready" /\ connected' = TRUE
        /\ failureReported' = FALSE /\ client' = client /\ quitting' = quitting
    BY <1>3 DEF Ready, ReportRecovery, Redis, RedisTypes
  <2>2. RedisTypes'
    BY <2>1 DEF Redis, RedisTypes, ConnStates
  <2>3. GaugeIsTrue'
    BY <2>1 DEF GaugeIsTrue
  <2>4. Kept'
    BY <2>1 DEF Redis, RedisTypes, Kept
  <2>5. QED
    BY <2>2, <2>3, <2>4 DEF Redis
<1>4. QED
  BY <1>1, <1>2, <1>3

LEMMA CloseKeeps ==
  ASSUME Redis, Quit \/ Closed
  PROVE  Redis' /\ \A i \in Clients : conn[i] = "connecting" => conn'[i] = "connecting"
<1>1. CASE Quit
  <2>1. UNCHANGED <<conn, client, connected, failureReported>> /\ quitting' = client
        /\ client # NoClient
    BY <1>1 DEF Quit
  <2>2. QED
    BY <2>1 DEF Redis, RedisTypes, Kept, GaugeIsTrue
<1>2. CASE Closed
  <2>1. /\ client' = NoClient /\ connected' = FALSE /\ failureReported' = FALSE
        /\ quitting' = NoClient /\ quitting \in Clients /\ conn[quitting] # "connecting"
        /\ conn' = [conn EXCEPT ![quitting] = "absent"] \/ conn' = conn
    BY <1>2 DEF Closed, Redis, RedisTypes, Kept
  <2>2. conn' \in [Clients -> ConnStates]
    BY <2>1 DEF Redis, RedisTypes, ConnStates
  <2>3. \A i \in Clients : conn[i] = "connecting" => conn'[i] = "connecting"
    BY <2>1 DEF Redis, RedisTypes
  <2>4. QED
    BY <2>1, <2>2, <2>3 DEF Redis, RedisTypes, Kept, GaugeIsTrue
<1>3. QED
  BY <1>1, <1>2

-----------------------------------------------------------------------------
(* Requests                                                                *)

\* Whoever waits does so for a client that is connecting.
Waiting ==
  \A r \in Requests :
    request[r].at = "waiting" => request[r].awaits # NoClient /\ conn[request[r].awaits] = "connecting"

Rest ==
  /\ deployment \in Deployments /\ request \in [Requests -> Request]
  /\ up \in BOOLEAN /\ faults \in 0..MaxFaults

LEMMA Parts == IInv <=> Redis /\ Rest /\ Waiting /\ OwnClients
BY DEF IInv, TypeOK, Redis, RedisTypes, Rest, Waiting

LEMMA PartsNext == IInv' <=> Redis' /\ Rest' /\ Waiting' /\ OwnClients'
BY DEF IInv, TypeOK, Redis, RedisTypes, Rest, Waiting

\* Where no request moves, those that wait only need their clients left alone.
LEMMA EventsKeepRequests ==
  ASSUME IInv, UNCHANGED <<deployment, request>>, Redis',
         up' \in BOOLEAN, faults' \in 0..MaxFaults,
         \A i \in Clients : conn[i] = "connecting" => conn'[i] = "connecting"
  PROVE  IInv'
<1>1. Rest' /\ OwnClients'
  BY Parts DEF Rest, OwnClients
<1>2. Waiting'
  BY Parts DEF Rest, Waiting, Request
<1>3. QED
  BY <1>1, <1>2, PartsNext

\* A request that ends its wait, or never waits, leaves the others theirs.
LEMMA MoveKeeps ==
  ASSUME IInv, NEW r \in Requests, NEW q \in Request, q.at # "waiting",
         request' = [request EXCEPT ![r] = q], UNCHANGED deployment, Redis',
         up' \in BOOLEAN, faults' \in 0..MaxFaults,
         \A i \in Clients : conn[i] = "connecting" /\ conn'[i] # "connecting"
                            => request[r].at = "waiting" /\ request[r].awaits = i
  PROVE  IInv'
<1>1. request' \in [Requests -> Request] /\ request'[r] = q
      /\ \A s \in Requests \ {r} : request'[s] = request[s]
  BY Parts DEF Rest
<1>2. Rest'
  BY <1>1, Parts DEF Rest
<1>3. OwnClients'
  BY <1>1, Parts DEF OwnClients
<1>4. Waiting'
  <2>1. SUFFICES ASSUME NEW s \in Requests, request'[s].at = "waiting"
                 PROVE  request'[s].awaits # NoClient /\ conn'[request'[s].awaits] = "connecting"
    BY DEF Waiting
  <2>2. s # r /\ request'[s] = request[s]
    BY <1>1, <2>1
  <2>3. request[s].awaits # NoClient /\ conn[request[s].awaits] = "connecting"
        /\ request[s].awaits \in Clients
    BY <2>1, <2>2, Parts DEF Waiting, Rest, Request
  <2>4. request[r].at = "waiting" => request[r].awaits # request[s].awaits
    BY <2>1, <2>2, Parts DEF OwnClients
  <2>5. QED
    BY <2>2, <2>3, <2>4
<1>5. QED
  BY <1>2, <1>3, <1>4, PartsNext

\* A request that creates a client takes one that nobody waits for.
LEMMA OpenKeeps ==
  ASSUME IInv, NEW r \in Requests, NEW method \in Methods, Open(r, method)
  PROVE  IInv'
<1> DEFINE i == CHOOSE j \in Clients : conn[j] = "absent"
           q == [method |-> method, at |-> "waiting", awaits |-> i]
<1>1. i \in Clients /\ conn[i] = "absent"
  BY DEF Open
<1>2. /\ conn' = [conn EXCEPT ![i] = "connecting"] /\ request' = [request EXCEPT ![r] = q]
      /\ UNCHANGED <<client, connected, failureReported, quitting, deployment, up, faults>>
  BY DEF Open, Enter, serverVars
<1> HIDE DEF i
<1>3. q \in Request /\ q.at = "waiting" /\ q.awaits = i
  BY <1>1 DEF Request, Places
<1> HIDE DEF q
<1>4. Redis /\ Rest /\ Waiting /\ OwnClients
  BY Parts
<1>5. conn' \in [Clients -> ConnStates] /\ conn'[i] = "connecting"
      /\ \A j \in Clients \ {i} : conn'[j] = conn[j]
  BY <1>1, <1>2, <1>4 DEF Redis, RedisTypes, ConnStates
<1>6. Redis'
  <2>1. RedisTypes'
    BY <1>2, <1>4, <1>5 DEF Redis, RedisTypes
  <2>2. GaugeIsTrue' /\ Kept'
    BY <1>1, <1>2, <1>4, <1>5 DEF Redis, RedisTypes, GaugeIsTrue, Kept
  <2>3. QED
    BY <2>1, <2>2 DEF Redis
<1>7. request' \in [Requests -> Request] /\ request'[r] = q
      /\ \A s \in Requests \ {r} : request'[s] = request[s]
  BY <1>2, <1>3, <1>4 DEF Rest
<1>8. \A s \in Requests \ {r} : request'[s].at = "waiting" =>
        request'[s].awaits \in Clients \ {i} /\ conn[request'[s].awaits] = "connecting"
  BY <1>1, <1>4, <1>7 DEF Waiting, Rest, Request
<1>9. Waiting'
  <2>1. SUFFICES ASSUME NEW s \in Requests, request'[s].at = "waiting"
                 PROVE  request'[s].awaits # NoClient /\ conn'[request'[s].awaits] = "connecting"
    BY DEF Waiting
  <2>2. CASE s = r
    BY <1>1, <1>3, <1>5, <1>7, <2>2, ClientsAssumption
  <2>3. CASE s # r
    BY <1>5, <1>8, <2>1, <2>3, ClientsAssumption
  <2>4. QED
    BY <2>2, <2>3
<1>10. OwnClients'
  BY <1>3, <1>4, <1>7, <1>8 DEF OwnClients
<1>11. Rest'
  BY <1>2, <1>4, <1>7 DEF Rest
<1>12. QED
  BY <1>6, <1>9, <1>10, <1>11, PartsNext

\* A request that comes and is answered, or let through, at once.
LEMMA EnterKeeps ==
  ASSUME IInv, NEW r \in Requests, NEW method \in Methods,
         NEW place \in {"refused", "handling", "unavailable"},
         Enter(r, method, place, NoClient), UNCHANGED redisVars
  PROVE  IInv'
<1> DEFINE q == [method |-> method, at |-> place, awaits |-> NoClient]
<1>1. q \in Request /\ q.at # "waiting"
  BY DEF Request, Places
<1>2. /\ request' = [request EXCEPT ![r] = q]
      /\ UNCHANGED <<deployment, conn, client, connected, failureReported, quitting, up, faults>>
  BY DEF Enter, serverVars, redisVars
<1> HIDE DEF q
<1>3. Redis'
  BY <1>2, Parts DEF Redis, RedisTypes, GaugeIsTrue, Kept
<1>4. up' \in BOOLEAN /\ faults' \in 0..MaxFaults
  BY <1>2, Parts DEF Rest
<1>5. QED
  BY <1>1, <1>2, <1>3, <1>4, MoveKeeps

LEMMA ArriveKeeps ==
  ASSUME IInv, NEW r \in Requests, NEW method \in Methods, Arrive(r, method)
  PROVE  IInv'
<1>1. CASE Unauthorized(r, method)
  BY <1>1, EnterKeeps DEF Unauthorized
<1>2. CASE Pass(r, method)
  BY <1>2, EnterKeeps DEF Pass
<1>3. CASE Disabled(r, method)
  BY <1>3, EnterKeeps DEF Disabled
<1>4. QED
  BY <1>1, <1>2, <1>3, OpenKeeps DEF Arrive

\* What Move makes of a request.
LEMMA Moved ==
  ASSUME IInv, NEW r \in Requests, NEW place \in Places, Move(r, place)
  PROVE  \E q \in Request : q.at = place /\ request' = [request EXCEPT ![r] = q]
<1> DEFINE q == [request[r] EXCEPT !.at = place, !.awaits = NoClient]
<1>1. request[r] \in Request
  BY Parts DEF Rest
<1>2. q \in Request /\ q.at = place
  BY <1>1 DEF Request
<1>3. request' = [request EXCEPT ![r] = q]
  BY DEF Move
<1> HIDE DEF q
<1>4. QED
  BY <1>2, <1>3

LEMMA ConnectedKeeps ==
  ASSUME IInv, NEW r \in Requests, Connected(r)
  PROVE  IInv' /\ \E i \in Clients : conn'[i] = "ready"
<1> DEFINE i == request[r].awaits
<1>1. i \in Clients /\ Connect(i) /\ request[r].at = "waiting" /\ Redis
  BY Parts DEF Connected, Waiting, Rest, Request
<1>2. Redis' /\ conn'[i] = "ready" /\ conn' = [conn EXCEPT ![i] = "ready"]
  BY <1>1, ConnectKeeps DEF Connect
<1>3. \A j \in Clients : conn[j] = "connecting" /\ conn'[j] # "connecting" => i = j
  BY <1>1, <1>2 DEF Redis, RedisTypes
<1>4. UNCHANGED deployment /\ up' \in BOOLEAN /\ faults' \in 0..MaxFaults
  BY Parts DEF Connected, serverVars, Rest
<1>5. PICK q \in Request : q.at = "handling" /\ request' = [request EXCEPT ![r] = q]
  BY Moved DEF Connected, Places
<1>6. IInv'
  BY <1>1, <1>2, <1>3, <1>4, <1>5, MoveKeeps
<1>7. QED
  BY <1>1, <1>2, <1>6

LEMMA UnavailableKeeps ==
  ASSUME IInv, NEW r \in Requests, Unavailable(r)
  PROVE  IInv' /\ request'[r].at = "unavailable"
<1> DEFINE i == request[r].awaits
<1>1. i \in Clients /\ ConnectFails(i) /\ request[r].at = "waiting" /\ Redis
  BY Parts DEF Unavailable, Waiting, Rest, Request
<1>2. Redis' /\ conn' = [conn EXCEPT ![i] = "absent"]
  BY <1>1, ConnectFailsKeeps DEF ConnectFails
<1>3. \A j \in Clients : conn[j] = "connecting" /\ conn'[j] # "connecting" => i = j
  BY <1>1, <1>2 DEF Redis, RedisTypes
<1>4. UNCHANGED deployment /\ up' \in BOOLEAN /\ faults' \in 0..MaxFaults
  BY Parts, FaultsAssumption DEF Unavailable, Charge, serverVars, Rest
<1>5. PICK q \in Request : q.at = "unavailable" /\ request' = [request EXCEPT ![r] = q]
  BY Moved DEF Unavailable, Places
<1>6. request'[r] = q
  BY <1>5, Parts DEF Rest
<1>7. QED
  BY <1>1, <1>2, <1>3, <1>4, <1>5, <1>6, MoveKeeps

LEMMA RespondKeeps ==
  ASSUME IInv, NEW r \in Requests, Respond(r)
  PROVE  IInv'
<1>1. PICK place \in {"refused", "done"} : Move(r, place)
  BY DEF Respond
<1>2. PICK q \in Request : q.at = place /\ request' = [request EXCEPT ![r] = q]
  BY <1>1, Moved DEF Places
<1>3. UNCHANGED <<deployment, conn, client, connected, failureReported, quitting, up, faults>>
  BY DEF Respond, redisVars, serverVars
<1>4. Redis' /\ up' \in BOOLEAN /\ faults' \in 0..MaxFaults
  BY <1>3, Parts DEF Redis, RedisTypes, GaugeIsTrue, Kept, Rest
<1>5. QED
  BY <1>1, <1>2, <1>3, <1>4, MoveKeeps

LEMMA EventIsSound ==
  ASSUME IInv, NEW i \in Clients, Event(i)
  PROVE  IInv'
<1>1. UNCHANGED <<deployment, request>> /\ up' \in BOOLEAN /\ faults' \in 0..MaxFaults
  <2>1. up \in BOOLEAN /\ faults \in 0..MaxFaults
    BY Parts DEF Rest
  <2>2. Charge \/ UNCHANGED serverVars
    BY DEF Event
  <2>3. QED
    BY <2>1, <2>2, FaultsAssumption DEF Event, Charge, serverVars
<1>2. Redis'
  BY EventKeeps, Parts DEF Event
<1>3. \A j \in Clients : conn[j] = "connecting" => conn'[j] = "connecting"
  BY Parts DEF Event, Lose, Retry, Ready, Redis, RedisTypes
<1>4. QED
  BY <1>1, <1>2, <1>3, EventsKeepRequests

LEMMA CloseIsSound ==
  ASSUME IInv, Close
  PROVE  IInv'
<1>1. UNCHANGED <<deployment, request>> /\ up' \in BOOLEAN /\ faults' \in 0..MaxFaults
  <2>1. up \in BOOLEAN /\ faults \in 0..MaxFaults
    BY Parts DEF Rest
  <2>2. Charge \/ UNCHANGED serverVars
    BY DEF Close
  <2>3. up' \in BOOLEAN /\ faults' \in 0..MaxFaults
    BY <2>1, <2>2, FaultsAssumption DEF Charge, serverVars
  <2>4. QED
    BY <2>3 DEF Close
<1>2. Redis' /\ \A i \in Clients : conn[i] = "connecting" => conn'[i] = "connecting"
  BY CloseKeeps, Parts DEF Close
<1>3. QED
  BY <1>1, <1>2, EventsKeepRequests

LEMMA ServerIsSound ==
  ASSUME IInv, Outage \/ Return
  PROVE  IInv'
<1>1. UNCHANGED <<deployment, request, conn, client, connected, failureReported, quitting>>
  BY DEF Outage, Return, redisVars
<1>2. up' \in BOOLEAN
  BY DEF Outage, Return
<1>3. faults' \in 0..MaxFaults
  <2>1. faults \in 0..MaxFaults
    BY Parts DEF Rest
  <2>2. faults' = faults \/ (faults < MaxFaults /\ faults' = faults + 1)
    BY DEF Outage, Return
  <2>3. QED
    BY <2>1, <2>2, FaultsAssumption
<1>4. Redis'
  BY <1>1, Parts DEF Redis, RedisTypes, GaugeIsTrue, Kept
<1>5. QED
  BY <1>1, <1>2, <1>3, <1>4, EventsKeepRequests

LEMMA StutterIsSound ==
  ASSUME IInv, UNCHANGED vars
  PROVE  IInv'
<1>1. UNCHANGED <<deployment, request, conn, client, connected, failureReported, quitting>>
      /\ up' \in BOOLEAN /\ faults' \in 0..MaxFaults
  BY Parts DEF vars, redisVars, serverVars, Rest
<1>2. Redis'
  BY <1>1, Parts DEF Redis, RedisTypes, GaugeIsTrue, Kept
<1>3. QED
  BY <1>1, <1>2, EventsKeepRequests

LEMMA InitIsSound ==
  ASSUME Init
  PROVE  IInv
<1> DEFINE q == [method |-> "GET", at |-> "idle", awaits |-> NoClient]
<1>1. q \in Request /\ q.at = "idle"
  BY DEF Request, Methods, Places
<1>2. request = [r \in Requests |-> q]
  BY DEF Init
<1> HIDE DEF q
<1>3. Redis
  BY DEF Init, Redis, RedisTypes, GaugeIsTrue, Kept, ConnStates
<1>4. Rest
  BY <1>1, <1>2, FaultsAssumption DEF Init, Rest
<1>5. \A r \in Requests : request[r].at # "waiting"
  BY <1>1, <1>2
<1>6. QED
  BY <1>3, <1>4, <1>5, Parts DEF Waiting, OwnClients

LEMMA StepIsSound == IInv /\ [Next]_vars => IInv'
BY ArriveKeeps, ConnectedKeeps, UnavailableKeeps, RespondKeeps, EventIsSound, CloseIsSound,
   ServerIsSound, StutterIsSound DEF Next

LEMMA Inductive == Spec => []IInv
BY InitIsSound, StepIsSound, PTL DEF Spec

-----------------------------------------------------------------------------
(* Theorems                                                                *)

\* The connection and the requests keep their types, and whoever waits does so for a
\* client that is connecting, for any number of requests, clients and faults.
THEOREM TypeCorrect == Spec => []TypeOK
<1>1. IInv => TypeOK
  BY DEF IInv
<1>2. QED
  BY <1>1, Inductive, PTL

\* A guarded mutation gets to its handler only while some client is connected, whatever
\* clients getRedisClient has left behind and whatever events of theirs arrive late.
THEOREM MutationsFailClosed == Spec => FailsClosed
<1> DEFINE Opens(r) == request'[r].at = "handling" /\ request[r].at # "handling"
                       /\ Guarded(request'[r].method)
           Live == \E i \in Clients : conn'[i] = "ready"
<1>1. ASSUME IInv, Next, NEW r \in Requests, Opens(r)
      PROVE  Live
  <2>1. request' # request
    BY <1>1
  <2>2. CASE \E s \in Requests, method \in Methods : Arrive(s, method)
    <3>1. PICK s \in Requests, method \in Methods : Arrive(s, method)
      BY <2>2
    <3>2. PICK place \in Places, i \in Clients \cup {NoClient} :
             /\ request' = [request EXCEPT ![s] = [method |-> method, at |-> place, awaits |-> i]]
             /\ place = "handling" => Pass(s, method)
      <4>1. CASE Unauthorized(s, method)
        BY <4>1 DEF Unauthorized, Enter, Places
      <4>2. CASE Pass(s, method)
        BY <4>2 DEF Pass, Enter, Places
      <4>3. CASE Disabled(s, method)
        BY <4>3 DEF Disabled, Enter, Places
      <4>4. CASE Open(s, method)
        <5> DEFINE i == CHOOSE j \in Clients : conn[j] = "absent"
        <5>1. i \in Clients
          BY <4>4 DEF Open
        <5>2. request' = [request EXCEPT ![s] = [method |-> method, at |-> "waiting", awaits |-> i]]
          BY <4>4 DEF Open, Enter
        <5> HIDE DEF i
        <5>3. QED
          BY <5>1, <5>2 DEF Places
      <4>5. QED
        BY <3>1, <4>1, <4>2, <4>3, <4>4 DEF Arrive
    <3>3. r = s /\ place = "handling" /\ Guarded(method)
      BY <1>1, <3>2 DEF IInv, TypeOK
    <3>4. connected /\ conn' = conn
      BY <3>2, <3>3 DEF Pass, Cached, redisVars
    <3>5. QED
      BY <1>1, <3>4 DEF IInv, GaugeIsTrue
  <2>3. CASE \E s \in Requests : Connected(s)
    BY <1>1, <2>3, ConnectedKeeps
  <2>4. CASE \E s \in Requests : Unavailable(s) \/ Respond(s)
    <3>1. PICK s \in Requests, place \in Places \ {"handling"} : Move(s, place)
      BY <2>4 DEF Unavailable, Respond, Places
    <3>2. QED
      BY <1>1, <3>1, Moved DEF IInv, TypeOK
  <2>5. CASE (\E i \in Clients : Event(i)) \/ Close \/ Outage \/ Return
    BY <2>1, <2>5 DEF Event, Close, Outage, Return
  <2>6. QED
    BY <1>1, <2>2, <2>3, <2>4, <2>5 DEF Next
<1>2. ASSUME UNCHANGED vars, NEW r \in Requests
      PROVE  ~Opens(r)
  BY <1>2 DEF vars
<1>3. IInv /\ [Next]_vars => [\A r \in Requests :
        request'[r].at = "handling" /\ request[r].at # "handling" /\ Guarded(request'[r].method)
          => \E i \in Clients : conn'[i] = "ready"]_vars
  <2>1. SUFFICES ASSUME IInv, [Next]_vars, NEW r \in Requests
                 PROVE  Opens(r) => Live
    OBVIOUS
  <2>2. CASE Next
    BY <1>1, <2>1, <2>2
  <2>3. CASE UNCHANGED vars
    BY <1>2, <2>1, <2>3
  <2>4. QED
    BY <2>1, <2>2, <2>3
<1>4. QED
  BY <1>3, Inductive, PTL DEF Spec, FailsClosed

\* The client getRedisClient hands out without connecting is connected, unless another
\* one was opened beside it.
THEOREM LoneAnswerIsLive == Spec => []AnswerIsLive
<1>1. ASSUME IInv
      PROVE  AnswerIsLive
  <2>1. SUFFICES ASSUME Cached, conn[client] # "ready"
                 PROVE  Cardinality(Opened) > 1
    BY DEF AnswerIsLive
  <2>2. PICK i \in Clients : conn[i] = "ready"
    BY <1>1, <2>1 DEF IInv, GaugeIsTrue, Cached
  <2>3. client \in Opened /\ i \in Opened /\ i # client
    BY <1>1, <2>1, <2>2 DEF IInv, TypeOK, Kept, Cached, Opened
  <2>4. IsFiniteSet({client}) /\ Cardinality({client}) = 1
    BY FS_Singleton
  <2>5. IsFiniteSet({client} \cup {i}) /\ Cardinality({client} \cup {i}) = 2
    BY <2>3, <2>4, FS_AddElement
  <2>6. IsFiniteSet(Opened)
    BY ClientsAssumption, FS_Subset DEF Opened
  <2>7. Cardinality({client} \cup {i}) <= Cardinality(Opened)
    BY <2>3, <2>6, FS_Subset
  <2>8. Cardinality(Opened) \in Nat
    BY <2>6, FS_CardinalityType
  <2>9. QED
    BY <2>5, <2>7, <2>8
<1>2. QED
  BY <1>1, Inductive, PTL
=============================================================================
