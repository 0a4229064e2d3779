---------------------------- MODULE StreamLedger ----------------------------
(* What metering promises: every stream has a log of distinct events that  *)
(* only grows at its end, and no event is in two logs or twice in one.     *)
EXTENDS Naturals, Sequences

CONSTANTS Streams, Events

VARIABLE log       \* log[s]: the events accepted for s, in order

Logged == UNION {{log[s][n] : n \in DOMAIN log[s]} : s \in Streams}

Init == log = [s \in Streams |-> << >>]

Accept(s, e) ==
  /\ e \notin Logged
  /\ log' = [log EXCEPT ![s] = Append(@, e)]

Next == \E s \in Streams, e \in Events : Accept(s, e)

Spec == Init /\ [][Next]_log
=============================================================================
