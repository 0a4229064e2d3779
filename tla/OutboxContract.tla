--------------------------- MODULE OutboxContract ---------------------------
(***************************************************************************)
(* What the settlement outbox promises to the code that enqueues into it   *)
(* (docs/settlement-outbox.md, "Operational guarantees"), free of leases,  *)
(* tokens, workers and clocks: one logical event per key; it succeeds only *)
(* after its side effect ran at least once; an event that succeeded or was *)
(* buried keeps that outcome for good.                                     *)
(***************************************************************************)
EXTENDS Integers

CONSTANT Keys          \* event keys, one per settlement transition

VARIABLES
  outcome,             \* outcome[k]: what has become of the event k
  delivered            \* delivered[k]: 0, 1 or 2 (two or more) side effects

contractVars == <<outcome, delivered>>

Outcomes == {"none", "open", "succeeded", "dead"}

Init ==
  /\ outcome = [k \in Keys |-> "none"]
  /\ delivered = [k \in Keys |-> 0]

\* The event is committed to the outbox; it is delivered from then on.
Record(k) ==
  /\ outcome[k] = "none"
  /\ outcome' = [outcome EXCEPT ![k] = "open"]
  /\ UNCHANGED delivered

\* At-least-once: the side effect may run again, even after the outcome is known.
Deliver(k) ==
  /\ outcome[k] # "none"
  /\ delivered' = [delivered EXCEPT ![k] = IF @ < 2 THEN @ + 1 ELSE @]
  /\ UNCHANGED outcome

Succeed(k) ==
  /\ outcome[k] = "open"
  /\ delivered[k] > 0
  /\ outcome' = [outcome EXCEPT ![k] = "succeeded"]
  /\ UNCHANGED delivered

Bury(k) ==
  /\ outcome[k] = "open"
  /\ outcome' = [outcome EXCEPT ![k] = "dead"]
  /\ UNCHANGED delivered

Next == \E k \in Keys : Record(k) \/ Deliver(k) \/ Succeed(k) \/ Bury(k)

Spec == Init /\ [][Next]_contractVars
=============================================================================
