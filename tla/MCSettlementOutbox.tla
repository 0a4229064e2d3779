------------------------ MODULE MCSettlementOutbox ------------------------
(* Small instances of the settlement outbox.                               *)
EXTENDS SettlementOutbox

CONSTANTS k1, k2

\* The oldest retry waits one tick, every later one two.
MCBackoff == [n \in 1..20 |-> IF n = 1 THEN 1 ELSE 2]

\* PostgreSQL and no handler for the first key, or memory and one for both.
MCDeployments ==
  {[store |-> "postgres", handled |-> {k2}], [store |-> "memory", handled |-> {k1, k2}]}

\* PostgreSQL and a handler for both keys.
MCPostgres == {[store |-> "postgres", handled |-> {k1, k2}]}

MCOneAttempt == [k \in Keys |-> 1]
MCAttempts == [k \in Keys |-> IF k = k1 THEN 2 ELSE 1]
=============================================================================
