CONSTANTS
  k1 = k1
  k2 = k2
  Keys = {k1, k2}
  Workers = {w1, w2}
  Tokens = {t1, t2, t3, t4}
  NoToken = NoToken
  NoClaim = NoClaim
  Deployments <- MCPostgres
  Poison = {k1}
  MaxAttempts <- MCOneAttempt
  Backoff <- MCBackoff
  Limit = 0
  LeaseTicks = 1
  AttemptsCap = 1
  MaxFaults = 1
SPECIFICATION Spec
INVARIANTS PoisonIsBounded
