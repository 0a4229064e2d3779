CONSTANTS
  k1 = k1
  k2 = k2
  Keys = {k1, k2}
  Workers = {w1, w2}
  Tokens = {t1, t2, t3, t4}
  NoToken = NoToken
  NoClaim = NoClaim
  Deployments <- MCDeployments
  Poison = {k1}
  MaxAttempts <- MCAttempts
  Backoff <- MCBackoff
  Limit = 2
  LeaseTicks = 1
  AttemptsCap = 2
  MaxFaults = 1
SPECIFICATION FairSpec
INVARIANTS TypeOK OneValidClaim DuplicatesHaveACause DeadWasTried CountedPoisonIsBounded
PROPERTIES TerminalIsFinal ImplementsContract EventuallySettled
