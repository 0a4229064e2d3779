CONSTANTS
  w1 = w1
  w2 = w2
  p1 = p1
  p2 = p2
  p3 = p3
  Deliveries = {d1}
  Pollers = {p1, p2}
  Worker <- MCWorker
  MaxAttempts = 2
  RetryDelay <- MCRetryDelay
  LeaseTicks = 2
  Limit = 50
  MaxFaults = 1
  NoKey = NoKey
SPECIFICATION Spec
PROPERTIES LeaseIsReleased
