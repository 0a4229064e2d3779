CONSTANTS
  s1 = s1
  s2 = s2
  Streams = {s1, s2}
  Events = {e1, e2, e3}
  Callers = {c1, c2}
  Stores = {"postgres", "memory"}
  Hash <- MCHash
  MaxSequence = 3
  MaxGap = 1
  MaxFaults = 1
  NoRow = NoRow
  NoCall = NoCall
SYMMETRY MCSymmetry
SPECIFICATION Spec
INVARIANTS TypeOK Contiguous
PROPERTIES RetryIsHarmless CollisionsCrossStreams ImplementsLedger
