CONSTANTS
  Events = {e1, e2}
  Fingerprints = {f1, f2}
  Callers = {c1, c2, c3}
  Stores = {"postgres", "memory"}
  Legacy = {e2}
  Sentinel = legacy
  MaxFaults = 1
  NoRow = NoRow
  NoCall = NoCall
SYMMETRY MCSymmetry
SPECIFICATION Spec
INVARIANTS TypeOK AcceptedOnce BoundToOnePayload
