CONSTANTS
  Events = {e1, e2}
  Fingerprints = {f1, f2}
  Callers = {c1, c2, c3}
  Stores = {"postgres"}
  Legacy = {e2}
  Sentinel = legacy
  MaxFaults = 1
  NoRow = NoRow
  NoCall = NoCall
SPECIFICATION Spec
PROPERTIES InProgressIsTrue
