CONSTANTS
  Ids = {i1}
  Clients = {c1, c2, c3}
  PerMs = 2
  MaxClock = 5
  NoStream = NoStream
  NoView = NoView
SPECIFICATION Spec
INVARIANTS TypeOK StaleIsRefused CurrentIsAccepted
