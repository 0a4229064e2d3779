CONSTANTS
  Requests = {r1, r2}
  Clients = {1, 2, 3, 4, 5, 6}
  MaxFaults = 2
  NoClient = NoClient
SPECIFICATION FairSpec
INVARIANTS TypeOK AnswerIsLive
PROPERTIES FailsClosed Recovers
