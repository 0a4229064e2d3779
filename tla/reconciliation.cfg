CONSTANTS
  Runners = {r1, r2}
  Size = 3
  Differing = {1, 2, 3}
  BatchSize = 2
  Windows = {1, 2}
  MaxFaults = 2
  NoCheckpoint = NoCheckpoint
SPECIFICATION FairSpec
INVARIANTS TypeOK NothingLeftBehind LosesAtMostOne KeptIsNotRepeated
PROPERTIES EventuallyCorrected
