CONSTANTS
  Ids = {1, 2, 3}
  PerMs = 2
  MaxClock = 5
  BatchSize = 2
  NoCursor = NoCursor
SPECIFICATION FairExportSpec
INVARIANTS ExportIsComplete RepeatsShareTheMillisecond
PROPERTIES ExportEnds
