SPECIFICATION FairSpec
CONSTANTS
  h1 = h1
  h2 = h2
  f1 = f1
  f2 = f2
  Handler = {h1, h2}
  Files = {f1, f2}
  GroupLimit = 2
  MaxFaults = 1
CHECK_DEADLOCK FALSE
INVARIANTS
  NothingStranded
  GoneOnlyByOverlap
  ReportsCover
PROPERTIES
  TakenArrive
