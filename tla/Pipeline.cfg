SPECIFICATION Spec
CONSTANTS
  s1 = s1
  s2 = s2
  s3 = s3
  Song = {s1, s2, s3}
  Files <- RankFiles
  MaxHits = 2
  GroupLimit = 2
  CacheLimit = 2
  Groups = 2
  MaxDays = 2
  MaxFaults = 1
  MaxLate = 1
CHECK_DEADLOCK FALSE
SYMMETRY Symmetry
INVARIANTS
  HottestAreTaken
  ColdestAreGiven
  SummariesCoverLists
  WindowsTile
  ReportCoversTaken
