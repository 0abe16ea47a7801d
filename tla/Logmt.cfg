SPECIFICATION FairSpec
CONSTANTS
  p1 = p1
  p2 = p2
  log = log
  n1 = n1
  n2 = n2
  n3 = n3
  n4 = n4
  NULL = NULL
  Producer = {p1, p2}
  Logger = log
  Node = {n1, n2, n3, n4}
  Size = 2
  MAX_LOG_CUNT = 2
  LastSecond = 3
  MaxFaults = 2
CHECK_DEADLOCK FALSE
INVARIANTS
  KeptInOrder
  FilesFit
PROPERTIES
  LinesReachFile
