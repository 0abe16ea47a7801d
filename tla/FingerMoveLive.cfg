SPECIFICATION FairSpec
CONSTANTS
  s1 = s1
  s2 = s2
  mc = mc
  g1 = g1
  g2 = g2
  sub1 = sub1
  sub2 = sub2
  NoFile = NoFile
  Song = {s1, s2}
  Main = mc
  Group = {g1}
  GroupList <- OneGroup
  Sub = {sub1}
  SubList <- OneSub
  Files <- DottedFiles
  GroupLimit = 1
  CacheLimit = 2
  Timely = FALSE
  MaxHits = 2
  MaxRounds = 2
  MaxClients = 2
  MaxFaults = 0
CHECK_DEADLOCK FALSE
PROPERTIES
  PromotionsArrive
  ClientsEnd
