SPECIFICATION FairSpec
CONSTANTS
  p1 = p1
  p2 = p2
  c1 = c1
  c2 = c2
  n1 = n1
  n2 = n2
  n3 = n3
  NULL = NULL
  HeadRef = HeadRef
  Producer = {p1, p2}
  Consumer = {c1, c2}
  Node = {n1, n2, n3}
  DefaultSize = 2
  Sizes = {1, 3}
  MaxEvents = 1
CHECK_DEADLOCK FALSE
INVARIANTS
  ListIntact
  WaitersCounted
  NoLostWakeup
PROPERTIES
  ImplementsFifo
  LinesWritten
  ProducersGoOn
