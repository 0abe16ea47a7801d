SPECIFICATION Spec
CONSTANTS
  q1 = q1
  q2 = q2
  Query = {q1, q2}
  Zone = 1
  Retain = 2
  Horizon = 5
  MaxFaults = 2
SYMMETRY Symmetry
INVARIANTS
  TypeOK
  QuietDayCounts
  TwiceAtMost
  NothingForgotten
