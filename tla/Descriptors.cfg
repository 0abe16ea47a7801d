SPECIFICATION Spec
CONSTANTS
  Limit = 16
  Groups = 1
  MaxRounds = 4
CHECK_DEADLOCK FALSE
INVARIANTS
  KnownLeaks
