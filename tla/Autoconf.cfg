SPECIFICATION FairSpec
CONSTANTS
  i1 = i1
  i2 = i2
  Param <- MCParam
  Default <- MCDefault
  Edition <- MCEdition
  Part = "part"
  Junk = "junk"
  Inspector = {i1, i2}
  MaxEdits = 2
  MaxFaults = 1
  MaxCloses = 1
CHECK_DEADLOCK FALSE
INVARIANTS
  OwnValue
PROPERTIES
  SteadyReads
  EditTaken
  CloseEnds
