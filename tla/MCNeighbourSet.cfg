SPECIFICATION FairSpec
CONSTANTS
  Base = 2
  Rows = 3
  None = None
  Nodes <- Four
  Proximity <- Usual
  Me <- n000
  Times <- ThreeTimes
INVARIANTS
  TypeOK
  NoDuplicates
  InOrder
  RepairAsksAll
PROPERTIES
  FollowsDatabase
  RepairEnds
CHECK_DEADLOCK FALSE
