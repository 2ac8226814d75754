SPECIFICATION FairSpec
CONSTANTS
  Base = 4
  Rows = 3
  None = None
  Nodes <- Four
  Proximity <- Line
  Buddies <- TwoBuddies
  QuietUsers <- Nobody
  Mortal <- Nobody
  Quitters <- Nobody
  MaxRestarts = 0
INVARIANTS
  TypeOK
  Placement
  JoinProgress
  RowsAccounted
  CountsComplete
  
PROPERTY ComesToRest
CHECK_DEADLOCK FALSE
