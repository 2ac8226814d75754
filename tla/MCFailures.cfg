SPECIFICATION FairSpec
CONSTANTS
  Base = 4
  Rows = 3
  None = None
  Nodes <- Three
  Proximity <- Line
  Buddies <- OneBuddy
  QuietUsers <- Only211
  Mortal <- Only211
  Quitters <- Only211
  MaxRestarts = 1
INVARIANTS
  Placement
  JoinProgress
  
PROPERTY LeafSetsHeal
CHECK_DEADLOCK FALSE
