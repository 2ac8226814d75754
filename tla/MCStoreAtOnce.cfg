SPECIFICATION DhtFairSpec
CONSTANTS
  Base = 4
  Rows = 3
  None = None
  Nodes <- Three
  Proximity <- Line
  Buddies <- OneBuddy
  QuietUsers <- Nobody
  Mortal <- Nobody
  Quitters <- Nobody
  MaxRestarts = 0
  Keys <- SameOwner
  Putters <- Only120
  Getters <- Only103
  MaxPuts = 1
INVARIANTS
  PairsKept
PROPERTIES
  RoutesToBetter
  GetAnswered
CHECK_DEADLOCK FALSE
