SPECIFICATION DhtFairSpec
CONSTANTS
  Base = 4
  Rows = 3
  None = None
  Nodes <- Dense
  Proximity <- Line
  Buddies <- OneBuddy
  QuietUsers <- Everyone
  Mortal <- Nobody
  Quitters <- Nobody
  MaxRestarts = 0
  Keys <- DenseOwnKey
  Putters <- Only120
  Getters <- Nobody
  MaxPuts = 1
INVARIANTS
  RowsAccounted
PROPERTIES
  RoutesToBetter
  LeafSetsHeal
CHECK_DEADLOCK FALSE
