SPECIFICATION DhtSpec
CONSTANTS
  Base = 4
  Rows = 3
  None = None
  Nodes <- Five
  Proximity <- Line
  Buddies <- OneBuddy
  QuietUsers <- Everyone
  Mortal <- Nobody
  Quitters <- Nobody
  MaxRestarts = 0
  Keys <- Key131
  Putters <- Everyone
  Getters <- Nobody
  MaxPuts = 2
INVARIANTS
  
  RoutingTableFilled
  
CHECK_DEADLOCK FALSE
