SPECIFICATION DhtFairSpec
CONSTANTS
  Base = 4
  Rows = 3
  None = None
  Nodes <- Three
  Proximity <- Line
  Buddies <- OneBuddy
  QuietUsers <- Everyone
  Mortal <- Only211
  Quitters <- Only120
  MaxRestarts = 0
  Keys <- OneKey
  Putters <- Everyone
  Getters <- Nobody
  MaxPuts = 1
INVARIANTS
  KvTypeOK
  
PROPERTIES
  DhtComesToRest
CHECK_DEADLOCK FALSE
