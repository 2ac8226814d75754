SPECIFICATION ShutdownFairSpec
CONSTANTS
  Base = 4
  Rows = 3
  None = None
  Nodes <- Three
  Proximity <- Line
  Buddies <- OneBuddy
  QuietUsers <- Everyone
  Mortal <- Only211
  Quitters <- Nobody
  MaxRestarts = 0
  ShutdownUsers <- Only103
INVARIANTS
  ShutdownTypeOK
  NobodyLeftBehind
PROPERTY ShutdownEnds
CHECK_DEADLOCK FALSE
