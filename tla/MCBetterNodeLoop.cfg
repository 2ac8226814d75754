SPECIFICATION Spec
CONSTANTS
  Base = 3
  Rows = 3
INVARIANTS
  TypeOK
  LoopInv
  LoopComputesIsBetter
PROPERTY LoopReturns
CHECK_DEADLOCK FALSE
