SPECIFICATION Spec
CONSTANTS
  Commands <- StartCommands
  Hasty <- Joins
  MaxLines = 4
INVARIANT JoinedOnce
CHECK_DEADLOCK FALSE
