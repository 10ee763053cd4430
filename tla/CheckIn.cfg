SPECIFICATION FairSpec
CONSTANTS
  People = {a, b, c}
  Size = 2
  MatchIds = {1}
  MaxTasks = 3
  MaxExposed = 3
INVARIANTS
  LaunchedOnce
  EndsOnce
PROPERTIES
  CheckInEnds
CHECK_DEADLOCK FALSE
