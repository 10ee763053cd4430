SPECIFICATION Spec
CONSTANTS
  People = {a, b, c}
  Size = 2
  MatchIds = {1, 2}
  MaxTasks = 2
  MaxExposed = 1
SYMMETRY Symmetry
INVARIANTS
  SeatedOnce
CHECK_DEADLOCK FALSE
