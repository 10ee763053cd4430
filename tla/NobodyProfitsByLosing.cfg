SPECIFICATION Spec
CONSTANTS
  People = {a, b, c}
  MaxPosts = 1
  MaxPresses = 2
  MaxEdits = 0
  MaxSlips = 0
INVARIANTS
  NobodyProfitsByLosing
CHECK_DEADLOCK FALSE
