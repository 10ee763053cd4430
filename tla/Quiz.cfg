SPECIFICATION FairSpec
CONSTANTS
  Users = {u1, u2}
  Rich = {u2}
  Channels = {c1}
  Options = {a, b}
  Right = a
  DaysInWeek = 2
  MaxPosts = 2
  MaxDays = 2
  MaxPresses = 1
  MaxFaults = 1
INVARIANTS GradedAsCast ClosedIsPaid BoardOnce
PROPERTIES ClosedIsFinal DueIsClosed
CHECK_DEADLOCK FALSE
