SPECIFICATION FairSpec
CONSTANTS
  u = u
  v = v
  p = p
  q = q
  Users = {u, v}
  Profiles = {p, q}
  Nobody = nobody
  Linked <- MCLinked
  Metrics = {m}
  Batch = 1
  MaxAttempts = 1
  MaxTime = 2
  MaxEdits = 2
  MaxFaults = 1
INVARIANTS StaleIsPending BoardsTrail
PROPERTIES Converges
CHECK_DEADLOCK FALSE
