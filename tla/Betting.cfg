SPECIFICATION FairSpec
CONSTANTS
  Users = {u1, u2}
  Matches = {m1}
  PostIds = {1}
  Sweep = sweep
  MaxStake = 2
  MaxFaults = 1
  MaxUndos = 1
INVARIANTS
  RefundXorPayout
  OnlyPromisedGold
  TerminalIsPaid
PROPERTIES
  KeepsPromise
  FrozenBookEnds
CHECK_DEADLOCK FALSE
