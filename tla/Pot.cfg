SPECIFICATION OddsSpec
CONSTANTS
  Users = {u1, u2, u3}
  MaxStake = 6
INVARIANTS
  FairPot
PROPERTIES
  OddsMove
