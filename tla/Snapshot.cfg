SPECIFICATION FairSpec
CONSTANTS
  People = {a, b, c}
  Old = {a, b}
  MaxId = 2
  MaxEdits = 2
  MaxFaults = 2
INVARIANTS
  RatedOnce
  SavedSurvives
  IdsAreNew
PROPERTIES
  MatchIsSaved
CHECK_DEADLOCK FALSE
