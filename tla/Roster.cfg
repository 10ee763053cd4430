SPECIFICATION Spec
CONSTANTS
  People = {a, b, c}
  MaxPosts = 2
  MaxPresses = 2
  MaxEdits = 2
  MaxSlips = 1
SYMMETRY Symmetry
INVARIANTS
  SubstitutesAreSafe
  NamedBackThemselves
  OneBookInPlay
CHECK_DEADLOCK FALSE
