SPECIFICATION Spec
CONSTANTS
  Users = {u1, u2}
  PostIds = {1}
  MatchIds = {1}
  QuizIds = {1}
  Amounts = {40, 100, 250, 500}
  MaxPresses = 2
  MaxWeek = 2
INVARIANTS
  CacheIsLedger
  StakesAreBacked
  BooksNeverMint
  BettorsAreSpared
PROPERTIES
  FlowsStopAt500
CHECK_DEADLOCK FALSE
