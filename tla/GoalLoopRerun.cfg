SPECIFICATION Spec
CONSTANTS
  build = build
  docs = docs
  review = review
  Plans <- RestartPlans
  SimpleLanes <- MCSimpleLanes
  HookedLanes <- MCHookedLanes
  PatternLanes <- MCPatternLanes
  MaxRetries = 1
  MaxRuns <- Twice
  MaxStray <- OneStray
PROPERTIES
  MostRecentResultWins
CHECK_DEADLOCK FALSE
