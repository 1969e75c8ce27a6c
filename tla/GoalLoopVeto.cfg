SPECIFICATION Spec
CONSTANTS
  build = build
  docs = docs
  review = review
  Plans <- VetoPlans
  SimpleLanes <- MCSimpleLanes
  HookedLanes <- MCHookedLanes
  PatternLanes <- MCPatternLanes
  MaxRetries = 1
  MaxRuns <- Once
  MaxStray <- OneStray
PROPERTIES
  VetoedLaneNotDispatched
CHECK_DEADLOCK FALSE
