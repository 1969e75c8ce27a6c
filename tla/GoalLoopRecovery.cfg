SPECIFICATION Spec
CONSTANTS
  build = build
  docs = docs
  review = review
  Plans <- PlansUpToNames
  SimpleLanes <- MCSimpleLanes
  HookedLanes <- MCSimpleLanes
  PatternLanes <- MCPatternLanes
  MaxRetries = 2
  MaxRuns <- TwiceIfPlain
  MaxStray <- StrayIfOneRecovers
INVARIANTS
  RecoveryIsJustified
  LastRetryDecides
  CancelBoundsDispatch
  AbortDecided
PROPERTIES
  GreenLaneNotRedispatched
  RunReturns
CHECK_DEADLOCK FALSE
