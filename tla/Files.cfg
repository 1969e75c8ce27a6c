SPECIFICATION FilesSpec
CONSTANTS
  Parts = {"goal", "sub-goals", "clock", "installer", "sweep"}
  build = build
  docs = docs
  review = review
  Plans <- RestartPlans
  SimpleLanes <- MCSimpleLanes
  HookedLanes <- MCHookedLanes
  PatternLanes <- MCPatternLanes
  MaxRetries = 1
  MaxRuns <- Twice
  MaxStray <- StrayIfNoneRecovers
  SlaHours = 2
  MaxClock = 6
  MaxWindows = 3
  lint = lint
  audit = audit
  release1 = release1
  SubOrder <- LintTwice
  Others = {hotfix}
  Under = {lint, hotfix}
  hotfix = hotfix
  Unwritable = {audit}
  TheGoal = release1
  MaxFacts = 1
  MaxGoalRuns = 2
  checkout = checkout
  moved = moved
  triage = triage
  SkillOrder <- OneSkill
  Roots <- TwoCheckouts
  NoRoot = NoRoot
  MaxRelease <- OneUpdated
  MaxKeys = 1
  MaxDeaths = 1
  version = version
  smoke = smoke
  package = package
  notes = notes
  SweepFiles = {package, notes}
  SweepOrder <- TwoMutations
  FileOf <- BothInOne
  MaxEdits = 1
  MaxSweeps = 2
  MaxKills = 1
INVARIANTS
  GreenIsEarned
  OriginalClaimedOnce
  CallsCountedOnce
  
  ElapsedIsUnpaused
  InstalledIsServed
  OkIsEarned
PROPERTIES
  FinishedStateIsFinal
  UninstallReverses
  EditsSurvive
CHECK_DEADLOCK FALSE
