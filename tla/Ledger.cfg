SPECIFICATION Spec
CONSTANTS
  cli = cli
  daemon = daemon
  cron = cron
  ana = ana
  bob = bob
  readme = readme
  Nobody = Nobody
  Procs <- ThreeProcs
  Holders <- TwoHolders
  Paths <- OnePath
  MaxCalls = 1
  MaxCrashes = 1
INVARIANTS
  ExclusionUntilCrash
PROPERTIES
  PathLocksUntilCrash
  CallReturns
CHECK_DEADLOCK FALSE
