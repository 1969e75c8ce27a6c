SPECIFICATION Spec
CONSTANTS
  main = main
  spare = spare
  sweep = sweep
  digest = digest
  Nobody = Nobody
  Daemons <- OneDaemon
  Jobs <- TwoJobs
  Schedule <- EveryAndOther
  MaxTime <- ThreeMinutes
  MaxCrashes = 2
  MaxStops = 1
  MaxFailures = 1
INVARIANTS
  DuplicatesAreCaused
PROPERTIES
  StateFileSkipsNothing
  CatchesUp
