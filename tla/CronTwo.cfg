SPECIFICATION Spec
CONSTANTS
  main = main
  spare = spare
  sweep = sweep
  digest = digest
  Nobody = Nobody
  Daemons <- TwoDaemons
  Jobs <- OneJob
  Schedule <- EveryMinute
  MaxTime <- ThreeMinutes
  MaxCrashes = 0
  MaxStops = 0
  MaxFailures = 0
INVARIANTS
  TickersNeverDoubleFire
