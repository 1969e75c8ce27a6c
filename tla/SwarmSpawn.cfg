SPECIFICATION Spec
CONSTANTS
  left = left
  right = right
  spec = spec
  code = code
  part = part
  rest = rest
  first = first
  second = second
  builder = builder
  orchestrator = orchestrator
  External = External
  Caller = Caller
  NoTask = NoTask
  Orchestrator = orchestrator
  Roles <- AllRoles
  Tasks <- AllTasks
  Daemons <- TwoDaemons
  RoleOf <- BuilderRole
  Once = {right}
  Dry = {}
  Signing = {right}
  MaxTasks = 2
  MaxStarts <- LeftRestarts
  Coordinators <- TwoCalls
  Plans <- ManyPlans
  Fanned = 2
  ChildTask <- TwoChildTasks
  ChildRole = builder
  Modes = {"processes"}
  Scenes <- ParentScene
INVARIANT SpawnedAgentRuns
CHECK_DEADLOCK FALSE
