SPECIFICATION Spec
CONSTANTS
  spec = spec
  code = code
  ship = ship
  ana = ana
  bob = bob
  beta = beta
  stable = stable
  None = None
  Tickets <- ThreeTickets
  Agents <- TwoAgents
  Goals <- TwoGoals
SYMMETRY AllSymmetry
CONSTRAINT WideOrDeep
INVARIANTS
  DependenciesAcyclic
  PrimaryIsAssignee
  GoalDoneSettles
PROPERTIES
  FollowsTransitions
  GoalBlockOfTheBound
