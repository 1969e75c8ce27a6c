SPECIFICATION Spec
CONSTANTS
  Parts = {"bus", "signing", "taskflow", "webhook", "hooks"}
  FewSenders = {"js"}
  FewBodies <- TwoBodies
  neo = neo
  trinity = trinity
  m1 = m1
  m2 = m2
  inbox = inbox
  tasks = tasks
  constructor = constructor
  build = build
  audit = audit
  notify = notify
  sh = sh
  EnvelopeIds = {m1, m2}
  NoId = NoId
  Names <- OneName
  BodyKeys <- Keys
  Utf16 <- CodeUnits
  Utf8 <- Bytes8
  Number <- Numbers
  Senders <- Signers
  NameOf <- SendersName
  ArmOf <- SendersArm
  ReceiverArm = "native"
  Bodies <- SomeBodies
  Subs = {inbox, tasks}
  Policy <- Policies
  DedupeMax = 1
  MaxMessages = 2
  MaxKeys = 2
  MaxCalls = 3
  MaxLate = 1
  MaxLives = 2
  Ids = {constructor, build}
  Agents = {neo, trinity}
  NoAgent = NoAgent
  Inherited = {constructor}
  MaxEvents = 4
  Subscriptions <- SomeSubscriptions
  Deliveries <- SomeDeliveries
  Secret <- Secrets
  Once = TRUE
  MaxAttempts = 2
  MaxStarts = 2
  HookIds = {audit, notify}
  Files = {sh}
  FileOf <- OneFile
  Events <- TwoEvents
  Configs <- SomeConfigs
  Operators = {neo, trinity}
  MaxBytes = 2
  MaxEdits = 2
INVARIANTS
  RepeatNeedsEviction
  AckedWasCalled
  ArmsAgree
  LedgerMatchesAnswers
  OnlyGrantedBytesRun
PROPERTIES
  ActsAsMap
  OnceEnds
  DispatchEnds
SYMMETRY Interchangeable
CHECK_DEADLOCK FALSE
