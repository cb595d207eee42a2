SPECIFICATION Spec
CONSTANTS
  None = None
  r1 = r1  r2 = r2  s1 = s1  s2 = s2  s3 = s3  h1 = h1  h2 = h2  h3 = h3
  x1 = x1  x2 = x2  x3 = x3  d1 = d1  d2 = d2  d3 = d3
  a1 = a1  a2 = a2  b1 = b1  ra = ra  rb = rb
  k1 = k1  k2 = k2
  Run = {r1}
  RunKey = {}
  Task = {s1, h1}
  StepTask = {s1}
  RunOf <- OneRun
  DependsOn <- NoDeps
  StepRole <- ChainRole
  StepKind <- FirstIsConnector
  Role = {ra}
  DelegatingRole = {ra}
  Agent = {a1, a2}
  RoleOf <- OneRole
  HandoffKind = {"A1"}
  MaxHandoffDepth = 1
  MaxHandoffsPerRun = 1
  Approval = {}
  ApprovalTtl = {}
  Delivery = {d1, d2}
  DeliveryKey = {k1, k2}
  ClaimLease = {1}
  MaxDeliveryAttempts = 2
  MaxContract = 1
  Registries <- Dropping
  MaxTime = 1
SYMMETRY Ids
CHECK_DEADLOCK FALSE
INVARIANTS
  TypeOK
  OneDeliveryPerAttempt
  GivenUpAttemptIsSettled
PROPERTIES
  LateWorkIsUncertain
  EventsReplay
