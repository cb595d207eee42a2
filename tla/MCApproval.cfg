SPECIFICATION Spec
CONSTANTS
  None = None
  r1 = r1  r2 = r2  s1 = s1  s2 = s2  s3 = s3  h1 = h1  h2 = h2  h3 = h3
  x1 = x1  x2 = x2  x3 = x3  d1 = d1  d2 = d2  d3 = d3
  a1 = a1  a2 = a2  b1 = b1  ra = ra  rb = rb
  k1 = k1  k2 = k2
  Run = {r1}
  RunKey = {}
  Task = {s1, s2}
  StepTask = {s1, s2}
  RunOf <- OneRun
  DependsOn <- NoDeps
  StepRole <- ChainRole
  StepKind <- AllA2
  Role = {ra}
  DelegatingRole = {}
  Agent = {a1}
  RoleOf <- OneRole
  HandoffKind = {}
  MaxHandoffDepth = 0
  MaxHandoffsPerRun = 0
  Approval = {x1, x2, x3}
  ApprovalTtl = {1, 2}
  Delivery = {}
  DeliveryKey = {}
  ClaimLease = {}
  MaxDeliveryAttempts = 1
  MaxContract = 1
  Registries <- NoContract
  MaxTime = 3
SYMMETRY Ids
CHECK_DEADLOCK FALSE
INVARIANTS
  WaitingTaskHasRequest
  OneOpenApproval
PROPERTIES
  ExecutionSpendsApproval
