SPECIFICATION Spec
CONSTANTS
  None = None
  Gone = Gone
  p1 = p1  p2 = p2  p3 = p3
  Process = {p1, p2, p3}
  Ttl = 1
  MaxTime = 2
  MaxLeases = 2
  MaxFailures = 0
SYMMETRY Processes
CHECK_DEADLOCK FALSE
INVARIANTS
  ExclusiveOwner
