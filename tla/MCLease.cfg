SPECIFICATION FairSpec
CONSTANTS
  None = None
  Gone = Gone
  p1 = p1  p2 = p2  p3 = p3
  Process = {p1, p2}
  Ttl = 1
  MaxTime = 2
  MaxLeases = 2
  MaxFailures = 2
CHECK_DEADLOCK FALSE
INVARIANTS
  TypeOK
  OwnerKeepsLease
PROPERTIES
  OnlyStaleLeaseIsReclaimed
  AbandonedStoreReopens
