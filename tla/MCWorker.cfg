SPECIFICATION FairSpec
CONSTANTS
  None = None
  Call = {c1, c2}
  Lease = {1, 2}
  Ahead = {1}
  Timeout = 1
  Validity = 2
  MaxSkew = 0
  MaxAttempts = 2
  MaxTime = 3
  Bundle = {"built", "changed", "importing"}
  Conforming = {"built", "changed"}
  KeyId = {"builder", "other"}
  Issuer = {"i"}
  Signer = {"builder", "other"}
  Release <- MCRelease
  Package <- MCPackage
CHECK_DEADLOCK FALSE
INVARIANTS
  TypeOK
  ReceiptIsEarned
  ReleasedCodeRan
  NoOrphans
PROPERTIES
  CallsSettle
