SPECIFICATION Spec
CONSTANTS
  None = None
  i1 = i1  i2 = i2  t1 = t1  t2 = t2  t3 = t3
  Invocation = {i1, i2}
  TxId = {t1, t2, t3}
  Key = {"key1", "key2"}
  Issuer = {"authority"}  Audience = {"runtime"}  Organization = {"pilot"}
  Operation = {"task.claim", "outbox.claim"}
  WorkerOperation = {"outbox.claim"}
  Envelope <- MCEnvelope
  Verifier <- MCVerifier
  MaxReceiptTtl = 3  MaxSkew = 1  MaxLead = 1
  MaxEffects = 2
  MaxTime = 1
  ClockMovesBack = TRUE
SYMMETRY Ids
CHECK_DEADLOCK FALSE
INVARIANTS
  FileVerifies
