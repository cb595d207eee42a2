SPECIFICATION MCSpec
CONSTANTS
  p1 = p1  p2 = p2  p3 = p3  c1 = c1  c2 = c2  c3 = c3  c4 = c4
  x = x  y = y  bin = bin  main = main  dev = dev  Nothing = Nothing
  Path = {p1, p2, p3}  Allowed = {p1, p2}
  Content = {x, y, bin}  Text = {x, y}
  Size <- MCSize  MaxDocumentBytes = 1
  Commit = {c1, c2, c3, c4}  TreeOf <- MCTreeOf  Branch = {main, dev}
  Written <- MCWritten
  MaxChanges = 3
  Memory = {m1}
  CitedSensitivity = {"internal", "confidential", "restricted"}
  Source = {s1}
  Step = {1, 2, 3}
  Key = {"workflow@1.0.0"}
  Proposal <- MCProposal
  MinSteps = 2  MaxSteps = 3
  File = {"docker-29", "docker-30"}
  Launcher <- MCLauncher
  Daemon <- MCDaemon
  Image <- MCImage
  Policy <- MCPolicy
  MaxHostChanges = 2
INVARIANTS
  TypeOK
  EvidenceIsCommitted
  MemoryStaysInDepartment
  NoEntryBlocksItsScope
  RegisteredIsAcyclic
  CycleIsReal
PROPERTIES
  SnapshotVerifies
  SnapshotIsOfOneInstant
  OneLauncher
  ControlsHeld
  PreflightEnds
CHECK_DEADLOCK FALSE
