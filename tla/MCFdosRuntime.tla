--------------------------- MODULE MCFdosRuntime ----------------------------
(* Small instances of FdosRuntime for TLC. *)
EXTENDS FdosRuntime, TLC

CONSTANTS r1, r2, s1, s2, s3, h1, h2, h3, x1, x2, x3, d1, d2, d3,
          a1, a2, b1, ra, rb, k1, k2

\* No definition tells the members of these sets apart.
Ids == Permutations(Approval) \cup Permutations(Delivery) \cup
       Permutations(DeliveryKey) \cup Permutations(Task \ StepTask)

\* One run: step s2 after step s1.
OneRun == [t \in Task |-> r1]
Chain == [t \in Task |-> IF t = s2 THEN {s1} ELSE {}]
NoDeps == [t \in Task |-> {}]

\* Two runs: s2 after s1 in r1, and s3 in r2.
TwoRuns == [t \in Task |-> IF t = s3 THEN r2 ELSE r1]

ChainRole == [t \in StepTask |-> ra]
OneRole == [a \in Agent |-> ra]
TwoRoles == [a \in Agent |-> IF a = b1 THEN rb ELSE ra]

\* The registries of a deployment: the contract in a version, registered with a
\* suspended connector, or not at all.
Active(version) == [covers |-> TRUE, version |-> version]
Suspended == [covers |-> TRUE, version |-> 0]
Unregistered == [covers |-> FALSE, version |-> 0]

NoContract == {Unregistered}
Contracted == {Active(1), Active(2), Suspended}
Dropping == {Active(1), Unregistered}

AllA1 == [t \in StepTask |-> "A1"]
AllA2 == [t \in StepTask |-> "A2"]
FirstIsConnector == [t \in StepTask |-> IF t = s1 THEN "connector" ELSE "A1"]

=============================================================================
