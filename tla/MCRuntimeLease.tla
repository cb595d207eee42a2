--------------------------- MODULE MCRuntimeLease ----------------------------
(* Small instances of RuntimeLease for TLC. *)
EXTENDS RuntimeLease, TLC

CONSTANTS p1, p2, p3

Processes == Permutations(Process)

=============================================================================
