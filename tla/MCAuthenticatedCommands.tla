----------------------- MODULE MCAuthenticatedCommands -----------------------
(* A small instance of AuthenticatedCommands for TLC. *)
EXTENDS AuthenticatedCommands, TLC

CONSTANTS i1, i2, t1, t2, t3

Ids == Permutations(TxId)

(* An invocation that is soon over, the same identifier signed again by    *)
(* another key for another command, and one that is active later.          *)
Early == [issuedAt |-> 0, notBefore |-> 0, expiresAt |-> 1]
Renewed == [issuedAt |-> 0, notBefore |-> 0, expiresAt |-> 3]
Later == [issuedAt |-> 0, notBefore |-> 1, expiresAt |-> 2]

Signed(key, i, principal, command, window) ==
  [key |-> key, signer |-> key, issuer |-> "authority", audience |-> "runtime",
   organization |-> "pilot", invocation |-> i, principal |-> principal,
   command |-> command, window |-> window]

Good ==
  {Signed("key1", i1, "agent", "task.claim", Early),
   Signed("key2", i1, "connector", "outbox.claim", Renewed),
   Signed("key1", i2, "human", "task.claim", Later)}

(* One in which one thing is wrong. *)
Forged == [Signed("key1", i2, "human", "task.claim", Early) EXCEPT !.signer = "key2"]

MCEnvelope == Good \cup {Forged, Signed("key2", i2, "connector", "task.claim", Renewed)}

Trusting(keys, skew, ttl, lead) ==
  [trusted |-> [k \in keys |-> "authority"], audience |-> "runtime",
   organization |-> "pilot", skew |-> skew, maxTtl |-> ttl, lead |-> lead]

MCVerifier == {Trusting({"key1", "key2"}, 1, 3, 0), Trusting({"key1"}, 0, 2, 1)}

=============================================================================
