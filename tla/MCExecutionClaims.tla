------------------------- MODULE MCExecutionClaims -------------------------
(* Model-checking instances of ExecutionClaims. *)
EXTENDS ExecutionClaims, TLC

CONSTANTS t1, c1, c2, e1, e2, e3, k1, k2, k3

(* Clients, execution identities and idempotency keys are interchangeable. *)
Symmetry == Permutations(Clients) \cup Permutations(Executions) \cup Permutations(Keys)
=============================================================================
