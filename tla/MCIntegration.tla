---------------------------- MODULE MCIntegration ----------------------------
(* Model-checking instances of Integration. *)
EXTENDS Integration, TLC

CONSTANTS p1, p2, e1, e2, k1, k2, k3

(* Callers, executions and keys are interchangeable. *)
Symmetry == Permutations(Callers) \cup Permutations(Executions) \cup Permutations(Keys)
=============================================================================
