------------------------ MODULE MCWorkspaceOperations ------------------------
(* Model-checking instances of WorkspaceOperations. *)
EXTENDS WorkspaceOperations, TLC

CONSTANTS p1, p2, k1, k2, k3, k4

(* Callers and keys are interchangeable. *)
Symmetry == Permutations(Callers) \cup Permutations(Keys)
=============================================================================
