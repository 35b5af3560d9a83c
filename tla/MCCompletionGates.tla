-------------------------- MODULE MCCompletionGates --------------------------
(* Model-checking instances of CompletionGates. *)
EXTENDS CompletionGates, TLC

CONSTANTS c1, c2, s1, s2, g1, g2, h1, h2

(* Calls, processes and gates are interchangeable. *)
Symmetry == Permutations(Callers) \cup Permutations(Processes) \cup Permutations(Gates) \cup Permutations(Heads)
=============================================================================
