--------------------------- MODULE MCDispatcherRun ---------------------------
(* Model-checking instances of DispatcherRun. *)
EXTENDS DispatcherRun, TLC

CONSTANTS w1, w2, t1, t2, k1, k2, s1

(* Workers, Tasks and keys are interchangeable. *)
Symmetry == Permutations(Workers) \cup Permutations(Tasks) \cup Permutations(Keys)
=============================================================================
