--------------------------- MODULE MCReliableLoop ---------------------------
(* Model-checking instances of ReliableLoop. *)
EXTENDS ReliableLoop, TLC

CONSTANTS w1, w2, o1, o2

(* Processes and owner identities are interchangeable. *)
Symmetry == Permutations(Workers) \cup Permutations(Owners)
=============================================================================
