---------------------------- MODULE MCTaskDomain ----------------------------
(* Model-checking instances of TaskDomain. *)
EXTENDS TaskDomain, TLC

CONSTANTS t1, t2, t3, p1, p2, e1, b1, b2

(* Task and Project identities are interchangeable: no command orders them. *)
Symmetry == Permutations(Tasks) \cup Permutations(Projects)
=============================================================================
