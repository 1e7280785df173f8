-------------------------------- MODULE MCMm --------------------------------
(* Guest memory for TLC: a program break and mappings that can meet.       *)
EXTENDS UserCopy, TLC

(* Host mappings are interchangeable.                                      *)
Symmetry == Permutations(Objs)
=============================================================================
