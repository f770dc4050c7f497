----------------------------- MODULE MCLwsStatus -----------------------------
(* TLC instances of LwsStatus.                                             *)
EXTENDS LwsStatus, TLC

(* The addresses are interchangeable.                                      *)
Symmetry == Permutations(Sessions)
=============================================================================
