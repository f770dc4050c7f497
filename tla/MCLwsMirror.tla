---------------------------- MODULE MCLwsMirror ----------------------------
(* TLC instances of LwsMirror.                                             *)
EXTENDS LwsMirror, TLC

(* The connections are interchangeable.                                    *)
Symmetry == Permutations(Sessions)
=============================================================================
