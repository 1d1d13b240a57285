---------------------------- MODULE MCTokenCache ----------------------------
(* TokenCache with two tasks.                                              *)
EXTENDS TokenCache, TLC

CONSTANTS t1, t2

Symmetry == Permutations(Task)
=============================================================================
