-------------------------- MODULE MCOrphanCleanup --------------------------
(* OrphanCleanup with one sandbox.                                         *)
EXTENDS OrphanCleanup, TLC

CONSTANTS s1, k1, k2

Symmetry == Permutations(Key)
=============================================================================
