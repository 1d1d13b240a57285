---------------------------- MODULE MCWorkspace ----------------------------
(* Workspace with two workspaces on one machine.                           *)
EXTENDS Workspace, TLC

CONSTANTS w1, w2, p1, p2

Symmetry == Permutations(Port)
=============================================================================
