----------------------------- MODULE MCSandbox -----------------------------
(* Sandbox with a few requests.                                            *)
EXTENDS Sandbox, TLC

CONSTANTS s1, r1, r2, k1, k2

\* What the templates of sandbox-eval render with an ingress domain.
MCRendered == Kinds

Symmetry == Permutations(Request) \cup Permutations(Key)
=============================================================================
