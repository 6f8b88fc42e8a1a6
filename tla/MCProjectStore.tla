--------------------------- MODULE MCProjectStore ---------------------------
(* Instances of ProjectStore for TLC; the constants are given in the .cfg.  *)
EXTENDS ProjectStore, TLC

\* Fragment identifiers are interchangeable.
Symmetry == Permutations(Fragment)

=============================================================================
