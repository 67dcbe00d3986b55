--------------------------- MODULE MCHelmRelease ---------------------------
(* Values for checking HelmRelease with TLC. *)
EXTENDS HelmRelease, TLC

CONSTANTS o1, o2, w1, w2

Symmetry == Permutations({o1, o2})
=============================================================================
