---------------------------- MODULE MCDiscovery ----------------------------
(* Model values and symmetry for Discovery. *)
EXTENDS Discovery, TLC

Symmetry == Permutations(Names) \cup Permutations(Calls) \cup Permutations(Keys)
=============================================================================
