-------------------------- MODULE MCFlightRegistry --------------------------
(* Model values and symmetry for FlightRegistry. *)
EXTENDS FlightRegistry, TLC

Symmetry == Permutations(Calls) \cup Permutations(Prints) \cup Permutations(Idents)
=============================================================================
