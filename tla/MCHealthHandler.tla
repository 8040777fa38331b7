-------------------------- MODULE MCHealthHandler --------------------------
(* Small instances of HealthHandler. *)
EXTENDS HealthHandler, TLC

Symmetry == Permutations(Requests) \cup Permutations(Users)
=============================================================================
