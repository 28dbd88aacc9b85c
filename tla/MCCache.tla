------------------------------ MODULE MCCache ------------------------------
(* Two processes on one cache directory; their names do not matter. *)
EXTENDS Cache, TLC

Symmetry == Permutations(Processes)
=============================================================================
