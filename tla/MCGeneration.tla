---------------------------- MODULE MCGeneration ----------------------------
(* The generation slot for TLC: requests are interchangeable. *)
EXTENDS Generation, TLC

Symmetry == Permutations(Requests)

=============================================================================
