--------------------------- MODULE MCModelRuntime ---------------------------
(* The model runtime with two models, for TLC. *)
EXTENDS ModelRuntime, TLC

Symmetry == Permutations(Switchers)

=============================================================================
