---------------------------- MODULE MCDataFiles ----------------------------
(* The data files for TLC. *)
EXTENDS DataFiles

=============================================================================
