-------------------------- MODULE MCServerProcess --------------------------
(* The server process for TLC. *)
EXTENDS ServerProcess

=============================================================================
