--------------------------- MODULE MCBackendInstall -------------------------
(* The installation of backends for TLC. *)
EXTENDS BackendInstall

=============================================================================
