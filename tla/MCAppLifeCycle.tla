--------------------------- MODULE MCAppLifeCycle ---------------------------
(* The life of the application for TLC. *)
EXTENDS AppLifeCycle

=============================================================================
