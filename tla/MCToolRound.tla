----------------------------- MODULE MCToolRound ----------------------------
(* Tool rounds for TLC. *)
EXTENDS ToolRound

=============================================================================
