--------------------------- MODULE MCPacedSender ---------------------------
(* PacedSender for TLC. *)
EXTENDS PacedSender
=============================================================================
