------------------------------- MODULE MCP2P -------------------------------
(***************************************************************************)
(* Two nodes with up to two connections, for TLC.                          *)
(***************************************************************************)
EXTENDS P2P

CONSTANTS v1, v2, c1, c2
=============================================================================
