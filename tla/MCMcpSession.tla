---------------------------- MODULE MCMcpSession ----------------------------
(***************************************************************************)
(* Instances of McpSession for TLC.                                        *)
(***************************************************************************)
EXTENDS McpSession

CONSTANTS c1, c2
=============================================================================
