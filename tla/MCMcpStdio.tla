----------------------------- MODULE MCMcpStdio -----------------------------
(***************************************************************************)
(* An instance of McpStdio for TLC.                                        *)
(***************************************************************************)
EXTENDS McpStdio

CONSTANTS c1, c2
=============================================================================
