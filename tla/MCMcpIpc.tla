------------------------------ MODULE MCMcpIpc ------------------------------
(***************************************************************************)
(* An instance of McpIpc for TLC: an agent that is continued once, whose   *)
(* first run makes both calls.                                             *)
(***************************************************************************)
EXTENDS McpIpc, TLC

CONSTANTS a1, c1, c2

Owners == c1 :> <<a1, 1>> @@ c2 :> <<a1, 1>>
=============================================================================
