------------------------------ MODULE McpCall ------------------------------
(***************************************************************************)
(* What a transport promises about a call of an MCP tool, whatever carries *)
(* it: the server takes it up at most once, its caller is told at most one *)
(* thing, an answer is the server's, and a call does not stay open.  A     *)
(* caller that was told of a failure, or left, learns nothing about        *)
(* whether the call ran.                                                   *)
(***************************************************************************)
EXTENDS Naturals

CONSTANT Calls

VARIABLES
  told,  \* [Calls -> ...]  what the caller knows
  runs   \* [Calls -> Nat]  times the server took the call up

vars == <<told, runs>>

Init ==
  /\ told = [c \in Calls |-> "unasked"]
  /\ runs = [c \in Calls |-> 0]

Tell(c, from, what) == told[c] = from /\ told' = [told EXCEPT ![c] = what]

Ask(c) == Tell(c, "unasked", "open") /\ UNCHANGED runs

Run(c) ==
  /\ told[c] # "unasked" /\ runs[c] = 0
  /\ runs' = [runs EXCEPT ![c] = 1]
  /\ UNCHANGED told

Answer(c) == runs[c] = 1 /\ Tell(c, "open", "answer") /\ UNCHANGED runs

\* A refusal, a timeout, a dead server; or the caller leaves.  Failures of
\* several calls may be told in one step.
Fail ==
  /\ \E gone \in SUBSET {c \in Calls : told[c] \in {"unasked", "open"}} :
       told' = [c \in Calls |-> IF c \in gone THEN "failure" ELSE told[c]]
  /\ UNCHANGED runs

Next == Fail \/ \E c \in Calls : Ask(c) \/ Run(c) \/ Answer(c)

\* A call that was asked for is not open for ever.
EveryCallEnds == \A c \in Calls : told[c] = "open" ~> told[c] # "open"

Safe == Init /\ [][Next]_vars
Spec == Safe /\ EveryCallEnds
=============================================================================
