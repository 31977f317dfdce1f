-------------------------- MODULE MCAgentRegistry --------------------------
(***************************************************************************)
(* Instances of AgentRegistry for TLC.                                     *)
(***************************************************************************)
EXTENDS AgentRegistry, TLC

CONSTANTS a1, a2, c1, c2

TwoAgents == {a1, a2}
OneAgent == {a1}
OneCaller == {c1}
TwoCallers == {c1, c2}

CallerSymmetry == Permutations({c1, c2})

\* The behaviours in which nanopi does not quit: once it does, little is
\* promised to the calls and tasks it leaves behind.
StayingNext == Next /\ ~closed'
StayingSpec == Init /\ [][StayingNext]_vars
FairStayingSpec == StayingSpec /\ Fairness
=============================================================================
