----------------------------- MODULE MCBriefFile -----------------------------
\* Two messages to an agent without a worktree, one to an agent with one.
EXTENDS BriefFile

MCMessages == [w \in BOOLEAN |-> IF w THEN 1 ELSE 2]
=============================================================================
