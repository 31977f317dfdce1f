----------------------------- MODULE MCWorktrees -----------------------------
\* Two agents whose worktrees end at once.
EXTENDS Worktrees, TLC

CONSTANTS a1, a2, i1, i2

Symmetry == Permutations({a1, a2}) \cup Permutations({i1, i2})
=============================================================================
