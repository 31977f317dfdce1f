------------------------------ MODULE Worktrees ------------------------------
(***************************************************************************)
(* Agents dispatched with isolation: "worktree" (worktree.rs): each works  *)
(* in a git worktree on a branch of its own, and when its run ends what it *)
(* did is committed, merged into the main tree, and the worktree removed.  *)
(* `finish` is a sequence of git commands on a blocking thread; other      *)
(* agents' threads, the user and the agent itself use the same repository  *)
(* meanwhile.  A run that is stopped while its own finish is awaited gets  *)
(* a second one, StateGuard's (tool/agent.rs), beside the first.           *)
(*                                                                         *)
(* git is external: a command is one step, with the outcomes it can have.  *)
(* A file an agent writes or a commit it makes is an item of work.         *)
(***************************************************************************)
EXTENDS FiniteSets

CONSTANTS
  Agents,
  Items      \* the work an agent may do

VARIABLES
  worker,     \* [Agents -> ...]           "none", "up" or "gone"
  trees,     \* SUBSET Agents             whose worktree is there
  branches,  \* SUBSET Agents             whose branch is there
  detached,  \* SUBSET Agents             whose worktree's HEAD left the branch
  edits,     \* [Agents -> SUBSET Items]  uncommitted, in the worktree
  commits,   \* [Agents -> SUBSET Items]  committed on the branch, after its base
  stray,     \* [Agents -> SUBSET Items]  committed off the branch
  done,      \* [Agents -> SUBSET Items]  all of the agent's work
  main,      \* [Agents -> SUBSET Items]  what the main tree has of it
  merging,   \* the merge the main tree is in the middle of: of a finish, "user" or "none"
  at,        \* [Finishes -> ...]         where a finish is
  outcome    \* [Finishes -> ...]         WorktreeOutcome

\* run_body's own finish of an agent, and that of StateGuard::drop.
Finishes == Agents \X {"body", "drop"}

workVars == <<edits, commits, stray, done>>
repoVars == <<trees, branches, detached, main, merging>>
worktreeVars == <<worker, repoVars, workVars, at, outcome>>

Outcomes == {"removed", "merged", "conflict", "error"}

WorktreeTypeOK ==
  /\ worker \in [Agents -> {"none", "up", "gone"}]
  /\ {trees, branches, detached} \subseteq SUBSET Agents
  /\ {edits, commits, stray, done, main} \subseteq [Agents -> SUBSET Items]
  /\ merging \in Finishes \cup {<<"none">>, <<"user">>}
  /\ at \in [Finishes -> {"none", "status", "commit", "count", "merge", "abort", "remove",
                          "delete", "over", "dead"}]
  /\ outcome \in [Finishes -> Outcomes \cup {"none"}]
  /\ \A f \in Finishes : at[f] = "over" => outcome[f] # "none"

Nobody == <<"none">>
User == <<"user">>

WorktreeInit ==
  /\ worker = [a \in Agents |-> "none"]
  /\ trees = {} /\ branches = {} /\ detached = {}
  /\ edits = [a \in Agents |-> {}] /\ commits = edits /\ stray = edits /\ done = edits
  /\ main = edits
  /\ merging = Nobody
  /\ at = [f \in Finishes |-> "none"] /\ outcome = [f \in Finishes |-> "none"]

-----------------------------------------------------------------------------
(***************************************************************************)
(* Plausible mistakes in definitions below, each named for one of them;    *)
(* Spec uses none.                                                         *)
(***************************************************************************)
\* The worktree is not looked at before it is removed.
CarelessNextAfterStatus(a) == "count"

\* A merge that failed counts as one that had nothing to do.
HopefulNextAfterFailure(f) == "remove"

\* The merge is left as it is.
UnabortedCleared(f) == merging

-----------------------------------------------------------------------------
Proceed(f, place) == at' = [at EXCEPT ![f] = place]
Under(f, places) == at[f] \in places

\* Where a commit made in the worktree goes.
CommitEdits(a) ==
  /\ edits' = [edits EXCEPT ![a] = {}]
  /\ IF a \in detached
     THEN stray' = [stray EXCEPT ![a] = @ \cup edits[a]] /\ UNCHANGED commits
     ELSE commits' = [commits EXCEPT ![a] = @ \cup edits[a]] /\ UNCHANGED stray
  /\ UNCHANGED done

-----------------------------------------------------------------------------
(***************************************************************************)
(* The agents.                                                             *)
(***************************************************************************)

\* `create`, and the child is started in the worktree.
Create(a) ==
  /\ worker[a] = "none"
  /\ worker' = [worker EXCEPT ![a] = "up"]
  /\ trees' = trees \cup {a} /\ branches' = branches \cup {a}
  /\ UNCHANGED <<detached, main, merging, workVars, at, outcome>>

Edit(a, i) ==
  /\ worker[a] = "up" /\ i \notin done[a]
  /\ edits' = [edits EXCEPT ![a] = @ \cup {i}]
  /\ done' = [done EXCEPT ![a] = @ \cup {i}]
  /\ UNCHANGED <<worker, repoVars, commits, stray, at, outcome>>

\* It may use git itself: to commit, or to check out something else.
Commit(a) ==
  /\ worker[a] = "up" /\ edits[a] # {}
  /\ CommitEdits(a)
  /\ UNCHANGED <<worker, repoVars, at, outcome>>

Detach(a) ==
  /\ worker[a] = "up"
  /\ detached' = detached \cup {a}
  /\ UNCHANGED <<worker, trees, branches, main, merging, workVars, at, outcome>>

\* run_body finishes the worktree whatever the child came to.
End(a) ==
  /\ worker[a] = "up"
  /\ worker' = [worker EXCEPT ![a] = "gone"]
  /\ Proceed(<<a, "body">>, "status")
  /\ UNCHANGED <<repoVars, workVars, outcome>>

\* So does StateGuard::drop, when the run is stopped while its child is up
\* (which is killed first) or while it awaits run_body's finish.
StopRun(a) ==
  /\ \/ worker[a] = "up"
     \/ at[<<a, "body">>] \notin {"none", "over", "dead"}
  /\ at[<<a, "drop">>] = "none"
  /\ worker' = [worker EXCEPT ![a] = "gone"]
  /\ Proceed(<<a, "drop">>, "status")
  /\ UNCHANGED <<repoVars, workVars, outcome>>

-----------------------------------------------------------------------------
(***************************************************************************)
(* The user, or an agent without a worktree, in the main tree.             *)
(***************************************************************************)
\* A merge with conflicts, and its conclusion once they are resolved.
UserMerges ==
  /\ merging = Nobody /\ merging' = User
  /\ UNCHANGED <<worker, trees, branches, detached, main, workVars, at, outcome>>

UserConcludes ==
  /\ merging = User /\ merging' = Nobody
  /\ UNCHANGED <<worker, trees, branches, detached, main, workVars, at, outcome>>

-----------------------------------------------------------------------------
(***************************************************************************)
(* finish, command by command; a is the agent of f.                        *)
(***************************************************************************)
Agent(f) == f[1]
HasTree(f) == Agent(f) \in trees
HasBranch(f) == Agent(f) \in branches

NextAfterStatus(a) == IF edits[a] # {} THEN "commit" ELSE "count"

Status(f) ==
  /\ Under(f, {"status"}) /\ HasTree(f)
  /\ Proceed(f, NextAfterStatus(Agent(f)))
  /\ UNCHANGED <<worker, repoVars, workVars, outcome>>

\* git add -A; git commit, of what there still is to commit.
AddAndCommit(f) ==
  /\ Under(f, {"commit"}) /\ HasTree(f) /\ edits[Agent(f)] # {}
  /\ CommitEdits(Agent(f))
  /\ Proceed(f, "count")
  /\ UNCHANGED <<worker, repoVars, outcome>>

\* git rev-list base..branch --count
Count(f) ==
  /\ Under(f, {"count"}) /\ HasTree(f) /\ HasBranch(f)
  /\ Proceed(f, IF commits[Agent(f)] = {} THEN "remove" ELSE "merge")
  /\ UNCHANGED <<worker, repoVars, workVars, outcome>>

Merge(f) ==
  /\ Under(f, {"merge"}) /\ merging = Nobody /\ HasBranch(f)
  /\ main' = [main EXCEPT ![Agent(f)] = @ \cup commits[Agent(f)]]
  /\ outcome' = [outcome EXCEPT ![f] = "merged"]
  /\ Proceed(f, "remove")
  /\ UNCHANGED <<worker, trees, branches, detached, merging, workVars>>

\* The merge fails: with conflicts, which leave it to be concluded, or before
\* it is begun: over changes the user has not committed, in the middle of
\* another merge, or while another command has the index.
NextAfterFailure(f) == "abort"

MergeConflicts(f) ==
  /\ Under(f, {"merge"}) /\ merging = Nobody /\ HasBranch(f)
  /\ ~(commits[Agent(f)] \subseteq main[Agent(f)])
  /\ merging' = f
  /\ Proceed(f, NextAfterFailure(f))
  /\ UNCHANGED <<worker, trees, branches, detached, main, workVars, outcome>>

MergeRefused(f) ==
  /\ Under(f, {"merge"})
  /\ Proceed(f, NextAfterFailure(f))
  /\ UNCHANGED <<worker, repoVars, workVars, outcome>>

\* git merge --abort, "ignore error if no merge was actually started"
Cleared(f) == Nobody

Abort(f) ==
  /\ Under(f, {"abort"})
  /\ merging' = Cleared(f)
  /\ outcome' = [outcome EXCEPT ![f] = "conflict"]
  /\ Proceed(f, "over")
  /\ UNCHANGED <<worker, trees, branches, detached, main, workVars>>

\* git worktree remove --force
Remove(f) ==
  /\ Under(f, {"remove"}) /\ HasTree(f)
  /\ trees' = trees \ {Agent(f)}
  /\ edits' = [edits EXCEPT ![Agent(f)] = {}]
  /\ Proceed(f, "delete")
  /\ UNCHANGED <<worker, branches, detached, main, merging, commits, stray, done, outcome>>

\* git branch -D
Delete(f) ==
  /\ Under(f, {"delete"}) /\ HasBranch(f)
  /\ branches' = branches \ {Agent(f)}
  /\ outcome' = IF outcome[f] = "merged" THEN outcome ELSE [outcome EXCEPT ![f] = "removed"]
  /\ Proceed(f, "over")
  /\ UNCHANGED <<worker, trees, detached, main, merging, workVars>>

\* Any other command may fail: on a hook, on a lock, because the agent's
\* other finish was there before.  After a merge a failure to clean up is not
\* an error.
Failed(f) == IF outcome[f] = "merged" THEN outcome ELSE [outcome EXCEPT ![f] = "error"]

CommandFails(f) ==
  /\ Under(f, {"status", "commit", "count", "remove", "delete"})
  /\ outcome' = Failed(f)
  /\ Proceed(f, "over")
  /\ UNCHANGED <<worker, repoVars, workVars>>

\* nanopi ends, or is killed, and its threads with it.
NanopiDies ==
  /\ at' = [f \in Finishes |-> IF at[f] = "none" THEN "none" ELSE "dead"]
  /\ at' # at
  /\ worker' = [a \in Agents |-> "gone"]
  /\ UNCHANGED <<repoVars, workVars, outcome>>

-----------------------------------------------------------------------------
AgentStep(a) ==
  \/ Create(a) \/ Commit(a) \/ Detach(a) \/ End(a) \/ StopRun(a)
  \/ \E i \in Items : Edit(a, i)
UserStep == UserMerges \/ UserConcludes
GitStep(f) ==
  \/ Status(f) \/ AddAndCommit(f) \/ Count(f)
  \/ Merge(f) \/ MergeConflicts(f) \/ MergeRefused(f) \/ Abort(f)
  \/ Remove(f) \/ Delete(f) \/ CommandFails(f)

WorktreeNext ==
  \/ \E a \in Agents : AgentStep(a)
  \/ \E f \in Finishes : GitStep(f)
  \/ UserStep \/ NanopiDies

WorktreeSpec == WorktreeInit /\ [][WorktreeNext]_worktreeVars

-----------------------------------------------------------------------------
(***************************************************************************)
(* Properties.                                                             *)
(***************************************************************************)

\* "partial work is never discarded" (tool/agent.rs:1721), whatever happens
\* to the merge, however many finishes there are, and wherever they are cut
\* short: every item of work is in the worktree, on the branch or in the main
\* tree.  Excepted is what was committed after the agent had its worktree
\* leave the branch: finish does not look there.
Safe(a) ==
  main[a] \cup (IF a \in trees THEN edits[a] ELSE {})
          \cup (IF a \in branches THEN commits[a] ELSE {})
WorkKept == \A a \in Agents : done[a] \subseteq Safe(a) \cup stray[a]

\* What the report says of the worktree is so: merged work is in the main
\* tree, an agent whose worktree was removed as unchanged has committed
\* nothing on its branch, and after a conflict branch and worktree are kept,
\* unless the agent's other finish merged them after all.
OutcomeTrue ==
  \A f \in Finishes :
    LET a == Agent(f) IN
    CASE outcome[f] = "merged"   -> commits[a] \subseteq main[a]
      [] outcome[f] = "removed"  -> commits[a] = {} /\ edits[a] = {}
      [] outcome[f] = "conflict" -> \/ a \in trees \cap branches
                                    \/ \E g \in Finishes : Agent(g) = a /\ outcome[g] = "merged"
      [] OTHER                   -> TRUE

\* The main tree is in the middle of an agent's merge only until the finish
\* that began it, and no other, has come to its abort, or nanopi has died.
NothingHalfMerged ==
  \A f \in Finishes : merging = f => at[f] \in {"abort", "dead"}

\* The main tree is left as a finish may leave it.
MainSound == WorktreeTypeOK /\ NothingHalfMerged

\* A finish aborts "whatever merge state resulted" from its own merge
\* (worktree.rs:257): the user's merge ends when the user concludes it.
UserMergeStays == [][merging = User /\ merging' # User => UserConcludes]_worktreeVars
=============================================================================
