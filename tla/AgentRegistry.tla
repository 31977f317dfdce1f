--------------------------- MODULE AgentRegistry ---------------------------
(***************************************************************************)
(* The parent's bookkeeping of the `nanopi -p` children it dispatches:     *)
(* agent_registry.rs (entries, max_live, the concurrency semaphore, the    *)
(* background map, stop, reactivate, kill_all) together with the dispatch  *)
(* it serves in tool/agent.rs (prepare_run, run_body and its StateGuard,   *)
(* McpGrant and ChildGuard, spawn_tracked, spawn_continue_background) and  *)
(* the control tools of tool/agent_ctl.rs (stop_agent, send_message).      *)
(*                                                                         *)
(* Threads of the model:                                                   *)
(*   callers  what the parent does about agents: an `agent` dispatch, a    *)
(*            send_message, a stop (tool, `/agents stop` or Ctrl-C), the   *)
(*            drain at the end of a -p run; each a sequence of lock        *)
(*            sections;                                                    *)
(*   runs     one per launch of an agent: <<a, 1>> is its dispatch,        *)
(*            <<a, 2>> its first continuation, and so on.  A run is driven *)
(*            by a task of its own (kind "task") or by the call awaiting   *)
(*            it (kind "owned");                                           *)
(*   children the processes.                                               *)
(*                                                                         *)
(* Everything between two awaits of a task is one poll, but other worker   *)
(* threads run meanwhile, so a poll is split wherever another thread can   *)
(* see its middle (a registry lock released, a process started).  A        *)
(* cancelled token is noticed only where the code awaits.                  *)
(***************************************************************************)
EXTENDS Naturals, FiniteSets

CONSTANTS
  Agents,          \* agent ids
  Callers,         \* tool calls (and other users of the registry) at once
  Isolated,        \* the agents dispatched with isolation: "worktree"
  MaxLaunches,     \* bound: dispatches and continuations, of all agents together
  MaxLive,         \* AgentConfig::max_live
  MaxConcurrency   \* AgentConfig::max_concurrency

ASSUME RegistryAssumption ==
  /\ IsFiniteSet(Agents)
  /\ Agents # {}
  /\ Isolated \subseteq Agents
  /\ MaxLaunches \in Nat \ {0}
  /\ MaxLive \in Nat
  /\ MaxConcurrency \in Nat \ {0}

Gens == 1 .. MaxLaunches
Runs == Agents \X Gens

\* AgentState; "absent" is an id not in `entries`, "done" stands for
\* Completed and LimitReached, which nothing here tells apart.  Interrupted
\* is only ever found on disk by a later process.
Terminal == {"done", "failed", "stopped"}
AgentState == Terminal \cup {"absent", "queued", "running"}
Live(s) == s \in {"queued", "running"}

VARIABLES
  \* --- AgentRegistry
  state,       \* [Agents -> AgentState]      AgentEntry::state
  pid,         \* [Agents -> 0 .. MaxLaunches] AgentEntry::pid: the run whose child it names, 0 = None
  background,  \* [Agents -> 0 .. MaxLaunches] `background`: the run whose handle and token it holds
  holders,     \* SUBSET Runs                 runs holding a permit of the semaphore
  closed,      \* BOOLEAN                     kill_all has been called
  \* --- runs and their children
  pc,          \* [Runs -> RunPc]             where the run is
  kind,        \* [Runs -> ...]               "task", "owned", or "unpolled": run_body never began
  token,       \* SUBSET Runs                 runs whose CancellationToken was cancelled
  child,       \* [Runs -> ...]               its process, until it is reaped
  outcome,     \* [Runs -> AgentState]        what run_body settled on, then what it will report
  \* --- shared with other components
  grants,      \* [Agents -> 0 .. MaxLaunches] IpcServer grants: the run that was granted, 0 = none
  reports,     \* SUBSET Agents               agents with a report.md
  \* --- callers
  call         \* [Callers -> Call]           the locals of each call

regVars == <<state, pid, background, holders, closed>>
runVars == <<pc, kind, token, child, outcome>>
outVars == <<grants, reports>>
vars == <<regVars, runVars, outVars, call>>

RunPc == {"none", "new", "spawned", "queued", "launching", "launched",
          "running", "closing", "dropping", "settled", "reporting", "over"}

\* A run that owns its agent: from reserve/reactivate to its last set_state.
Owning == {"new", "spawned", "queued", "launching", "launched", "running",
           "closing", "dropping"}

CallPc == {"idle", "checked", "reserved", "tracking", "stopping", "stopped",
           "waiting", "amended", "draining"}

\* Where a call is, the agent it is about (run[1]) and the run it prepares
\* or, in `stop`, the run whose pid it read (run[2], 0 = None), and the
\* JoinHandles it awaits.
NoRun == <<"none", 0>>
CallRun == (Agents \cup {"none"}) \X (0 .. MaxLaunches)
Call == [at : CallPc, run : CallRun, waits : SUBSET Runs]
Idle == [at |-> "idle", run |-> NoRun, waits |-> {}]

TypeOK ==
  /\ state \in [Agents -> AgentState]
  /\ pid \in [Agents -> 0 .. MaxLaunches]
  /\ background \in [Agents -> 0 .. MaxLaunches]
  /\ holders \in SUBSET Runs
  /\ closed \in BOOLEAN
  /\ pc \in [Runs -> RunPc]
  /\ kind \in [Runs -> {"task", "owned", "unpolled"}]
  /\ token \in SUBSET Runs
  /\ child \in [Runs -> {"none", "alive", "killed", "done", "failed"}]
  /\ outcome \in [Runs -> AgentState]
  /\ grants \in [Agents -> 0 .. MaxLaunches]
  /\ reports \in SUBSET Agents
  /\ call \in [Callers -> Call]

Init ==
  /\ state = [a \in Agents |-> "absent"]
  /\ pid = [a \in Agents |-> 0]
  /\ background = [a \in Agents |-> 0]
  /\ holders = {}
  /\ closed = FALSE
  /\ pc = [r \in Runs |-> "none"]
  /\ kind = [r \in Runs |-> "task"]
  /\ token = {}
  /\ child = [r \in Runs |-> "none"]
  /\ outcome = [r \in Runs |-> "absent"]
  /\ grants = [a \in Agents |-> 0]
  /\ reports = {}
  /\ call = [c \in Callers |-> Idle]

-----------------------------------------------------------------------------
(***************************************************************************)
(* Mutants: what the code might have done wrong.  Each replaces the        *)
(* definition its name ends with, and breaks a property.                   *)
(***************************************************************************)
OffByOnePermitFree == Cardinality(holders) <= MaxConcurrency
LeakedReleased(r) == holders
StartedTrackedRun(a) == {r \in {<<a, background[a]>>} \cap Runs : child[r] = "alive"}
DisarmedReaped(r) == child
UncheckedReactivatable(a) == state[a] # "absent"
OnlyStartedWithState(a, s) ==
  [state EXCEPT ![a] = IF s \in Terminal /\ pid[a] = 0 THEN @ ELSE s]
LateDoneAtAwait(a, g) == pc[<<a, g>>] \in {"queued", "running", "settled"}

-----------------------------------------------------------------------------
(***************************************************************************)
(* Parts of several operations.                                            *)
(***************************************************************************)

At(c, place) == call[c].at = place
GoTo(c, place) == call' = [call EXCEPT ![c].at = place]
Return(c) == call' = [call EXCEPT ![c] = Idle]

\* The drain comes after the last turn of a -p run: no tool call is in
\* progress then, and none starts; only Ctrl-C may still come.  While nanopi
\* exits, what is in flight runs on; that nothing else begins is a bound of
\* the model (reserve alone checks `closed`).
Draining == \E c \in Callers : At(c, "draining")

LiveAgents == {a \in Agents : Live(state[a])}

\* The launches so far; an agent's are numbered from 1.
Launched == {r \in Runs : pc[r] # "none"}
IsNextRun(r) == pc[r] = "none" /\ \A g \in 1 .. (r[2] - 1) : pc[<<r[1], g>>] # "none"

\* AgentRegistry::set_state, and reactivate's e.pid = None.
WithState(a, s) == [state EXCEPT ![a] = s]
PidCleared(a) == [pid EXCEPT ![a] = 0]

\* An idle permit of the semaphore, and its return.
PermitFree == Cardinality(holders) < MaxConcurrency
Released(r) == holders \ {r}

\* SIGKILL to process groups; one that is gone is not an error.
Killed(R) == [r \in Runs |-> IF r \in R /\ child[r] = "alive" THEN "killed" ELSE child[r]]

\* ChildGuard: no process is left when the collecting future returns or is
\* dropped.
Reaped(r) == [child EXCEPT ![r] = "none"]

\* McpGrant::drop.
Revoked(a) == [grants EXCEPT ![a] = 0]

\* ensure_report: writes a report.md where there is none.
Ensured(a) == reports \cup {a}

\* The runs whose task has ended.
Over == {r \in Runs : pc[r] = "over"}

\* The run whose handle and token `background` holds for an agent, if any.
TrackedRun(a) == {<<a, g>> : g \in {background[a]} \ {0}}

-----------------------------------------------------------------------------
(***************************************************************************)
(* Dispatch: reserve, prepare_run, then spawn_tracked or run_single.       *)
(***************************************************************************)

\* `reserve` reads `closed` before it takes the entries lock.
ReserveCheck(c) ==
  /\ At(c, "idle")
  /\ ~Draining
  /\ ~closed
  /\ GoTo(c, "checked")
  /\ UNCHANGED <<regVars, runVars, outVars>>

\* The rest of `reserve`, under the lock: the max_live check, a fresh id,
\* its directory, a Queued entry.
Reserve(c, a) ==
  /\ At(c, "checked")
  /\ Cardinality(LiveAgents) < MaxLive
  /\ state[a] = "absent"
  /\ Cardinality(Launched) < MaxLaunches
  /\ state' = [state EXCEPT ![a] = "queued"]
  /\ pc' = [pc EXCEPT ![<<a, 1>>] = "new"]
  /\ call' = [call EXCEPT ![c].at = "reserved", ![c].run = <<a, 1>>]
  /\ UNCHANGED <<pid, background, holders, closed, kind, token, child,
                 outcome, outVars>>

\* The limit is reached, or the directory cannot be made: a soft error,
\* nothing reserved.
ReserveRefused(c) ==
  /\ At(c, "checked")
  /\ Return(c)
  /\ UNCHANGED <<regVars, runVars, outVars>>

\* prepare_run cannot write brief.md: a report saying so, Failed, no task.
BriefFailed(c) ==
  LET r == call[c].run IN
  /\ At(c, "reserved")
  /\ r[2] = 1
  /\ reports' = Ensured(r[1])
  /\ state' = WithState(r[1], "failed")
  /\ pc' = [pc EXCEPT ![r] = "over"]
  /\ Return(c)
  /\ UNCHANGED <<pid, background, holders, closed, kind, token, child,
                 outcome, grants>>

\* tokio::spawn in spawn_tracked and spawn_continue_background.  The handle
\* and the token enter `background` only afterwards, in Track.
SpawnTask(c) ==
  /\ At(c, "reserved")
  /\ pc' = [pc EXCEPT ![call[c].run] = "spawned"]
  /\ GoTo(c, "tracking")
  /\ UNCHANGED <<regVars, kind, token, child, outcome, outVars>>

\* track_background: a map insert, replacing an earlier run's entry.
Track(c) ==
  LET r == call[c].run IN
  /\ At(c, "tracking")
  /\ background' = [background EXCEPT ![r[1]] = r[2]]
  /\ Return(c)
  /\ UNCHANGED <<state, pid, holders, closed, runVars, outVars>>

\* run_single: run_body is polled by the call that awaits it.
RunOwned(c) ==
  LET r == call[c].run IN
  /\ At(c, "reserved")
  /\ r[2] = 1
  /\ kind' = [kind EXCEPT ![r] = "owned"]
  /\ pc' = [pc EXCEPT ![r] = "queued"]
  /\ Return(c)
  /\ UNCHANGED <<regVars, token, child, outcome, outVars>>

-----------------------------------------------------------------------------
(***************************************************************************)
(* run_body, one action per piece of a poll that others can observe.       *)
(***************************************************************************)

\* The task's first poll.  The select is biased: an already cancelled token
\* wins before run_body is ever polled, so no StateGuard exists and nothing
\* sets the state or writes a report.
FirstPoll(a, g) ==
  LET r == <<a, g>> IN
  /\ pc[r] = "spawned"
  /\ IF r \in token
       THEN /\ pc' = [pc EXCEPT ![r] = "reporting"]
            /\ outcome' = [outcome EXCEPT ![r] = "stopped"]
            /\ kind' = [kind EXCEPT ![r] = "unpolled"]
       ELSE /\ pc' = [pc EXCEPT ![r] = "queued"]
            /\ UNCHANGED <<outcome, kind>>
  /\ UNCHANGED <<regVars, token, child, outVars, call>>

\* acquire_run returns a permit; set_state(Running).
AcquireRun(a, g) ==
  LET r == <<a, g>> IN
  /\ pc[r] = "queued"
  /\ PermitFree
  /\ holders' = holders \cup {r}
  /\ state' = WithState(a, "running")
  /\ pc' = [pc EXCEPT ![r] = "launching"]
  /\ UNCHANGED <<pid, background, closed, kind, token, child, outcome,
                 outVars, call>>

\* McpGrant::acquire, then the process is started.
Launch(a, g) ==
  LET r == <<a, g>> IN
  /\ pc[r] = "launching"
  /\ grants' = [grants EXCEPT ![a] = g]
  /\ child' = [child EXCEPT ![r] = "alive"]
  /\ pc' = [pc EXCEPT ![r] = "launched"]
  /\ UNCHANGED <<regVars, kind, token, outcome, reports, call>>

\* The process cannot be started: the grant is dropped again, ensure_report
\* writes the failure.
LaunchFailed(a, g) ==
  LET r == <<a, g>> IN
  /\ pc[r] = "launching"
  /\ outcome' = [outcome EXCEPT ![r] = "failed"]
  /\ grants' = Revoked(a)
  /\ reports' = Ensured(a)
  /\ pc' = [pc EXCEPT ![r] = "closing"]
  /\ UNCHANGED <<regVars, kind, token, child, call>>

\* on_pid: set_pid and grant.bind.
SetPid(a, g) ==
  /\ pc[<<a, g>>] = "launched"
  /\ pid' = [pid EXCEPT ![a] = g]
  /\ pc' = [pc EXCEPT ![<<a, g>>] = "running"]
  /\ UNCHANGED <<state, background, holders, closed, kind, token, child,
                 outcome, outVars, call>>

\* The child ends by itself; its report.md is its last act, which a crash
\* may skip.
ChildExit(a, g, end, wrote) ==
  /\ child[<<a, g>>] = "alive"
  /\ end = "done" => wrote
  /\ child' = [child EXCEPT ![<<a, g>>] = end]
  /\ reports' = IF wrote THEN reports \cup {a} ELSE reports
  /\ UNCHANGED <<regVars, pc, kind, token, outcome, grants, call>>

\* spawn_and_collect_with returns (the child is gone, or timed out and its
\* group killed); the grant is dropped, then ensure_report.
Collect(a, g) ==
  LET r == <<a, g>> IN
  /\ pc[r] = "running"
  /\ outcome' = [outcome EXCEPT ![r] = IF child[r] = "done" THEN "done" ELSE "failed"]
  /\ child' = Reaped(r)
  /\ grants' = Revoked(a)
  /\ reports' = Ensured(a)
  /\ pc' = [pc EXCEPT ![r] = "closing"]
  /\ UNCHANGED <<regVars, kind, token, call>>

\* The last set_state (after the worktree, when there is one, is finished).
SetTerminal(a, g) ==
  LET r == <<a, g>> IN
  /\ pc[r] = "closing"
  /\ state' = WithState(a, outcome[r])
  /\ pc' = [pc EXCEPT ![r] = "settled"]
  /\ UNCHANGED <<pid, background, holders, closed, kind, token, child,
                 outcome, outVars, call>>

\* A run whose result has been handed over.
Ended(r) ==
  /\ pc' = [pc EXCEPT ![r] = "over"]
  /\ outcome' = [outcome EXCEPT ![r] = "absent"]
  /\ token' = token \ {r}

\* run_body returns and its permit is released.  A tracked task then looks
\* its agent's state up again, in a snapshot; an owned run just returns.
ReadFinal(a, g) ==
  LET r == <<a, g>> IN
  /\ pc[r] = "settled"
  /\ holders' = Released(r)
  /\ IF kind[r] = "task"
       THEN /\ outcome' = [outcome EXCEPT ![r] = state[a]]
            /\ pc' = [pc EXCEPT ![r] = "reporting"]
            /\ UNCHANGED token
       ELSE Ended(r)
  /\ UNCHANGED <<state, pid, background, closed, kind, child, outVars, call>>

\* The task reads report.md (a continuation first merges it behind the
\* previous report), hands over its entry and ends.
Deliver(a, g) ==
  /\ pc[<<a, g>>] = "reporting"
  /\ Ended(<<a, g>>)
  /\ UNCHANGED <<regVars, kind, child, outVars, call>>

(***************************************************************************)
(* Dropping run_body: a cancelled token noticed at an await, or an owned   *)
(* run whose caller was dropped.  Locals go in reverse order: the          *)
(* collecting future (its ChildGuard kills the group), the grant, the      *)
(* permit, and last the StateGuard.                                        *)
(***************************************************************************)
AtAwait(a, g) ==
  \/ pc[<<a, g>>] \in {"queued", "running"}
  \/ pc[<<a, g>>] = "closing" /\ g = 1 /\ a \in Isolated   \* a continuation has no worktree

DropRun(a, g) ==
  LET r == <<a, g>> IN
  /\ AtAwait(a, g)
  /\ kind[r] = "owned" \/ r \in token
  /\ child' = Reaped(r)
  /\ grants' = IF pc[r] = "running" THEN Revoked(a) ELSE grants
  /\ holders' = Released(r)
  /\ pc' = [pc EXCEPT ![r] = "dropping"]
  /\ UNCHANGED <<state, pid, background, closed, kind, token, outcome,
                 reports, call>>

\* StateGuard::drop: ensure_report, then set_state(Stopped).
DropGuard(a, g) ==
  LET r == <<a, g>> IN
  /\ pc[r] = "dropping"
  /\ reports' = Ensured(a)
  /\ state' = WithState(a, "stopped")
  /\ IF kind[r] = "task"
       THEN /\ outcome' = [outcome EXCEPT ![r] = "stopped"]
            /\ pc' = [pc EXCEPT ![r] = "reporting"]
            /\ UNCHANGED token
       ELSE Ended(r)
  /\ UNCHANGED <<pid, background, holders, closed, kind, child, grants, call>>

-----------------------------------------------------------------------------
(***************************************************************************)
(* AgentRegistry::stop, used by stop_agent, /agents stop and Ctrl-C (whose *)
(* stop_all is one stop per live id).  Only stop_agent waits.              *)
(***************************************************************************)

\* Under the entries lock: refuse a finished id, read the pid.
StopLook(c, a) ==
  /\ At(c, "idle")
  /\ ~closed
  /\ Live(state[a])
  /\ call' = [call EXCEPT ![c].at = "stopping", ![c].run = <<a, pid[a]>>]
  /\ UNCHANGED <<regVars, runVars, outVars>>

\* The token of whatever run is tracked now is cancelled (a task that has
\* ended does not care); the group whose pid was read is killed.  /agents
\* stop and Ctrl-C return, stop_agent goes on to wait.
StopAct(c, wait) ==
  /\ At(c, "stopping")
  /\ wait => ~Draining
  /\ token' = token \cup (TrackedRun(call[c].run[1]) \ Over)
  /\ child' = Killed({call[c].run})
  /\ IF wait THEN GoTo(c, "stopped") ELSE Return(c)
  /\ UNCHANGED <<regVars, pc, kind, outcome, outVars>>

\* stop_agent: wait_stopped removes the handle, then awaits it.
StopWait(c) ==
  LET a == call[c].run[1] IN
  /\ At(c, "stopped")
  /\ background' = [background EXCEPT ![a] = 0]
  /\ call' = [call EXCEPT ![c].at = "waiting", ![c].waits = TrackedRun(a)]
  /\ UNCHANGED <<state, pid, holders, closed, runVars, outVars>>

StopDone(c) ==
  /\ At(c, "waiting")
  /\ call[c].waits \subseteq Over
  /\ Return(c)
  /\ UNCHANGED <<regVars, runVars, outVars>>

(***************************************************************************)
(* wait_background, at the end of a -p run: drain the map, await what was  *)
(* in it, and again until it is found empty.  Draining drops the tokens.   *)
(***************************************************************************)
DrainTake(c) ==
  /\ \/ At(c, "idle")
     \/ At(c, "draining") /\ call[c].waits \subseteq Over
  /\ \A d \in Callers \ {c} : call[d].at \in {"idle", "stopping"}
  /\ \E a \in Agents : background[a] # 0
  /\ background' = [a \in Agents |-> 0]
  /\ call' = [call EXCEPT ![c].at = "draining",
                          ![c].waits = UNION {TrackedRun(a) : a \in Agents}]
  /\ UNCHANGED <<state, pid, holders, closed, runVars, outVars>>

DrainDone(c) ==
  /\ At(c, "draining")
  /\ call[c].waits \subseteq Over
  /\ \A a \in Agents : background[a] = 0
  /\ Return(c)
  /\ UNCHANGED <<regVars, runVars, outVars>>

-----------------------------------------------------------------------------
(***************************************************************************)
(* send_message: a snapshot of the entry, an amendment to its brief, and,  *)
(* when the snapshot was terminal, a new run of the agent.                 *)
(***************************************************************************)
\* What a live agent gets is a line in its brief; its child reads that by
\* itself and nothing here changes.
MsgLook(c, a) ==
  /\ At(c, "idle")
  /\ ~Draining /\ ~closed
  /\ state[a] \in Terminal
  /\ Cardinality(Launched) < MaxLaunches
  /\ call' = [call EXCEPT ![c].at = "amended", ![c].run = <<a, 0>>]
  /\ UNCHANGED <<regVars, runVars, outVars>>

\* `reactivate` checks the state again, under the lock.
Reactivatable(a) == state[a] \in Terminal

MsgReactivate(c, g) ==
  LET a == call[c].run[1] IN
  /\ At(c, "amended")
  /\ Reactivatable(a)
  /\ IsNextRun(<<a, g>>)
  /\ Cardinality(Launched) < MaxLaunches
  /\ state' = [state EXCEPT ![a] = "queued"]
  /\ pid' = PidCleared(a)
  /\ pc' = [pc EXCEPT ![<<a, g>>] = "new"]
  /\ call' = [call EXCEPT ![c].at = "reserved", ![c].run = <<a, g>>]
  /\ UNCHANGED <<background, holders, closed, kind, token, child, outcome, outVars>>

MsgRefused(c) ==
  /\ At(c, "amended")
  /\ ~Reactivatable(call[c].run[1])
  /\ Return(c)
  /\ UNCHANGED <<regVars, runVars, outVars>>

-----------------------------------------------------------------------------
(***************************************************************************)
(* kill_all, on exit (the TUI calls it when run_app returns, main before   *)
(* it returns): `closed`, then one pass over the Running entries.  Setting *)
(* `closed` only makes ReserveCheck fail, so the two are one step.         *)
(***************************************************************************)
KillAll ==
  /\ closed' = TRUE
  /\ child' = Killed({<<a, pid[a]>> : a \in {b \in Agents : state[b] = "running"}})
  /\ state' = [a \in Agents |-> IF state[a] = "running" THEN "stopped" ELSE state[a]]
  /\ UNCHANGED <<pid, background, holders, pc, kind, token, outcome, outVars, call>>

-----------------------------------------------------------------------------
CallStep(c) ==
  \/ ReserveCheck(c) \/ ReserveRefused(c) \/ BriefFailed(c)
  \/ SpawnTask(c) \/ Track(c) \/ RunOwned(c)
  \/ StopWait(c) \/ StopDone(c)
  \/ DrainTake(c) \/ DrainDone(c)
  \/ MsgRefused(c)
  \/ \E g \in Gens : MsgReactivate(c, g)
  \/ \E wait \in BOOLEAN : StopAct(c, wait)
  \/ \E a \in Agents : Reserve(c, a) \/ StopLook(c, a) \/ MsgLook(c, a)

RunStep(a, g) ==
  \/ FirstPoll(a, g) \/ AcquireRun(a, g) \/ Launch(a, g) \/ LaunchFailed(a, g)
  \/ SetPid(a, g) \/ Collect(a, g) \/ SetTerminal(a, g) \/ ReadFinal(a, g)
  \/ Deliver(a, g) \/ DropRun(a, g) \/ DropGuard(a, g)
  \/ \E end \in {"done", "failed"}, wrote \in BOOLEAN : ChildExit(a, g, end, wrote)

Next ==
  \/ \E c \in Callers : CallStep(c)
  \/ \E a \in Agents, g \in Gens : RunStep(a, g)
  \/ KillAll

(***************************************************************************)
(* Fairness.  The runtime polls every woken task: a run that can step      *)
(* steps.  tokio's semaphore is FIFO, so a run that finds a permit free    *)
(* again and again gets one (SF).  Collect stands for a child that ends or *)
(* times out (timeout_secs is never 0); ChildExit itself is not fair.  A   *)
(* cancelled token is noticed at the next poll.  A call runs on between    *)
(* its awaits.                                                             *)
(***************************************************************************)
RunFairness(a, g) ==
  /\ WF_vars(FirstPoll(a, g) \/ Launch(a, g) \/ LaunchFailed(a, g) \/ SetPid(a, g)
             \/ Collect(a, g) \/ SetTerminal(a, g) \/ ReadFinal(a, g)
             \/ Deliver(a, g) \/ DropGuard(a, g))
  /\ WF_vars(<<a, g>> \in token /\ DropRun(a, g))
  /\ SF_vars(AcquireRun(a, g))

CallFairness(c) ==
  WF_vars(SpawnTask(c) \/ RunOwned(c) \/ Track(c) \/ StopAct(c, TRUE)
          \/ StopWait(c) \/ StopDone(c) \/ DrainDone(c)
          \/ (At(c, "draining") /\ DrainTake(c)))

Fairness ==
  /\ \A a \in Agents, g \in Gens : RunFairness(a, g)
  /\ \A c \in Callers : CallFairness(c)

Spec == Init /\ [][Next]_vars
FairSpec == Spec /\ Fairness

-----------------------------------------------------------------------------
(***************************************************************************)
(* Properties.                                                             *)
(***************************************************************************)

\* No more than max_concurrency children are ever alive: a permit outlives
\* its child on every path (exit, timeout, cancellation, kill_all).
Alive == {r \in Runs : child[r] = "alive"}
ConcurrencyBound == Cardinality(Alive) <= MaxConcurrency

\* At most one run of an agent is between reserve/reactivate and its final
\* set_state: two would share a directory, a transcript and a grant.  (After
\* kill_all has marked entries Stopped, a continuation may overlap.)
OneOwner ==
  closed \/ \A a \in Agents, g, h \in Gens :
    pc[<<a, g>>] \in Owning /\ pc[<<a, h>>] \in Owning => g = h

\* A child runs with the grant of its own launch, and no grant is left once
\* it has been collected: a continuation's fresh grant is never revoked by
\* the run before it (the order of run_body's drops).
GrantFollowsChild ==
  closed \/ \A a \in Agents, g \in Gens :
    (grants[a] = g) <=> (pc[<<a, g>>] \in {"launched", "running"})

\* An agent shown as finished has no process running, so that its directory
\* may be read, merged or continued.
FinishedHasNoChild ==
  closed \/ \A a \in Agents : state[a] \in Terminal => \A g \in Gens : <<a, g>> \notin Alive

\* D-04: whoever sees a finished state finds a report.md.
FinishedHasReport ==
  closed \/ \A a \in Agents : state[a] \in Terminal => a \in reports

\* A live entry (one that counts against max_live) has a run that is going
\* to end it; the exception is a run stopped before its first poll, which
\* StoppedEntryIsEnded is about.
LiveHasOwner ==
  \A a \in Agents : Live(state[a]) =>
    \E g \in Gens : pc[<<a, g>>] \in Owning \/ kind[<<a, g>>] = "unpolled"

\* No more children than permits, among entries that are well formed.
RegistrySound == TypeOK /\ ConcurrencyBound

\* A live entry is owned by one run, which alone uses the agent's directory
\* and its grant.
OwnedByOneRun == OneOwner /\ LiveHasOwner /\ GrantFollowsChild

\* Whoever sees an agent finished may read its report and continue it.
FinishedIsSettled == FinishedHasNoChild /\ FinishedHasReport

\* The state a report is delivered under is a finished one, unless the agent
\* has been continued meanwhile (it is read again after run_body returned).
\* (After kill_all two continuations of one agent may overlap, and the one
\* delivered last may find the other's "running".)
ReportedStateIsFinal ==
  closed \/ \A a \in Agents, g \in Gens :
    pc[<<a, g>>] = "reporting" => \/ outcome[<<a, g>>] \in Terminal
                                   \/ \E h \in Gens : h > g /\ pc[<<a, h>>] # "none"

\* A finished agent stays as it ended until send_message puts it back in the
\* queue (the state is what reports, the index and `/agents` show).
FinishedStays ==
  [][\A a \in Agents :
       state[a] \in Terminal /\ ~closed => state'[a] \in {state[a], "queued"}]_vars

\* stop() reaches the task of a dispatch that has been tracked, unless a wait
\* has taken its handle (and, with it, the token) out of the map: a stop_all
\* during the drain finds none to cancel.  (A continuation's handle can also be lost when the
\* insert of its own dispatch comes after it.)
Tracked(r) ==
  /\ kind[r] = "task"
  /\ pc[r] \in Owning \ {"new"}
  /\ \A c \in Callers : ~(At(c, "tracking") /\ call[c].run = r)

Taken(r) == \E c \in Callers : r \in call[c].waits
StopActs(c) == At(c, "stopping") /\ call'[c].at # "stopping"

StopReachesTask ==
  [][\A c \in Callers : LET r == <<call[c].run[1], 1>> IN
       StopActs(c) /\ Tracked(r) /\ ~Taken(r) => r \in token' \/ closed]_vars

\* Every launched task ends: a queued one gets its permit, a cancelled one
\* notices, and neither waits on another for good.
EveryTaskEnds ==
  \A r \in Runs : pc[r] = "spawned" ~> pc[r] = "over"

\* stop_agent and the drain at the end of a -p run return.
WaitersReturn ==
  \A c \in Callers : call[c].at \in {"waiting", "draining"} ~> At(c, "idle")
=============================================================================
