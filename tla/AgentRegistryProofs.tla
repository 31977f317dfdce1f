------------------------ MODULE AgentRegistryProofs ------------------------
(***************************************************************************)
(* Theorems about AgentRegistry, for any number of agents, callers and     *)
(* launches and any limits.                                                *)
(***************************************************************************)
EXTENDS AgentRegistry, FiniteSetTheorems, TLAPS

-----------------------------------------------------------------------------
(***************************************************************************)
(* The inductive invariant.                                                *)
(***************************************************************************)

\* A call past its first step knows its agent; one that prepares a run knows
\* a run, and no other call prepares the same one.
CallInv ==
  /\ \A c \in Callers :
       /\ call[c].at \in {"reserved", "tracking"} => call[c].run \in Runs
       /\ call[c].at \in {"stopping", "stopped", "amended"} => call[c].run[1] \in Agents
       /\ call[c].at = "reserved" => pc[call[c].run] = "new"
  /\ \A c, d \in Callers :
       call[c].at = "reserved" /\ call[d].at = "reserved" /\ call[c].run = call[d].run => c = d

\* An id nobody has reserved has never been launched.
AbsentInv ==
  \A a \in Agents, g \in Gens : state[a] = "absent" => pc[<<a, g>>] = "none"

\* From the permit's acquisition to its release, and no longer, a child may
\* be alive.
PermitInv ==
  /\ \A r \in Runs : pc[r] \in {"launching", "launched", "running", "closing", "settled"}
                       => r \in holders
  /\ \A r \in Runs : child[r] = "alive" => pc[r] \in {"launched", "running"}
  /\ IsFiniteSet(holders)
  /\ Cardinality(holders) <= MaxConcurrency

\* A run that is about to set its final state has made sure of the report
\* and has settled on a finished state.
ReportInv ==
  /\ \A a \in Agents, g \in Gens : pc[<<a, g>>] \in {"closing", "settled"} => a \in reports
  /\ \A r \in Runs : pc[r] = "closing" => outcome[r] \in Terminal
  /\ FinishedHasReport

\* Until nanopi quits, a finished agent has no owner, and another one owner.
OwnerInv ==
  \/ closed
  \/ /\ \A a \in Agents, g \in Gens : state[a] \in Terminal => pc[<<a, g>>] \notin Owning
     /\ OneOwner

IInv == TypeOK /\ CallInv /\ AbsentInv /\ PermitInv /\ ReportInv /\ OwnerInv /\ GrantFollowsChild
        /\ LiveHasOwner

-----------------------------------------------------------------------------
(***************************************************************************)
(* Types.                                                                  *)
(***************************************************************************)

\* What a step does to the locals of its call keeps their types.
LEMMA CallReturns ==
  ASSUME call \in [Callers -> Call], NEW c \in Callers
  PROVE  [call EXCEPT ![c] = Idle] \in [Callers -> Call]
BY RegistryAssumption DEF Idle, NoRun, Call, CallPc, CallRun, RegistryAssumption

LEMMA CallGoesTo ==
  ASSUME call \in [Callers -> Call], NEW c \in Callers, NEW p \in CallPc
  PROVE  [call EXCEPT ![c].at = p] \in [Callers -> Call]
BY DEF Call

LEMMA CallPrepares ==
  ASSUME call \in [Callers -> Call], NEW c \in Callers, NEW p \in CallPc, NEW r \in CallRun
  PROVE  [call EXCEPT ![c].at = p, ![c].run = r] \in [Callers -> Call]
BY DEF Call

LEMMA CallAwaits ==
  ASSUME call \in [Callers -> Call], NEW c \in Callers, NEW p \in CallPc, NEW w \in SUBSET Runs
  PROVE  [call EXCEPT ![c].at = p, ![c].waits = w] \in [Callers -> Call]
BY DEF Call

LEMMA CallUpdate ==
  ASSUME TypeOK, NEW c \in Callers
  PROVE  /\ [call EXCEPT ![c] = Idle] \in [Callers -> Call]
         /\ \A p \in CallPc : [call EXCEPT ![c].at = p] \in [Callers -> Call]
         /\ \A p \in CallPc, r \in CallRun :
              [call EXCEPT ![c].at = p, ![c].run = r] \in [Callers -> Call]
         /\ \A p \in CallPc, w \in SUBSET Runs :
              [call EXCEPT ![c].at = p, ![c].waits = w] \in [Callers -> Call]
BY CallReturns, CallGoesTo, CallPrepares, CallAwaits DEF TypeOK


\* Every step preserves the types.  CallInv is needed: the local `run` of a
\* call is an agent's only from the step that sets it on.
LEMMA TypeStep ==
  ASSUME TypeOK, CallInv, [Next]_vars
  PROVE  TypeOK'
<1> USE RegistryAssumption DEF RegistryAssumption
<1>1. 0 \in 0 .. MaxLaunches /\ Gens \subseteq 0 .. MaxLaunches /\ 1 \in Gens
  BY SMT DEF Gens
<1>2. \A a \in Agents, n \in 0 .. MaxLaunches : <<a, n>> \in CallRun
  BY DEF CallRun
<1>3. \A a \in Agents : TrackedRun(a) \in SUBSET Runs
  BY SMT DEF TrackedRun, Runs, Gens, TypeOK
<1>4. CallPc = {"idle", "checked", "reserved", "tracking", "stopping", "stopped",
               "waiting", "amended", "draining"}
  BY DEF CallPc
<1>5. ASSUME NEW c \in Callers, ReserveCheck(c)
      PROVE  TypeOK'
  BY <1>5, <1>1, <1>2, <1>4, CallUpdate DEF ReserveCheck, TypeOK, regVars, runVars, outVars,
     AgentState, Terminal, RunPc, Runs, At, GoTo, Return, CallInv
<1>6. ASSUME NEW c \in Callers, ReserveRefused(c)
      PROVE  TypeOK'
  BY <1>6, <1>1, <1>2, <1>4, CallUpdate DEF ReserveRefused, TypeOK, regVars, runVars,
     outVars, AgentState, Terminal, RunPc, Runs, At, GoTo, Return, CallInv
<1>7. ASSUME NEW c \in Callers, BriefFailed(c)
      PROVE  TypeOK'
  <2>1. call[c].run \in Runs /\ call[c].run[1] \in Agents
    BY <1>7 DEF BriefFailed, At, CallInv, Runs
  <2>2. call' \in [Callers -> Call]
    BY <1>7, <1>4, CallUpdate DEF BriefFailed, Return, TypeOK
  <2>3. QED
    BY <1>7, <2>1, <2>2 DEF BriefFailed, Ensured, WithState, TypeOK, AgentState, Terminal, RunPc
<1>8. ASSUME NEW c \in Callers, SpawnTask(c)
      PROVE  TypeOK'
  BY <1>8, <1>1, <1>2, <1>4, CallUpdate DEF SpawnTask, TypeOK, regVars, runVars, outVars,
     AgentState, Terminal, RunPc, Runs, At, GoTo, Return, CallInv
<1>9. ASSUME NEW c \in Callers, Track(c)
      PROVE  TypeOK'
  BY <1>9, <1>1, <1>2, <1>4, CallUpdate DEF Track, TypeOK, regVars, runVars, outVars,
     AgentState, Terminal, RunPc, Runs, At, GoTo, Return, CallInv
<1>10. ASSUME NEW c \in Callers, RunOwned(c)
      PROVE  TypeOK'
  BY <1>10, <1>1, <1>2, <1>4, CallUpdate DEF RunOwned, TypeOK, regVars, runVars, outVars,
     AgentState, Terminal, RunPc, Runs, At, GoTo, Return, CallInv
<1>11. ASSUME NEW c \in Callers, StopWait(c)
      PROVE  TypeOK'
  <2>1. call[c].run[1] \in Agents
    BY <1>11 DEF StopWait, At, CallInv
  <2>2. call' \in [Callers -> Call]
    BY <1>11, <2>1, <1>3, <1>4, CallUpdate DEF StopWait, TypeOK
  <2>3. QED
    BY <1>11, <2>2, <1>1 DEF StopWait, TypeOK, runVars, outVars
<1>12. ASSUME NEW c \in Callers, StopDone(c)
      PROVE  TypeOK'
  <2>1. call' \in [Callers -> Call]
    BY <1>12, <1>4, CallUpdate DEF StopDone, Return, TypeOK
  <2>2. QED
    BY <1>12, <2>1 DEF StopDone, TypeOK, regVars, runVars, outVars
<1>13. ASSUME NEW c \in Callers, DrainTake(c)
      PROVE  TypeOK'
  <2>1. UNION {TrackedRun(a) : a \in Agents} \in SUBSET Runs
    BY <1>3
  <2>2. call' \in [Callers -> Call]
    BY <1>13, <2>1, <1>4, CallUpdate DEF DrainTake, TypeOK
  <2>3. QED
    BY <1>13, <2>2, <1>1 DEF DrainTake, TypeOK, runVars, outVars
<1>14. ASSUME NEW c \in Callers, DrainDone(c)
      PROVE  TypeOK'
  <2>1. call' \in [Callers -> Call]
    BY <1>14, <1>4, CallUpdate DEF DrainDone, Return, TypeOK
  <2>2. QED
    BY <1>14, <2>1 DEF DrainDone, TypeOK, regVars, runVars, outVars
<1>15. ASSUME NEW c \in Callers, MsgRefused(c)
      PROVE  TypeOK'
  BY <1>15, <1>1, <1>2, <1>4, CallUpdate DEF MsgRefused, Reactivatable, TypeOK, regVars,
     runVars, outVars, AgentState, Terminal, RunPc, Runs, At, GoTo, Return, CallInv
<1>16. ASSUME NEW c \in Callers, NEW wait \in BOOLEAN, StopAct(c, wait)
      PROVE  TypeOK'
  <2>1. TrackedRun(call[c].run[1]) \in SUBSET Runs
    BY <1>16, <1>3 DEF StopAct, At, CallInv
  <2>2. call' \in [Callers -> Call]
    <3>1. GoTo(c, "stopped") \/ Return(c)
      BY <1>16, Zenon DEF StopAct
    <3>2. CASE GoTo(c, "stopped")
      BY <3>2, <1>4, CallUpdate DEF GoTo
    <3>3. CASE Return(c)
      BY <3>3, CallUpdate DEF Return
    <3>4. QED
      BY <3>1, <3>2, <3>3
  <2>3. child' \in [Runs -> {"none", "alive", "killed", "done", "failed"}]
    BY <1>16 DEF StopAct, Killed, TypeOK
  <2>4. QED
    BY <1>16, <2>1, <2>2, <2>3 DEF StopAct, TypeOK, regVars, outVars
<1>17. ASSUME NEW c \in Callers, NEW g \in Gens, MsgReactivate(c, g)
      PROVE  TypeOK'
  BY <1>17, <1>1, <1>2, <1>4, CallUpdate DEF MsgReactivate, Reactivatable, IsNextRun,
     PidCleared, TypeOK, regVars, runVars, outVars, AgentState, Terminal, RunPc, Runs, At,
     GoTo, Return, CallInv
<1>18. ASSUME NEW c \in Callers, NEW a \in Agents, Reserve(c, a)
      PROVE  TypeOK'
  BY <1>18, <1>1, <1>2, <1>4, CallUpdate DEF Reserve, TypeOK, regVars, runVars, outVars,
     AgentState, Terminal, RunPc, Runs, At, GoTo, Return, CallInv
<1>19. ASSUME NEW c \in Callers, NEW a \in Agents, StopLook(c, a)
      PROVE  TypeOK'
  BY <1>19, <1>1, <1>2, <1>4, CallUpdate DEF StopLook, TypeOK, regVars, runVars, outVars,
     AgentState, Terminal, RunPc, Runs, At, GoTo, Return, CallInv
<1>20. ASSUME NEW c \in Callers, NEW a \in Agents, MsgLook(c, a)
      PROVE  TypeOK'
  BY <1>20, <1>1, <1>2, <1>4, CallUpdate DEF MsgLook, TypeOK, regVars, runVars, outVars,
     AgentState, Terminal, RunPc, Runs, At, GoTo, Return, CallInv
<1>21. ASSUME NEW a \in Agents, NEW g \in Gens, FirstPoll(a, g)
      PROVE  TypeOK'
  <2>1. <<a, g>> \in Runs
    BY DEF Runs
  <2>2. CASE <<a, g>> \in token
    BY <1>21, <2>1, <2>2 DEF FirstPoll, TypeOK, regVars, outVars, AgentState, Terminal, RunPc
  <2>3. CASE <<a, g>> \notin token
    BY <1>21, <2>1, <2>3 DEF FirstPoll, TypeOK, regVars, outVars, RunPc
  <2>4. QED
    BY <2>2, <2>3
<1>22. ASSUME NEW a \in Agents, NEW g \in Gens, AcquireRun(a, g)
      PROVE  TypeOK'
  BY <1>22, <1>1 DEF AcquireRun, PermitFree, WithState, TypeOK, regVars, runVars, outVars,
     AgentState, Terminal, RunPc, Runs
<1>23. ASSUME NEW a \in Agents, NEW g \in Gens, Launch(a, g)
      PROVE  TypeOK'
  BY <1>23, <1>1 DEF Launch, TypeOK, regVars, runVars, outVars, AgentState, Terminal, RunPc,
     Runs
<1>24. ASSUME NEW a \in Agents, NEW g \in Gens, LaunchFailed(a, g)
      PROVE  TypeOK'
  BY <1>24, <1>1 DEF LaunchFailed, Revoked, Ensured, TypeOK, regVars, runVars, outVars,
     AgentState, Terminal, RunPc, Runs
<1>25. ASSUME NEW a \in Agents, NEW g \in Gens, SetPid(a, g)
      PROVE  TypeOK'
  BY <1>25, <1>1 DEF SetPid, TypeOK, regVars, runVars, outVars, AgentState, Terminal, RunPc,
     Runs
<1>26. ASSUME NEW a \in Agents, NEW g \in Gens, Collect(a, g)
      PROVE  TypeOK'
  BY <1>26, <1>1 DEF Collect, Reaped, Revoked, Ensured, TypeOK, regVars, runVars, outVars,
     AgentState, Terminal, RunPc, Runs
<1>27. ASSUME NEW a \in Agents, NEW g \in Gens, SetTerminal(a, g)
      PROVE  TypeOK'
  BY <1>27, <1>1 DEF SetTerminal, WithState, TypeOK, regVars, runVars, outVars, AgentState,
     Terminal, RunPc, Runs
<1>28. ASSUME NEW a \in Agents, NEW g \in Gens, ReadFinal(a, g)
      PROVE  TypeOK'
  <2>1. <<a, g>> \in Runs
    BY DEF Runs
  <2>2. CASE kind[<<a, g>>] = "task"
    BY <1>28, <2>1, <2>2 DEF ReadFinal, Released, TypeOK, outVars, RunPc
  <2>3. CASE kind[<<a, g>>] # "task"
    BY <1>28, <2>1, <2>3 DEF ReadFinal, Released, Ended, TypeOK, outVars, AgentState, RunPc
  <2>4. QED
    BY <2>2, <2>3
<1>29. ASSUME NEW a \in Agents, NEW g \in Gens, Deliver(a, g)
      PROVE  TypeOK'
  BY <1>29, <1>1 DEF Deliver, Ended, TypeOK, regVars, runVars, outVars, AgentState,
     Terminal, RunPc, Runs
<1>30. ASSUME NEW a \in Agents, NEW g \in Gens, DropRun(a, g)
      PROVE  TypeOK'
  BY <1>30, <1>1 DEF DropRun, AtAwait, Reaped, Revoked, Released, TypeOK, regVars, runVars,
     outVars, AgentState, Terminal, RunPc, Runs
<1>31. ASSUME NEW a \in Agents, NEW g \in Gens, DropGuard(a, g)
      PROVE  TypeOK'
  <2>1. <<a, g>> \in Runs
    BY DEF Runs
  <2>2. CASE kind[<<a, g>>] = "task"
    BY <1>31, <2>1, <2>2 DEF DropGuard, Ensured, WithState, TypeOK, AgentState, Terminal, RunPc
  <2>3. CASE kind[<<a, g>>] # "task"
    BY <1>31, <2>1, <2>3
       DEF DropGuard, Ensured, WithState, Ended, TypeOK, AgentState, Terminal, RunPc
  <2>4. QED
    BY <2>2, <2>3
<1>32. ASSUME NEW a \in Agents, NEW g \in Gens, NEW end \in {"done", "failed"}, NEW wrote
   \in BOOLEAN, ChildExit(a, g, end, wrote)
      PROVE  TypeOK'
  BY <1>32, <1>1 DEF ChildExit, TypeOK, regVars, runVars, outVars, AgentState, Terminal,
     RunPc, Runs
<1>33. ASSUME KillAll
      PROVE  TypeOK'
  <2>1. child' \in [Runs -> {"none", "alive", "killed", "done", "failed"}]
    BY <1>33 DEF KillAll, Killed, TypeOK
  <2>2. state' \in [Agents -> AgentState]
    BY <1>33 DEF KillAll, TypeOK, AgentState, Terminal
  <2>3. QED
    BY <1>33, <2>1, <2>2 DEF KillAll, TypeOK, outVars
<1>34. CASE UNCHANGED vars
  BY <1>34 DEF vars, regVars, runVars, outVars, TypeOK
<1>35. QED
  BY <1>5, <1>6, <1>7, <1>8, <1>9, <1>10, <1>11, <1>12, <1>13, <1>14, <1>15, <1>16, <1>17,
     <1>18, <1>19, <1>20, <1>21, <1>22, <1>23, <1>24, <1>25, <1>26, <1>27, <1>28, <1>29,
     <1>30, <1>31, <1>32, <1>33, <1>34 DEF Next, CallStep, RunStep


-----------------------------------------------------------------------------
(***************************************************************************)
(* The steps of a call that touch only its locals, `background`, the       *)
(* tokens or a killed child, taken together.                               *)
(***************************************************************************)
QuietCall(c) ==
  \/ ReserveCheck(c) \/ ReserveRefused(c) \/ Track(c) \/ StopWait(c) \/ StopDone(c)
  \/ DrainTake(c) \/ DrainDone(c) \/ MsgRefused(c)
  \/ \E wait \in BOOLEAN : StopAct(c, wait)
  \/ \E a \in Agents : StopLook(c, a) \/ MsgLook(c, a)

LEMMA QuietCallFrame ==
  ASSUME TypeOK, NEW c \in Callers, QuietCall(c)
  PROVE  /\ UNCHANGED <<state, closed, pc, kind, outcome, holders, grants, reports>>
         /\ \A r \in Runs : child'[r] = "alive" => child[r] = "alive"
BY DEF QuietCall, ReserveCheck, ReserveRefused, Track, StopWait, StopDone, DrainTake,
       DrainDone, MsgRefused, StopAct, StopLook, MsgLook, Killed, TypeOK,
       regVars, runVars, outVars

LEMMA StepCases ==
  ASSUME [Next]_vars
  PROVE  \/ \E c \in Callers : \/ QuietCall(c) \/ BriefFailed(c) \/ SpawnTask(c) \/ RunOwned(c)
                               \/ \E a \in Agents : Reserve(c, a)
                               \/ \E g \in Gens : MsgReactivate(c, g)
         \/ \E a \in Agents, g \in Gens : RunStep(a, g)
         \/ KillAll
         \/ UNCHANGED vars
BY DEF Next, CallStep, QuietCall


-----------------------------------------------------------------------------
(***************************************************************************)
(* The three steps of a run that depend on how it is driven: where they    *)
(* lead, whatever the case.                                                *)
(***************************************************************************)
Moves(r, from, to) ==
  /\ pc[r] = from
  /\ pc'[r] \in to
  /\ \A s \in Runs \ {r} : pc'[s] = pc[s] /\ outcome'[s] = outcome[s]

LEMMA FirstPollMoves ==
  ASSUME TypeOK, NEW a \in Agents, NEW g \in Gens, FirstPoll(a, g)
  PROVE  /\ Moves(<<a, g>>, "spawned", {"queued", "reporting"})
         /\ UNCHANGED <<state, closed, holders, child, grants, reports, call>>
<1>1. CASE <<a, g>> \in token
  BY <1>1 DEF FirstPoll, Moves, TypeOK, Runs, regVars, outVars
<1>2. CASE <<a, g>> \notin token
  BY <1>2 DEF FirstPoll, Moves, TypeOK, Runs, regVars, outVars
<1>3. QED
  BY <1>1, <1>2

LEMMA ReadFinalMoves ==
  ASSUME TypeOK, NEW a \in Agents, NEW g \in Gens, ReadFinal(a, g)
  PROVE  /\ Moves(<<a, g>>, "settled", {"reporting", "over"})
         /\ holders' = holders \ {<<a, g>>}
         /\ UNCHANGED <<state, closed, child, grants, reports, call>>
<1>1. CASE kind[<<a, g>>] = "task"
  BY <1>1 DEF ReadFinal, Released, Moves, TypeOK, Runs, outVars
<1>2. CASE kind[<<a, g>>] # "task"
  BY <1>2 DEF ReadFinal, Released, Ended, Moves, TypeOK, Runs, outVars
<1>3. QED
  BY <1>1, <1>2

LEMMA DropGuardMoves ==
  ASSUME TypeOK, NEW a \in Agents, NEW g \in Gens, DropGuard(a, g)
  PROVE  /\ Moves(<<a, g>>, "dropping", {"reporting", "over"})
         /\ state' = [state EXCEPT ![a] = "stopped"]
         /\ reports' = reports \cup {a}
         /\ UNCHANGED <<closed, holders, child, grants, call>>
<1>1. CASE kind[<<a, g>>] = "task"
  BY <1>1 DEF DropGuard, Ensured, WithState, Moves, TypeOK, Runs
<1>2. CASE kind[<<a, g>>] # "task"
  BY <1>2 DEF DropGuard, Ensured, WithState, Ended, Moves, TypeOK, Runs
<1>3. QED
  BY <1>1, <1>2


\* Whatever moves a run has found its agent's id reserved.
LEMMA AbsentStep ==
  ASSUME TypeOK, CallInv, AbsentInv, ReportInv, [Next]_vars
  PROVE  AbsentInv'
<1>1. ASSUME NEW c \in Callers, QuietCall(c)
      PROVE  AbsentInv'
  BY <1>1, QuietCallFrame DEF AbsentInv, TypeOK, Runs, regVars, outVars, CallInv, ReportInv,
     Terminal, Gens
<1>2. ASSUME NEW c \in Callers, BriefFailed(c)
      PROVE  AbsentInv'
  BY <1>2 DEF BriefFailed, Ensured, WithState, At, AbsentInv, TypeOK, Runs, regVars,
     outVars, CallInv, ReportInv, Terminal, Gens
<1>3. ASSUME NEW c \in Callers, SpawnTask(c)
      PROVE  AbsentInv'
  BY <1>3 DEF SpawnTask, At, AbsentInv, TypeOK, Runs, regVars, outVars, CallInv, ReportInv,
     Terminal, Gens
<1>4. ASSUME NEW c \in Callers, RunOwned(c)
      PROVE  AbsentInv'
  BY <1>4 DEF RunOwned, At, AbsentInv, TypeOK, Runs, regVars, outVars, CallInv, ReportInv,
     Terminal, Gens
<1>5. ASSUME NEW c \in Callers, NEW g \in Gens, MsgReactivate(c, g)
      PROVE  AbsentInv'
  BY <1>5 DEF MsgReactivate, Reactivatable, IsNextRun, PidCleared, At, AbsentInv, TypeOK,
     Runs, regVars, outVars, CallInv, ReportInv, Terminal, Gens
<1>6. ASSUME NEW c \in Callers, NEW a \in Agents, Reserve(c, a)
      PROVE  AbsentInv'
  BY <1>6 DEF Reserve, At, AbsentInv, TypeOK, Runs, regVars, outVars, CallInv, ReportInv,
     Terminal, Gens
<1>7. ASSUME NEW a \in Agents, NEW g \in Gens, FirstPoll(a, g)
      PROVE  AbsentInv'
  <2>1. Moves(<<a, g>>, "spawned", {"queued", "reporting"})
        /\ UNCHANGED <<state, closed, holders, child, grants, reports, call>>
    BY <1>7, FirstPollMoves
  <2>2. QED
    BY <2>1 DEF Moves, AbsentInv, TypeOK, Runs, regVars, outVars, CallInv, ReportInv,
       Terminal, Gens
<1>8. ASSUME NEW a \in Agents, NEW g \in Gens, AcquireRun(a, g)
      PROVE  AbsentInv'
  BY <1>8 DEF AcquireRun, PermitFree, WithState, AbsentInv, TypeOK, Runs, regVars, outVars,
     CallInv, ReportInv, Terminal, Gens
<1>9. ASSUME NEW a \in Agents, NEW g \in Gens, Launch(a, g)
      PROVE  AbsentInv'
  BY <1>9 DEF Launch, AbsentInv, TypeOK, Runs, regVars, outVars, CallInv, ReportInv,
     Terminal, Gens
<1>10. ASSUME NEW a \in Agents, NEW g \in Gens, LaunchFailed(a, g)
      PROVE  AbsentInv'
  BY <1>10 DEF LaunchFailed, Revoked, Ensured, AbsentInv, TypeOK, Runs, regVars, outVars,
     CallInv, ReportInv, Terminal, Gens
<1>11. ASSUME NEW a \in Agents, NEW g \in Gens, SetPid(a, g)
      PROVE  AbsentInv'
  BY <1>11 DEF SetPid, AbsentInv, TypeOK, Runs, regVars, outVars, CallInv, ReportInv,
     Terminal, Gens
<1>12. ASSUME NEW a \in Agents, NEW g \in Gens, Collect(a, g)
      PROVE  AbsentInv'
  BY <1>12 DEF Collect, Reaped, Revoked, Ensured, AbsentInv, TypeOK, Runs, regVars, outVars,
     CallInv, ReportInv, Terminal, Gens
<1>13. ASSUME NEW a \in Agents, NEW g \in Gens, SetTerminal(a, g)
      PROVE  AbsentInv'
  BY <1>13 DEF SetTerminal, WithState, AbsentInv, TypeOK, Runs, regVars, outVars, CallInv,
     ReportInv, Terminal, Gens
<1>14. ASSUME NEW a \in Agents, NEW g \in Gens, ReadFinal(a, g)
      PROVE  AbsentInv'
  <2>1. Moves(<<a, g>>, "settled", {"reporting", "over"})
        /\ holders' = holders \ {<<a, g>>}
        /\ UNCHANGED <<state, closed, child, grants, reports, call>>
    BY <1>14, ReadFinalMoves
  <2>2. QED
    BY <2>1 DEF Moves, AbsentInv, TypeOK, Runs, regVars, outVars, CallInv, ReportInv,
       Terminal, Gens
<1>15. ASSUME NEW a \in Agents, NEW g \in Gens, Deliver(a, g)
      PROVE  AbsentInv'
  BY <1>15 DEF Deliver, Ended, AbsentInv, TypeOK, Runs, regVars, outVars, CallInv,
     ReportInv, Terminal, Gens
<1>16. ASSUME NEW a \in Agents, NEW g \in Gens, DropRun(a, g)
      PROVE  AbsentInv'
  BY <1>16 DEF DropRun, AtAwait, Reaped, Revoked, Released, AbsentInv, TypeOK, Runs,
     regVars, outVars, CallInv, ReportInv, Terminal, Gens
<1>17. ASSUME NEW a \in Agents, NEW g \in Gens, DropGuard(a, g)
      PROVE  AbsentInv'
  <2>1. Moves(<<a, g>>, "dropping", {"reporting", "over"})
        /\ state' = [state EXCEPT ![a] = "stopped"] /\ reports' = reports \cup {a}
        /\ UNCHANGED <<closed, holders, child, grants, call>>
    BY <1>17, DropGuardMoves
  <2>2. QED
    BY <2>1 DEF Moves, AbsentInv, TypeOK, Runs, regVars, outVars, CallInv, ReportInv,
       Terminal, Gens
<1>18. ASSUME NEW a \in Agents, NEW g \in Gens, NEW end \in {"done", "failed"}, NEW wrote
   \in BOOLEAN, ChildExit(a, g, end, wrote)
      PROVE  AbsentInv'
  BY <1>18 DEF ChildExit, AbsentInv, TypeOK, Runs, regVars, outVars, CallInv, ReportInv,
     Terminal, Gens
<1>19. ASSUME KillAll
      PROVE  AbsentInv'
  BY <1>19 DEF KillAll, Killed, AbsentInv, TypeOK, Runs, regVars, outVars, CallInv,
     ReportInv, Terminal, Gens
<1>20. CASE UNCHANGED vars
  BY <1>20 DEF vars, regVars, runVars, outVars, AbsentInv, TypeOK, Runs, regVars, outVars,
     CallInv, ReportInv, Terminal, Gens
<1>21. QED
  BY <1>1, <1>2, <1>3, <1>4, <1>5, <1>6, <1>7, <1>8, <1>9, <1>10, <1>11, <1>12, <1>13,
     <1>14, <1>15, <1>16, <1>17, <1>18, <1>19, <1>20, StepCases DEF RunStep


LEMMA FirstRun ==
  ASSUME NEW a \in Agents
  PROVE  1 \in Gens /\ <<a, 1>> \in Runs
BY RegistryAssumption, SMT DEF Runs, Gens, RegistryAssumption

LEMMA GenPositive == \A g \in Gens : g # 0
BY RegistryAssumption, SMT DEF Gens, RegistryAssumption

\* Returning a permit keeps within the semaphore.
LEMMA FewerHolders ==
  ASSUME PermitInv, NEW r
  PROVE  IsFiniteSet(holders \ {r}) /\ Cardinality(holders \ {r}) <= MaxConcurrency
<1>1. /\ IsFiniteSet(holders \ {r})
      /\ Cardinality(holders \ {r}) \in {Cardinality(holders), Cardinality(holders) - 1}
  BY FS_RemoveElement DEF PermitInv
<1>2. QED
  BY RegistryAssumption, <1>1, FS_CardinalityType DEF PermitInv, RegistryAssumption

\* A permit is held from its acquisition to the end of the child and beyond.
LEMMA PermitStep ==
  ASSUME TypeOK, CallInv, AbsentInv, PermitInv, [Next]_vars
  PROVE  PermitInv'
<1>1. ASSUME NEW c \in Callers, QuietCall(c)
      PROVE  PermitInv'
  BY <1>1, QuietCallFrame DEF PermitInv, TypeOK, Runs, regVars, outVars, CallInv
<1>2. ASSUME NEW c \in Callers, BriefFailed(c)
      PROVE  PermitInv'
  BY <1>2 DEF BriefFailed, Ensured, WithState, At, PermitInv, TypeOK, Runs, regVars,
     outVars, CallInv
<1>3. ASSUME NEW c \in Callers, SpawnTask(c)
      PROVE  PermitInv'
  BY <1>3 DEF SpawnTask, At, PermitInv, TypeOK, Runs, regVars, outVars, CallInv
<1>4. ASSUME NEW c \in Callers, RunOwned(c)
      PROVE  PermitInv'
  BY <1>4 DEF RunOwned, At, PermitInv, TypeOK, Runs, regVars, outVars, CallInv
<1>5. ASSUME NEW c \in Callers, NEW g \in Gens, MsgReactivate(c, g)
      PROVE  PermitInv'
  BY <1>5 DEF MsgReactivate, Reactivatable, IsNextRun, PidCleared, At, PermitInv, TypeOK,
     Runs, regVars, outVars, CallInv
<1>6. ASSUME NEW c \in Callers, NEW a \in Agents, Reserve(c, a)
      PROVE  PermitInv'
  <2>1. pc[<<a, 1>>] = "none" /\ <<a, 1>> \in Runs
        /\ pc' = [pc EXCEPT ![<<a, 1>>] = "new"] /\ UNCHANGED <<holders, child>>
    BY <1>6, FirstRun DEF Reserve, AbsentInv
  <2>2. QED
    BY <2>1 DEF PermitInv, TypeOK
<1>7. ASSUME NEW a \in Agents, NEW g \in Gens, FirstPoll(a, g)
      PROVE  PermitInv'
  <2>1. Moves(<<a, g>>, "spawned", {"queued", "reporting"})
        /\ UNCHANGED <<state, closed, holders, child, grants, reports, call>>
    BY <1>7, FirstPollMoves
  <2>2. QED
    BY <2>1 DEF Moves, PermitInv, TypeOK, Runs, regVars, outVars, CallInv
<1>8. ASSUME NEW a \in Agents, NEW g \in Gens, AcquireRun(a, g)
      PROVE  PermitInv'
  <2>1. holders' = holders \cup {<<a, g>>} /\ Cardinality(holders) < MaxConcurrency
    BY <1>8 DEF AcquireRun, PermitFree
  <2>2. /\ IsFiniteSet(holders')
        /\ Cardinality(holders') \in {Cardinality(holders), Cardinality(holders) + 1}
    BY <2>1, FS_AddElement DEF PermitInv
  <2>3. Cardinality(holders') <= MaxConcurrency
    BY RegistryAssumption, <2>1, <2>2, FS_CardinalityType DEF PermitInv, RegistryAssumption
  <2>4. QED
    BY <1>8, <2>1, <2>2, <2>3 DEF AcquireRun, PermitInv, TypeOK, Runs
<1>9. ASSUME NEW a \in Agents, NEW g \in Gens, Launch(a, g)
      PROVE  PermitInv'
  BY <1>9 DEF Launch, PermitInv, TypeOK, Runs, regVars, outVars, CallInv
<1>10. ASSUME NEW a \in Agents, NEW g \in Gens, LaunchFailed(a, g)
      PROVE  PermitInv'
  BY <1>10 DEF LaunchFailed, Revoked, Ensured, PermitInv, TypeOK, Runs, regVars, outVars,
     CallInv
<1>11. ASSUME NEW a \in Agents, NEW g \in Gens, SetPid(a, g)
      PROVE  PermitInv'
  BY <1>11 DEF SetPid, PermitInv, TypeOK, Runs, regVars, outVars, CallInv
<1>12. ASSUME NEW a \in Agents, NEW g \in Gens, Collect(a, g)
      PROVE  PermitInv'
  BY <1>12 DEF Collect, Reaped, Revoked, Ensured, PermitInv, TypeOK, Runs, regVars, outVars,
     CallInv
<1>13. ASSUME NEW a \in Agents, NEW g \in Gens, SetTerminal(a, g)
      PROVE  PermitInv'
  BY <1>13 DEF SetTerminal, WithState, PermitInv, TypeOK, Runs, regVars, outVars, CallInv
<1>14. ASSUME NEW a \in Agents, NEW g \in Gens, ReadFinal(a, g)
      PROVE  PermitInv'
  <2>1. Moves(<<a, g>>, "settled", {"reporting", "over"})
        /\ holders' = holders \ {<<a, g>>} /\ UNCHANGED child
    BY <1>14, ReadFinalMoves
  <2>2. IsFiniteSet(holders') /\ Cardinality(holders') <= MaxConcurrency
    BY <2>1, FewerHolders
  <2>3. QED
    BY <2>1, <2>2 DEF Moves, PermitInv, TypeOK, Runs
<1>15. ASSUME NEW a \in Agents, NEW g \in Gens, Deliver(a, g)
      PROVE  PermitInv'
  BY <1>15 DEF Deliver, Ended, PermitInv, TypeOK, Runs, regVars, outVars, CallInv
<1>16. ASSUME NEW a \in Agents, NEW g \in Gens, DropRun(a, g)
      PROVE  PermitInv'
  <2>1. IsFiniteSet(holders') /\ Cardinality(holders') <= MaxConcurrency
    BY <1>16, FewerHolders DEF DropRun, Released
  <2>2. QED
    BY <1>16, <2>1 DEF DropRun, Released, Reaped, AtAwait, PermitInv, TypeOK, Runs
<1>17. ASSUME NEW a \in Agents, NEW g \in Gens, DropGuard(a, g)
      PROVE  PermitInv'
  <2>1. Moves(<<a, g>>, "dropping", {"reporting", "over"})
        /\ state' = [state EXCEPT ![a] = "stopped"] /\ reports' = reports \cup {a}
        /\ UNCHANGED <<closed, holders, child, grants, call>>
    BY <1>17, DropGuardMoves
  <2>2. QED
    BY <2>1 DEF Moves, PermitInv, TypeOK, Runs, regVars, outVars, CallInv
<1>18. ASSUME NEW a \in Agents, NEW g \in Gens, NEW end \in {"done", "failed"}, NEW wrote
   \in BOOLEAN, ChildExit(a, g, end, wrote)
      PROVE  PermitInv'
  BY <1>18 DEF ChildExit, PermitInv, TypeOK, Runs, regVars, outVars, CallInv
<1>19. ASSUME KillAll
      PROVE  PermitInv'
  BY <1>19 DEF KillAll, Killed, PermitInv, TypeOK, Runs, regVars, outVars, CallInv
<1>20. CASE UNCHANGED vars
  BY <1>20 DEF vars, regVars, runVars, outVars, PermitInv, TypeOK, Runs, regVars, outVars,
     CallInv
<1>21. QED
  BY <1>1, <1>2, <1>3, <1>4, <1>5, <1>6, <1>7, <1>8, <1>9, <1>10, <1>11, <1>12, <1>13,
     <1>14, <1>15, <1>16, <1>17, <1>18, <1>19, <1>20, StepCases DEF RunStep


\* Whatever sets a finished state has made sure of the report before.
LEMMA ReportStep ==
  ASSUME TypeOK, CallInv, ReportInv, [Next]_vars
  PROVE  ReportInv'
<1>1. ASSUME NEW c \in Callers, QuietCall(c)
      PROVE  ReportInv'
  BY <1>1, QuietCallFrame DEF ReportInv, FinishedHasReport, Terminal, TypeOK, Runs, regVars,
     outVars, CallInv
<1>2. ASSUME NEW c \in Callers, BriefFailed(c)
      PROVE  ReportInv'
  BY <1>2 DEF BriefFailed, Ensured, WithState, At, ReportInv, FinishedHasReport, Terminal,
     TypeOK, Runs, regVars, outVars, CallInv
<1>3. ASSUME NEW c \in Callers, SpawnTask(c)
      PROVE  ReportInv'
  BY <1>3 DEF SpawnTask, At, ReportInv, FinishedHasReport, Terminal, TypeOK, Runs, regVars,
     outVars, CallInv
<1>4. ASSUME NEW c \in Callers, RunOwned(c)
      PROVE  ReportInv'
  BY <1>4 DEF RunOwned, At, ReportInv, FinishedHasReport, Terminal, TypeOK, Runs, regVars,
     outVars, CallInv
<1>5. ASSUME NEW c \in Callers, NEW g \in Gens, MsgReactivate(c, g)
      PROVE  ReportInv'
  BY <1>5 DEF MsgReactivate, Reactivatable, IsNextRun, PidCleared, At, ReportInv,
     FinishedHasReport, Terminal, TypeOK, Runs, regVars, outVars, CallInv
<1>6. ASSUME NEW c \in Callers, NEW a \in Agents, Reserve(c, a)
      PROVE  ReportInv'
  BY <1>6 DEF Reserve, At, ReportInv, FinishedHasReport, Terminal, TypeOK, Runs, regVars,
     outVars, CallInv
<1>7. ASSUME NEW a \in Agents, NEW g \in Gens, FirstPoll(a, g)
      PROVE  ReportInv'
  <2>1. Moves(<<a, g>>, "spawned", {"queued", "reporting"})
        /\ UNCHANGED <<state, closed, holders, child, grants, reports, call>>
    BY <1>7, FirstPollMoves
  <2>2. QED
    BY <2>1 DEF Moves, ReportInv, FinishedHasReport, Terminal, TypeOK, Runs, regVars,
       outVars, CallInv
<1>8. ASSUME NEW a \in Agents, NEW g \in Gens, AcquireRun(a, g)
      PROVE  ReportInv'
  BY <1>8 DEF AcquireRun, PermitFree, WithState, ReportInv, FinishedHasReport, Terminal,
     TypeOK, Runs, regVars, outVars, CallInv
<1>9. ASSUME NEW a \in Agents, NEW g \in Gens, Launch(a, g)
      PROVE  ReportInv'
  BY <1>9 DEF Launch, ReportInv, FinishedHasReport, Terminal, TypeOK, Runs, regVars,
     outVars, CallInv
<1>10. ASSUME NEW a \in Agents, NEW g \in Gens, LaunchFailed(a, g)
      PROVE  ReportInv'
  BY <1>10 DEF LaunchFailed, Revoked, Ensured, ReportInv, FinishedHasReport, Terminal,
     TypeOK, Runs, regVars, outVars, CallInv
<1>11. ASSUME NEW a \in Agents, NEW g \in Gens, SetPid(a, g)
      PROVE  ReportInv'
  BY <1>11 DEF SetPid, ReportInv, FinishedHasReport, Terminal, TypeOK, Runs, regVars,
     outVars, CallInv
<1>12. ASSUME NEW a \in Agents, NEW g \in Gens, Collect(a, g)
      PROVE  ReportInv'
  BY <1>12 DEF Collect, Reaped, Revoked, Ensured, ReportInv, FinishedHasReport, Terminal,
     TypeOK, Runs, regVars, outVars, CallInv
<1>13. ASSUME NEW a \in Agents, NEW g \in Gens, SetTerminal(a, g)
      PROVE  ReportInv'
  BY <1>13 DEF SetTerminal, WithState, ReportInv, FinishedHasReport, Terminal, TypeOK, Runs,
     regVars, outVars, CallInv
<1>14. ASSUME NEW a \in Agents, NEW g \in Gens, ReadFinal(a, g)
      PROVE  ReportInv'
  <2>1. Moves(<<a, g>>, "settled", {"reporting", "over"})
        /\ holders' = holders \ {<<a, g>>}
        /\ UNCHANGED <<state, closed, child, grants, reports, call>>
    BY <1>14, ReadFinalMoves
  <2>2. QED
    BY <2>1 DEF Moves, ReportInv, FinishedHasReport, Terminal, TypeOK, Runs, regVars,
       outVars, CallInv
<1>15. ASSUME NEW a \in Agents, NEW g \in Gens, Deliver(a, g)
      PROVE  ReportInv'
  BY <1>15 DEF Deliver, Ended, ReportInv, FinishedHasReport, Terminal, TypeOK, Runs,
     regVars, outVars, CallInv
<1>16. ASSUME NEW a \in Agents, NEW g \in Gens, DropRun(a, g)
      PROVE  ReportInv'
  BY <1>16 DEF DropRun, AtAwait, Reaped, Revoked, Released, ReportInv, FinishedHasReport,
     Terminal, TypeOK, Runs, regVars, outVars, CallInv
<1>17. ASSUME NEW a \in Agents, NEW g \in Gens, DropGuard(a, g)
      PROVE  ReportInv'
  <2>1. Moves(<<a, g>>, "dropping", {"reporting", "over"})
        /\ state' = [state EXCEPT ![a] = "stopped"] /\ reports' = reports \cup {a}
        /\ UNCHANGED <<closed, holders, child, grants, call>>
    BY <1>17, DropGuardMoves
  <2>2. QED
    BY <2>1 DEF Moves, ReportInv, FinishedHasReport, Terminal, TypeOK, Runs, regVars,
       outVars, CallInv
<1>18. ASSUME NEW a \in Agents, NEW g \in Gens, NEW end \in {"done", "failed"}, NEW wrote
   \in BOOLEAN, ChildExit(a, g, end, wrote)
      PROVE  ReportInv'
  BY <1>18 DEF ChildExit, ReportInv, FinishedHasReport, Terminal, TypeOK, Runs, regVars,
     outVars, CallInv
<1>19. ASSUME KillAll
      PROVE  ReportInv'
  BY <1>19 DEF KillAll, Killed, ReportInv, FinishedHasReport, Terminal, TypeOK, Runs,
     regVars, outVars, CallInv
<1>20. CASE UNCHANGED vars
  BY <1>20 DEF vars, regVars, runVars, outVars, ReportInv, FinishedHasReport, Terminal,
     TypeOK, Runs, regVars, outVars, CallInv
<1>21. QED
  BY <1>1, <1>2, <1>3, <1>4, <1>5, <1>6, <1>7, <1>8, <1>9, <1>10, <1>11, <1>12, <1>13,
     <1>14, <1>15, <1>16, <1>17, <1>18, <1>19, <1>20, StepCases DEF RunStep


\* A run becomes an owner only of an agent that has none, and a state becomes
\* finished only as its owner lets go.
LEMMA OwnerStep ==
  ASSUME TypeOK, CallInv, AbsentInv, ReportInv, OwnerInv, [Next]_vars
  PROVE  OwnerInv'
<1>1. ASSUME NEW c \in Callers, QuietCall(c)
      PROVE  OwnerInv'
  BY <1>1, QuietCallFrame DEF OwnerInv, OneOwner, Owning, ReportInv, AbsentInv, Terminal,
     TypeOK, Runs, regVars, outVars, CallInv
<1>2. ASSUME NEW c \in Callers, BriefFailed(c)
      PROVE  OwnerInv'
  BY <1>2 DEF BriefFailed, Ensured, WithState, At, OwnerInv, OneOwner, Owning, ReportInv,
     AbsentInv, Terminal, TypeOK, Runs, regVars, outVars, CallInv
<1>3. ASSUME NEW c \in Callers, SpawnTask(c)
      PROVE  OwnerInv'
  BY <1>3 DEF SpawnTask, At, OwnerInv, OneOwner, Owning, ReportInv, AbsentInv, Terminal,
     TypeOK, Runs, regVars, outVars, CallInv
<1>4. ASSUME NEW c \in Callers, RunOwned(c)
      PROVE  OwnerInv'
  BY <1>4 DEF RunOwned, At, OwnerInv, OneOwner, Owning, ReportInv, AbsentInv, Terminal,
     TypeOK, Runs, regVars, outVars, CallInv
<1>5. ASSUME NEW c \in Callers, NEW g \in Gens, MsgReactivate(c, g)
      PROVE  OwnerInv'
  BY <1>5 DEF MsgReactivate, Reactivatable, IsNextRun, PidCleared, At, OwnerInv, OneOwner,
     Owning, ReportInv, AbsentInv, Terminal, TypeOK, Runs, regVars, outVars, CallInv
<1>6. ASSUME NEW c \in Callers, NEW a \in Agents, Reserve(c, a)
      PROVE  OwnerInv'
  BY <1>6 DEF Reserve, At, OwnerInv, OneOwner, Owning, ReportInv, AbsentInv, Terminal,
     TypeOK, Runs, regVars, outVars, CallInv
<1>7. ASSUME NEW a \in Agents, NEW g \in Gens, FirstPoll(a, g)
      PROVE  OwnerInv'
  <2>1. Moves(<<a, g>>, "spawned", {"queued", "reporting"})
        /\ UNCHANGED <<state, closed, holders, child, grants, reports, call>>
    BY <1>7, FirstPollMoves
  <2>2. QED
    BY <2>1 DEF Moves, OwnerInv, OneOwner, Owning, ReportInv, AbsentInv, Terminal, TypeOK,
       Runs, regVars, outVars, CallInv
<1>8. ASSUME NEW a \in Agents, NEW g \in Gens, AcquireRun(a, g)
      PROVE  OwnerInv'
  BY <1>8 DEF AcquireRun, PermitFree, WithState, OwnerInv, OneOwner, Owning, ReportInv,
     AbsentInv, Terminal, TypeOK, Runs, regVars, outVars, CallInv
<1>9. ASSUME NEW a \in Agents, NEW g \in Gens, Launch(a, g)
      PROVE  OwnerInv'
  BY <1>9 DEF Launch, OwnerInv, OneOwner, Owning, ReportInv, AbsentInv, Terminal, TypeOK,
     Runs, regVars, outVars, CallInv
<1>10. ASSUME NEW a \in Agents, NEW g \in Gens, LaunchFailed(a, g)
      PROVE  OwnerInv'
  BY <1>10 DEF LaunchFailed, Revoked, Ensured, OwnerInv, OneOwner, Owning, ReportInv,
     AbsentInv, Terminal, TypeOK, Runs, regVars, outVars, CallInv
<1>11. ASSUME NEW a \in Agents, NEW g \in Gens, SetPid(a, g)
      PROVE  OwnerInv'
  BY <1>11 DEF SetPid, OwnerInv, OneOwner, Owning, ReportInv, AbsentInv, Terminal, TypeOK,
     Runs, regVars, outVars, CallInv
<1>12. ASSUME NEW a \in Agents, NEW g \in Gens, Collect(a, g)
      PROVE  OwnerInv'
  BY <1>12 DEF Collect, Reaped, Revoked, Ensured, OwnerInv, OneOwner, Owning, ReportInv,
     AbsentInv, Terminal, TypeOK, Runs, regVars, outVars, CallInv
<1>13. ASSUME NEW a \in Agents, NEW g \in Gens, SetTerminal(a, g)
      PROVE  OwnerInv'
  BY <1>13 DEF SetTerminal, WithState, OwnerInv, OneOwner, Owning, ReportInv, AbsentInv,
     Terminal, TypeOK, Runs, regVars, outVars, CallInv
<1>14. ASSUME NEW a \in Agents, NEW g \in Gens, ReadFinal(a, g)
      PROVE  OwnerInv'
  <2>1. Moves(<<a, g>>, "settled", {"reporting", "over"}) /\ UNCHANGED <<state, closed>>
    BY <1>14, ReadFinalMoves
  <2>2. \A b \in Agents, h \in Gens : pc'[<<b, h>>] \in Owning => pc[<<b, h>>] \in Owning
    BY <2>1 DEF Moves, Owning, Runs
  <2>3. QED
    BY <2>1, <2>2 DEF OwnerInv, OneOwner
<1>15. ASSUME NEW a \in Agents, NEW g \in Gens, Deliver(a, g)
      PROVE  OwnerInv'
  BY <1>15 DEF Deliver, Ended, OwnerInv, OneOwner, Owning, ReportInv, AbsentInv, Terminal,
     TypeOK, Runs, regVars, outVars, CallInv
<1>16. ASSUME NEW a \in Agents, NEW g \in Gens, DropRun(a, g)
      PROVE  OwnerInv'
  BY <1>16 DEF DropRun, AtAwait, Reaped, Revoked, Released, OwnerInv, OneOwner, Owning,
     ReportInv, AbsentInv, Terminal, TypeOK, Runs, regVars, outVars, CallInv
<1>17. ASSUME NEW a \in Agents, NEW g \in Gens, DropGuard(a, g)
      PROVE  OwnerInv'
  <2>1. Moves(<<a, g>>, "dropping", {"reporting", "over"})
        /\ state' = [state EXCEPT ![a] = "stopped"] /\ UNCHANGED closed
    BY <1>17, DropGuardMoves
  <2>2. pc[<<a, g>>] \in Owning /\ pc'[<<a, g>>] \notin Owning
    BY <2>1 DEF Moves, Owning
  <2>3. \A b \in Agents, h \in Gens : pc'[<<b, h>>] \in Owning => pc[<<b, h>>] \in Owning
    BY <2>1, <2>2 DEF Moves, Runs
  <2>4. QED
    BY <2>1, <2>2, <2>3 DEF OwnerInv, OneOwner, TypeOK
<1>18. ASSUME NEW a \in Agents, NEW g \in Gens, NEW end \in {"done", "failed"}, NEW wrote
   \in BOOLEAN, ChildExit(a, g, end, wrote)
      PROVE  OwnerInv'
  BY <1>18 DEF ChildExit, OwnerInv, OneOwner, Owning, ReportInv, AbsentInv, Terminal,
     TypeOK, Runs, regVars, outVars, CallInv
<1>19. ASSUME KillAll
      PROVE  OwnerInv'
  BY <1>19 DEF KillAll, Killed, OwnerInv, OneOwner, Owning, ReportInv, AbsentInv, Terminal,
     TypeOK, Runs, regVars, outVars, CallInv
<1>20. CASE UNCHANGED vars
  BY <1>20 DEF vars, regVars, runVars, outVars, OwnerInv, OneOwner, Owning, ReportInv,
     AbsentInv, Terminal, TypeOK, Runs, regVars, outVars, CallInv
<1>21. QED
  BY <1>1, <1>2, <1>3, <1>4, <1>5, <1>6, <1>7, <1>8, <1>9, <1>10, <1>11, <1>12, <1>13,
     <1>14, <1>15, <1>16, <1>17, <1>18, <1>19, <1>20, StepCases DEF RunStep


\* A grant is taken, and revoked, by the agent's only owner.
LEMMA GrantStep ==
  ASSUME TypeOK, CallInv, AbsentInv, OwnerInv, GrantFollowsChild, [Next]_vars
  PROVE  GrantFollowsChild'
<1>1. ASSUME NEW c \in Callers, QuietCall(c)
      PROVE  GrantFollowsChild'
  BY <1>1, QuietCallFrame DEF GrantFollowsChild, OwnerInv, OneOwner, Owning, TypeOK, Runs,
     regVars, outVars, CallInv
<1>2. ASSUME NEW c \in Callers, BriefFailed(c)
      PROVE  GrantFollowsChild'
  BY <1>2 DEF BriefFailed, Ensured, WithState, At, GrantFollowsChild, OwnerInv, OneOwner,
     Owning, TypeOK, Runs, regVars, outVars, CallInv
<1>3. ASSUME NEW c \in Callers, SpawnTask(c)
      PROVE  GrantFollowsChild'
  BY <1>3 DEF SpawnTask, At, GrantFollowsChild, OwnerInv, OneOwner, Owning, TypeOK, Runs,
     regVars, outVars, CallInv
<1>4. ASSUME NEW c \in Callers, RunOwned(c)
      PROVE  GrantFollowsChild'
  BY <1>4 DEF RunOwned, At, GrantFollowsChild, OwnerInv, OneOwner, Owning, TypeOK, Runs,
     regVars, outVars, CallInv
<1>5. ASSUME NEW c \in Callers, NEW g \in Gens, MsgReactivate(c, g)
      PROVE  GrantFollowsChild'
  BY <1>5 DEF MsgReactivate, Reactivatable, IsNextRun, PidCleared, At, GrantFollowsChild,
     OwnerInv, OneOwner, Owning, TypeOK, Runs, regVars, outVars, CallInv
<1>6. ASSUME NEW c \in Callers, NEW a \in Agents, Reserve(c, a)
      PROVE  GrantFollowsChild'
  <2>1. pc[<<a, 1>>] = "none" /\ <<a, 1>> \in Runs
    BY <1>6, FirstRun DEF Reserve, AbsentInv
  <2>2. QED
    BY <1>6, <2>1 DEF Reserve, GrantFollowsChild, TypeOK, Runs, outVars
<1>7. ASSUME NEW a \in Agents, NEW g \in Gens, FirstPoll(a, g)
      PROVE  GrantFollowsChild'
  <2>1. Moves(<<a, g>>, "spawned", {"queued", "reporting"})
        /\ UNCHANGED <<state, closed, holders, child, grants, reports, call>>
    BY <1>7, FirstPollMoves
  <2>2. QED
    BY <2>1 DEF Moves, GrantFollowsChild, Runs
<1>8. ASSUME NEW a \in Agents, NEW g \in Gens, AcquireRun(a, g)
      PROVE  GrantFollowsChild'
  BY <1>8 DEF AcquireRun, PermitFree, WithState, GrantFollowsChild, OwnerInv, OneOwner,
     Owning, TypeOK, Runs, regVars, outVars, CallInv
<1>9. ASSUME NEW a \in Agents, NEW g \in Gens, Launch(a, g)
      PROVE  GrantFollowsChild'
  BY <1>9 DEF Launch, GrantFollowsChild, OwnerInv, OneOwner, Owning, TypeOK, Runs, regVars,
     outVars, CallInv
<1>10. ASSUME NEW a \in Agents, NEW g \in Gens, LaunchFailed(a, g)
      PROVE  GrantFollowsChild'
  BY <1>10, GenPositive DEF LaunchFailed, Revoked, Ensured, GrantFollowsChild, OwnerInv,
     OneOwner, Owning, TypeOK, Runs, regVars, outVars, CallInv
<1>11. ASSUME NEW a \in Agents, NEW g \in Gens, SetPid(a, g)
      PROVE  GrantFollowsChild'
  BY <1>11 DEF SetPid, GrantFollowsChild, OwnerInv, OneOwner, Owning, TypeOK, Runs, regVars,
     outVars, CallInv
<1>12. ASSUME NEW a \in Agents, NEW g \in Gens, Collect(a, g)
      PROVE  GrantFollowsChild'
  BY <1>12, GenPositive DEF Collect, Reaped, Revoked, Ensured, GrantFollowsChild, OwnerInv,
     OneOwner, Owning, TypeOK, Runs, regVars, outVars, CallInv
<1>13. ASSUME NEW a \in Agents, NEW g \in Gens, SetTerminal(a, g)
      PROVE  GrantFollowsChild'
  BY <1>13 DEF SetTerminal, WithState, GrantFollowsChild, OwnerInv, OneOwner, Owning,
     TypeOK, Runs, regVars, outVars, CallInv
<1>14. ASSUME NEW a \in Agents, NEW g \in Gens, ReadFinal(a, g)
      PROVE  GrantFollowsChild'
  <2>1. Moves(<<a, g>>, "settled", {"reporting", "over"})
        /\ holders' = holders \ {<<a, g>>}
        /\ UNCHANGED <<state, closed, child, grants, reports, call>>
    BY <1>14, ReadFinalMoves
  <2>2. QED
    BY <2>1 DEF Moves, GrantFollowsChild, Runs
<1>15. ASSUME NEW a \in Agents, NEW g \in Gens, Deliver(a, g)
      PROVE  GrantFollowsChild'
  BY <1>15 DEF Deliver, Ended, GrantFollowsChild, OwnerInv, OneOwner, Owning, TypeOK, Runs,
     regVars, outVars, CallInv
<1>16. ASSUME NEW a \in Agents, NEW g \in Gens, DropRun(a, g)
      PROVE  GrantFollowsChild'
  BY <1>16, GenPositive DEF DropRun, AtAwait, Reaped, Revoked, Released, GrantFollowsChild,
     OwnerInv, OneOwner, Owning, TypeOK, Runs, regVars, outVars, CallInv
<1>17. ASSUME NEW a \in Agents, NEW g \in Gens, DropGuard(a, g)
      PROVE  GrantFollowsChild'
  <2>1. Moves(<<a, g>>, "dropping", {"reporting", "over"})
        /\ state' = [state EXCEPT ![a] = "stopped"] /\ reports' = reports \cup {a}
        /\ UNCHANGED <<closed, holders, child, grants, call>>
    BY <1>17, DropGuardMoves
  <2>2. QED
    BY <2>1 DEF Moves, GrantFollowsChild, Runs
<1>18. ASSUME NEW a \in Agents, NEW g \in Gens, NEW end \in {"done", "failed"}, NEW wrote
   \in BOOLEAN, ChildExit(a, g, end, wrote)
      PROVE  GrantFollowsChild'
  BY <1>18 DEF ChildExit, GrantFollowsChild, OwnerInv, OneOwner, Owning, TypeOK, Runs,
     regVars, outVars, CallInv
<1>19. ASSUME KillAll
      PROVE  GrantFollowsChild'
  BY <1>19 DEF KillAll, Killed, GrantFollowsChild, OwnerInv, OneOwner, Owning, TypeOK, Runs,
     regVars, outVars, CallInv
<1>20. CASE UNCHANGED vars
  BY <1>20 DEF vars, regVars, runVars, outVars, GrantFollowsChild, OwnerInv, OneOwner,
     Owning, TypeOK, Runs, regVars, outVars, CallInv
<1>21. QED
  BY <1>1, <1>2, <1>3, <1>4, <1>5, <1>6, <1>7, <1>8, <1>9, <1>10, <1>11, <1>12, <1>13,
     <1>14, <1>15, <1>16, <1>17, <1>18, <1>19, <1>20, StepCases DEF RunStep


\* A live entry keeps what holds it.
Held(a, g) == pc[<<a, g>>] \in Owning \/ kind[<<a, g>>] = "unpolled"

LEMMA LiveKept ==
  ASSUME LiveHasOwner,
         \A a \in Agents : Live(state'[a]) =>
           Live(state[a]) /\ \A g \in Gens : Held(a, g) => Held(a, g)'
  PROVE  LiveHasOwner'
BY DEF LiveHasOwner, Held

\* A run lets go of its agent only as it ends the entry, or unpolled.
LEMMA LiveStep ==
  ASSUME TypeOK, CallInv, ReportInv, LiveHasOwner, [Next]_vars
  PROVE  LiveHasOwner'
<1>1. ASSUME NEW c \in Callers, QuietCall(c)
      PROVE  LiveHasOwner'
  BY <1>1, QuietCallFrame DEF LiveHasOwner
<1>2. ASSUME NEW c \in Callers, BriefFailed(c)
      PROVE  LiveHasOwner'
  <2>1. \A b \in Agents : Live(state'[b]) =>
          Live(state[b]) /\ \A h \in Gens : Held(b, h) => Held(b, h)'
    BY <1>2 DEF BriefFailed, Ensured, WithState, At, Held, Live, Owning, TypeOK, Runs,
       regVars, outVars, CallInv, ReportInv, Terminal
  <2>2. QED
    BY <2>1, LiveKept
<1>3. ASSUME NEW c \in Callers, SpawnTask(c)
      PROVE  LiveHasOwner'
  BY <1>3 DEF SpawnTask, At, LiveHasOwner, Live, Owning, ReportInv, Terminal, TypeOK, Runs,
     regVars, outVars, CallInv
<1>4. ASSUME NEW c \in Callers, RunOwned(c)
      PROVE  LiveHasOwner'
  <2>1. \A b \in Agents : Live(state'[b]) =>
          Live(state[b]) /\ \A h \in Gens : Held(b, h) => Held(b, h)'
    BY <1>4 DEF RunOwned, At, Held, Live, Owning, TypeOK, Runs, regVars, outVars, CallInv,
       ReportInv, Terminal
  <2>2. QED
    BY <2>1, LiveKept
<1>5. ASSUME NEW c \in Callers, NEW g \in Gens, MsgReactivate(c, g)
      PROVE  LiveHasOwner'
  <2>1. PICK a \in Agents : /\ pc' = [pc EXCEPT ![<<a, g>>] = "new"]
                            /\ state' = [state EXCEPT ![a] = "queued"]
                            /\ UNCHANGED kind
    BY <1>5 DEF MsgReactivate, At, CallInv
  <2>2. pc'[<<a, g>>] \in Owning
    BY <2>1 DEF Owning, TypeOK, Runs
  <2>3. \A b \in Agents \ {a} : Live(state'[b]) =>
          Live(state[b]) /\ \A h \in Gens : Held(b, h) => Held(b, h)'
    BY <2>1 DEF Held, TypeOK, Runs
  <2>4. QED
    BY <2>2, <2>3 DEF LiveHasOwner, Held
<1>6. ASSUME NEW c \in Callers, NEW a \in Agents, Reserve(c, a)
      PROVE  LiveHasOwner'
  <2>1. /\ pc' = [pc EXCEPT ![<<a, 1>>] = "new"] /\ state' = [state EXCEPT ![a] = "queued"]
        /\ UNCHANGED kind /\ 1 \in Gens /\ <<a, 1>> \in Runs
    BY <1>6, FirstRun DEF Reserve
  <2>2. QED
    BY <2>1 DEF LiveHasOwner, Live, Owning, TypeOK, Runs
<1>7. ASSUME NEW a \in Agents, NEW g \in Gens, FirstPoll(a, g)
      PROVE  LiveHasOwner'
  <2>1. <<a, g>> \in Runs /\ UNCHANGED state
    BY <1>7 DEF FirstPoll, Runs, regVars
  <2>2. CASE <<a, g>> \in token
    <3>1. kind' = [kind EXCEPT ![<<a, g>>] = "unpolled"] /\ pc' = [pc EXCEPT ![<<a, g>>] =
       "reporting"]
      BY <1>7, <2>2 DEF FirstPoll
    <3>2. QED
      BY <2>1, <3>1 DEF LiveHasOwner, Live, TypeOK
  <2>3. CASE <<a, g>> \notin token
    <3>1. UNCHANGED kind /\ pc' = [pc EXCEPT ![<<a, g>>] = "queued"]
      BY <1>7, <2>3 DEF FirstPoll
    <3>2. QED
      BY <2>1, <3>1 DEF LiveHasOwner, Live, Owning, TypeOK
  <2>4. QED
    BY <2>2, <2>3
<1>8. ASSUME NEW a \in Agents, NEW g \in Gens, AcquireRun(a, g)
      PROVE  LiveHasOwner'
  <2>1. pc'[<<a, g>>] \in Owning
    BY <1>8 DEF AcquireRun, Owning, TypeOK, Runs
  <2>2. \A b \in Agents \ {a} : Live(state'[b]) =>
          Live(state[b]) /\ \A h \in Gens : Held(b, h) => Held(b, h)'
    BY <1>8 DEF AcquireRun, WithState, Held, TypeOK, Runs
  <2>3. QED
    BY <2>1, <2>2 DEF LiveHasOwner, Held
<1>9. ASSUME NEW a \in Agents, NEW g \in Gens, Launch(a, g)
      PROVE  LiveHasOwner'
  BY <1>9 DEF Launch, LiveHasOwner, Live, Owning, ReportInv, Terminal, TypeOK, Runs,
     regVars, outVars, CallInv
<1>10. ASSUME NEW a \in Agents, NEW g \in Gens, LaunchFailed(a, g)
      PROVE  LiveHasOwner'
  BY <1>10 DEF LaunchFailed, Revoked, Ensured, LiveHasOwner, Live, Owning, ReportInv,
     Terminal, TypeOK, Runs, regVars, outVars, CallInv
<1>11. ASSUME NEW a \in Agents, NEW g \in Gens, SetPid(a, g)
      PROVE  LiveHasOwner'
  BY <1>11 DEF SetPid, LiveHasOwner, Live, Owning, ReportInv, Terminal, TypeOK, Runs,
     regVars, outVars, CallInv
<1>12. ASSUME NEW a \in Agents, NEW g \in Gens, Collect(a, g)
      PROVE  LiveHasOwner'
  BY <1>12 DEF Collect, Reaped, Revoked, Ensured, LiveHasOwner, Live, Owning, ReportInv,
     Terminal, TypeOK, Runs, regVars, outVars, CallInv
<1>13. ASSUME NEW a \in Agents, NEW g \in Gens, SetTerminal(a, g)
      PROVE  LiveHasOwner'
  <2>1. \A b \in Agents : Live(state'[b]) =>
          Live(state[b]) /\ \A h \in Gens : Held(b, h) => Held(b, h)'
    BY <1>13 DEF SetTerminal, WithState, Held, Live, Owning, TypeOK, Runs, regVars, outVars,
       CallInv, ReportInv, Terminal
  <2>2. QED
    BY <2>1, LiveKept
<1>14. ASSUME NEW a \in Agents, NEW g \in Gens, ReadFinal(a, g)
      PROVE  LiveHasOwner'
  <2>1. Moves(<<a, g>>, "settled", {"reporting", "over"}) /\ UNCHANGED <<state, kind>>
    BY <1>14, ReadFinalMoves DEF ReadFinal
  <2>2. \A b \in Agents, h \in Gens : pc[<<b, h>>] \in Owning => pc'[<<b, h>>] \in Owning
    BY <2>1 DEF Moves, Owning, Runs
  <2>3. QED
    BY <2>1, <2>2 DEF LiveHasOwner, Live
<1>15. ASSUME NEW a \in Agents, NEW g \in Gens, Deliver(a, g)
      PROVE  LiveHasOwner'
  <2>1. \A b \in Agents : Live(state'[b]) =>
          Live(state[b]) /\ \A h \in Gens : Held(b, h) => Held(b, h)'
    BY <1>15 DEF Deliver, Ended, Held, Live, Owning, TypeOK, Runs, regVars, outVars,
       CallInv, ReportInv, Terminal
  <2>2. QED
    BY <2>1, LiveKept
<1>16. ASSUME NEW a \in Agents, NEW g \in Gens, DropRun(a, g)
      PROVE  LiveHasOwner'
  <2>1. \A b \in Agents : Live(state'[b]) =>
          Live(state[b]) /\ \A h \in Gens : Held(b, h) => Held(b, h)'
    BY <1>16 DEF DropRun, AtAwait, Reaped, Revoked, Released, Held, Live, Owning, TypeOK,
       Runs, regVars, outVars, CallInv, ReportInv, Terminal
  <2>2. QED
    BY <2>1, LiveKept
<1>17. ASSUME NEW a \in Agents, NEW g \in Gens, DropGuard(a, g)
      PROVE  LiveHasOwner'
  <2>1. Moves(<<a, g>>, "dropping", {"reporting", "over"})
        /\ state' = [state EXCEPT ![a] = "stopped"] /\ UNCHANGED kind
    BY <1>17, DropGuardMoves DEF DropGuard
  <2>2. \A b \in Agents \ {a}, h \in Gens : pc[<<b, h>>] \in Owning => pc'[<<b, h>>] \in Owning
    BY <2>1 DEF Moves, Owning, Runs
  <2>3. QED
    BY <2>1, <2>2 DEF LiveHasOwner, Live, TypeOK
<1>18. ASSUME NEW a \in Agents, NEW g \in Gens, NEW end \in {"done", "failed"}, NEW wrote
   \in BOOLEAN, ChildExit(a, g, end, wrote)
      PROVE  LiveHasOwner'
  BY <1>18 DEF ChildExit, LiveHasOwner, Live, Owning, ReportInv, Terminal, TypeOK, Runs,
     regVars, outVars, CallInv
<1>19. ASSUME KillAll
      PROVE  LiveHasOwner'
  BY <1>19 DEF KillAll, Killed, LiveHasOwner, Live, Owning, ReportInv, Terminal, TypeOK,
     Runs, regVars, outVars, CallInv
<1>20. CASE UNCHANGED vars
  BY <1>20 DEF vars, regVars, runVars, outVars, LiveHasOwner, Live, Owning, ReportInv,
     Terminal, TypeOK, Runs, regVars, outVars, CallInv
<1>21. QED
  BY <1>1, <1>2, <1>3, <1>4, <1>5, <1>6, <1>7, <1>8, <1>9, <1>10, <1>11, <1>12, <1>13,
     <1>14, <1>15, <1>16, <1>17, <1>18, <1>19, <1>20, StepCases DEF RunStep


\* No two calls prepare the same run.
LEMMA CallStepInv ==
  ASSUME TypeOK, CallInv, AbsentInv, [Next]_vars
  PROVE  CallInv'
<1>1. ASSUME NEW c \in Callers, QuietCall(c)
      PROVE  CallInv'
  <2>1. \A d \in Callers \ {c} : call'[d] = call[d]
    BY <1>1 DEF QuietCall, ReserveCheck, ReserveRefused, Track, StopWait, StopDone,
       DrainTake, DrainDone, MsgRefused, StopAct, StopLook, MsgLook, GoTo, Return, TypeOK
  <2>2. /\ call'[c].at \notin {"reserved", "tracking"}
        /\ call'[c].at \in {"stopping", "stopped", "amended"} => call'[c].run[1] \in Agents
    <3>1. CASE ReserveCheck(c) \/ StopWait(c) \/ DrainTake(c)
      BY <3>1 DEF ReserveCheck, StopWait, DrainTake, GoTo, TypeOK, Call
    <3>2. CASE ReserveRefused(c) \/ Track(c) \/ StopDone(c) \/ DrainDone(c) \/ MsgRefused(c)
      BY <3>2 DEF ReserveRefused, Track, StopDone, DrainDone, MsgRefused, Return, Idle, TypeOK
    <3>3. ASSUME NEW wait \in BOOLEAN, StopAct(c, wait)
          PROVE  /\ call'[c].at \notin {"reserved", "tracking"}
                 /\ call'[c].at \in {"stopping", "stopped", "amended"}
                      => call'[c].run[1] \in Agents
      <4>1. GoTo(c, "stopped") \/ Return(c)
        BY <3>3, Zenon DEF StopAct
      <4>2. call[c].run[1] \in Agents
        BY <3>3 DEF StopAct, At, CallInv
      <4>3. QED
        BY <4>1, <4>2 DEF GoTo, Return, Idle, TypeOK, Call
    <3>4. ASSUME NEW a \in Agents, StopLook(c, a) \/ MsgLook(c, a)
          PROVE  /\ call'[c].at \notin {"reserved", "tracking"}
                 /\ call'[c].at \in {"stopping", "stopped", "amended"}
                      => call'[c].run[1] \in Agents
      BY <3>4 DEF StopLook, MsgLook, TypeOK, Call
    <3>5. QED
      BY <1>1, <3>1, <3>2, <3>3, <3>4 DEF QuietCall
  <2>3. UNCHANGED pc
    BY <1>1, QuietCallFrame
  <2>4. QED
    BY <2>1, <2>2, <2>3 DEF CallInv
<1>2. ASSUME NEW c \in Callers, BriefFailed(c)
      PROVE  CallInv'
  BY <1>2 DEF BriefFailed, Ensured, WithState, At, CallInv, AbsentInv, TypeOK, Runs,
     regVars, outVars, Call, CallRun, CallPc, GoTo, Return, Idle, NoRun
<1>3. ASSUME NEW c \in Callers, SpawnTask(c)
      PROVE  CallInv'
  BY <1>3 DEF SpawnTask, At, CallInv, AbsentInv, TypeOK, Runs, regVars, outVars, Call,
     CallRun, CallPc, GoTo, Return, Idle, NoRun
<1>4. ASSUME NEW c \in Callers, RunOwned(c)
      PROVE  CallInv'
  BY <1>4 DEF RunOwned, At, CallInv, AbsentInv, TypeOK, Runs, regVars, outVars, Call,
     CallRun, CallPc, GoTo, Return, Idle, NoRun
<1>5. ASSUME NEW c \in Callers, NEW g \in Gens, MsgReactivate(c, g)
      PROVE  CallInv'
  <2>1. /\ call[c].at = "amended" /\ call[c].run[1] \in Agents
        /\ pc[<<call[c].run[1], g>>] = "none" /\ <<call[c].run[1], g>> \in Runs
        /\ pc' = [pc EXCEPT ![<<call[c].run[1], g>>] = "new"]
    BY <1>5 DEF MsgReactivate, IsNextRun, At, CallInv, Runs
  <2>2. \A d \in Callers \ {c} : call'[d] = call[d]
    BY <1>5 DEF MsgReactivate, TypeOK
  <2>3. call'[c].at = "reserved" /\ call'[c].run = <<call[c].run[1], g>>
    BY <1>5 DEF MsgReactivate, TypeOK, Call
  <2>4. QED
    BY <2>1, <2>2, <2>3 DEF CallInv, TypeOK
<1>6. ASSUME NEW c \in Callers, NEW a \in Agents, Reserve(c, a)
      PROVE  CallInv'
  <2>1. pc[<<a, 1>>] = "none" /\ <<a, 1>> \in Runs
        /\ pc' = [pc EXCEPT ![<<a, 1>>] = "new"]
    BY <1>6, FirstRun DEF Reserve, AbsentInv
  <2>2. \A d \in Callers \ {c} : call'[d] = call[d]
    BY <1>6 DEF Reserve, TypeOK
  <2>3. call'[c].at = "reserved" /\ call'[c].run = <<a, 1>>
    BY <1>6 DEF Reserve, TypeOK, Call
  <2>4. QED
    BY <2>1, <2>2, <2>3 DEF CallInv, TypeOK
<1>7. ASSUME NEW a \in Agents, NEW g \in Gens, FirstPoll(a, g)
      PROVE  CallInv'
  <2>1. Moves(<<a, g>>, "spawned", {"queued", "reporting"})
        /\ UNCHANGED <<state, closed, holders, child, grants, reports, call>>
    BY <1>7, FirstPollMoves
  <2>2. QED
    BY <2>1 DEF Moves, CallInv
<1>8. ASSUME NEW a \in Agents, NEW g \in Gens, AcquireRun(a, g)
      PROVE  CallInv'
  BY <1>8 DEF AcquireRun, PermitFree, WithState, CallInv, AbsentInv, TypeOK, Runs, regVars,
     outVars, Call, CallRun, CallPc, GoTo, Return, Idle, NoRun
<1>9. ASSUME NEW a \in Agents, NEW g \in Gens, Launch(a, g)
      PROVE  CallInv'
  BY <1>9 DEF Launch, CallInv, AbsentInv, TypeOK, Runs, regVars, outVars, Call, CallRun,
     CallPc, GoTo, Return, Idle, NoRun
<1>10. ASSUME NEW a \in Agents, NEW g \in Gens, LaunchFailed(a, g)
      PROVE  CallInv'
  BY <1>10 DEF LaunchFailed, Revoked, Ensured, CallInv, AbsentInv, TypeOK, Runs, regVars,
     outVars, Call, CallRun, CallPc, GoTo, Return, Idle, NoRun
<1>11. ASSUME NEW a \in Agents, NEW g \in Gens, SetPid(a, g)
      PROVE  CallInv'
  BY <1>11 DEF SetPid, CallInv, AbsentInv, TypeOK, Runs, regVars, outVars, Call, CallRun,
     CallPc, GoTo, Return, Idle, NoRun
<1>12. ASSUME NEW a \in Agents, NEW g \in Gens, Collect(a, g)
      PROVE  CallInv'
  BY <1>12 DEF Collect, Reaped, Revoked, Ensured, CallInv, AbsentInv, TypeOK, Runs, regVars,
     outVars, Call, CallRun, CallPc, GoTo, Return, Idle, NoRun
<1>13. ASSUME NEW a \in Agents, NEW g \in Gens, SetTerminal(a, g)
      PROVE  CallInv'
  BY <1>13 DEF SetTerminal, WithState, CallInv, AbsentInv, TypeOK, Runs, regVars, outVars,
     Call, CallRun, CallPc, GoTo, Return, Idle, NoRun
<1>14. ASSUME NEW a \in Agents, NEW g \in Gens, ReadFinal(a, g)
      PROVE  CallInv'
  <2>1. Moves(<<a, g>>, "settled", {"reporting", "over"})
        /\ holders' = holders \ {<<a, g>>}
        /\ UNCHANGED <<state, closed, child, grants, reports, call>>
    BY <1>14, ReadFinalMoves
  <2>2. QED
    BY <2>1 DEF Moves, CallInv
<1>15. ASSUME NEW a \in Agents, NEW g \in Gens, Deliver(a, g)
      PROVE  CallInv'
  BY <1>15 DEF Deliver, Ended, CallInv, AbsentInv, TypeOK, Runs, regVars, outVars, Call,
     CallRun, CallPc, GoTo, Return, Idle, NoRun
<1>16. ASSUME NEW a \in Agents, NEW g \in Gens, DropRun(a, g)
      PROVE  CallInv'
  BY <1>16 DEF DropRun, AtAwait, Reaped, Revoked, Released, CallInv, AbsentInv, TypeOK,
     Runs, regVars, outVars, Call, CallRun, CallPc, GoTo, Return, Idle, NoRun
<1>17. ASSUME NEW a \in Agents, NEW g \in Gens, DropGuard(a, g)
      PROVE  CallInv'
  <2>1. Moves(<<a, g>>, "dropping", {"reporting", "over"})
        /\ state' = [state EXCEPT ![a] = "stopped"] /\ reports' = reports \cup {a}
        /\ UNCHANGED <<closed, holders, child, grants, call>>
    BY <1>17, DropGuardMoves
  <2>2. QED
    BY <2>1 DEF Moves, CallInv
<1>18. ASSUME NEW a \in Agents, NEW g \in Gens, NEW end \in {"done", "failed"}, NEW wrote
   \in BOOLEAN, ChildExit(a, g, end, wrote)
      PROVE  CallInv'
  BY <1>18 DEF ChildExit, CallInv, AbsentInv, TypeOK, Runs, regVars, outVars, Call, CallRun,
     CallPc, GoTo, Return, Idle, NoRun
<1>19. ASSUME KillAll
      PROVE  CallInv'
  BY <1>19 DEF KillAll, Killed, CallInv, AbsentInv, TypeOK, Runs, regVars, outVars, Call,
     CallRun, CallPc, GoTo, Return, Idle, NoRun
<1>20. CASE UNCHANGED vars
  BY <1>20 DEF vars, regVars, runVars, outVars, CallInv, AbsentInv, TypeOK, Runs, regVars,
     outVars, Call, CallRun, CallPc, GoTo, Return, Idle, NoRun
<1>21. QED
  BY <1>1, <1>2, <1>3, <1>4, <1>5, <1>6, <1>7, <1>8, <1>9, <1>10, <1>11, <1>12, <1>13,
     <1>14, <1>15, <1>16, <1>17, <1>18, <1>19, <1>20, StepCases DEF RunStep


-----------------------------------------------------------------------------
(***************************************************************************)
(* The invariant is inductive.                                             *)
(***************************************************************************)
LEMMA InitIInv == Init => IInv
<1> SUFFICES ASSUME Init PROVE IInv
  OBVIOUS
<1> USE RegistryAssumption DEF RegistryAssumption, Init
<1>1. Idle \in Call /\ 0 \in 0 .. MaxLaunches
  BY SMT DEF Idle, NoRun, Call, CallPc, CallRun
<1>2. TypeOK
  <2>1. call \in [Callers -> Call]
    BY <1>1
  <2>2. closed \in BOOLEAN /\ holders \in SUBSET Runs /\ token \in SUBSET Runs /\ reports
     \in SUBSET Agents
    BY Zenon
  <2>3. pid \in [Agents -> 0 .. MaxLaunches] /\ background \in [Agents -> 0 .. MaxLaunches]
        /\ grants \in [Agents -> 0 .. MaxLaunches]
    BY <1>1
  <2>4. QED
    BY <2>1, <2>2, <2>3 DEF TypeOK, AgentState, Terminal, RunPc
<1>3. CallInv /\ AbsentInv
  BY DEF CallInv, AbsentInv, Idle, Runs
<1>4. PermitInv
  BY FS_EmptySet DEF PermitInv
<1>5. ReportInv /\ OwnerInv /\ LiveHasOwner
  BY DEF ReportInv, FinishedHasReport, OwnerInv, OneOwner, Owning, Terminal, Runs,
         LiveHasOwner, Live
<1>6. GrantFollowsChild
  BY GenPositive DEF GrantFollowsChild, Runs
<1>7. QED
  BY <1>2, <1>3, <1>4, <1>5, <1>6 DEF IInv

LEMMA IInvStep == IInv /\ [Next]_vars => IInv'
BY TypeStep, CallStepInv, AbsentStep, PermitStep, ReportStep, OwnerStep, GrantStep, LiveStep
   DEF IInv

LEMMA Invariance == Spec => []IInv
BY InitIInv, IInvStep, PTL DEF Spec


-----------------------------------------------------------------------------
(***************************************************************************)
(* The state a report is delivered under.  A task reads its agent's state  *)
(* after run_body has returned; what it reads is its own final state, or   *)
(* that of a later run, because a run that still owns the agent is the     *)
(* last that was launched.                                                 *)
(***************************************************************************)
LaunchedInOrder ==
  \A a \in Agents, g, h \in Gens : pc[<<a, g>>] # "none" /\ h < g => pc[<<a, h>>] # "none"

Later(a, g) == \E h \in Gens : h > g /\ pc[<<a, h>>] # "none"

OwnerIsLast == \A a \in Agents, g \in Gens : pc[<<a, g>>] \in Owning => ~Later(a, g)

SettledIsFinal ==
  \A a \in Agents, g \in Gens :
    pc[<<a, g>>] = "settled" => state[a] \in Terminal \/ Later(a, g)

FinalInv ==
  /\ LaunchedInOrder
  /\ closed \/ (OwnerIsLast /\ SettledIsFinal)
  /\ ReportedStateIsFinal

\* Steps that launch nothing: what was in order stays so.
NoLaunch == \A r \in Runs : /\ pc'[r] = "none" <=> pc[r] = "none"
                            /\ pc'[r] \in Owning => pc[r] \in Owning

LEMMA LaterKept ==
  ASSUME NoLaunch, FinalInv, UNCHANGED closed
  PROVE  /\ LaunchedInOrder' /\ (closed' \/ OwnerIsLast')
         /\ \A a \in Agents, g \in Gens : Later(a, g) <=> Later(a, g)'
BY DEF NoLaunch, FinalInv, LaunchedInOrder, Later, OwnerIsLast, Runs

\* Steps that neither launch a run nor set a state nor bring a run to its
\* end.
LEMMA FinalKept ==
  ASSUME FinalInv, NoLaunch, UNCHANGED <<state, closed>>,
         \A r \in Runs : pc'[r] \in {"settled", "reporting"} =>
                           pc[r] = pc'[r] /\ outcome[r] = outcome'[r]
  PROVE  FinalInv'
<1>1. \A a \in Agents, g \in Gens : <<a, g>> \in Runs
  BY DEF Runs
<1>2. QED
  BY <1>1, LaterKept DEF FinalInv, SettledIsFinal, ReportedStateIsFinal, Later

LEMMA FinalStep ==
  ASSUME IInv, FinalInv, [Next]_vars
  PROVE  FinalInv'
<1> USE DEF IInv
<1>a. \A a \in Agents, g \in Gens : <<a, g>> \in Runs
  BY DEF Runs
<1>1. ASSUME NEW c \in Callers, QuietCall(c) PROVE FinalInv'
  BY <1>1, QuietCallFrame, FinalKept DEF NoLaunch
<1>2. ASSUME NEW c \in Callers, SpawnTask(c) \/ RunOwned(c) PROVE FinalInv'
  <2>1. call[c].run \in Runs /\ pc[call[c].run] = "new"
    BY <1>2 DEF SpawnTask, RunOwned, At, CallInv
  <2>2. NoLaunch /\ UNCHANGED <<state, closed, outcome>>
        /\ \A r \in Runs : pc'[r] \in {pc[r], "spawned", "queued"}
    BY <1>2, <2>1 DEF SpawnTask, RunOwned, NoLaunch, Owning, TypeOK, regVars
  <2>3. QED
    BY <2>2, FinalKept
<1>3. ASSUME NEW c \in Callers, BriefFailed(c) PROVE FinalInv'
  <2>1. call[c].run \in Runs /\ pc[call[c].run] = "new"
    BY <1>3 DEF BriefFailed, At, CallInv
  <2>2. NoLaunch /\ UNCHANGED <<closed, outcome>>
        /\ \A r \in Runs : pc'[r] \in {pc[r], "over"}
        /\ \A a \in Agents : state'[a] \in Terminal \cup {state[a]}
    BY <1>3, <2>1 DEF BriefFailed, WithState, NoLaunch, Owning, TypeOK, Terminal
  <2>3. QED
    BY <2>2, <1>a, LaterKept DEF FinalInv, SettledIsFinal, ReportedStateIsFinal, Later
<1>4. ASSUME NEW c \in Callers, NEW a \in Agents, Reserve(c, a) PROVE FinalInv'
  <2>1. \A g \in Gens : pc[<<a, g>>] = "none"
    BY <1>4 DEF Reserve, AbsentInv
  <2>2. 1 \in Gens /\ \A g \in Gens : g >= 1
    BY RegistryAssumption, SMT DEF RegistryAssumption, Gens
  <2>3. UNCHANGED <<closed, outcome>> /\ state' = [state EXCEPT ![a] = "queued"]
        /\ pc' = [pc EXCEPT ![<<a, 1>>] = "new"]
    BY <1>4 DEF Reserve
  <2>4. LaunchedInOrder'
    BY <2>1, <2>2, <2>3, <1>a DEF FinalInv, LaunchedInOrder, TypeOK, Gens
  <2>5. \A b \in Agents, g \in Gens : Later(b, g)' <=> Later(b, g)
    <3>1. \A b \in Agents, g \in Gens : g > 1 => pc'[<<b, g>>] = pc[<<b, g>>]
      BY <2>3, <1>a DEF TypeOK
    <3>2. \A g, h \in Gens : h > g => h > 1
      BY <2>2 DEF Gens
    <3>3. QED
      BY <3>1, <3>2 DEF Later
  <2>6. ASSUME ~closed PROVE OwnerIsLast' /\ SettledIsFinal'
    <3>1. \A b \in Agents, g \in Gens : pc'[<<b, g>>] = pc[<<b, g>>] \/ (b = a /\ g = 1)
      BY <2>3, <1>a DEF TypeOK
    <3>2. \A g \in Gens : ~Later(a, g)
      BY <2>1 DEF Later
    <3>3. pc'[<<a, 1>>] = "new" /\ \A b \in Agents \ {a} : state'[b] = state[b]
      BY <2>2, <2>3, <1>a DEF TypeOK
    <3>4. QED
      BY <2>1, <2>5, <2>6, <3>1, <3>2, <3>3 DEF FinalInv, OwnerIsLast, SettledIsFinal
  <2>7. ReportedStateIsFinal'
    BY <2>1, <2>3, <1>a, <2>5 DEF FinalInv, ReportedStateIsFinal, Later, TypeOK
  <2>8. QED
    BY <2>3, <2>4, <2>6, <2>7 DEF FinalInv
<1>5. ASSUME NEW c \in Callers, NEW n \in Gens, MsgReactivate(c, n) PROVE FinalInv'
  <2>0. PICK b \in Agents : b = call[c].run[1]
    BY <1>5 DEF MsgReactivate, At, CallInv
  <2>1. state[b] \in Terminal /\ pc[<<b, n>>] = "none"
        /\ \A h \in 1 .. (n - 1) : pc[<<b, h>>] # "none"
    BY <1>5, <2>0 DEF MsgReactivate, Reactivatable, IsNextRun
  <2>2. UNCHANGED <<closed, outcome>> /\ state' = [state EXCEPT ![b] = "queued"]
        /\ pc' = [pc EXCEPT ![<<b, n>>] = "new"]
    BY <1>5, <2>0 DEF MsgReactivate
  <2>3. \A g \in Gens : (g < n => pc[<<b, g>>] # "none") /\ (g > n => pc[<<b, g>>] = "none")
    BY <2>1 DEF FinalInv, LaunchedInOrder, Gens
  <2>4. LaunchedInOrder'
    BY <2>1, <2>2, <2>3, <1>a DEF FinalInv, LaunchedInOrder, TypeOK
  <2>5. ASSUME ~closed PROVE OwnerIsLast'
    <3>1. \A g \in Gens : pc[<<b, g>>] \notin Owning
      BY <2>1, <2>5 DEF OwnerInv
    <3>2. QED
      BY <2>1, <2>2, <2>3, <2>5, <3>1, <1>a DEF FinalInv, OwnerIsLast, Later, TypeOK, Gens
  <2>6. \A a \in Agents, g \in Gens : Later(a, g) => Later(a, g)'
    BY <2>2, <1>a DEF Later, TypeOK
  <2>7. ASSUME ~closed PROVE SettledIsFinal'
    <3>1. \A g \in Gens : pc'[<<b, g>>] = "settled" => Later(b, g)'
      <4>1. ASSUME NEW g \in Gens, pc'[<<b, g>>] = "settled" PROVE g < n
        BY <2>1, <2>2, <2>3, <4>1, <1>a DEF TypeOK, Gens
      <4>2. pc'[<<b, n>>] = "new"
        BY <2>1, <2>2, <1>a DEF TypeOK
      <4>3. QED
        BY <4>1, <4>2 DEF Later, Gens
    <3>2. \A a \in Agents \ {b}, g \in Gens :
            state'[a] = state[a] /\ pc'[<<a, g>>] = pc[<<a, g>>]
      BY <2>2 DEF TypeOK
    <3>3. QED
      BY <2>6, <2>7, <3>1, <3>2 DEF FinalInv, SettledIsFinal
  <2>8. ReportedStateIsFinal'
    BY <2>2, <2>6, <1>a DEF FinalInv, ReportedStateIsFinal, Later, TypeOK
  <2>9. QED
    BY <2>2, <2>4, <2>5, <2>7, <2>8 DEF FinalInv
<1>6. ASSUME NEW a \in Agents, NEW g \in Gens, AcquireRun(a, g) PROVE FinalInv'
  <2>1. NoLaunch /\ UNCHANGED <<closed, outcome>> /\ state' = [state EXCEPT ![a] = "running"]
        /\ pc[<<a, g>>] = "queued" /\ pc' = [pc EXCEPT ![<<a, g>>] = "launching"]
    BY <1>6 DEF AcquireRun, WithState, NoLaunch, Owning, TypeOK
  <2>2. LaunchedInOrder' /\ (closed' \/ OwnerIsLast') /\ ReportedStateIsFinal'
    BY <2>1, <1>a, LaterKept DEF FinalInv, ReportedStateIsFinal, Later, TypeOK
  <2>3. ASSUME ~closed PROVE \A h \in Gens : pc[<<a, h>>] = "settled" => Later(a, h)
    <3>1. ~Later(a, g)
      BY <2>1, <2>3 DEF FinalInv, OwnerIsLast, Owning
    <3>2. QED
      BY <2>1, <3>1 DEF Later, Gens
  <2>4. ASSUME ~closed PROVE SettledIsFinal'
    BY <2>1, <2>3, <2>4, <1>a, LaterKept DEF FinalInv, SettledIsFinal, TypeOK
  <2>5. QED
    BY <2>1, <2>2, <2>4 DEF FinalInv
<1>7. ASSUME NEW a \in Agents, NEW g \in Gens, SetTerminal(a, g) PROVE FinalInv'
  <2>1. NoLaunch /\ UNCHANGED <<closed, outcome>> /\ outcome[<<a, g>>] \in Terminal
        /\ pc' = [pc EXCEPT ![<<a, g>>] = "settled"]
        /\ state' = [state EXCEPT ![a] = outcome[<<a, g>>]]
    BY <1>7, <1>a DEF SetTerminal, WithState, NoLaunch, Owning, TypeOK, ReportInv
  <2>2. LaunchedInOrder' /\ (closed' \/ OwnerIsLast') /\ ReportedStateIsFinal'
    BY <2>1, <1>a, LaterKept DEF FinalInv, ReportedStateIsFinal, Later, TypeOK
  <2>3. ASSUME ~closed PROVE SettledIsFinal'
    BY <2>1, <2>3, <1>a, LaterKept DEF FinalInv, SettledIsFinal, TypeOK
  <2>4. QED
    BY <2>1, <2>2, <2>3 DEF FinalInv
<1>8. ASSUME NEW a \in Agents, NEW g \in Gens, ReadFinal(a, g) PROVE FinalInv'
  <2>1. Moves(<<a, g>>, "settled", {"reporting", "over"}) /\ UNCHANGED <<state, closed>>
    BY <1>8, ReadFinalMoves
  <2>2. pc'[<<a, g>>] = "reporting" => outcome'[<<a, g>>] = state[a]
    BY <1>8, <1>a DEF ReadFinal, Ended, TypeOK
  <2>3. NoLaunch
    BY <2>1 DEF NoLaunch, Moves, Owning
  <2>4. QED
    <3>1. LaunchedInOrder' /\ (closed' \/ OwnerIsLast')
      BY <2>1, <2>3, LaterKept
    <3>2. \A b \in Agents, h \in Gens : Later(b, h) => Later(b, h)'
      BY <2>1, <2>3, LaterKept
    <3>3. closed' \/ SettledIsFinal'
      BY <2>1, <3>2, <1>a DEF FinalInv, SettledIsFinal, Moves
    <3>4. ReportedStateIsFinal'
      BY <2>1, <2>2, <3>2, <1>a
         DEF FinalInv, SettledIsFinal, ReportedStateIsFinal, Later, Moves
    <3>5. QED
      BY <3>1, <3>3, <3>4 DEF FinalInv
<1>9. ASSUME NEW a \in Agents, NEW g \in Gens, DropGuard(a, g) PROVE FinalInv'
  <2>1. Moves(<<a, g>>, "dropping", {"reporting", "over"}) /\ UNCHANGED closed
        /\ state' = [state EXCEPT ![a] = "stopped"]
    BY <1>9, DropGuardMoves
  <2>2. pc'[<<a, g>>] = "reporting" => outcome'[<<a, g>>] \in Terminal
    BY <1>9, <1>a DEF DropGuard, Ended, TypeOK, Terminal
  <2>3. NoLaunch
    BY <2>1 DEF NoLaunch, Moves, Owning
  <2>4. QED
    <3>1. LaunchedInOrder' /\ (closed' \/ OwnerIsLast')
      BY <2>1, <2>3, LaterKept
    <3>2. \A b \in Agents, h \in Gens : Later(b, h) => Later(b, h)'
      BY <2>1, <2>3, LaterKept
    <3>3. closed' \/ SettledIsFinal'
      BY <2>1, <3>2, <1>a DEF FinalInv, SettledIsFinal, Moves, TypeOK, Terminal
    <3>4. ReportedStateIsFinal'
      BY <2>1, <2>2, <3>2, <1>a DEF FinalInv, ReportedStateIsFinal, Later, Moves
    <3>5. QED
      BY <3>1, <3>3, <3>4 DEF FinalInv
<1>10. ASSUME NEW a \in Agents, NEW g \in Gens, FirstPoll(a, g) PROVE FinalInv'
  <2>1. Moves(<<a, g>>, "spawned", {"queued", "reporting"}) /\ UNCHANGED <<state, closed>>
    BY <1>10, FirstPollMoves
  <2>2. pc'[<<a, g>>] = "reporting" => outcome'[<<a, g>>] \in Terminal
    BY <1>10, <1>a DEF FirstPoll, TypeOK, Terminal
  <2>3. NoLaunch
    BY <2>1 DEF NoLaunch, Moves, Owning
  <2>4. QED
    <3>1. LaunchedInOrder' /\ (closed' \/ OwnerIsLast')
      BY <2>1, <2>3, LaterKept
    <3>2. \A b \in Agents, h \in Gens : Later(b, h) => Later(b, h)'
      BY <2>1, <2>3, LaterKept
    <3>3. closed' \/ SettledIsFinal'
      BY <2>1, <3>2, <1>a DEF FinalInv, SettledIsFinal, Moves
    <3>4. ReportedStateIsFinal'
      BY <2>1, <2>2, <3>2, <1>a DEF FinalInv, ReportedStateIsFinal, Later, Moves
    <3>5. QED
      BY <3>1, <3>3, <3>4 DEF FinalInv
<1>11. ASSUME NEW a \in Agents, NEW g \in Gens,
              \/ Launch(a, g) \/ LaunchFailed(a, g) \/ SetPid(a, g) \/ Collect(a, g)
              \/ Deliver(a, g) \/ DropRun(a, g)
       PROVE  FinalInv'
  <2>1. NoLaunch /\ UNCHANGED <<state, closed>>
    BY <1>11 DEF Launch, LaunchFailed, SetPid, Collect, Deliver, Ended, DropRun, AtAwait,
       NoLaunch, Owning, TypeOK, regVars
  <2>2. \A r \in Runs : pc'[r] \in {"settled", "reporting"} =>
                         pc[r] = pc'[r] /\ outcome[r] = outcome'[r]
    BY <1>11, <1>a DEF Launch, LaunchFailed, SetPid, Collect, Deliver, Ended, DropRun, TypeOK
  <2>3. QED
    BY <2>1, <2>2, FinalKept
<1>12. ASSUME NEW a \in Agents, NEW g \in Gens, NEW end \in {"done", "failed"},
              NEW wrote \in BOOLEAN, ChildExit(a, g, end, wrote)
       PROVE  FinalInv'
  <2>1. UNCHANGED <<state, closed, pc, outcome>>
    BY <1>12 DEF ChildExit, regVars
  <2>2. QED
    BY <2>1, FinalKept DEF NoLaunch
<1>13. CASE KillAll
  <2>1. closed' /\ UNCHANGED pc
    BY <1>13 DEF KillAll
  <2>2. QED
    BY <2>1 DEF FinalInv, LaunchedInOrder, ReportedStateIsFinal
<1>14. CASE UNCHANGED vars
  <2>1. UNCHANGED <<state, closed, pc, outcome>>
    BY <1>14 DEF vars, regVars, runVars
  <2>2. QED
    BY <2>1, FinalKept DEF NoLaunch
<1>15. QED
  BY <1>1, <1>2, <1>3, <1>4, <1>5, <1>6, <1>7, <1>8, <1>9, <1>10, <1>11, <1>12, <1>13, <1>14,
     StepCases DEF RunStep

LEMMA FinalInvariance == Spec => []FinalInv
<1>1. Init => FinalInv
  BY DEF Init, FinalInv, LaunchedInOrder, OwnerIsLast, SettledIsFinal, ReportedStateIsFinal,
     Owning, Runs
<1>2. IInv /\ FinalInv /\ [Next]_vars => FinalInv'
  BY FinalStep
<1>3. QED
  BY <1>1, <1>2, Invariance, PTL DEF Spec

-----------------------------------------------------------------------------
(***************************************************************************)
(* What `stop` finds in the background map.  The token of a dispatch whose *)
(* task goes on is there from track_background on, unless a wait has taken *)
(* the handle: the insert of a continuation replaces it only once the      *)
(* dispatch has ended.                                                     *)
(***************************************************************************)
OnlyWaitersWait ==
  \A c \in Callers : call[c].at \notin {"waiting", "draining"} => call[c].waits = {}

TrackingIsLaunched ==
  \A c \in Callers : call[c].at = "tracking" => pc[call[c].run] # "none"

TrackedIsFound ==
  \A a \in Agents : Tracked(<<a, 1>>) /\ ~Taken(<<a, 1>>) => background[a] = 1

TrackInv == OnlyWaitersWait /\ TrackingIsLaunched /\ (closed \/ TrackedIsFound)

\* Steps of a run (and of kill_all) that neither launch one nor make one the
\* task of its own.
NoTask == \A r \in Runs :
  /\ pc[r] # "none" => pc'[r] # "none"
  /\ pc'[r] \in Owning \ {"new"} /\ kind'[r] = "task"
       => pc[r] \in Owning \ {"new"} /\ kind[r] = "task"

LEMMA TrackedKept ==
  ASSUME CallInv, TrackInv, NoTask, UNCHANGED <<background, call>>, closed => closed'
  PROVE  TrackInv'
<1>1. OnlyWaitersWait' /\ TrackingIsLaunched'
  BY DEF CallInv, TrackInv, NoTask, OnlyWaitersWait, TrackingIsLaunched
<1>2. \A a \in Agents : Tracked(<<a, 1>>)' => Tracked(<<a, 1>>)
  BY FirstRun DEF NoTask, Tracked, At
<1>3. \A a \in Agents : Taken(<<a, 1>>)' <=> Taken(<<a, 1>>)
  BY DEF Taken
<1>4. QED
  BY <1>1, <1>2, <1>3 DEF TrackInv, TrackedIsFound

\* Steps of a call that is not inserting a handle: the runs it waits for no
\* longer have ended.
LEMMA TrackedMoves ==
  ASSUME CallInv, TrackInv, NoTask, UNCHANGED <<background, closed>>, NEW c \in Callers,
         \A d \in Callers \ {c} : call'[d] = call[d],
         call[c].at # "tracking", call'[c].at # "tracking",
         call[c].waits \subseteq Over, call'[c].waits = {}
  PROVE  TrackInv'
<1>1. OnlyWaitersWait' /\ TrackingIsLaunched'
  BY DEF CallInv, TrackInv, NoTask, OnlyWaitersWait, TrackingIsLaunched
<1>2. ASSUME NEW a \in Agents, Tracked(<<a, 1>>)', ~Taken(<<a, 1>>)'
      PROVE  Tracked(<<a, 1>>) /\ ~Taken(<<a, 1>>)
  <2>1. /\ pc[<<a, 1>>] \in Owning \ {"new"} /\ kind[<<a, 1>>] = "task"
        /\ \A d \in Callers : ~(call'[d].at = "tracking" /\ call'[d].run = <<a, 1>>)
    BY <1>2, FirstRun DEF NoTask, Tracked, At
  <2>2. <<a, 1>> \notin call[c].waits
    BY <2>1 DEF Over, Owning
  <2>3. QED
    BY <1>2, <2>1, <2>2 DEF Tracked, Taken, At
<1>3. QED
  BY <1>1, <1>2 DEF TrackInv, TrackedIsFound

LEMMA TrackStep ==
  ASSUME IInv, FinalInv, TrackInv, [Next]_vars
  PROVE  TrackInv'
<1> USE DEF IInv
<1>a. \A c \in Callers : call[c].at \notin {"waiting", "draining"} => call[c].waits = {}
  BY DEF TrackInv, OnlyWaitersWait
<1>b. ASSUME NEW c \in Callers, UNCHANGED <<background, closed, pc, kind>>,
             \/ call[c].at \notin {"tracking", "waiting", "draining"}
             \/ call[c].waits \subseteq Over /\ call[c].at # "tracking",
             \/ \E p \in CallPc \ {"tracking", "waiting", "draining"} :
                  \/ call' = [call EXCEPT ![c].at = p] /\ call[c].waits = {}
                  \/ \E r \in CallRun : call' = [call EXCEPT ![c].at = p, ![c].run = r]
                                        /\ call[c].waits = {}
             \/ call' = [call EXCEPT ![c] = Idle]
      PROVE  TrackInv'
  <2>1. /\ \A d \in Callers \ {c} : call'[d] = call[d]
        /\ call'[c].at # "tracking" /\ call'[c].waits = {}
    <3>1. CASE call' = [call EXCEPT ![c] = Idle]
      BY <3>1 DEF TypeOK, Idle
    <3>2. ASSUME call[c].waits = {}, NEW p \in CallPc \ {"tracking", "waiting", "draining"},
                 call' = [call EXCEPT ![c].at = p]
          PROVE  /\ \A d \in Callers \ {c} : call'[d] = call[d]
                 /\ call'[c].at # "tracking" /\ call'[c].waits = {}
      BY <3>2 DEF TypeOK, Call
    <3>3. ASSUME call[c].waits = {}, NEW p \in CallPc \ {"tracking", "waiting", "draining"},
                 NEW r \in CallRun, call' = [call EXCEPT ![c].at = p, ![c].run = r]
          PROVE  /\ \A d \in Callers \ {c} : call'[d] = call[d]
                 /\ call'[c].at # "tracking" /\ call'[c].waits = {}
      BY <3>3 DEF TypeOK, Call
    <3>4. QED
      BY <1>b, <3>1, <3>2, <3>3
  <2>2. call[c].waits \subseteq Over /\ call[c].at # "tracking"
    BY <1>a, <1>b
  <2>3. QED
    BY <1>b, <2>1, <2>2, TrackedMoves DEF NoTask
<1>1. ASSUME NEW c \in Callers,
             ReserveCheck(c) \/ ReserveRefused(c) \/ StopDone(c) \/ DrainDone(c) \/ MsgRefused(c)
      PROVE  TrackInv'
  BY <1>1, <1>a, <1>b DEF ReserveCheck, ReserveRefused, StopDone, DrainDone, MsgRefused, At,
     GoTo, Return, CallPc, regVars, runVars
<1>2. ASSUME NEW c \in Callers, NEW wait \in BOOLEAN, StopAct(c, wait)
      PROVE  TrackInv'
  <2>1. /\ call[c].at = "stopping" /\ UNCHANGED <<background, closed, pc, kind>>
        /\ \/ call' = [call EXCEPT ![c].at = "stopped"]
           \/ call' = [call EXCEPT ![c] = Idle]
    BY <1>2 DEF StopAct, At, GoTo, Return, regVars
  <2>2. QED
    BY <2>1, <1>a, <1>b DEF CallPc
<1>3. ASSUME NEW c \in Callers, NEW a \in Agents, StopLook(c, a) \/ MsgLook(c, a)
      PROVE  TrackInv'
  <2>1. <<a, pid[a]>> \in CallRun /\ <<a, 0>> \in CallRun
    BY RegistryAssumption, SMT DEF TypeOK, CallRun, RegistryAssumption
  <2>2. call[c].at = "idle" /\ UNCHANGED <<background, closed, pc, kind>>
    BY <1>3 DEF StopLook, MsgLook, At, regVars, runVars
  <2>3. \E p \in {"stopping", "amended"}, r \in CallRun :
          call' = [call EXCEPT ![c].at = p, ![c].run = r]
    BY <1>3, <2>1 DEF StopLook, MsgLook
  <2>4. QED
    BY <2>2, <2>3, <1>a, <1>b DEF CallPc
<1>4. ASSUME NEW c \in Callers, BriefFailed(c) \/ RunOwned(c)
      PROVE  TrackInv'
  <2>1. /\ call[c].at = "reserved" /\ call' = [call EXCEPT ![c] = Idle]
        /\ UNCHANGED <<background, closed>>
    BY <1>4 DEF BriefFailed, RunOwned, At, Return, regVars
  <2>2. call[c].run \in Runs /\ pc[call[c].run] = "new"
    BY <2>1 DEF CallInv
  <2>3. NoTask
    BY <1>4, <2>2 DEF BriefFailed, RunOwned, NoTask, Owning, TypeOK
  <2>4. QED
    BY <2>1, <2>3, <1>a, TrackedMoves DEF TypeOK, Idle
<1>5. ASSUME NEW c \in Callers, NEW a \in Agents, Reserve(c, a)
      PROVE  TrackInv'
  <2>1. /\ call[c].at = "checked" /\ UNCHANGED <<background, closed, kind>>
        /\ call' = [call EXCEPT ![c].at = "reserved", ![c].run = <<a, 1>>]
        /\ pc' = [pc EXCEPT ![<<a, 1>>] = "new"]
    BY <1>5 DEF Reserve, At
  <2>2. /\ \A d \in Callers \ {c} : call'[d] = call[d]
        /\ call'[c].at = "reserved" /\ call'[c].waits = {}
    BY <2>1, <1>a DEF TypeOK, Call
  <2>3. NoTask
    BY <2>1 DEF NoTask, TypeOK
  <2>4. QED
    BY <2>1, <2>2, <2>3, <1>a, TrackedMoves
<1>6. ASSUME NEW c \in Callers, NEW g \in Gens, MsgReactivate(c, g)
      PROVE  TrackInv'
  <2>1. /\ call[c].at = "amended" /\ UNCHANGED <<background, closed, kind>>
        /\ call' = [call EXCEPT ![c].at = "reserved", ![c].run = <<call[c].run[1], g>>]
        /\ pc' = [pc EXCEPT ![<<call[c].run[1], g>>] = "new"]
    BY <1>6 DEF MsgReactivate, At
  <2>2. /\ \A d \in Callers \ {c} : call'[d] = call[d]
        /\ call'[c].at = "reserved" /\ call'[c].waits = {}
    BY <2>1, <1>a DEF TypeOK, Call
  <2>3. NoTask
    BY <2>1 DEF NoTask, TypeOK
  <2>4. QED
    BY <2>1, <2>2, <2>3, <1>a, TrackedMoves
<1>7. ASSUME NEW c \in Callers, SpawnTask(c)
      PROVE  TrackInv'
  <2> DEFINE n == call[c].run
  <2>1. /\ call[c].at = "reserved" /\ n \in Runs
        /\ pc' = [pc EXCEPT ![n] = "spawned"]
        /\ call' = [call EXCEPT ![c].at = "tracking"]
        /\ UNCHANGED <<background, closed, kind>>
    BY <1>7 DEF SpawnTask, At, GoTo, CallInv, regVars
  <2>2. /\ \A d \in Callers \ {c} : call'[d] = call[d]
        /\ call'[c].at = "tracking" /\ call'[c].run = n /\ call'[c].waits = {}
    BY <2>1, <1>a DEF TypeOK, Call
  <2>3. /\ \A r \in Runs \ {n} : pc'[r] = pc[r]
        /\ pc'[n] = "spawned"
    BY <2>1 DEF TypeOK
  <2>4. OnlyWaitersWait'
    BY <2>2 DEF TrackInv, OnlyWaitersWait
  <2>5. TrackingIsLaunched'
    BY <2>1, <2>2, <2>3 DEF TrackInv, TrackingIsLaunched, CallInv
  <2>6. \A a \in Agents : Taken(<<a, 1>>)' <=> Taken(<<a, 1>>)
    BY <2>1, <2>2, <1>a DEF Taken
  <2>7. ASSUME NEW a \in Agents, Tracked(<<a, 1>>)'
        PROVE  Tracked(<<a, 1>>)
    <3>1. <<a, 1>> # n
      BY <2>2, <2>7 DEF Tracked, At
    <3>2. QED
      BY <2>1, <2>2, <2>3, <2>7, <3>1, FirstRun DEF Tracked, At
  <2>8. QED
    BY <2>1, <2>4, <2>5, <2>6, <2>7 DEF TrackInv, TrackedIsFound
<1>8. ASSUME NEW c \in Callers, Track(c)
      PROVE  TrackInv'
  <2> DEFINE n == call[c].run
  <2>1. /\ call[c].at = "tracking" /\ n \in Runs /\ pc[n] # "none"
        /\ call' = [call EXCEPT ![c] = Idle]
        /\ background' = [background EXCEPT ![n[1]] = n[2]]
        /\ UNCHANGED <<closed, pc, kind>>
    BY <1>8 DEF Track, At, Return, CallInv, runVars, TrackInv, TrackingIsLaunched
  <2>2. PICK b \in Agents, g \in Gens : n = <<b, g>>
    BY <2>1 DEF Runs
  <2>3. /\ \A d \in Callers \ {c} : call'[d] = call[d]
        /\ call'[c].at = "idle" /\ call'[c].waits = {}
    BY <2>1 DEF TypeOK, Idle
  <2>4. OnlyWaitersWait' /\ TrackingIsLaunched'
    BY <2>1, <2>3 DEF TrackInv, OnlyWaitersWait, TrackingIsLaunched
  <2>5. ASSUME ~closed, NEW a \in Agents, Tracked(<<a, 1>>)', ~Taken(<<a, 1>>)'
        PROVE  background'[a] = 1
    <3>1. CASE a = b /\ g = 1
      BY <2>1, <2>2, <3>1 DEF TypeOK
    <3>2. CASE a = b /\ g # 1
      <4>1. Later(a, 1)
        BY <2>1, <2>2, <3>2 DEF Later, Gens
      <4>2. pc[<<a, 1>>] \in Owning
        BY <2>1, <2>5 DEF Tracked
      <4>3. QED
        BY <4>1, <4>2, <2>5, FirstRun DEF FinalInv, OwnerIsLast
    <3>3. CASE a # b
      <4>1. Tracked(<<a, 1>>)
        BY <2>1, <2>2, <2>3, <2>5, <3>3 DEF Tracked, At
      <4>2. ~Taken(<<a, 1>>)
        BY <2>1, <2>3, <2>5, <1>a DEF Taken
      <4>3. background'[a] = background[a]
        BY <2>1, <2>2, <3>3 DEF TypeOK
      <4>4. QED
        BY <4>1, <4>2, <4>3, <2>5 DEF TrackInv, TrackedIsFound
    <3>4. QED
      BY <3>1, <3>2, <3>3
  <2>6. QED
    BY <2>1, <2>4, <2>5 DEF TrackInv, TrackedIsFound
<1>9. ASSUME NEW c \in Callers, StopWait(c)
      PROVE  TrackInv'
  <2> DEFINE b == call[c].run[1]
  <2>1. /\ call[c].at = "stopped" /\ b \in Agents
        /\ background' = [background EXCEPT ![b] = 0]
        /\ call' = [call EXCEPT ![c].at = "waiting", ![c].waits = TrackedRun(b)]
        /\ UNCHANGED <<closed, pc, kind>>
    BY <1>9 DEF StopWait, At, CallInv, runVars
  <2>2. /\ \A d \in Callers \ {c} : call'[d] = call[d]
        /\ call'[c].at = "waiting" /\ call'[c].waits = TrackedRun(b)
    BY <2>1 DEF TypeOK, Call
  <2>3. OnlyWaitersWait' /\ TrackingIsLaunched'
    BY <2>1, <2>2 DEF TrackInv, OnlyWaitersWait, TrackingIsLaunched
  <2>4. ASSUME ~closed, NEW a \in Agents, Tracked(<<a, 1>>)', ~Taken(<<a, 1>>)'
        PROVE  background'[a] = 1
    <3>1. Tracked(<<a, 1>>)
      BY <2>1, <2>2, <2>4 DEF Tracked, At
    <3>2. ~Taken(<<a, 1>>)
      BY <2>1, <2>2, <2>4, <1>a DEF Taken
    <3>3. background[a] = 1
      BY <2>4, <3>1, <3>2 DEF TrackInv, TrackedIsFound
    <3>4. a # b
      <4>1. ASSUME a = b PROVE <<a, 1>> \in call'[c].waits
        BY <2>2, <3>3, <4>1 DEF TrackedRun
      <4>2. QED
        BY <4>1, <2>4 DEF Taken
    <3>5. QED
      BY <2>1, <3>3, <3>4 DEF TypeOK
  <2>5. QED
    BY <2>1, <2>3, <2>4 DEF TrackInv, TrackedIsFound
<1>10. ASSUME NEW c \in Callers, DrainTake(c)
       PROVE  TrackInv'
  <2> DEFINE W == UNION {TrackedRun(a) : a \in Agents}
  <2>1. /\ \/ call[c].at = "idle"
           \/ call[c].at = "draining" /\ call[c].waits \subseteq Over
        /\ call' = [call EXCEPT ![c].at = "draining", ![c].waits = W]
        /\ UNCHANGED <<closed, pc, kind>>
    BY <1>10 DEF DrainTake, At, runVars
  <2>2. /\ \A d \in Callers \ {c} : call'[d] = call[d]
        /\ call'[c].at = "draining" /\ call'[c].waits = W
    BY <2>1 DEF TypeOK, Call
  <2>3. OnlyWaitersWait' /\ TrackingIsLaunched'
    BY <2>1, <2>2 DEF TrackInv, OnlyWaitersWait, TrackingIsLaunched
  <2>4. ASSUME ~closed, NEW a \in Agents, Tracked(<<a, 1>>)', ~Taken(<<a, 1>>)'
        PROVE  FALSE
    <3>1. Tracked(<<a, 1>>)
      BY <2>1, <2>2, <2>4 DEF Tracked, At
    <3>2. <<a, 1>> \notin call[c].waits
      BY <2>1, <3>1, <1>a DEF Tracked, Over, Owning
    <3>3. ~Taken(<<a, 1>>)
      BY <2>2, <2>4, <3>2 DEF Taken
    <3>4. <<a, 1>> \in TrackedRun(a)
      BY <2>4, <3>1, <3>3 DEF TrackInv, TrackedIsFound, TrackedRun
    <3>5. QED
      BY <2>2, <2>4, <3>4 DEF Taken
  <2>5. QED
    BY <2>1, <2>3, <2>4 DEF TrackInv, TrackedIsFound
<1>11. ASSUME NEW a \in Agents, NEW g \in Gens, FirstPoll(a, g)
       PROVE  TrackInv'
  <2>1. Moves(<<a, g>>, "spawned", {"queued", "reporting"})
        /\ UNCHANGED <<background, closed, call>>
    BY <1>11, FirstPollMoves DEF FirstPoll, regVars
  <2>2. \A r \in Runs : kind'[r] = "task" => kind[r] = "task"
    BY <1>11 DEF FirstPoll, TypeOK
  <2>3. NoTask
    BY <2>1, <2>2 DEF Moves, NoTask, Owning
  <2>4. QED
    BY <2>1, <2>3, TrackedKept
<1>12. ASSUME NEW a \in Agents, NEW g \in Gens, ReadFinal(a, g)
       PROVE  TrackInv'
  <2>1. Moves(<<a, g>>, "settled", {"reporting", "over"})
        /\ UNCHANGED <<background, closed, kind, call>>
    BY <1>12, ReadFinalMoves DEF ReadFinal
  <2>2. QED
    BY <2>1, TrackedKept DEF Moves, NoTask, Owning
<1>13. ASSUME NEW a \in Agents, NEW g \in Gens, DropGuard(a, g)
       PROVE  TrackInv'
  <2>1. Moves(<<a, g>>, "dropping", {"reporting", "over"})
        /\ UNCHANGED <<background, closed, kind, call>>
    BY <1>13, DropGuardMoves DEF DropGuard
  <2>2. QED
    BY <2>1, TrackedKept DEF Moves, NoTask, Owning
<1>14. ASSUME NEW a \in Agents, NEW g \in Gens,
              \/ AcquireRun(a, g) \/ Launch(a, g) \/ LaunchFailed(a, g) \/ SetPid(a, g)
              \/ Collect(a, g) \/ SetTerminal(a, g) \/ Deliver(a, g) \/ DropRun(a, g)
       PROVE  TrackInv'
  <2>1. UNCHANGED <<background, closed, kind, call>>
    BY <1>14 DEF AcquireRun, Launch, LaunchFailed, SetPid, Collect, SetTerminal, Deliver,
       DropRun, regVars
  <2>2. pc[<<a, g>>] \in Owning \ {"new"} \/ pc[<<a, g>>] = "reporting"
    BY <1>14 DEF AcquireRun, Launch, LaunchFailed, SetPid, Collect, SetTerminal, Deliver,
       DropRun, AtAwait, Owning
  <2>3. \E p \in RunPc \ {"none"} :
          pc' = [pc EXCEPT ![<<a, g>>] = p] /\ (pc[<<a, g>>] = "reporting" => p = "over")
    BY <1>14 DEF AcquireRun, Launch, LaunchFailed, SetPid, Collect, SetTerminal, Deliver,
       Ended, DropRun, AtAwait, RunPc
  <2>4. NoTask
    BY <2>1, <2>2, <2>3 DEF NoTask, Owning, TypeOK
  <2>5. QED
    BY <2>1, <2>4, TrackedKept
<1>15. ASSUME NEW a \in Agents, NEW g \in Gens, NEW end \in {"done", "failed"},
              NEW wrote \in BOOLEAN, ChildExit(a, g, end, wrote)
       PROVE  TrackInv'
  BY <1>15, TrackedKept DEF ChildExit, NoTask, regVars
<1>16. CASE KillAll
  BY <1>16, TrackedKept DEF KillAll, NoTask
<1>17. CASE UNCHANGED vars
  BY <1>17, TrackedKept DEF vars, regVars, runVars, NoTask
<1>18. QED
  BY <1>1, <1>2, <1>3, <1>4, <1>5, <1>6, <1>7, <1>8, <1>9, <1>10, <1>11, <1>12, <1>13, <1>14,
     <1>15, <1>16, <1>17, StepCases DEF RunStep, QuietCall

LEMMA TrackInvariance == Spec => []TrackInv
<1>1. Init => TrackInv
  BY FirstRun DEF Init, TrackInv, OnlyWaitersWait, TrackingIsLaunched, TrackedIsFound, Tracked,
     Owning, Idle
<1>2. IInv /\ FinalInv /\ TrackInv /\ [Next]_vars => TrackInv'
  BY TrackStep
<1>3. QED
  BY <1>1, <1>2, Invariance, FinalInvariance, PTL DEF Spec

-----------------------------------------------------------------------------
(***************************************************************************)
(* Theorems.                                                               *)
(***************************************************************************)

\* The variables keep their types.
THEOREM TypeCorrect == Spec => []TypeOK
<1>1. IInv => TypeOK
  BY DEF IInv
<1>2. QED
  BY <1>1, Invariance, PTL

\* The semaphore bounds the children that are alive: each belongs to a run
\* that holds a permit.
THEOREM ChildrenBounded == Spec => []ConcurrencyBound
<1>1. ASSUME IInv PROVE ConcurrencyBound
  <2>1. Alive \subseteq holders
    BY <1>1 DEF IInv, PermitInv, Alive
  <2>2. Cardinality(Alive) <= Cardinality(holders) /\ IsFiniteSet(Alive)
    BY <1>1, <2>1, FS_Subset DEF IInv, PermitInv
  <2>3. QED
    BY <1>1, <2>2, FS_CardinalityType, RegistryAssumption
       DEF IInv, PermitInv, ConcurrencyBound, RegistryAssumption
<1>2. QED
  BY <1>1, Invariance, PTL

\* One run at a time owns an agent's entry, directory and grant.
THEOREM OwnersExclude == Spec => []OneOwner
<1>1. IInv => OneOwner
  BY DEF IInv, OwnerInv, OneOwner
<1>2. QED
  BY <1>1, Invariance, PTL

\* A grant lives exactly as long as the child it was taken for.
THEOREM GrantsFollowChildren == Spec => []GrantFollowsChild
<1>1. IInv => GrantFollowsChild
  BY DEF IInv
<1>2. QED
  BY <1>1, Invariance, PTL

\* A finished agent has a report.md (D-04).
THEOREM ReportsPrecedeFinish == Spec => []FinishedHasReport
<1>1. IInv => FinishedHasReport
  BY DEF IInv, ReportInv
<1>2. QED
  BY <1>1, Invariance, PTL

\* A finished agent has no process.
THEOREM FinishedAreGone == Spec => []FinishedHasNoChild
<1>1. ASSUME IInv PROVE FinishedHasNoChild
  BY <1>1 DEF IInv, PermitInv, OwnerInv, Owning, FinishedHasNoChild, Alive, Runs
<1>2. QED
  BY <1>1, Invariance, PTL

\* What counts against max_live is owned by a run, or was stopped unpolled.
THEOREM LiveAreOwned == Spec => []LiveHasOwner
<1>1. IInv => LiveHasOwner
  BY DEF IInv
<1>2. QED
  BY <1>1, Invariance, PTL

\* The semaphore bounds the children, and the entries are well formed.
THEOREM RegistryIsSound == Spec => []RegistrySound
<1>1. TypeOK /\ ConcurrencyBound => RegistrySound
  BY DEF RegistrySound
<1>2. QED
  BY <1>1, TypeCorrect, ChildrenBounded, PTL

\* A live entry, its directory and its grant belong to one run.
THEOREM OneRunOwns == Spec => []OwnedByOneRun
<1>1. OneOwner /\ LiveHasOwner /\ GrantFollowsChild => OwnedByOneRun
  BY DEF OwnedByOneRun
<1>2. QED
  BY <1>1, OwnersExclude, LiveAreOwned, GrantsFollowChildren, PTL

\* A finished agent has a report and no process.
THEOREM FinishedAreSettled == Spec => []FinishedIsSettled
<1>1. FinishedHasNoChild /\ FinishedHasReport => FinishedIsSettled
  BY DEF FinishedIsSettled
<1>2. QED
  BY <1>1, FinishedAreGone, ReportsPrecedeFinish, PTL

\* A finished agent stays as it ended until it is continued: only an owner
\* sets the state, and a finished agent has none.
THEOREM FinishedStaysSo == Spec => FinishedStays
<1> DEFINE Stays == \A a \in Agents :
                      state[a] \in Terminal /\ ~closed => state'[a] \in {state[a], "queued"}
<1>1. ASSUME IInv, [Next]_vars
      PROVE  Stays
  <2> USE <1>1 DEF IInv
  <2>1. \A a \in Agents, g \in Gens :
          state[a] \in Terminal /\ ~closed => pc[<<a, g>>] \notin Owning
    BY DEF OwnerInv
  <2>2. ASSUME NEW c \in Callers, QuietCall(c) PROVE Stays
    BY <2>2, QuietCallFrame
  <2>3. ASSUME NEW c \in Callers, BriefFailed(c) PROVE Stays
    BY <2>3, <2>1 DEF BriefFailed, WithState, At, CallInv, Runs, Owning, TypeOK
  <2>4. ASSUME NEW c \in Callers, SpawnTask(c) \/ RunOwned(c) PROVE Stays
    BY <2>4 DEF SpawnTask, RunOwned, regVars
  <2>5. ASSUME NEW c \in Callers, NEW a \in Agents, Reserve(c, a) PROVE Stays
    BY <2>5 DEF Reserve, TypeOK
  <2>6. ASSUME NEW c \in Callers, NEW g \in Gens, MsgReactivate(c, g) PROVE Stays
    BY <2>6 DEF MsgReactivate, TypeOK
  <2>7. ASSUME NEW a \in Agents, NEW g \in Gens, RunStep(a, g) PROVE Stays
    <3>1. CASE AcquireRun(a, g) \/ SetTerminal(a, g)
      BY <3>1, <2>1 DEF AcquireRun, SetTerminal, WithState, Owning, TypeOK
    <3>2. CASE DropGuard(a, g)
      <4>1. pc[<<a, g>>] = "dropping" /\ state' = [state EXCEPT ![a] = "stopped"]
        BY <3>2, DropGuardMoves DEF Moves
      <4>2. QED
        BY <4>1, <2>1 DEF Owning, TypeOK
    <3>3. CASE FirstPoll(a, g) \/ ReadFinal(a, g)
      BY <3>3 DEF FirstPoll, ReadFinal, regVars
    <3>4. CASE \/ Launch(a, g) \/ LaunchFailed(a, g) \/ SetPid(a, g) \/ Collect(a, g)
               \/ Deliver(a, g) \/ DropRun(a, g)
      BY <3>4 DEF Launch, LaunchFailed, SetPid, Collect, Deliver, DropRun, regVars
    <3>5. ASSUME NEW end \in {"done", "failed"}, NEW wrote \in BOOLEAN, ChildExit(a, g, end,
       wrote)
          PROVE  Stays
      BY <3>5 DEF ChildExit, regVars
    <3>6. QED
      BY <2>7, <3>1, <3>2, <3>3, <3>4, <3>5 DEF RunStep
  <2>8. CASE KillAll
    BY <2>8 DEF KillAll, TypeOK, Terminal
  <2>9. CASE UNCHANGED vars
    BY <2>9 DEF vars, regVars
  <2>10. QED
    BY <2>2, <2>3, <2>4, <2>5, <2>6, <2>7, <2>8, <2>9, StepCases
<1>2. QED
  BY <1>1, Invariance, PTL DEF Spec, FinishedStays

\* The state a report is delivered under, which spawn_tracked's task reads again
\* after run_body has returned, is a finished one, or the agent has been
\* continued meanwhile.
THEOREM ReportsAreFinal == Spec => []ReportedStateIsFinal
<1>1. FinalInv => ReportedStateIsFinal
  BY DEF FinalInv
<1>2. QED
  BY <1>1, FinalInvariance, PTL

\* stop() cancels the token of a dispatch that has been tracked and goes on,
\* unless a wait has taken the handle or nanopi quits: the map still names
\* that dispatch, because what would replace it is launched after its end.
THEOREM StopsReach == Spec => StopReachesTask
<1> DEFINE Reaches == \A c \in Callers : LET r == <<call[c].run[1], 1>> IN
                        StopActs(c) /\ Tracked(r) /\ ~Taken(r) => r \in token' \/ closed
<1>1. ASSUME IInv, TrackInv, [Next]_vars
      PROVE  Reaches
  <2> SUFFICES ASSUME NEW c \in Callers, StopActs(c), ~closed,
                      Tracked(<<call[c].run[1], 1>>), ~Taken(<<call[c].run[1], 1>>)
               PROVE  <<call[c].run[1], 1>> \in token'
    OBVIOUS
  <2> USE <1>1 DEF IInv
  <2> DEFINE a == call[c].run[1]
  <2>1. call[c].at = "stopping" /\ call'[c].at # "stopping" /\ a \in Agents
    BY DEF StopActs, At, CallInv
  <2>2. <<a, 1>> \in TrackedRun(a) \ Over
    BY <2>1, FirstRun DEF TrackInv, TrackedIsFound, TrackedRun, Over, Tracked, Owning
  <2>3. ASSUME NEW d \in Callers, CallStep(d), d # c
        PROVE  FALSE
    <3>1. call'[c] = call[c]
      BY <2>3 DEF CallStep, ReserveCheck, ReserveRefused, BriefFailed, SpawnTask, Track,
         RunOwned, StopWait, StopDone, DrainTake, DrainDone, MsgRefused, MsgReactivate, StopAct,
         Reserve, StopLook, MsgLook, GoTo, Return, TypeOK
    <3>2. QED
      BY <2>1, <3>1
  <2>4. ASSUME CallStep(c)
        PROVE  \E wait \in BOOLEAN : StopAct(c, wait)
    BY <2>1, <2>4 DEF CallStep, ReserveCheck, ReserveRefused, BriefFailed, SpawnTask, Track,
       RunOwned, StopWait, StopDone, DrainTake, DrainDone, MsgRefused, MsgReactivate,
       Reserve, StopLook, MsgLook, At
  <2>5. ASSUME NEW b \in Agents, NEW g \in Gens, RunStep(b, g)
        PROVE  FALSE
    BY <2>1, <2>5 DEF RunStep, FirstPoll, AcquireRun, Launch, LaunchFailed, SetPid, Collect,
       SetTerminal, ReadFinal, Deliver, DropRun, DropGuard, ChildExit
  <2>6. PICK wait \in BOOLEAN : StopAct(c, wait)
    BY <2>1, <2>3, <2>4, <2>5 DEF Next, KillAll, vars
  <2>7. QED
    BY <2>2, <2>6 DEF StopAct
<1>2. QED
  BY <1>1, Invariance, TrackInvariance, PTL DEF Spec, StopReachesTask

=============================================================================
