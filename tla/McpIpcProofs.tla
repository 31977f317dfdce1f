---------------------------- MODULE McpIpcProofs ----------------------------
(***************************************************************************)
(* The safety of McpIpc for any agents, runs and calls: a running agent    *)
(* has its grant, a registered id has one connection, and each step keeps  *)
(* for the child what McpCall promises.                                    *)
(***************************************************************************)
EXTENDS McpIpc, TLAPS

\* A run ends when its grant has been dropped: only the current run holds one.
HeldInv ==
  \A a \in Agents : held[a] \subseteq {gen[a]} /\ (run[a] = "off" => held[a] = {})

\* What is on its way for a call, or was told of it, was asked for by the child;
\* an answer is of a call that ran.
CallInv ==
  \A c \in Calls :
    /\ request[c] # "none" \/ reply[c] # "none" \/ told[c] # "unasked" => caller[c] # "idle"
    /\ told[c] = "answer" \/ reply[c] = "answer" => runs[c] = 1

\* A connection is begun by the child.
LinkInv == \A p \in Procs : link[p] = "none" => conn[p] = "none"

IInv == TypeOK /\ RunningHasGrant /\ HeldInv /\ LinkInv /\ CallInv

\* TypeOK but for its two statements about connections, which few steps touch.
Typed ==
  /\ gen \in [Agents -> 0 .. MaxRuns] /\ run \in [Agents -> {"off", "running", "ending"}]
  /\ held \in [Agents -> SUBSET (1 .. MaxRuns)] /\ grants \in [Agents -> 0 .. MaxRuns]
  /\ proc \in [Procs -> {"none", "up", "gone"}]
  /\ conn \in [Procs -> {"none", "hello", "served", "over"}]
  /\ link \in [Procs -> {"none", "waiting", "up", "down"}]
  /\ request \in [Calls -> {"none", "sent", "taken", "done"}]
  /\ reply \in [Calls -> {"none", "answer", "refusal"}]
  /\ caller \in [Calls -> {"idle", "waiting", "answered", "refused", "gone"}]
  /\ channel \in {"open", "down"}
  /\ told \in [Calls -> {"unasked", "open", "answer", "failure"}] /\ runs \in [Calls -> {0, 1}]

OneConnection ==
  /\ connected = {a \in Agents : \E p \in Procs : p[1] = a /\ Served(p)}
  /\ \A p, q \in Procs : Served(p) /\ Served(q) /\ p[1] = q[1] => p = q

USE IpcAssumption

LEMMA TypeParts == TypeOK <=> Typed /\ OneConnection
BY DEF TypeOK, Typed, OneConnection

LEMMA OwnerIsProc == ASSUME NEW c \in Calls PROVE Owner[c] \in Procs /\ Owner[c][1] \in Agents
BY DEF Procs

-----------------------------------------------------------------------------
(* Who may act, and what of the state each may change. *)

\* The steps of run_body: the agents' variables, the processes and, at an exit,
\* the callers in them.
RunStep ==
  \/ \E a \in Agents : Start(a) \/ Stop(a) \/ End(a) \/ \E g \in 1 .. MaxRuns : Revoke(a, g)
  \/ \E p \in Procs : Exit(p)

\* The steps of a connection.
LinkStep ==
  \E p \in Procs : \/ Connect(p) \/ Authenticate(p) \/ Up(p) \/ Impatient(p)
                   \/ Hangup(p) \/ ParentDrops(p) \/ LinkDown(p)

\* The steps of a call.
CallStep ==
  \E c \in Calls : \/ Call(c) \/ Refuse(c) \/ Take(c) \/ TransportStep(c)
                   \/ Reply(c) \/ Deliver(c) \/ Timeout(c)

LEMMA StepCases ==
  ASSUME [Next]_vars
  PROVE  RunStep \/ LinkStep \/ CallStep \/ Shutdown \/ UNCHANGED vars
BY DEF Next, ParentStep, ChildStep, RunStep, LinkStep, CallStep, Of

-----------------------------------------------------------------------------
(* Types. *)
LEMMA RunTyped == ASSUME Typed, RunStep PROVE Typed'
<1>1. CASE \E a \in Agents : Start(a)
  <2>1. PICK a \in Agents : Start(a) BY <1>1
  <2>2. gen[a] + 1 \in 1 .. MaxRuns /\ gen'[a] = gen[a] + 1
    BY <2>1 DEF Typed, Start
  <2> QED BY <2>1, <2>2 DEF Typed, Start, connVars, callVars, Procs
<1>2. CASE \E a \in Agents : Stop(a) \/ End(a)
  BY <1>2 DEF Typed, Stop, End, connVars, callVars
<1>3. CASE \E a \in Agents : \E g \in 1 .. MaxRuns : Revoke(a, g)
  BY <1>3 DEF Typed, Revoke, connVars, callVars
<1>4. CASE \E p \in Procs : Exit(p)
  <2>1. PICK p \in Procs : Exit(p) BY <1>4
  <2>2. run' \in [Agents -> {"off", "running", "ending"}]
    BY <2>1 DEF Typed, Exit
  <2>3. caller' \in [Calls -> {"idle", "waiting", "answered", "refused", "gone"}]
    BY <2>1 DEF Typed, Exit
  <2> QED BY <2>1, <2>2, <2>3 DEF Typed, Exit, connVars
<1> QED BY <1>1, <1>2, <1>3, <1>4 DEF RunStep

LEMMA DroppedTyped ==
  ASSUME Typed, NEW S \in SUBSET Calls, Dropped(S)
  PROVE  /\ told' \in [Calls -> {"unasked", "open", "answer", "failure"}]
         /\ request' \in [Calls -> {"none", "sent", "taken", "done"}]
         /\ runs' \in [Calls -> {0, 1}]
BY DEF Typed, Dropped

LEMMA LinkTyped == ASSUME Typed, LinkStep PROVE Typed'
<1> PICK p \in Procs : \/ Connect(p) \/ Authenticate(p) \/ Up(p) \/ Impatient(p)
                       \/ Hangup(p) \/ ParentDrops(p) \/ LinkDown(p)
  BY DEF LinkStep
<1>1. CASE Connect(p) BY <1>1 DEF Typed, Connect, agentVars, callVars
<1>2. CASE Authenticate(p) BY <1>2 DEF Typed, Authenticate, agentVars, callVars
<1>3. CASE Up(p) \/ Impatient(p) BY <1>3 DEF Typed, Up, Impatient, agentVars, callVars
<1>4. CASE Hangup(p) \/ ParentDrops(p)
  <2>1. DroppedWith(p) \in SUBSET Calls BY DEF DroppedWith, Of
  <2> QED BY <1>4, <2>1, DroppedTyped DEF Typed, Hangup, ParentDrops, agentVars
<1>5. CASE LinkDown(p)
  <2>1. caller' \in [Calls -> {"idle", "waiting", "answered", "refused", "gone"}]
    BY <1>5 DEF Typed, LinkDown
  <2> QED BY <1>5, <2>1 DEF Typed, LinkDown, agentVars
<1> QED BY <1>1, <1>2, <1>3, <1>4, <1>5

LEMMA CallTyped == ASSUME Typed, CallStep PROVE Typed'
<1> PICK c \in Calls : \/ Call(c) \/ Refuse(c) \/ Take(c) \/ TransportStep(c)
                       \/ Reply(c) \/ Deliver(c) \/ Timeout(c)
  BY DEF CallStep
<1>1. CASE Call(c) BY <1>1 DEF Typed, Call, agentVars, connVars
<1>2. CASE Refuse(c) BY <1>2 DEF Typed, Refuse, agentVars, connVars
<1>3. CASE Take(c) BY <1>3 DEF Typed, Take, agentVars, connVars, Transport!Ask, Transport!Tell
<1>4. CASE TransportStep(c)
  BY <1>4 DEF Typed, TransportStep, agentVars, connVars, callVars,
              Transport!Run, Transport!Answer, Transport!Tell
<1>5. CASE Reply(c) BY <1>5 DEF Typed, Reply, Mapped, agentVars, connVars
<1>6. CASE Deliver(c) \/ Timeout(c) BY <1>6 DEF Typed, Deliver, Timeout, agentVars, connVars
<1> QED BY <1>1, <1>2, <1>3, <1>4, <1>5, <1>6

LEMMA NextTyped == ASSUME Typed, [Next]_vars PROVE Typed'
<1>1. CASE Shutdown BY <1>1 DEF Typed, Shutdown, agentVars, connVars, callVars
<1>2. CASE UNCHANGED vars BY <1>2 DEF Typed, vars, agentVars, connVars, callVars
<1> QED BY <1>1, <1>2, StepCases, RunTyped, LinkTyped, CallTyped

-----------------------------------------------------------------------------
(* One connection to an id. *)
LEMMA NextLinkInv == ASSUME Typed, LinkInv, [Next]_vars PROVE LinkInv'
<1>1. CASE UNCHANGED connVars BY <1>1 DEF LinkInv, connVars
<1>2. CASE RunStep BY <1>1, <1>2 DEF RunStep, Start, Stop, End, Revoke, Exit
<1>3. CASE CallStep
  BY <1>1, <1>3 DEF CallStep, Call, Refuse, Take, TransportStep, Reply, Deliver, Timeout
<1>4. CASE Shutdown BY <1>1, <1>4 DEF Shutdown
<1>5. CASE UNCHANGED vars BY <1>1, <1>5 DEF vars
<1>6. CASE LinkStep
  BY <1>6 DEF LinkStep, Connect, Authenticate, Up, Impatient, Hangup, ParentDrops, LinkDown,
              Served, LinkInv, Typed
<1> QED BY <1>2, <1>3, <1>4, <1>5, <1>6, StepCases

LEMMA NextOneConnection ==
  ASSUME Typed, LinkInv, OneConnection, [Next]_vars
  PROVE  OneConnection'
<1>1. CASE UNCHANGED connVars BY <1>1 DEF OneConnection, Served, connVars
<1>2. CASE RunStep BY <1>1, <1>2 DEF RunStep, Start, Stop, End, Revoke, Exit
<1>3. CASE CallStep
  BY <1>1, <1>3 DEF CallStep, Call, Refuse, Take, TransportStep, Reply, Deliver, Timeout
<1>4. CASE Shutdown BY <1>1, <1>4 DEF Shutdown
<1>5. CASE UNCHANGED vars BY <1>1, <1>5 DEF vars
<1>6. CASE LinkStep
  <2> PICK p \in Procs : \/ Connect(p) \/ Authenticate(p) \/ Up(p) \/ Impatient(p)
                         \/ Hangup(p) \/ ParentDrops(p) \/ LinkDown(p)
    BY <1>6 DEF LinkStep
  <2>1. CASE connected' = connected /\ \A q \in Procs : Served(q)' <=> Served(q)
    BY <2>1 DEF OneConnection
  \* p's connection is over, and its id with it
  <2>2. CASE Served(p) /\ conn' = [conn EXCEPT ![p] = "over"] /\ connected' = connected \ {p[1]}
    <3>1. \A q \in Procs : Served(q)' <=> Served(q) /\ q # p
      BY <2>2 DEF Served, Typed
    <3>2. ~ \E q \in Procs : q[1] = p[1] /\ Served(q)'
      BY <3>1, <2>2 DEF OneConnection
    <3>3. \A a \in Agents : a # p[1] =>
            ((\E q \in Procs : q[1] = a /\ Served(q)') <=> \E q \in Procs : q[1] = a /\ Served(q))
      BY <3>1
    <3>4. p[1] \in Agents BY DEF Procs
    <3>5. connected' = {a \in Agents : \E q \in Procs : q[1] = a /\ Served(q)'}
      BY <2>2, <3>2, <3>3, <3>4 DEF OneConnection
    <3> QED BY <3>1, <3>5 DEF OneConnection
  \* p's connection is the first of its id
  <2>3. CASE /\ p[1] \notin connected
             /\ conn' = [conn EXCEPT ![p] = "served"] /\ connected' = connected \cup {p[1]}
    <3>1. \A q \in Procs : Served(q)' <=> Served(q) \/ q = p
      BY <2>3 DEF Served, Typed
    <3>2. p[1] \in Agents BY DEF Procs
    <3>3. ~ \E q \in Procs : q[1] = p[1] /\ Served(q)
      BY <2>3, <3>2 DEF OneConnection
    <3>4. connected' = {a \in Agents : \E q \in Procs : q[1] = a /\ Served(q)'}
      BY <2>3, <3>1, <3>2 DEF OneConnection
    <3> QED BY <3>1, <3>3, <3>4 DEF OneConnection
  <2>4. CASE Up(p) \/ Impatient(p) \/ LinkDown(p)
    BY <2>1, <2>4 DEF Up, Impatient, LinkDown, Served
  <2>5. CASE Connect(p)
    <3>1. conn[p] = "none" BY <2>5 DEF Connect, LinkInv
    <3> QED BY <2>1, <2>5, <3>1 DEF Connect, Served, Typed
  <2>6. CASE Authenticate(p)
    BY <2>1, <2>3, <2>6 DEF Authenticate, Accepted, Served, Typed
  <2>7. CASE Hangup(p) BY <2>2, <2>7 DEF Hangup
  <2>8. CASE ParentDrops(p)
    BY <2>1, <2>2, <2>8 DEF ParentDrops, Served, Typed
  <2> QED BY <2>4, <2>5, <2>6, <2>7, <2>8
<1> QED BY <1>2, <1>3, <1>4, <1>5, <1>6, StepCases

-----------------------------------------------------------------------------
(* The grants. *)
LEMMA NextGrants ==
  ASSUME Typed, RunningHasGrant, HeldInv, [Next]_vars
  PROVE  RunningHasGrant' /\ HeldInv'
<1>1. CASE UNCHANGED agentVars BY <1>1 DEF RunningHasGrant, HeldInv, agentVars
<1>2. CASE \E a \in Agents : Start(a)
  <2>1. PICK a \in Agents : Start(a) BY <1>2
  <2>2. held[a] = {} BY <2>1 DEF Start, HeldInv
  <2>3. /\ gen' = [gen EXCEPT ![a] = @ + 1] /\ run' = [run EXCEPT ![a] = "running"]
        /\ grants' = [grants EXCEPT ![a] = gen'[a]]
        /\ held' = [held EXCEPT ![a] = {gen'[a]}]
    BY <2>1, <2>2 DEF Start, Typed
  <2> QED BY <2>3 DEF RunningHasGrant, HeldInv, Typed
<1>3. CASE \E a \in Agents : Stop(a)
  BY <1>3 DEF Stop, RunningHasGrant, HeldInv, Typed
<1>4. CASE \E a \in Agents : End(a)
  BY <1>4 DEF End, MayEnd, RunningHasGrant, HeldInv, Typed
<1>5. CASE \E a \in Agents : \E g \in 1 .. MaxRuns : Revoke(a, g)
  <2>1. PICK a \in Agents, g \in 1 .. MaxRuns : Revoke(a, g) BY <1>5
  <2>2. g = gen[a] /\ run[a] # "running" BY <2>1 DEF Revoke, HeldInv
  <2> QED BY <2>1, <2>2 DEF Revoke, RunningHasGrant, HeldInv, Typed
<1>6. CASE \E p \in Procs : Exit(p)
  BY <1>6 DEF Exit, RunningHasGrant, HeldInv, Typed
<1>7. CASE LinkStep
  BY <1>1, <1>7 DEF LinkStep, Connect, Authenticate, Up, Impatient, Hangup, ParentDrops, LinkDown
<1>8. CASE CallStep
  BY <1>1, <1>8 DEF CallStep, Call, Refuse, Take, TransportStep, Reply, Deliver, Timeout
<1>9. CASE Shutdown BY <1>1, <1>9 DEF Shutdown
<1>10. CASE UNCHANGED vars BY <1>1, <1>10 DEF vars
<1> QED BY <1>2, <1>3, <1>4, <1>5, <1>6, <1>7, <1>8, <1>9, <1>10, StepCases DEF RunStep

-----------------------------------------------------------------------------
(* The calls. *)
LEMMA NextCallInv == ASSUME Typed, CallInv, [Next]_vars PROVE CallInv'
<1>1. CASE UNCHANGED <<callVars, told, runs>> BY <1>1 DEF CallInv, callVars
<1>2. CASE RunStep
  <2>1. CASE \E p \in Procs : Exit(p) BY <2>1 DEF Exit, CallInv, Typed
  <2> QED BY <1>1, <1>2, <2>1 DEF RunStep, Start, Stop, End, Revoke
<1>3. CASE LinkStep
  <2> PICK p \in Procs : \/ Connect(p) \/ Authenticate(p) \/ Up(p) \/ Impatient(p)
                         \/ Hangup(p) \/ ParentDrops(p) \/ LinkDown(p)
    BY <1>3 DEF LinkStep
  <2>1. CASE Hangup(p) \/ ParentDrops(p)
    <3>1. UNCHANGED <<reply, caller>> /\ Dropped(DroppedWith(p))
      BY <2>1 DEF Hangup, ParentDrops
    <3>2. \A c \in DroppedWith(p) : c \in Calls /\ request[c] = "taken"
      BY DEF DroppedWith, Of
    <3> QED BY <3>1, <3>2 DEF Dropped, CallInv, Typed
  <2>2. CASE LinkDown(p) BY <2>2 DEF LinkDown, CallInv, Typed
  <2> QED BY <1>1, <2>1, <2>2 DEF Connect, Authenticate, Up, Impatient
<1>4. CASE CallStep
  <2> PICK c \in Calls : \/ Call(c) \/ Refuse(c) \/ Take(c) \/ TransportStep(c)
                         \/ Reply(c) \/ Deliver(c) \/ Timeout(c)
    BY <1>4 DEF CallStep
  <2>1. CASE Call(c) BY <2>1 DEF Call, CallInv, Typed
  <2>2. CASE Refuse(c) BY <2>2 DEF Refuse, CallInv, Typed
  <2>3. CASE Take(c) BY <2>3 DEF Take, CallInv, Typed, Transport!Ask, Transport!Tell
  <2>4. CASE TransportStep(c)
    BY <2>4 DEF TransportStep, CallInv, Typed, callVars,
                Transport!Run, Transport!Answer, Transport!Tell
  <2>5. CASE Reply(c) BY <2>5 DEF Reply, Mapped, CallInv, Typed
  <2>6. CASE Deliver(c) \/ Timeout(c) BY <2>6 DEF Deliver, Timeout, CallInv, Typed
  <2> QED BY <2>1, <2>2, <2>3, <2>4, <2>5, <2>6
<1>5. CASE Shutdown BY <1>1, <1>5 DEF Shutdown
<1>6. CASE UNCHANGED vars BY <1>1, <1>6 DEF vars
<1> QED BY <1>2, <1>3, <1>4, <1>5, <1>6, StepCases

-----------------------------------------------------------------------------
LEMMA InitInv == Init => IInv
BY DEF Init, IInv, TypeOK, RunningHasGrant, HeldInv, LinkInv, CallInv, Served, Transport!Init, Procs

LEMMA NextInv == IInv /\ [Next]_vars => IInv'
<1> SUFFICES ASSUME IInv, [Next]_vars PROVE IInv' OBVIOUS
<1>1. Typed /\ OneConnection BY TypeParts DEF IInv
<1>2. Typed' /\ OneConnection' /\ LinkInv'
  BY <1>1, NextTyped, NextLinkInv, NextOneConnection DEF IInv
<1>3. TypeOK' BY <1>2 DEF TypeOK, Typed, OneConnection
<1>4. RunningHasGrant' /\ HeldInv' /\ CallInv' BY <1>1, NextGrants, NextCallInv DEF IInv
<1> QED BY <1>2, <1>3, <1>4 DEF IInv

LEMMA Invariance == Spec => []IInv
BY InitInv, NextInv, PTL DEF Spec

\* A running agent has its grant, whatever the runs before it still hold, and
\* of a registered id there is one connection (ipc.rs, grant, revoke and
\* authenticate; tool/agent.rs, McpGrant).
THEOREM GrantsAreSound == Spec => []GrantsSound
<1>1. IInv => GrantsSound BY DEF IInv, GrantsSound
<1> QED BY <1>1, Invariance, PTL

-----------------------------------------------------------------------------
(* What the child is promised. *)
LEMMA InitPromise == Init => ChildPromise!Init
BY DEF Init, Transport!Init, ChildPromise!Init, Told

\* A step that changes one caller tells one call something.
LEMMA TellsOne ==
  ASSUME Typed, NEW c \in Calls, NEW s, caller' = [caller EXCEPT ![c] = s]
  PROVE  [d \in Calls |-> Told(d)]' = [[d \in Calls |-> Told(d)] EXCEPT ![c] = Told(c)']
<1>1. \A d \in Calls : d # c => Told(d)' = Told(d) BY DEF Told, Typed
<1> QED BY <1>1

\* A step that turns some callers, none of whom had learned anything, into
\* refused or gone ones is a failure of these.
LEMMA TellsFailures ==
  ASSUME Typed, NEW S \in SUBSET Calls, NEW s \in {"refused", "gone"},
         \A c \in S : caller[c] \in {"idle", "waiting"},
         caller' = [c \in Calls |-> IF c \in S THEN s ELSE caller[c]], UNCHANGED runs
  PROVE  ChildPromise!Fail
<1>1. \A c \in S : Told(c) \in {"unasked", "open"} /\ Told(c)' = "failure"
  BY DEF Told, Typed
<1>2. \A c \in Calls \ S : Told(c)' = Told(c) BY DEF Told, Typed
<1>3. S \subseteq {c \in Calls : [d \in Calls |-> Told(d)][c] \in {"unasked", "open"}}
  BY <1>1
<1>4. [d \in Calls |-> Told(d)]' =
        [c \in Calls |-> IF c \in S THEN "failure" ELSE [d \in Calls |-> Told(d)][c]]
  BY <1>1, <1>2
<1> QED BY <1>3, <1>4 DEF ChildPromise!Fail

LEMMA NextPromise ==
  ASSUME IInv, [Next]_vars
  PROVE  [ChildPromise!Next]_(ChildPromise!vars)
<1> Typed /\ CallInv BY TypeParts DEF IInv
<1>1. CASE UNCHANGED <<caller, runs>>
  BY <1>1 DEF ChildPromise!vars, Told
<1>2. CASE RunStep
  <2>1. CASE \E p \in Procs : Exit(p)
    <3>1. PICK p \in Procs : Exit(p) BY <2>1
    <3> DEFINE S == {c \in Calls : c \in Of(p) /\ caller[c] \in {"idle", "waiting"}}
    <3>2. caller' = [c \in Calls |-> IF c \in S THEN "gone" ELSE caller[c]] /\ UNCHANGED runs
      BY <3>1 DEF Exit
    <3>3. ChildPromise!Fail BY <3>2, TellsFailures
    <3> QED BY <3>3 DEF ChildPromise!Next
  <2> QED BY <1>1, <1>2, <2>1 DEF RunStep, Start, Stop, End, Revoke, callVars
<1>3. CASE LinkStep
  <2> PICK p \in Procs : \/ Connect(p) \/ Authenticate(p) \/ Up(p) \/ Impatient(p)
                         \/ Hangup(p) \/ ParentDrops(p) \/ LinkDown(p)
    BY <1>3 DEF LinkStep
  <2>1. CASE LinkDown(p)
    <3> DEFINE S == {c \in Calls : c \in Of(p) /\ caller[c] = "waiting"}
    <3>1. caller' = [c \in Calls |-> IF c \in S THEN "refused" ELSE caller[c]] /\ UNCHANGED runs
      BY <2>1 DEF LinkDown
    <3>2. ChildPromise!Fail BY <3>1, TellsFailures
    <3> QED BY <3>2 DEF ChildPromise!Next
  <2> QED BY <1>1, <2>1 DEF Connect, Authenticate, Up, Impatient, Hangup, ParentDrops, Dropped, callVars
<1>4. CASE CallStep
  <2> PICK c \in Calls : \/ Call(c) \/ Refuse(c) \/ Take(c) \/ TransportStep(c)
                         \/ Reply(c) \/ Deliver(c) \/ Timeout(c)
    BY <1>4 DEF CallStep
  <2> DEFINE Fails == /\ caller[c] \in {"idle", "waiting"} /\ UNCHANGED runs
                      /\ caller' = [caller EXCEPT ![c] = "refused"]
  <2>1. CASE Fails
    <3>1. caller' = [d \in Calls |-> IF d \in {c} THEN "refused" ELSE caller[d]]
      BY <2>1 DEF Typed
    <3>2. ChildPromise!Fail BY <2>1, <3>1, TellsFailures
    <3> QED BY <3>2 DEF ChildPromise!Next
  <2>2. CASE Call(c)
    <3>1. CASE caller' = [caller EXCEPT ![c] = "waiting"]
      <4>1. Told(c) = "unasked" /\ Told(c)' = "open"
        BY <2>2, <3>1 DEF Call, Told, Typed
      <4>2. ChildPromise!Ask(c)
        BY <2>2, <3>1, <4>1, TellsOne DEF Call, ChildPromise!Ask, ChildPromise!Tell
      <4> QED BY <4>2 DEF ChildPromise!Next
    <3> QED BY <2>1, <2>2, <3>1 DEF Call
  <2>3. CASE TransportStep(c)
    <3>1. CASE Transport!Run(c)
      <4>1. caller[c] # "idle" BY <3>1 DEF Transport!Run, CallInv
      <4>2. Told(c) # "unasked" BY <4>1 DEF Told, Typed
      <4>3. [d \in Calls |-> Told(d)]' = [d \in Calls |-> Told(d)]
        BY <2>3 DEF TransportStep, callVars, Told
      <4>4. ChildPromise!Run(c)
        BY <3>1, <4>2, <4>3 DEF Transport!Run, ChildPromise!Run
      <4> QED BY <4>4 DEF ChildPromise!Next
    <3> QED BY <1>1, <2>3, <3>1 DEF TransportStep, callVars, Transport!Answer
  <2>4. CASE Deliver(c)
    <3>1. CASE reply[c] = "answer"
      <4>1. Told(c) = "open" /\ Told(c)' = "answer"
        BY <2>4, <3>1 DEF Deliver, Told, Typed
      <4>2. runs[c] = 1 BY <3>1 DEF CallInv
      <4>3. ChildPromise!Answer(c)
        BY <2>4, <3>1, <4>1, <4>2, TellsOne DEF Deliver, ChildPromise!Answer, ChildPromise!Tell
      <4> QED BY <4>3 DEF ChildPromise!Next
    <3> QED BY <2>1, <2>4, <3>1 DEF Deliver
  <2>5. CASE Timeout(c) BY <2>1, <2>5 DEF Timeout
  <2> QED BY <1>1, <2>2, <2>3, <2>4, <2>5 DEF Refuse, Take, Reply, Transport!Ask
<1>5. CASE Shutdown BY <1>1, <1>5 DEF Shutdown, callVars
<1>6. CASE UNCHANGED vars BY <1>1, <1>6 DEF vars, callVars
<1> QED BY <1>2, <1>3, <1>4, <1>5, <1>6, StepCases

\* The safety of ChannelKeepsPromise: whatever the transport does within
\* McpCall for the parent, the channel keeps McpCall for the child: a call runs
\* once at most, its caller is told one thing, an answer is the server's.
THEOREM ChannelIsSafe == Spec => ChildPromise!Safe
BY InitPromise, NextPromise, Invariance, PTL DEF Spec, ChildPromise!Safe
=============================================================================
