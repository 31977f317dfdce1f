------------------------------- MODULE McpIpc -------------------------------
(***************************************************************************)
(* The channel through which child agents call the parent's MCP servers:   *)
(* the parent's end and the child's (mcp/ipc.rs), the child's proxy tools  *)
(* (mcp/proxy.rs), and the grant that each run of an agent holds           *)
(* (tool/agent.rs).  The parent's transport is not repeated here: it is    *)
(* McpCall, which McpStdio and McpSession implement.                       *)
(*                                                                         *)
(* An agent that has ended may be continued: its next run is another       *)
(* process under the same id, while the channel may still hold the         *)
(* connection of the one before.                                           *)
(***************************************************************************)
EXTENDS Naturals, FiniteSets

CONSTANTS
  Agents,
  MaxRuns,   \* bound on the runs of an agent
  Calls,
  Owner,     \* [Calls -> Procs]  the process that makes the call
  Granted,   \* the calls of tools their agent was granted
  MaxInFlight

Procs == Agents \X (1 .. MaxRuns)

ASSUME IpcAssumption ==
  /\ MaxRuns \in Nat \ {0} /\ MaxInFlight \in Nat \ {0}
  /\ Owner \in [Calls -> Procs] /\ Granted \subseteq Calls

VARIABLES
  gen,       \* [Agents -> Nat]  the current or latest run
  run,       \* [Agents -> ...]  run_body: "off", "running" or "ending"
  held,      \* [Agents -> SUBSET Nat]  runs whose McpGrant is not dropped
  grants,    \* [Agents -> Nat]  State::grants: the run its pid is of, or 0
  connected, \* SUBSET Agents    State::connected
  proc,      \* [Procs -> ...]   "none", "up" or "gone"
  conn,      \* [Procs -> ...]   the parent's end of its connection
  link,      \* [Procs -> ...]   the child's end
  request,   \* [Calls -> ...]   "none", "sent", "taken" or "done"
  reply,     \* [Calls -> ...]   on its way to the child
  caller,    \* [Calls -> ...]   the future of IpcClient::request
  channel,   \* "open", or "down": shutdown has run
  told, runs \* McpCall: the parent's transport

agentVars == <<gen, run, held, grants>>
connVars == <<connected, conn, link>>
callVars == <<request, reply, caller>>
vars == <<agentVars, connVars, proc, callVars, channel, told, runs>>

Of(p) == {c \in Calls : Owner[c] = p}
Served(p) == conn[p] = "served"

TypeOK ==
  /\ gen \in [Agents -> 0 .. MaxRuns] /\ run \in [Agents -> {"off", "running", "ending"}]
  /\ held \in [Agents -> SUBSET (1 .. MaxRuns)] /\ grants \in [Agents -> 0 .. MaxRuns]
  /\ proc \in [Procs -> {"none", "up", "gone"}]
  /\ conn \in [Procs -> {"none", "hello", "served", "over"}]
  /\ link \in [Procs -> {"none", "waiting", "up", "down"}]
  /\ request \in [Calls -> {"none", "sent", "taken", "done"}]
  /\ reply \in [Calls -> {"none", "answer", "refusal"}]
  /\ caller \in [Calls -> {"idle", "waiting", "answered", "refused", "gone"}]
  /\ channel \in {"open", "down"}
  /\ told \in [Calls -> {"unasked", "open", "answer", "failure"}] /\ runs \in [Calls -> {0, 1}]
  \* a registered id has one connection, and goes with it
  /\ connected = {a \in Agents : \E p \in Procs : p[1] = a /\ Served(p)}
  /\ \A p, q \in Procs : Served(p) /\ Served(q) /\ p[1] = q[1] => p = q

Transport == INSTANCE McpCall

Init ==
  /\ gen = [a \in Agents |-> 0] /\ run = [a \in Agents |-> "off"]
  /\ held = [a \in Agents |-> {}] /\ grants = [a \in Agents |-> 0]
  /\ connected = {} /\ proc = [p \in Procs |-> "none"]
  /\ conn = [p \in Procs |-> "none"] /\ link = [p \in Procs |-> "none"]
  /\ request = [c \in Calls |-> "none"] /\ reply = [c \in Calls |-> "none"]
  /\ caller = [c \in Calls |-> "idle"] /\ channel = "open"
  /\ Transport!Init

-----------------------------------------------------------------------------
(***************************************************************************)
(* Plausible mistakes in definitions below, each named for one of them;    *)
(* Spec uses none.                                                         *)
(***************************************************************************)
\* The state becomes terminal before the grant is dropped.
EndsEarly(a) == TRUE

\* Requests are spawned free of their connection.
NothingOf(p) == {}

\* A failure of the server is handed on as a result.
AlwaysAnswer(c) == "answer"

-----------------------------------------------------------------------------
(***************************************************************************)
(* run_body: the grant, the process, and their end.                        *)
(***************************************************************************)

\* McpGrant::acquire, the spawn and bind.  A grant replaces the one before.
Start(a) ==
  /\ run[a] = "off" /\ gen[a] < MaxRuns
  /\ gen' = [gen EXCEPT ![a] = @ + 1]
  /\ run' = [run EXCEPT ![a] = "running"]
  /\ grants' = [grants EXCEPT ![a] = gen'[a]]
  /\ held' = [held EXCEPT ![a] = @ \cup {gen'[a]}]
  /\ proc' = [proc EXCEPT ![<<a, gen'[a]>>] = "up"]
  /\ UNCHANGED <<connVars, callVars, channel, told, runs>>

\* The child exits or is killed; its sockets are closed, and what it wrote
\* can still be read.
Exit(p) ==
  /\ proc[p] = "up"
  /\ proc' = [proc EXCEPT ![p] = "gone"]
  /\ run' = [run EXCEPT ![p[1]] = IF gen[p[1]] = p[2] /\ @ = "running" THEN "ending" ELSE @]
  /\ caller' = [c \in Calls |-> IF c \in Of(p) /\ caller[c] \in {"idle", "waiting"} THEN "gone" ELSE caller[c]]
  /\ UNCHANGED <<gen, held, grants, connVars, request, reply, channel, told, runs>>

\* The dispatch is dropped: the child is killed, and may take a moment more.
Stop(a) ==
  /\ run[a] = "running"
  /\ run' = [run EXCEPT ![a] = "ending"]
  /\ UNCHANGED <<gen, held, grants, connVars, proc, callVars, channel, told, runs>>

\* McpGrant::drop: revoke knows the id only.
Revoke(a, g) ==
  /\ g \in held[a] /\ (g = gen[a] => run[a] # "running")
  /\ held' = [held EXCEPT ![a] = @ \ {g}]
  /\ grants' = [grants EXCEPT ![a] = 0]
  /\ UNCHANGED <<gen, run, connVars, proc, callVars, channel, told, runs>>

\* The state is terminal: from here on the agent may be continued.
MayEnd(a) == held[a] = {}
End(a) ==
  /\ run[a] = "ending" /\ MayEnd(a)
  /\ run' = [run EXCEPT ![a] = "off"]
  /\ UNCHANGED <<gen, held, grants, connVars, proc, callVars, channel, told, runs>>

-----------------------------------------------------------------------------
(***************************************************************************)
(* A connection.                                                           *)
(***************************************************************************)

\* connect_with; once shutdown has removed the socket nobody is reached.
Connect(p) ==
  /\ proc[p] = "up" /\ link[p] = "none"
  /\ IF channel = "open"
     THEN conn' = [conn EXCEPT ![p] = "hello"] /\ link' = [link EXCEPT ![p] = "waiting"]
     ELSE link' = [link EXCEPT ![p] = "down"] /\ UNCHANGED conn
  /\ UNCHANGED <<agentVars, connected, proc, callVars, channel, told, runs>>

\* authenticate: the grant, its pid, and nobody connected under the id.
\* A refusal is answered before the parent closes.
Accepted(p) == grants[p[1]] = p[2] /\ p[1] \notin connected

Authenticate(p) ==
  /\ conn[p] = "hello"
  /\ IF Accepted(p)
     THEN /\ conn' = [conn EXCEPT ![p] = "served"]
          /\ connected' = connected \cup {p[1]}
     ELSE conn' = [conn EXCEPT ![p] = "over"] /\ UNCHANGED connected
  /\ UNCHANGED <<agentVars, link, proc, callVars, channel, told, runs>>

\* The child has its answer, and the list of its tools.
Up(p) ==
  /\ proc[p] = "up" /\ link[p] = "waiting" /\ Served(p)
  /\ link' = [link EXCEPT ![p] = "up"]
  /\ UNCHANGED <<agentVars, connected, conn, proc, callVars, channel, told, runs>>

\* It has waited for them long enough, or the list is refused.
Impatient(p) ==
  /\ proc[p] = "up" /\ link[p] = "waiting"
  /\ link' = [link EXCEPT ![p] = "down"]
  /\ UNCHANGED <<agentVars, connected, conn, proc, callVars, channel, told, runs>>

\* The parent's end is over: every request of the connection is dropped
\* with it, and the proxied call in each.
DroppedWith(p) == {c \in Of(p) : request[c] = "taken"}

Dropped(calls) ==
  /\ told' = [c \in Calls |-> IF c \in calls /\ told[c] = "open" THEN "failure" ELSE told[c]]
  /\ request' = [c \in Calls |-> IF c \in calls THEN "done" ELSE request[c]]
  /\ UNCHANGED runs

\* serve_requests reads the end of the stream, behind every request; or
\* write_replies fails before.
Hangup(p) ==
  /\ Served(p) /\ (proc[p] = "gone" \/ link[p] = "down")
  /\ \/ \A c \in Of(p) : request[c] # "sent"
     \/ \E c \in Of(p) : reply[c] # "none"
  /\ conn' = [conn EXCEPT ![p] = "over"]
  /\ connected' = connected \ {p[1]}
  /\ Dropped(DroppedWith(p))
  /\ UNCHANGED <<agentVars, link, proc, reply, caller, channel>>

\* The hello is late; or shutdown drops, at some moment after it returned,
\* the connection's task.
ParentDrops(p) ==
  /\ conn[p] = "hello" \/ (Served(p) /\ channel = "down")
  /\ conn' = [conn EXCEPT ![p] = "over"]
  /\ connected' = IF Served(p) THEN connected \ {p[1]} ELSE connected
  /\ Dropped(DroppedWith(p))
  /\ UNCHANGED <<agentVars, link, proc, reply, caller, channel>>

\* The child reads the end of the stream (client_read_loop, and
\* ClientShared::close).
LinkDown(p) ==
  /\ proc[p] = "up" /\ link[p] \in {"waiting", "up"} /\ conn[p] = "over"
  /\ \A c \in Of(p) : caller[c] = "waiting" => reply[c] = "none"
  /\ link' = [link EXCEPT ![p] = "down"]
  /\ caller' = [c \in Calls |-> IF c \in Of(p) /\ caller[c] = "waiting" THEN "refused" ELSE caller[c]]
  /\ UNCHANGED <<agentVars, connected, conn, proc, request, reply, channel, told, runs>>

-----------------------------------------------------------------------------
(***************************************************************************)
(* A call.                                                                 *)
(***************************************************************************)

\* ProxyTool::execute and request: with no channel the failure is in-band.
Call(c) ==
  LET p == Owner[c] IN
  /\ proc[p] = "up" /\ caller[c] = "idle" /\ link[p] \in {"up", "down"}
  /\ IF link[p] = "up"
     THEN caller' = [caller EXCEPT ![c] = "waiting"] /\ request' = [request EXCEPT ![c] = "sent"]
     ELSE caller' = [caller EXCEPT ![c] = "refused"] /\ UNCHANGED request
  /\ UNCHANGED <<agentVars, connVars, proc, reply, channel, told, runs>>

InFlight(p) == {c \in Of(p) : request[c] = "taken"}

\* serve_requests and mcp_call: too many in flight, or not granted to this
\* id now.
Refuse(c) ==
  LET p == Owner[c] IN
  /\ request[c] = "sent" /\ Served(p)
  /\ Cardinality(InFlight(p)) >= MaxInFlight \/ grants[p[1]] = 0 \/ c \notin Granted
  /\ request' = [request EXCEPT ![c] = "done"]
  /\ reply' = [reply EXCEPT ![c] = "refusal"]
  /\ UNCHANGED <<agentVars, connVars, proc, caller, channel, told, runs>>

Take(c) ==
  LET p == Owner[c] IN
  /\ request[c] = "sent" /\ Served(p)
  /\ Cardinality(InFlight(p)) < MaxInFlight /\ grants[p[1]] # 0 /\ c \in Granted
  /\ request' = [request EXCEPT ![c] = "taken"]
  /\ Transport!Ask(c)
  /\ UNCHANGED <<agentVars, connVars, proc, reply, caller, channel>>

\* What the transport does with a call that is open.
TransportStep(c) ==
  /\ \/ Transport!Run(c)
     \/ Transport!Answer(c)
     \/ Transport!Tell(c, "open", "failure") /\ UNCHANGED runs
  /\ UNCHANGED <<agentVars, connVars, proc, callVars, channel>>

Mapped(c) == IF told[c] = "answer" THEN "answer" ELSE "refusal"

Reply(c) ==
  /\ request[c] = "taken" /\ told[c] \in {"answer", "failure"} /\ Served(Owner[c])
  /\ request' = [request EXCEPT ![c] = "done"]
  /\ reply' = [reply EXCEPT ![c] = Mapped(c)]
  /\ UNCHANGED <<agentVars, connVars, proc, caller, channel, told, runs>>

Deliver(c) ==
  /\ caller[c] = "waiting" /\ reply[c] # "none"
  /\ caller' = [caller EXCEPT ![c] = IF reply[c] = "answer" THEN "answered" ELSE "refused"]
  /\ UNCHANGED <<agentVars, connVars, proc, request, reply, channel, told, runs>>

\* CALL_TIMEOUT of the child, or the call's future is dropped in the child.
Timeout(c) ==
  /\ caller[c] = "waiting"
  /\ caller' = [caller EXCEPT ![c] = "refused"]
  /\ UNCHANGED <<agentVars, connVars, proc, request, reply, channel, told, runs>>

-----------------------------------------------------------------------------
\* IpcServer::shutdown: the accept task is told to stop, the socket removed.
Shutdown ==
  /\ channel = "open" /\ channel' = "down"
  /\ UNCHANGED <<agentVars, connVars, proc, callVars, told, runs>>

-----------------------------------------------------------------------------
ParentStep(p) ==
  Authenticate(p) \/ Hangup(p) \/ ParentDrops(p) \/ \E c \in Of(p) : Refuse(c) \/ Take(c) \/ Reply(c)

ChildStep(p) ==
  Connect(p) \/ Up(p) \/ Impatient(p) \/ LinkDown(p) \/ \E c \in Of(p) : Deliver(c) \/ Timeout(c)

Next ==
  \/ \E a \in Agents : Start(a) \/ Stop(a) \/ End(a) \/ \E g \in 1 .. MaxRuns : Revoke(a, g)
  \/ \E p \in Procs : Exit(p) \/ ParentStep(p) \/ ChildStep(p)
  \/ \E c \in Calls : Call(c) \/ TransportStep(c)
  \/ Shutdown

Spec == Init /\ [][Next]_vars

\* What the parent can read it reads, and timers fire; the servers, and the
\* children's own decisions, owe nothing.  There are finitely many such
\* steps, so none is put off for ever.
FairSpec ==
  Spec /\ WF_vars(\E p \in Procs : ParentStep(p)) /\ WF_vars(\E p \in Procs : ChildStep(p))

-----------------------------------------------------------------------------
(***************************************************************************)
(* Properties.                                                             *)
(***************************************************************************)

\* A running agent has its grant: the end of the run before, whose drop
\* names only the id, never takes it away.
RunningHasGrant == \A a \in Agents : run[a] = "running" => grants[a] = gen[a]

\* The grants and the connections hold together.
GrantsSound == TypeOK /\ RunningHasGrant

\* A call taken up for a child does not outlive the child, however long
\* the server takes: "a child agent is stopped, the proxied tool call it
\* had in flight is dropped".
NothingRunsForTheDead ==
  LET Orphaned == \E c \in Calls : proc[Owner[c]] = "gone" /\ told[c] = "open"
  IN  Orphaned ~> ~Orphaned

\* The channel keeps for the child what the transport keeps for the parent:
\* a call runs once at most, an answer is the server's, and it ends.
Told(c) ==
  CASE caller[c] = "idle" -> "unasked"
    [] caller[c] = "waiting" -> "open"
    [] caller[c] = "answered" -> "answer"
    [] caller[c] \in {"refused", "gone"} -> "failure"

ChildPromise == INSTANCE McpCall WITH told <- [c \in Calls |-> Told(c)]

ChannelKeepsPromise == ChildPromise!Spec
=============================================================================
