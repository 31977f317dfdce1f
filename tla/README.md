# nanopi: specifications

TLA+ specifications of [nanopi](../src/README.md), a terminal coding agent in
Rust: an agent loop that streams a model's answer, runs the tools it asks for,
logs the session, dispatches child agents (`nanopi -p` processes), talks to MCP
servers and hosts WASM plugins. The specifications model the parts whose
correctness depends on the order in which things happen, TLC checks them on
small instances, and TLAPS proves the main invariants for every value of the
constants.

PROJECT.json holds the tables: components, runs, the code lines each definition
stands for, hazards, mutants, theorems.

Contents: [1 the system](#1-the-system), [2 plan](#2-plan),
[3 AgentRegistry](#3-agentregistry), [4 Transcript](#4-transcript),
[5 Steering](#5-steering), [6 Delivery](#6-delivery-and-resultpromise),
[7 MCP](#7-mcp-mcpcall-mcpstdio-mcpsession-mcpipc), [8 BriefFile](#8-brieffile),
[9 Worktrees](#9-worktrees), [10 PluginHost](#10-pluginhost),
[11 known disagreements](#11-known-disagreements),
[12 not modelled](#12-not-modelled).

## 1. The system

| part | state | operations | talks to |
|---|---|---|---|
| Agent registry, `agent_registry.rs` | entries (id, pid, state), `background` handles and tokens, semaphore, report outbox, `closed` | reserve, track_background, acquire_run, set_pid, set_state, stop, reactivate, wait_*, take_reports, kill_all | dispatch, control tools, TUI, print mode |
| Dispatch, `tool/agent.rs`, `tool/agent_ctl.rs` | per run: the child, its guards (StateGuard, McpGrant, ChildGuard), the waiting half of a detached call | single, parallel, chain, background, continue; stop_agent, send_message, list_agents | registry, MCP channel, worktrees, archive |
| Agent files, `archive.rs`, `worktree.rs` | brief.md and its lock, report.md; a git worktree and branch per isolated agent | write brief, amend, record state; create, finish (commit, merge, remove) | dispatch, child, git |
| Agent loop, `agent/loop_.rs`, `agent/context.rs` | the conversation, steer and follow-up channels, run-scoped limits | run_turn, execute_tool_calls, run_one_tool, maybe_compact | provider, tools, hooks, session log |
| Session log and compaction, `session.rs`, `agent/compact.rs` | an append-only JSONL file | append_entry, load_session, compact, repair_orphaned_tool_calls | agent loop |
| Tools, `tool/` | `file_state`: what was read, for stale-write detection | read, write, edit, bash, find, grep, ls | files, processes |
| MCP channel, `mcp/ipc.rs`, `mcp/proxy.rs` | grants, connected children, calls in flight | grant, bind, revoke, call, shutdown | registry, MCP manager |
| MCP client, `mcp/client.rs`, `stdio.rs`, `http.rs`, `manager.rs` | pending requests, server processes, HTTP sessions | start, request, cancel, recover, shutdown | MCP servers |
| TUI, `mode/tui.rs` | mode (idle, running, ...), queued input, agent slot | submit, steer, cancel, take reports, reload, quit | loop, registry, plugins |
| Print mode, `mode/print.rs`, `mode/brief_watch.rs`, `main.rs` | one run, its self-checks, its watcher of the brief | run, drain, Ctrl-C | loop, registry, files |
| Plugins, `wasm/`, `plugin_*.rs`, `subscriber.rs` | instances by generation, event queues, grants, prompt text | load, reload, notify, tool calls, send_user_message | loop, TUI |
| Hooks, `agent/hook.rs` | none | run a command, parse its verdict | loop |
| Providers, `provider/` | stream parser state | stream, retry | HTTP |

What is hard about them: tasks are cancelled by dropping futures, so what is
left behind depends on the await they were at and on the order their locals are
dropped in; the registry is used from several tasks, each holding its lock for
moments only; the log is appended to by tools that run in parallel, and a crash
or a cancellation may stop it anywhere, yet the next start must rebuild a
conversation a provider accepts; a steer may arrive at any point of a turn that
may end at any point; a detached call's result must be delivered exactly once
whether its caller still waits or not; grants of authority must follow the
processes they were given to; parent, child, watcher and a finishing worktree
rewrite one small file; a plugin may still be running when its successor loads.

What makes each part correct:

* registry and dispatch: bounded children; one run per agent; a finished entry
  has a report, no process and no grant; stop reaches what it is aimed at;
  everything launched ends;
* loop and log: in every request a tool result answers exactly the calls before
  it; no tool runs without its call being logged first; writes to one path stay
  in order; compaction never splits a call from its result; a replayed log gives
  a conversation the provider accepts;
* steering: a steer shown to the user reaches the model or is handed back;
* delivery: each result reaches the conversation exactly once;
* MCP: a call runs at most once, its caller is told one thing and does not wait
  for ever; a child only ever uses a grant of its own, and no call outlives it;
* agent files: no amendment is lost or goes unheard, the brief says how its
  agent ended, reports accumulate;
* worktrees: no work is lost, the outcome told is the outcome, the main tree is
  not left in the middle of something;
* plugins: after a reload nothing of the old instance acts or is listed.

How the parts are composed. Each module is one such concern, with the actors
that take part in it, rather than one source file; where two of them meet, the
one is reduced in the other to what it promises:

* `Delivery` refines `ResultPromise`; what a turn does with a report it is given
  is `Steering`'s, what becomes of an agent is `AgentRegistry`'s (`Deliver` and
  `DropGuard` there are the ends of a task here).
* `McpStdio` and `McpSession` each refine `McpCall`; `McpIpc` contains a copy of
  `McpCall`'s state (`told`, `runs`) as the transport it hands calls to, and
  shows that the child at its other end is promised the same.
* `BriefFile` and `AgentRegistry` share the life of a run; `Worktrees` is the git
  part of the step that is `finish` in `BriefFile`.
* `PluginHost` and `Steering` share the plugins: what they say is Steering's,
  what they are is PluginHost's.

## 2. Plan

| order | module | of | state |
|---|---|---|---|
| A | `AgentRegistry`, `AgentRegistryProofs` | registry, dispatch, control tools | checked; all safety properties proved |
| B | `Transcript`, `TranscriptProofs` | tool batches, the session log, cancellation, crash, replay and its repair, compaction | checked; all safety properties proved |
| C | `Steering`, `SteeringProofs` | steers, follow-ups, early returns of a turn, TUI routing, plugin messages | checked; all safety properties proved |
| D | `ResultPromise`, `Delivery`, `DeliveryProofs` | detached calls, parallel, chain, background, outbox, who takes the reports | checked; invariants and the safety of the refinement proved |
| E | `McpCall`, `McpStdio`, `McpSession`, `McpTransportProofs`, `McpIpc`, `McpIpcProofs` | a call of an MCP tool over a pipe, over HTTP, and from a child agent | checked; invariants and the safety of the refinements proved |
| F | `PluginHost`, `PluginHostProofs` | generations, reload, calls in guests, host calls | checked; both safety properties proved |
| G | `BriefFile`, `Worktrees`, `ArchiveProofs` | brief.md and report.md; git worktrees | checked; all safety properties proved |

Every invariant and every action property of a passing run is now a theorem.
What TLC alone shows is liveness: the leads-to properties, and the fairness part
of the refinements, which this prover cannot reach. What is next is breadth: the
TUI's agent views and the parts named in section 12.

Every module is written to be proved about: constants with named assumptions,
one action per operation, no RECURSIVE operator, properties as conjunctions of
named parts. A run's properties are those conjunctions, so that each run asks a
few questions and each question has one mutant of the code that fails it; the
comments at the parts say what they are about.

Deadlock is checked in no run: in each of them everything may be over.

## 3. AgentRegistry

Each call the parent makes about agents is a *caller*, a sequence of lock
sections (`CallPc`); each launch of an agent is a *run* `<<a, g>>`, its dispatch
being `<<a, 1>>` and continuations following; each run has a child process.

| code | model |
|---|---|
| `AgentEntry::state`, `pid` | `state`, `pid` (the run whose child the pid names) |
| `background: HashMap<id, {handle, token}>` | `background` (the run whose handle and token it is) |
| semaphore permits | `holders` |
| `run_body` between awaits | `pc`: spawned, queued, launching, launched, running, closing, dropping, settled, reporting, over |
| a task of its own, or polled by its caller | `kind` |
| cancelled `CancellationToken`s | `token` |
| the process, report.md, the channel's grant | `child`, `reports`, `grants` |

A poll is split where another worker thread can see its middle: at each release
of a registry lock and at process start. Cancellation drops a run only at its
awaits (`AtAwait`), and then in the order Rust drops the locals: child, grant,
permit (`DropRun`), and last the StateGuard (`DropGuard`). Before the first poll
there is no guard (`FirstPoll`). A run's time-out, a crash of the child and a
kill are all `Collect` or `ChildExit` outcomes. The stop of a running agent is
two steps (`StopLook` under the entries lock, `StopAct` after it).

Abstracted: ids are never reused and what a report says is left out; Completed
and LimitReached are one state; writing brief.md and index files, worktrees and
adoption from disk are left out, except that a worktree makes an await. kill_all is one
sweep: a child between acquire_run and set_pid has no pid yet and is not killed by
it (agent_registry.rs:589), which the model has and no property forbids; the
properties about finished entries speak of the time before. While a -p
run drains, no other call is in progress, as in print.rs; after `kill_all` only
calls and tasks already under way go on.

Bounds. `MaxLaunches` bounds dispatches and continuations together.
`agent_continue` has one isolated agent, two callers and three launches: two
continuations in a row, two `send_message`s racing for one, a stop racing
either, the drain racing a stop, and kill_all at any moment. `agent_live` has two
agents and one permit, so that one waits for the other; one caller suffices
there, because what may block a task or a waiter is permits and tasks. It runs
`FairStayingSpec`, the behaviours in which nanopi does not quit: once it does it
promises nothing to what it leaves behind.

Fairness (`RunFairness`, `CallFairness`): a woken task is polled; tokio's
semaphore is FIFO, so whoever waits finds a permit (SF); a child ends or its
time-out (never 0) ends it, which is in `Collect`; a call goes on between its
awaits. Nothing is assumed of children, users or the model.

| property | says | run | proved |
|---|---|---|---|
| `RegistrySound` (TypeOK, ConcurrencyBound) | no more children than permits | agent_live | RegistryIsSound |
| `OwnedByOneRun` (OneOwner, LiveHasOwner, GrantFollowsChild) | one run per live entry, whose launched child has the grant | agent_continue | OneRunOwns |
| `FinishedIsSettled` (FinishedHasNoChild, FinishedHasReport) | what is finished has a report and no process | agent_continue | FinishedAreSettled |
| `FinishedStays` | a finished entry changes only by a continuation | agent_continue | FinishedStaysSo |
| `ReportedStateIsFinal` | a report is delivered under a finished state, or its agent was continued | agent_continue | ReportsAreFinal |
| `StopReachesTask` | a stop cancels the token of the task, or there is no task to reach | agent_continue | StopsReach |
| `EveryTaskEnds`, `WaitersReturn` | liveness | agent_live | |

Two things do not hold, against comments in the source (section 11): a stop
before a task's first poll leaves its entry Queued for good, and Ctrl-C during
the drain cancels no token. `LiveHasOwner` and `StopReachesTask` are stated with
the exact exception these need.

### Proved (`AgentRegistryProofs`)

For any finite set of agents, any callers, bounds and limits satisfying
`RegistryAssumption`. None of the invariants is inductive alone. The inductive
invariant `IInv` adds: what the locals of a caller imply about the run it
prepares (`CallInv`), that a run not launched has nothing (`AbsentInv`), that
children are a subset of permit holders (`PermitInv`), when a report exists
(`ReportInv`), and that an owned agent is live and its earlier runs are past
their last `set_state` (`OwnerInv`). For `ReportsAreFinal` runs are shown to be
launched in order, an owned agent's run to be its last, and a settled run's agent
to be finished or continued (`FinalInv`). Like the others, the property speaks of
the time before `kill_all`: after it two continuations of one agent may overlap,
which takes four launches to show, one more than the run has. The proofs go action
by action: `StepCases` splits Next, quiet caller steps share one lemma, and each
part of `IInv` has a lemma of its own over the actions that touch it (`Moves`,
`FirstRun`). `StopsReach` needs to know what the background map holds
(`TrackInv`): only those that wait have taken handles, and the map names an
agent's dispatch from `track_background` to the dispatch's end, for the insert
that would replace it belongs to a later run, which is launched only once the
dispatch has settled (`OwnerIsLast`). The liveness properties are only
model-checked.

## 4. Transcript

One task runs a turn over `Context::messages` and appends to the session file;
the tools of a batch run concurrently inside it; a killed process is followed by
one that loads the file. Three sequences are related all along: what the model
is sent (`ctx`), what the file holds (`log`), and what a process started now
would make of the file (`Load(log)`).

| code | model |
|---|---|
| the JSONL file, its Message, ToolCall, ToolResult and Compaction lines | `log`; a result that Esc wrote is "cancelled" |
| `Context::messages` | `ctx`; a result of the repair is "unknown" |
| where `run_turn` is | `at`: folding (the compaction before the prompt), opening (the hooks that may refuse it), top of an iteration, starting (turn_start hooks), streaming, batch, marking, ending (turn_end hooks), closing (message_end hooks), tailing (the compaction after the loop); idle between turns, down without a process |
| `execute_tool_calls`: calls, groups, `completed` | `batch`, `WaitsFor`, `serial`, `completed` |
| `run_one_tool` of a call | `pc`: waiting (start hooks included), logged, running, ending (end hooks and event), done |
| tools that were started | `ran` |
| `load_session`, `repair_orphaned_tool_calls` | `Replay`, `Repair`, `Load` |
| `find_compact_boundary`, `compact`, `compact_now` | `Cuts`, `Summarized`, `Compact`; `CompactionLine` is what `replaced_count` is written as |

Steps are what a kill can separate: each appended line, and the start of a tool.
What no await separates is otherwise one step, so between the ToolCall line of a
call and the first poll of its tool nothing else of the task happens (`MidPoll`).
Esc sets the token at any time; the biased `select!`s notice it only when the
task is next polled, so calls may go on after it. Hooks and a compaction inside
the turn are awaited outside any `select!`, so they are places of their own, in
which the token is set and not looked at. `/compact`, between turns, is the same
action from idle.

`unfiled` is history: the conversation has, or had, a message the file has no
counterpart of. That is an answer without text none of whose calls has a ToolCall
line (refused by a hook, not begun at Esc, or cut off), or a result made up by
the repair after a resume. `replaced_count` counts such a message and the replay
does not build it.

Abstracted: texts and arguments; sizes, so compaction may happen at the end of
any turn and at its beginning, or not, and cut before any message that is not a
tool result; which limit ends a loop, and that three rounds of one failing call
do; which hook runs.
Ids are unique, as run_turn makes them within a context. An append either
happens whole or, with the process, not at all: a torn last line (session.rs:389)
and failing writes are left out. The batch keeps one flag for Sequential mode and
for a Sequential tool in the batch: both run the calls one at a time in order.
Skill invocations and branch summaries, forks and the session list are left out.

Bounds. Three calls, the first and last writing one file, in batches of up to
three: enough for a group of two beside a call of another. `MaxUsers` counts
steers too: with two, a second turn or a steer. The second is typed only while
the file is short (`MaxLines`), which keeps a batch of three out of the first of
two turns but not of the second. One compaction, one kill. A run ends where the
bounds leave nothing to type.

Fairness (`LoopStep`): the task is polled when its token is cancelled or an
await completes, and the hooks of a turn return: a command by its timeout
(hook.rs:401, 597), a plugin by its epoch budget. What a command is given is
written before its timeout starts (hook.rs:582), so this takes it to fit in the
pipe, as all but an `input` hook's prompt does by its size. Tools, their hooks and the
provider may hang, when it answers and when it summarizes, so nothing of theirs is
fair. A tool that blocks its thread instead of awaiting, and a TUI that does not
take the turn's events (section 5), are outside this.

Results (run `transcript`).

* `RequestsSound` (TypeOK, RequestPaired, OneAssistantPerTurn,
  RequestIsLogged): in each request the results answer exactly the calls before
  them, and what is sent has been logged. One exception is stated in it: an
  answer with calls that did not finish with "tool calls" leaves them unanswered.
* `CallsAnsweredOnce` (EveryCallAnswered, FinishedGetsNoMarker): a resumed
  session answers every call it shows, and Esc overwrites no landed result.
* `EffectsAreKnown`: it shows every call that may have run since the last summary.
* `ReplayLosesNothing` (RecentLinesHeld, KeptIsReplayed): what was written since
  the last compaction is in a resumed session and, between batches, in the running
  one; and every message that the running conversation still holds after its
  compactions a resumed one holds too, so `replaced_count` makes the replay drop
  nothing that was kept. The second part does not speak of a conversation that is
  `unfiled`: there the code does drop such messages (section 11). It does speak of
  answers whose lines the replay splits in two, where the replay has more messages
  than the conversation and so drops too few.
* `PathOrder`: writes to one file keep the model's order. It is checked for the
  parsers that keep the order of the calls (`Hashed = FALSE`).
* `CancelEnds`: Esc ends the turn, whatever hangs, with one exception: a compaction
  inside the turn to which the provider never gives an end (section 11).

### Proved (`TranscriptProofs`)

From `TranscriptAssumption` alone, for any number of calls, batches, turns,
compactions and kills: RequestsSound (`RequestsAreSound`), CallsAnsweredOnce
(`CallsAreAnsweredOnce`), EffectsAreKnown (`EffectsStayKnown`),
ReplayLosesNothing (`ReplayKeepsLines`), that calls which may not overlap run in
the order they were collected in (`BatchKeepsOrder`), and, for parsers that keep
the order of an answer's calls, PathOrder (`PathsKeepOrder`). CancelEnds, being
liveness, is only model-checked.

The properties speak of what a process started now would make of the file, so a
proof must follow `Load(log)` as `log` grows by a line, is compacted, or stops
anywhere. It goes in four stages.

1. What the recursions compute. `Replay` and `FlattenSeq`, which `Repair` is
   written with, are shown to be functions that take one step per line or message
   (`ReplayIs`, `FlatExists`, `LayoutExtended`), and `RepairIs` says what a repair
   is without its recursion: every message at a position, in the old order, and
   between them markers for calls that have no answer.
2. What a replayed file keeps of its lines (`Faithful`): nothing in it is made up,
   results have their line, answers follow the assistant message that shows their
   call, every call that was logged since the last compaction is shown, and no two
   assistant messages follow one another. `Replay1` keeps this line by line, a
   compaction included, so it holds of the file whatever the last line was
   (`FileInv`); the `Load...` lemmas carry it through the repair.
3. What ties the running process to the file: lines of a call and its place in
   `run_one_tool` (`CallInv`), the end of the file and the place in the turn
   (`TurnInv`), the conversation and the file (`CtxInv`), the answers already in
   the conversation (`PairInv`, until the first resume), and the order of a batch
   (`OrderInv`). Each has a lemma for its steps (`CallStep`, ...), and only
   together are they inductive: that a repair marks no finished call needs
   CallInv's lines, and that a request is logged needs both ends of the file.
4. What a compaction leaves (`KeptInv`, unless `unfiled`): a replay is never
   shorter than the conversation, the results of the batch that still have to be
   pushed aside, and each message of the conversation with a line of its own
   stands in the replay at least as far back as in the conversation. So dropping
   as many messages from the front of both drops nothing that is kept
   (`KeptLine`, `ReplayGrows`). Counting the results a batch owes needs that its
   calls are answered in the file once (`OutcomesCounted`).

TLC checks the whole invariant on the run's instance and on two others.

## 5. Steering

What is said while a turn runs (a typed line, a plugin's message, the report of
a background agent) waits in queues with different owners: the TUI's event loop,
the turn's task, the plugin state behind a lock. The TUI handles one event at a
time; the turn runs on another thread; plugins and agents speak from theirs.

| code | model |
|---|---|
| steer channel, its receiver, the sender the sink holds | `chan`, `rx`, `sink` (whether that sender is the current turn's) |
| `follow_up_slot`, `agent_report_slot` | `slot`, `reportSlot` |
| `AgentRegistry` outbox, `plugin_send::State` | `outbox`; `overflow`, `echoes`, `waiting`, `origin`, `nextOrigin` |
| `follow_up_queue`, `Agent::pending_follow_ups` | `queue`, `pending` |
| `Status::Streaming`, the handler the event loop is in | `streaming`, `tui` |
| `run_turn` | `turn`: spawned, top, busy, drained or failed (no more reads), over |
| what the user saw, what a turn was given | `shown`, `reached` |

`lost` and `exposed` are history: what a dropped receiver took along, and what
was in a channel (or in `follow_up_queue`) after its last read. A turn ends in
`EndTurn`, which drains, or in `FailTurn`, which does not. Starting a turn is
three steps of the TUI, because the task and the plugins run between them:
`Start`, `ResetTurn`, `Install`. A send to a full channel keeps the TUI in
`sending`. A handler's own lock sections otherwise stay one step: plugins only
add to what it takes.

Abstracted: texts, and with them the order two failed reports are put back in
(tui.rs:4884); the refusals of `send`, which change nothing, and its cap of turns
per session; session switches, `/quit` and panics. Several reports taken at once
are one text, as `take_reports` joins them.

Bounds. Two lines, one report, two messages of one plugin, and a channel of one
instead of 32: one text fills it, so each sender meets room, a full channel and
a closed one.

Fairness: the event loop serves its events and its tick; a turn goes on and ends
(`max_turns` bounds its iterations; a provider and tools that answer, or Esc,
end each), but only while the TUI, which must read its events, is not in
`sending`. Nobody need speak.

Results (run `steering`). `TextsAccounted` (TypeOK, InOnePlace, EchoMeansSent),
`LostOnlyUnread`, `RuleOneIsExact`, `OriginStartedTurn` and the liveness property
`EveryTextArrives` hold. The source's own rule (what was echoed is delivered or
demoted) fails when a turn leaves by a way out that does not drain; the
properties carry exactly that exception (`LostOnlyUnread`) and, for
`EveryTextArrives`, the TUI that stays on a full channel for ever: passing
through `sending` excuses nothing.

### Proved (`SteeringProofs`)

From `SteeringAssumption` alone: RuleOneIsExact (`RuleOne`), OriginStartedTurn
(`OriginStarted`), that no follow-up is owed when idle (`IdleOwes`),
TextsAccounted (`EveryTextHasOnePlace`) and LostOnlyUnread (`OnlyUnreadIsLost`).

The first three are
proved together, from an inductive invariant in three parts. `RuleInv` says
position by position what RuleOneIsExact says of sets: a queue holding one
message twice would satisfy the latter and lose it at the next `take_pending`.
`OriginInv` adds that an origin is staged only while the TUI is between a pick
and its reset, which is why no human's turn can inherit one. `StreamInv` ties
`streaming` to the turn and the TUI's handler. The two lemmas about `Pick` and
`StartPicked` reduce the three places a turn is picked in to one disjunction, and
what the turn's task does touches none of these variables.

The last two need the contents of every queue. `TextsInv` says that the eleven
places a text can be in share no message (`Separate`), that no message is in two
texts of one queue (`NestedInv`, without which taking the head of a queue would
leave a copy), that all that was said is in one of them or was exposed
(`Covered`), and that after a way out that does not drain all that is left in the
channel is exposed (`TurnInv`). Each action moves texts between places, and the
lemmas about queues (`QueueConcat`, `QueueTail`, `QueueAppend`) say what the move
does to both. `FollowUpsAre` says of the pump, a recursive function, that it
splits the channel into steers and follow-ups and loses none. The three places a
turn is started in share one lemma (`StartKeepsTexts`).

EveryTextArrives, being liveness, is only model-checked.

## 6. Delivery and ResultPromise

`ResultPromise` is what `DetachedWait`'s comment says: a result is delivered
exactly once, to the caller or to the next turn. Its state is what was made,
delivered, given up and excused; a step makes results, delivers some for the
first time, or gives up excused ones; and what is made is settled some day.
`Delivery` is the calls, channels and queues that carry it.

| code | model |
|---|---|
| the `agent` call inside `execute_tool_calls` | `call`: idle, waiting, returned, closing, over |
| its turn's cancelled token | `esc` |
| the agent's tokio task, the chain's driver | `task` |
| the oneshot of a detached agent: sender's side, `DetachedWait`'s receiver | `line`; `rx`, `looking` (closed, and not yet looked at) |
| a result in a local of the call's future | `held` |
| `AgentRegistry::reports` | `outbox` (a count, so that a second copy shows) |
| `AgentRegistry::background` | `background` |
| the conversation | `got` |
| who awaits: TUI, or `print.rs` in its turn, drain and extra turns | `mode`, `phase`, `interrupted` |
| agents `stop_agent` waits for | `stopped` |
| agents the one extra turn of a -p run dispatched | `late` |

The hand-over between a task that sends and a waiter that is dropped is three
steps: close, look, or the send that comes before or after (`Close`, `Look`,
`EndsForCall`, `EndsForOutbox`). `stop_agent` here only says which task is waited
for; what it does to the agent is AgentRegistry's.

Bounds: a parallel call of two agents, a chain, and a background agent, in any
order, in the TUI with Esc at any moment and in a -p run with Ctrl-C at any
moment. Two results over one call, one without a handle and one without a caller
are all the kinds of hand-over there are.

Fairness: a task that can go on is polled; an agent ends, if need be by its
time-out; a turn ends (`max_turns`, loop_.rs:76-96, and Esc); the TUI ticks every
120 ms; the main task of a -p run is polled. The TUI's loop can block on a full
channel (Steering's "sending"); then no report is taken either. Delivery assumes
that it does not stay blocked, so PromiseKept says nothing of that case.

Results (run `delivery`): `ResultsAccounted` (TypeOK and InOneHand: from the end
of its task on a result is in exactly one place), `LostOnlyWhenExcused` (let go
of only by a cancelled call, an interrupted -p run, for an agent the model
stopped itself, or for one the extra turn of a -p run dispatched), and
`PromiseKept`: Delivery implements ResultPromise, its liveness included. Neither
the first excuse nor the last is the source's: it says "exactly once" of the one,
and of the other that the report is appended to report.md, which is written only
by a run that has no `agent` tool (section 11, NeverNeither and print.rs:569).

### Proved (`DeliveryProofs`)

From `DeliveryAssumption` alone, for any set of calls and results:
`ResultsAreAccounted` and `ResultLostOnlyWhenExcused`, and that each step of
Delivery is a step of ResultPromise or stutters (`DeliveryKeepsPromise`:
`Spec => Promise!Safe`). `InOneHand` is not inductive: a result counted once may
be one that is about to be counted again. The invariant adds that a call that has
not begun has started nothing (`Untouched`), that a call that returned still holds
its results (`ReturnedHolds`), how a channel's two ends go with its task
(`LineEnds`), that only a call that is being dropped looks (`Lookers`), and, under
-p, that a background result on its way has a handle to wait for (`Watched`,
`PrintReports`) and that after the first drain it is one the extra turn dispatched
(`LateReports`). Each action keeps it in a lemma of its own.
The temporal part of PromiseKept is only model-checked.

## 7. MCP: McpCall, McpStdio, McpSession, McpIpc

`McpCall` is what a transport promises about a call, whatever carries it: the
server takes it up at most once, its caller is told at most one thing, an answer
is the server's, and a call does not stay open. Two variables, `told` and `runs`.

### McpStdio

| code | model |
|---|---|
| the future of `request_with_timeout` | `caller`: idle, writing, waiting, grace, answered, failed, dropped |
| its oneshot; `Slots`, open with a map or closed | `reply`; `pending`, `slots` |
| `McpClient` state | `client` |
| the task that writes a line, under the lock of stdin | `line`, `holder`, `stdin` |
| bytes in the pipe, in halves of lines | `pipe` |
| `read_stdout`; `shutdown` | `reader`; `exit` |
| the server (external) | `server`, `heard`, `work`, `asked`, `out` |

A future is dropped at any await; then its half-written line is finished by a task
of its own, and its cancellation is queued behind it (`Drop`, `Place`,
`AbandonedWrite`). The server may ask something, close its stdout, or die.

Bounds: two calls, a pipe of one half line to the server and one line from it, so
that every write can meet a full pipe with the lock held. Fairness (`OwnStep`):
timers fire, a pipe with room takes bytes, tasks are polled; nanopi's own steps
are finitely many per call, so one weak fairness condition does. `ReadingSpec`
adds that the server keeps reading; it need never answer.

Results (run `mcp_stdio`): `WireSound` (TypeOK; LinesIntact: what the server
reads is whole lines; WaiterIsKnown: whoever waits is in the map or has its
reply), `NothingRunsForNobody` (the server ends up working for no caller that is
gone), `CallsKeepPromise` (McpStdio implements McpCall). For a server that stops
reading the last one fails (section 11, WedgedServer).

### McpSession

| code | model |
|---|---|
| the future of `McpClient::request`; the epoch it noted | `request`, `seen` |
| its last HTTP request, and the session id in it | `wire`, `under` |
| `SessionRecovery`: epoch, last outcome, the async lock | `epoch`, `last`, `LockFree` |
| the handshake `reconnect` is in | `hs`, `offer` |
| the transport's session id; shutdown's DELETE | `session`; `closed`, `doomed` |
| the server (external) | `live`, `issued`, `losses`, `runs` |

Bounds: two calls and two losses of sessions: both learn of one loss, the second
loss hits a retry or a handshake. Fairness: timers fire, a poll that began goes on
(`Capture`), and tokio's mutex is FIFO (SF of `Lead` or `Follow`).

Results (run `mcp_session`): `SessionsSound` (SessionTypeOK; OneGoodSession: of
the sessions whose handshake was completed the server still honours only the
current one, and none once shutdown's DELETE has arrived), `RequestsKeepPromise`
(McpSession implements McpCall: the retry after a 404 runs nothing twice).

### McpIpc

| code | model |
|---|---|
| `run_body`, its `McpGrant`s not yet dropped | `gen`, `run`, `held` |
| `State::grants`, `State::connected` | `grants`, `connected` |
| the child process; both ends of its connection | `proc`; `conn`, `link` |
| a frame, the parent's task for it, its reply | `request`, `reply` |
| `IpcClient::request` in the child | `caller` |
| the parent's transport | `told`, `runs`: McpCall |

A run's grant is revoked by a guard that may be dropped late (`held`), and its
continuation is granted afresh under the same id.

Bounds: one agent with two runs, whose first makes both calls; one call in flight,
so that the second meets the limit. Fairness: the parent reads what there is to
read and answers, the child's timers fire; servers owe nothing.

Results (run `mcp_ipc`): `GrantsSound` (TypeOK; RunningHasGrant: a run that goes
on has the grant, whatever is revoked late), `NothingRunsForTheDead` (a call of a
dead child does not stay open at the server), `ChannelKeepsPromise` (McpIpc keeps
for the child what McpCall says, given that the transport does so for the parent).

### Proved (`McpTransportProofs`, `McpIpcProofs`)

From `StdioAssumption`, `SessionAssumption` and `IpcAssumption` alone, for any
calls, agents and runs, pipes of any size and any losses of sessions. The two
transports share a module that extends both; McpSession's names are its own
(`SessionSpec`, `SessionNext`, `request`) so that it can.

* `WireIsSound` and `StdioIsSafe`: McpStdio keeps WireSound and implements the
  safety of McpCall. That lines stay whole needs that the lock is held exactly
  while half a line is written (`HolderInv`), and that the stream to a server that
  lives ends in that half (`StreamInv`). That a call is taken up once needs that
  its request is written once (`FreshInv`), is in the pipe once, and is there only
  before the server works on it (`OnceInv`); that an answer is the server's, that
  one in the pipe back or in a channel is of a call taken up (`AnswerInv`).
* `SessionsAreSound` and `SessionIsSafe`: McpSession keeps SessionsSound and
  implements the safety of McpCall. OneGoodSession is not inductive: a call that
  starts a handshake must know that the session it replaces is lost. The invariant
  says that one that has not been overtaken carries the current session or no good
  one is left (`KnownLost`), that a handshake has nothing to lose (`SessionInv`),
  and that a call which may be told an answer has run (`RunInv`).
* `GrantsAreSound` and `ChannelIsSafe`: McpIpc keeps GrantsSound and, if the
  transport keeps McpCall for the parent, keeps it for the child. The invariant
  adds that only the current run holds a grant (`HeldInv`), that connections are
  begun by the child (`LinkInv`), and that what travels for a call was asked for
  and an answer is of a call that ran (`CallInv`).

The liveness of the three refinements, NothingRunsForNobody and
NothingRunsForTheDead are only model-checked.

## 8. BriefFile

brief.md and report.md of one agent, and everyone who reads and writes them.

| code | model |
|---|---|
| brief.md: its state line and amendments, or a truncated file; `brief_write_lock` | `brief`, `lock` |
| report.md, as the parts that were ever written to it | `report` |
| the registry's state of the agent | `state` |
| the task of each run, what it has read | `pc`, `end`, `held`, `prev` |
| `finish_worktree_and_record` on a blocking thread: of run_body, of StateGuard | `finish`, `copy`, `orphan` (its file was renamed over) |
| `send_message` | `sender` |
| the child: print.rs turns, `brief_watch`, the steer channel, the session | `child`, `turn`, `last`, `seen`, `channel`, `known` |

`appended`, `exposed`, `written`, `early` and `clash` are history: what the
exceptions in the properties speak of. A state write is a locked read, edit and
rename; the end of a worktree reads, truncates and writes without the lock
(archive.rs and agent.rs:1275 respectively), which is what `exposed` is for.

Bounds: two messages to an agent without a worktree, one to an agent with one,
three runs, one self-check turn; the child may die and the run be stopped at any
await. Fairness: the watcher polls every 500 ms, the loop iterates during a turn,
and a rewrite that has begun ends; nothing makes a child end its turn.

Results (run `brief_file`): `RunsTold` (TypeOK; BriefShowsState; OutcomeTold: the
result of a run tells what became of its worktree), `AmendmentsStay` (an
amendment survives every rewrite but the unlocked one), `NoneMissed` (none falls
between the prompt's read and the watcher's baseline), `ReportsKept` (report.md
keeps the parts of every run), `AmendmentHeard` (liveness: an amendment made
during a turn is heard in it, or the turn is over).

### Proved (`ArchiveProofs`)

For any number of messages, runs and self-check turns: `AmendmentsStay`
(`AmendmentsStayPut`), `NoneMissed` (`TurnsMissNone`), `ReportsKept`
(`ReportsAccumulate`) and `RunsTold` (`FilesTellTheRun`). `BriefIInv` follows each
of the two files through every copy of it that may yet be written back:

* `RunsInv`, `BegunInv`, `OrderInv`: one run at most is active, the lock is held to
  record a state only, runs begin in order and, unless `early`, one after another;
* `RewriteInv`, `AgreeInv`: a torn brief has a finisher that is to write it back;
  writers that have not met (`~clash`) hold the same brief;
* `StayInv`: what was appended is in the brief, and in every copy a state write or
  a finisher holds, or is exposed; `AmendmentsStay` is its first line;
* `HeldInv`: the i-th amendment has the number i, `last` is one of them, and each is
  known, in the channel or above `last`. It is said of the copies of finishers too,
  as a turn goes on while they are written back. What `Forward` sends, the function
  `News`, is shown by induction on the numbers to hold every fresh amendment;
* `SettledInv`, `EndInv`, `KeptInv`: where everything once in the report is: in what
  the run read before, in that and the report, in what it is about to write, and at
  the end in the report, from which ReportsKept follows;
* `ShownInv`, `ToldInv`: once recorded, a run's state is in the brief and in what is
  put back, and the worktree's outcome is in the report.

TLC checked the parts as invariants before they were proved. `AmendmentHeard`,
being liveness, is only model-checked.

## 9. Worktrees

A finish is a sequence of git commands on a blocking thread; git is external, each
command one step with the outcomes it can have.

| code | model |
|---|---|
| worktree, branch, the worktree's HEAD | `trees`, `branches`, `detached` |
| uncommitted, committed and stray work; the main tree's share | `edits`, `commits`, `stray`; `main` |
| MERGE_HEAD of the main tree, and whose it is | `merging` |
| `worktree::finish` | `at`: status, commit, count, merge, abort, remove, delete, over |
| `WorktreeOutcome` | `outcome` |

Each agent may have two finishes, run_body's and StateGuard's; agents commit,
leave their branch and edit; the user merges; any command may fail; nanopi may die
at any step.

Bounds: two agents and two items of work, both symmetric: a merge may conflict
with the other agent's or with the user's, and a second item may be written after
the first was committed. No liveness: git commands may hang.

Results (run `worktrees`): `MainSound` (WorktreeTypeOK; NothingHalfMerged), `WorkKept` (an
item of work is in the worktree, on the branch or in the main tree, unless it was
committed off the branch), `OutcomeTrue`. The run `user_merge` ends in a
violation: a finish whose merge git refuses to begin, because the user is in the
middle of one, aborts the user's merge (worktree.rs:259).

### Proved (`ArchiveProofs`)

`ArchiveProofs` extends both modules of what an agent leaves on disk, which is why
the names here say Worktree (`WorktreeSpec`, `worktreeVars`) where BriefFile's
do not.

From nothing about the constants, for any agents and any work: all three. The
invariant follows a finish: it begins when the child is gone and has an outcome
only after the merge (`StageInv`); a finish past its commit leaves nothing
uncommitted (`EditInv`), one past its count has commits to merge, one that cleans
up has none that are not in the main tree (`CommitInv`); a branch with commits
goes only after a merge, of this finish or of the agent's other one (`GoneInv`).
With `PlaceInv` and `DoneInv`, which say where work is, WorkKept follows.

## 10. PluginHost

| code | model |
|---|---|
| `ACTIVE` of wasm/generation.rs; the bridges that were loaded, their gates | `active`, `loaded`, `holds` |
| the agent's registered tools; its commands and subscriptions; CONTRIBUTIONS | `tools`, `rows`, `context` |
| whether a turn has the agent, and awaits which calls | `turn`, `heeded` |
| `/reload`: config.toml as read, extensions still to load | `config`, `todo`, `reloading` |
| a call: a tool call, a slash command, an event | `at`: idle, begun, locking, inside, hosting, returned; `inst`, `result` |
| who awaits a delivery, the subscribers still to be told | `parent`, `deliver` |

An instance's mutex is held while a guest runs, its host calls included (`Busy`);
tool calls and commands wait for it (`locking`), events do not (`EventsWait`).
Esc ends a turn and never a guest, so that guests run on during a reload.

Abstracted: an event's check and its `try_lock` are one step; one delivery stands
for the start and the end of a host tool call; the commands and subscriptions of a
plugin are one row; a plugin only adds text to the prompt, and what it says with
send_user_message is Steering's; the store, the fs and network gates, notices and
orchestrator mode are left out.

Bounds: two plugins, one of them without tools, one tool call, one command, two
events in flight, one turn, one reload, and four configurations that between them
replace each kind of plugin with and without grants, fail it and remove it.
Fairness (`OwnStep`): blocking threads run, and a guest is ended by its epoch
budget (loader.rs:1733-1736).

Results (run `plugin_host`): `HostSound` (TypeOK; TablesAreLive: what is
registered is of a live instance; ContributionOwned: text in the prompt has a
plugin that may put it there) and `CallsAnswered` (NoStaleSuccess: no success of a
replaced instance is handed over; EveryCallEnds: a guest that calls a tool is not
deadlocked by its own events).

### Proved (`PluginHostProofs`)

From `HostAssumption` and `ConfigAssumption` alone, for any plugins,
configurations and bounds: HostSound (`HostIsSound`) and NoStaleSuccess
(`StaleSuccessNever`). During a reload the tables are those of the configuration
before, so HostSound alone is not inductive: the invariant says for each plugin
that it is `Fresh` (loaded anew and not swapped in yet) while a reload is on, and
otherwise `Settled` and `Owned` (`TableInv`), that plugins without tools are never
in `tools`, and that there are enough generations (`LoadInv`). For NoStaleSuccess it says that no reload is on during a turn and that a waiting "ok" is of
a live instance, or was overtaken, or is heeded by nobody. EveryCallEnds, being
liveness, is only model-checked.

## 11. Known disagreements

Where the code does not do what a comment, a test or a document of the repository
says. Each was found as a counterexample; the property that holds is stated with
the exact exception. One is kept as a run that ends in a violation (`user_merge`).

| where | the code | says otherwise |
|---|---|---|
| worktree.rs:259 | after a merge git refused to begin, `merge --abort` ends the user's own merge | worktree.rs:257-258 |
| tool/agent.rs:1903 | a stop before a task's first poll leaves the entry Queued for good | comment at 1904-1909 |
| agent_registry.rs:373 | stop_all finds no tokens during the drain, which has taken them, and a queued agent starts after Ctrl-C | mode/print.rs:515-523 |
| provider/openai.rs:835 | the calls of an answer come in HashMap order, so two writes to one file may be swapped | agent/loop_.rs:1756-1757 |
| agent/loop_.rs:2253, 2283, 1937 | the file can hold results of calls it does not hold (refused by a hook, or not begun at Esc), twice, or behind the wrong half of a split answer, and a replay sends them on (ResumePairs) | agent/loop_.rs:377-380 |
| agent/loop_.rs:447, agent/compact.rs:369 | `replaced_count` counts messages of the conversation; after an answer without text whose calls are not on file (all refused, not begun, cut off), or a result made up by a repair, the replay has built fewer, and drops messages that were kept (KeptIsReplayed without `unfiled`) | agent/loop_.rs:443-446 |
| agent/loop_.rs:903, 1693, agent/compact.rs:320 | a provider that hangs while it summarizes inside a turn keeps Esc from ending the turn: that await is not raced against the token (CancelEnds without its exception) | agent/loop_.rs:759-760 |
| agent/loop_.rs:1398, 1707 | a text echoed as delivered is dropped when the turn ends without a drain, or between the last read and the drop of the receiver (EchoedIsNeverLost) | docs/claims-and-races.md, invariant 8 |
| tool/agent.rs:988 | results a parallel call has already collected are dropped when it is cancelled (NeverNeither) | tool/agent.rs:1828-1832 |
| mode/print.rs:569 | the reports taken after a -p run's extra turn go into the body of report.md only (653-661), and only a --brief run writes one, which has no `agent` tool (248-257): a run that can dispatch an agent drops them | mode/print.rs:546-550 |
| mode/tui.rs:1909 | the event loop awaits a full steer channel while the turn awaits the event loop's 64 events: neither goes on (EveryTextArrives without its exception) | mode/tui.rs:1885-1890: the message reached the turn, or is handed back |
| mcp/stdio.rs:471 | a call to a server that stops reading never ends: its timeout has not started, and the shutdown waits for the same lock (WedgedServer) | mcp/client.rs:128-129 |
| mcp/http.rs:498 | a request may be sent under a session whose handshake is not complete (Uninitialized) | mcp/client.rs:471-474 |
| tool/agent.rs:2084 | a continued run that leaves no report of its own is told the previous one a second time, as its own (OwnReportTold) | tool/agent.rs:2053-2056 |
| mode/tui.rs:2774 | a command that had returned before /reload is printed by the tick after it | comment at wasm/loader.rs:1762-1768, docs/plugin-capabilities.md, invariant 17 |
| wasm/loader.rs:352 | a replaced instance that still runs puts text in the prompt after the reload removed it | docs/plugin-capabilities.md, invariant 14 |
| wasm/mod.rs:184-186 | two entries with the same file stem both load and share a generation, so that the first is refused as replaced | not modelled |
| agent/build.rs:587 | a plugin without tools that is gone from the config is neither retired nor cleared | docs/plugin-capabilities.md |

## 12. Not modelled

What TLAPS does not reach and stays with TLC: liveness under fairness and the
temporal halves of the refinements. Induction theorems with an operator parameter
are out of reach too. Where a proof needs induction over data it is stated of a
set of naturals instead (`NatInduct`, which follows from the least element of a
non-empty set), and a recursive function is first shown to exist step by step:
so the file's replay and repair and the pump's queue are reasoned about for every
input.

Hazards left to reading. A torn last line of the session file (session.rs:389);
kill_all's single sweep (agent_registry.rs:589); the order of two failed reports
that are put back (tui.rs:4884); a continued agent's child that connects
before the parent has seen the connection of the run before end is refused and has
no MCP tools (ipc.rs:601; McpIpc has the step, no property forbids it). A process that ends takes with it all that it holds; only files and
git outlive it, and those are modelled.

Components left out, with their reason in PROJECT.json: providers (sequential
parsers without shared state, tested on fixtures), hooks (their verdicts are
nondeterministic inputs of the loop), the search tools and the tools' own file and
process work (I/O), MCP credentials, the construction of an agent and its
prompts, configuration and command parsing, rendering and key handling, vendor
tables. Of the modelled components these parts are left out: adoption of agents
from disk, rendering of reports, the session list, forks and branch summaries,
the stale-write guard, server-sent events inside one HTTP answer, OAuth, the
socket file and unparsable frames, index.md, session switches in the TUI, the
store and the file and network gates of plugins.
