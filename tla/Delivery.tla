------------------------------ MODULE Delivery ------------------------------
(***************************************************************************)
(* The way of an agent's result from its task to the model: the `agent`    *)
(* tool's single, parallel, chain and background calls with DetachedWait   *)
(* and spawn_tracked (tool/agent.rs), the cancellation of a turn           *)
(* (execute_tool_calls and run_one_tool of agent/loop_.rs), the registry's *)
(* outbox, and who reads it: the TUI's ticks, or the drain at the end of a *)
(* -p run (mode/print.rs).                                                 *)
(*                                                                         *)
(* How a turn of the TUI is told what was taken out of the outbox is       *)
(* Steering's; what becomes of the agents themselves is AgentRegistry's.   *)
(* A continuation (send_message) reports as a background dispatch does.    *)
(***************************************************************************)
EXTENDS Naturals

CONSTANTS
  Parcels,     \* results: one per dispatched agent, one per chain
  Calls,       \* calls of the `agent` tool
  Of,          \* [Calls -> SUBSET Parcels] the results a call asks for
  Background,  \* SUBSET Parcels: dispatched with background: true
  Chains       \* SUBSET Parcels: results of a chain's driver

ASSUME DeliveryAssumption ==
  /\ Of \in [Calls -> SUBSET Parcels]
  /\ \A c, d \in Calls : c # d => Of[c] \cap Of[d] = {}
  /\ \A c \in Calls : Of[c] \subseteq Background \/ Of[c] \cap Background = {}
  /\ Background \subseteq Parcels /\ Chains \subseteq Parcels \ Background

VARIABLES
  mode,        \* "tui": foreground dispatches are detached; "print": they are not
  call,        \* [Calls -> ...]     where a call is
  esc,         \* SUBSET Calls       their turn's token was cancelled
  task,        \* [Parcels -> ...]   the agent's task, the chain's driver
  line,        \* [Parcels -> ...]   the oneshot channel to the waiting call
  rx,          \* SUBSET Parcels     whose receiver lives, in a DetachedWait
  looking,     \* SUBSET Parcels     receivers closed that have yet to look
  held,        \* SUBSET Parcels     in the hands of a call
  outbox,      \* [Parcels -> Nat]   copies in AgentRegistry::reports
  got,         \* [Parcels -> Nat]   times the model was given it
  dropped,     \* SUBSET Parcels     let go of
  background,  \* SUBSET Parcels     AgentRegistry::background: handles of the drain
  stopped,     \* SUBSET Parcels     stop_agent waited for them
  phase,       \* where a -p run is
  interrupted, \* BOOLEAN            ctrl_c_interrupted
  late         \* SUBSET Background  dispatched by the one extra turn of a -p run

callVars == <<call, esc, held>>
taskVars == <<task, line, rx, looking, background, stopped>>
endVars == <<got, dropped>>
printVars == <<phase, interrupted, late>>
vars == <<mode, callVars, taskVars, outbox, endVars, printVars>>

Foreground == Parcels \ Background

TypeOK ==
  /\ mode \in {"tui", "print"}
  /\ call \in [Calls -> {"idle", "waiting", "returned", "closing", "over"}]
  /\ esc \in SUBSET Calls
  /\ task \in [Parcels -> {"none", "running", "over"}]
  /\ line \in [Parcels -> {"none", "open", "sent", "closed", "empty"}]
  /\ {rx, looking, held, dropped, background, stopped} \subseteq SUBSET Parcels
  /\ outbox \in [Parcels -> Nat] /\ got \in [Parcels -> Nat]
  /\ phase \in {"turn", "waiting", "extra", "finishing", "over"}
  /\ interrupted \in BOOLEAN /\ late \in SUBSET Background
  /\ mode = "tui" => phase = "turn" /\ ~interrupted
  /\ mode = "print" => esc = {} /\ rx = {}

Init ==
  /\ mode \in {"tui", "print"}
  /\ call = [c \in Calls |-> "idle"] /\ esc = {} /\ held = {}
  /\ task = [x \in Parcels |-> "none"] /\ line = [x \in Parcels |-> "none"]
  /\ rx = {} /\ looking = {} /\ background = {} /\ stopped = {}
  /\ outbox = [x \in Parcels |-> 0]
  /\ got = [x \in Parcels |-> 0] /\ dropped = {}
  /\ phase = "turn" /\ interrupted = FALSE /\ late = {}

-----------------------------------------------------------------------------
(***************************************************************************)
(* Plausible mistakes in definitions below, each named for one of them;    *)
(* Spec uses none.                                                         *)
(***************************************************************************)
\* The waiter only looks, and leaves the channel open.
OpenClosedLine(x) == line

\* A waiter that is dropped does not look for a result already sent.
BlindFound(x) == FALSE

\* Background dispatches are not tracked.
UntrackedHandles(c) == IF mode = "tui" THEN Of[c] \ Chains ELSE {}

-----------------------------------------------------------------------------
(***************************************************************************)
(* The calls.                                                              *)
(***************************************************************************)

\* `agent` is a sequential tool: a batch with one runs call by call.
TurnRuns == phase \in {"turn", "extra"}
Quiet == \A c \in Calls : call[c] \in {"idle", "over"}
GoTo(c, place) == call' = [call EXCEPT ![c] = place]

\* The handles track_background keeps: not those of chains' drivers, and
\* outside the TUI not those of foreground agents, which have no task.
Handles(c) == IF mode = "tui" THEN Of[c] \ Chains ELSE Of[c] \cap Background

\* The results that come over a channel.
Detached(c) == IF mode = "tui" THEN Of[c] \cap Foreground ELSE {}

\* execute: every item is prepared and spawned in the first poll.  Where
\* dispatches are detached each result comes over a channel of its own.
Start(c) ==
  /\ call[c] = "idle" /\ TurnRuns /\ Quiet
  /\ GoTo(c, IF Of[c] \subseteq Background THEN "over" ELSE "waiting")
  /\ task' = [x \in Parcels |-> IF x \in Of[c] THEN "running" ELSE task[x]]
  /\ rx' = rx \cup Detached(c)
  /\ line' = [x \in Parcels |-> IF x \in Detached(c) THEN "open" ELSE line[x]]
  /\ background' = background \cup Handles(c)
  /\ late' = IF phase = "extra" THEN late \cup (Of[c] \cap Background) ELSE late
  /\ UNCHANGED <<mode, esc, held, looking, stopped, outbox, endVars, phase, interrupted>>

\* Esc, in the TUI.
Esc(c) ==
  /\ mode = "tui" /\ call[c] \in {"waiting", "returned"}
  /\ esc' = esc \cup {c}
  /\ UNCHANGED <<mode, call, held, taskVars, outbox, endVars, printVars>>

\* A poll of the call finds a result; join_all keeps it until all are there.
Take(c, x) ==
  /\ call[c] = "waiting" /\ x \in Of[c] \cap rx /\ line[x] = "sent"
  /\ line' = [line EXCEPT ![x] = "empty"]
  /\ rx' = rx \ {x}
  /\ held' = held \cup {x}
  /\ UNCHANGED <<mode, call, esc, task, looking, background, stopped, outbox, endVars, printVars>>

\* execute returns, and run_one_tool logs the ToolResult.
Return(c) ==
  /\ call[c] = "waiting" /\ Of[c] \subseteq held
  /\ GoTo(c, "returned")
  /\ UNCHANGED <<mode, esc, held, taskVars, outbox, endVars, printVars>>

\* After the end hooks and the event, the outcome is put where the batch
\* keeps it, and so reaches the model's context.
Record(c) ==
  /\ call[c] = "returned"
  /\ GoTo(c, "over")
  /\ held' = held \ Of[c]
  /\ got' = [x \in Parcels |-> IF x \in Of[c] THEN got[x] + 1 ELSE got[x]]
  /\ UNCHANGED <<mode, esc, taskVars, outbox, dropped, printVars>>

\* The batch sees the token: the call's future is dropped, what it holds
\* with it, and the model reads cancelled_call_note.
Cancel(c) ==
  /\ c \in esc /\ call[c] \in {"waiting", "returned"}
  /\ GoTo(c, "closing")
  /\ dropped' = dropped \cup (held \cap Of[c])
  /\ held' = held \ Of[c]
  /\ UNCHANGED <<mode, esc, taskVars, outbox, got, printVars>>

\* DetachedWait::drop, for a waiter that has not had its result: close the
\* channel, then look.
ClosedLine(x) == [line EXCEPT ![x] = IF @ = "open" THEN "closed" ELSE @]

Close(c, x) ==
  /\ call[c] = "closing" /\ x \in (Of[c] \cap rx) \ looking
  /\ line' = ClosedLine(x)
  /\ looking' = looking \cup {x}
  /\ UNCHANGED <<mode, callVars, task, rx, background, stopped, outbox, endVars, printVars>>

Reported(x) == outbox' = [outbox EXCEPT ![x] = @ + 1]
Found(x) == line[x] = "sent"

Look(x) ==
  /\ x \in looking
  /\ looking' = looking \ {x}
  /\ rx' = rx \ {x}
  /\ line' = [line EXCEPT ![x] = IF Found(x) THEN "empty" ELSE @]
  /\ IF Found(x) THEN Reported(x) ELSE UNCHANGED outbox
  /\ UNCHANGED <<mode, callVars, task, background, stopped, endVars, printVars>>

Closed(c) ==
  /\ call[c] = "closing"
  /\ Of[c] \cap rx = {}
  /\ GoTo(c, "over")
  /\ UNCHANGED <<mode, esc, held, taskVars, outbox, endVars, printVars>>

-----------------------------------------------------------------------------
(***************************************************************************)
(* The tasks.                                                              *)
(***************************************************************************)

\* The agent, or the last step of a chain, is over, however it ended: its
\* result goes to the call if that is still there, and else to the outbox.
Ends(x) ==
  /\ task[x] = "running"
  /\ task' = [task EXCEPT ![x] = "over"]
  /\ UNCHANGED <<mode, call, esc, rx, looking, background, stopped, endVars, printVars>>

EndsForCall(x) ==
  /\ line[x] = "open" /\ Ends(x)
  /\ line' = [line EXCEPT ![x] = "sent"]
  /\ UNCHANGED <<held, outbox>>

EndsForOutbox(x) ==
  /\ line[x] = "closed" \/ x \in Background
  /\ Ends(x)
  /\ Reported(x)
  /\ UNCHANGED <<line, held>>

\* In a -p run the call awaits a foreground agent itself.
EndsInCall(x) ==
  /\ mode = "print" /\ x \in Foreground /\ Ends(x)
  /\ held' = held \cup {x}
  /\ UNCHANGED <<line, outbox>>

\* stop_agent: takes the handle, and returns when the task is over.
Stop(x) ==
  /\ TurnRuns /\ x \in background /\ task[x] = "running"
  /\ stopped' = stopped \cup {x}
  /\ background' = background \ {x}
  /\ UNCHANGED <<mode, callVars, task, line, rx, looking, outbox, endVars, printVars>>

-----------------------------------------------------------------------------
(***************************************************************************)
(* The outbox: take_reports.                                               *)
(***************************************************************************)
Pending == {x \in Parcels : outbox[x] > 0}
Cleared == [x \in Parcels |-> 0]
TakeReports ==
  /\ got' = [x \in Parcels |-> got[x] + outbox[x]]
  /\ outbox' = Cleared

\* A tick, or the end of a turn, in the TUI.
Tick ==
  /\ mode = "tui" /\ Pending # {}
  /\ TakeReports
  /\ UNCHANGED <<mode, callVars, taskVars, dropped, printVars>>

-----------------------------------------------------------------------------
(***************************************************************************)
(* The end of a -p run.                                                    *)
(***************************************************************************)

\* Ctrl-C sets the flag (and stops the agents, whose tasks end as ever).
CtrlC ==
  /\ mode = "print" /\ phase # "over" /\ ~interrupted
  /\ interrupted' = TRUE
  /\ UNCHANGED <<mode, callVars, taskVars, outbox, endVars, phase, late>>

PrintFrame == UNCHANGED <<mode, callVars, task, line, rx, looking, stopped, interrupted, late>>

\* The process ends; what is in the outbox ends with it.
Exit ==
  /\ phase' = "over"
  /\ dropped' = dropped \cup Pending
  /\ outbox' = Cleared
  /\ UNCHANGED got

\* has_background, once the turns of the task are over.
Tracked == background # {}
TurnDone == mode = "print" /\ Quiet /\ \A x \in stopped : task[x] = "over"

EndTurn ==
  /\ TurnDone /\ phase = "turn"
  /\ IF Tracked THEN phase' = "waiting" /\ UNCHANGED <<outbox, endVars>> ELSE Exit
  /\ UNCHANGED background /\ PrintFrame

EndExtraTurn ==
  /\ TurnDone /\ phase = "extra"
  /\ phase' = "finishing"
  /\ UNCHANGED <<outbox, endVars, background>> /\ PrintFrame

\* wait_background returns: the handles were drained, and their tasks are over.
Drained == \A x \in background : task[x] = "over"

\* Unless the user interrupted, the reports start the one extra turn.
Drain ==
  /\ phase = "waiting" /\ Drained
  /\ background' = {}
  /\ IF ~interrupted /\ Pending # {}
     THEN TakeReports /\ phase' = "extra" /\ UNCHANGED dropped
     ELSE Exit
  /\ PrintFrame

\* What that turn started is awaited, and its reports are taken; but the text
\* is for the report.md of a --brief run, and such a run has no `agent` tool:
\* where there are reports they go with the process.
DrainAgain ==
  /\ phase = "finishing" /\ Drained
  /\ background' = {}
  /\ Exit
  /\ PrintFrame

-----------------------------------------------------------------------------
CallStep(c) ==
  \/ Return(c) \/ Record(c) \/ Cancel(c) \/ Closed(c)
  \/ \E x \in Parcels : Take(c, x) \/ Close(c, x)
TaskStep(x) == EndsForCall(x) \/ EndsForOutbox(x) \/ EndsInCall(x) \/ Look(x)
PrintStep == EndTurn \/ EndExtraTurn \/ Drain \/ DrainAgain

Next ==
  \/ \E c \in Calls : Start(c) \/ Esc(c) \/ CallStep(c)
  \/ \E x \in Parcels : Stop(x) \/ TaskStep(x)
  \/ Tick \/ CtrlC \/ PrintStep

Spec == Init /\ [][Next]_vars

\* Tasks that can be polled are polled, an agent ends by its timeout at the
\* latest, and the TUI ticks: its loop is taken not to be blocked for ever on
\* the full channel of Steering's "sending", where no report is taken.
Fairness ==
  /\ \A c \in Calls : WF_vars(CallStep(c))
  /\ \A x \in Parcels : WF_vars(TaskStep(x))
  /\ WF_vars(Tick) /\ WF_vars(PrintStep)

FairSpec == Spec /\ Fairness

-----------------------------------------------------------------------------
(***************************************************************************)
(* Properties.                                                             *)
(***************************************************************************)

One(truth) == IF truth THEN 1 ELSE 0

\* The copies of a result there are.
Copies(x) ==
  One(x \in rx /\ line[x] = "sent") + One(x \in held) + outbox[x] + got[x] + One(x \in dropped)

\* From the moment its task ends a result is in exactly one place: in the
\* channel, with the call, in the outbox, with the model, or let go of; never
\* in two, so the model never reads it twice, and never nowhere.
InOneHand == \A x \in Parcels : Copies(x) = One(task[x] = "over")

\* A result is let go of only by a call that had it when Esc came, or by a
\* -p run: one that was interrupted, one whose model had stopped the agent
\* itself and learned of its end from stop_agent, or one that dispatched the
\* agent in the extra turn, "never given a turn of its own" (print.rs:546-550).
\* Whatever the turns before that dispatched in the background is awaited by
\* the first wait, and so is in that extra turn's prompt.
LetGo(x) ==
  \/ \E c \in esc : x \in Of[c]
  \/ interrupted
  \/ x \in stopped
  \/ x \in late
LostOnlyWhenExcused == \A x \in dropped : LetGo(x)

\* Every result is accounted for, by one holder of the right kind.
ResultsAccounted == TypeOK /\ InOneHand

\* The calls and queues above keep ResultPromise: every result that is made
\* reaches the model once, or is let go of with one of those excuses.
Promise == INSTANCE ResultPromise WITH
  made <- {x \in Parcels : task[x] = "over"},
  deliveries <- got,
  abandoned <- dropped,
  excused <- {x \in Parcels : LetGo(x)}

PromiseKept == Promise!Spec
=============================================================================
