------------------------------ MODULE Steering ------------------------------
(***************************************************************************)
(* How what is said while a turn runs reaches the model: the TUI's event   *)
(* loop (mode/tui.rs), the turn task and its steer channel (run_turn of    *)
(* agent/loop_.rs), plugin messages (plugin_send.rs) and the reports of    *)
(* background agents.                                                      *)
(*                                                                         *)
(* The TUI is one task and handles one event at a time; the turn is a task *)
(* of its own; plugins send from any thread.  A text waits in one of six   *)
(* queues, each with an owner who alone may read it, and moves between     *)
(* them when a turn ends or is about to begin.                             *)
(***************************************************************************)
EXTENDS Naturals, Sequences, FiniteSets, SequencesExt

CONSTANTS
  Typed,      \* lines the user types
  Reports,    \* reports of background agents
  Plugins,
  From,       \* [messages of plugins -> Plugins]
  Cap,        \* capacity of the steer channel (32)
  Nobody

ASSUME SteeringAssumption ==
  /\ Cap \in Nat \ {0}
  /\ Nobody \notin Plugins
  /\ From \in [DOMAIN From -> Plugins]
  /\ Typed \cap Reports = {} /\ DOMAIN From \cap (Typed \cup Reports) = {}

Spoken == DOMAIN From
Msgs == Typed \cup Reports \cup Spoken
\* A text is one message, or the reports that were taken together.
Texts == Seq(Msgs)

VARIABLES
  sent,      \* SUBSET Msgs     said so far: typed, accepted, finished
  outbox,    \* Seq(Msgs)       AgentRegistry: reports not yet taken
  overflow,  \* Seq(Spoken)     plugin_send: no live channel
  echoes,    \* Seq(Spoken)     plugin_send: steered, and still to be shown
  waiting,   \* SUBSET Plugins  plugin_send::pending_plugins
  origin,    \* plugin_send::current_turn_origin
  nextOrigin,\* plugin_send::next_turn_origin
  sink,      \* BOOLEAN         the sink's sender is the current turn's
  tui,       \* the event loop: ready, or inside a handler
  streaming, \* BOOLEAN         app.status
  holding,   \* Texts           the line whose send waits for room
  slot,      \* Seq(Texts)      follow_up_slot
  reportSlot,\* Seq(Texts)      agent_report_slot
  shown,     \* SUBSET Msgs     echoed to the user
  turn,      \* where the turn task is
  started,   \* Texts           what the latest turn was started with
  chan,      \* Seq             the steer channel
  rx,        \* BOOLEAN         its receiver lives
  queue,     \* Seq(Texts)      run_turn's follow_up_queue
  pending,   \* Seq(Texts)      Agent::pending_follow_ups
  reached,   \* SUBSET Msgs     given to a turn: the model, or an input hook
             \*                 that refused it and said so
  lost,      \* SUBSET Msgs     dropped
  exposed    \* SUBSET Msgs     were in a channel that nobody would read again

pluginVars == <<overflow, echoes, waiting, origin, nextOrigin, sink>>
tuiVars == <<tui, streaming, holding, slot, reportSlot, shown>>
turnVars == <<turn, started, chan, rx, queue, pending, reached, lost, exposed>>
vars == <<sent, outbox, pluginVars, tuiVars, turnVars>>

Steer(m) == [kind |-> "steering", text |-> <<m>>]
FollowUp(t) == [kind |-> "follow_up", text |-> t]

MsgsOf(texts) == UNION {ToSet(texts[i]) : i \in DOMAIN texts}
TextsOf(steers) == [i \in DOMAIN steers |-> steers[i].text]

TypeOK ==
  /\ sent \subseteq Msgs
  /\ outbox \in Seq(Reports)
  /\ overflow \in Seq(Spoken) /\ echoes \in Seq(Spoken)
  /\ waiting \subseteq Plugins
  /\ {origin, nextOrigin} \subseteq Plugins \cup {Nobody}
  /\ sink \in BOOLEAN
  /\ tui \in {"ready", "starting", "installing", "sending"}
  /\ streaming \in BOOLEAN
  /\ {holding, started} \subseteq Texts
  /\ slot \in Seq(Texts) /\ reportSlot \in Seq(Texts)
  /\ queue \in Seq(Texts) /\ pending \in Seq(Texts)
  /\ turn \in {"none", "spawned", "top", "busy", "drained", "failed", "over"}
  /\ chan \in Seq([kind : {"steering", "follow_up"}, text : Texts]) /\ Len(chan) <= Cap
  /\ rx \in BOOLEAN
  /\ shown \cup reached \cup lost \cup exposed \subseteq sent
  /\ rx <=> turn \in {"spawned", "top", "busy", "drained", "failed"}
  /\ (turn # "none") <=> streaming
  /\ holding # <<>> <=> tui = "sending"

Init ==
  /\ sent = {} /\ outbox = <<>>
  /\ overflow = <<>> /\ echoes = <<>> /\ waiting = {}
  /\ origin = Nobody /\ nextOrigin = Nobody /\ sink = FALSE
  /\ tui = "ready" /\ streaming = FALSE /\ holding = <<>>
  /\ slot = <<>> /\ reportSlot = <<>> /\ shown = {}
  /\ turn = "none" /\ started = <<>> /\ chan = <<>> /\ rx = FALSE
  /\ queue = <<>> /\ pending = <<>>
  /\ reached = {} /\ lost = {} /\ exposed = {}

-----------------------------------------------------------------------------
(***************************************************************************)
(* Plausible mistakes in definitions below, each named for one of them;    *)
(* Spec uses none.                                                         *)
(***************************************************************************)
\* The end of a turn hands back what the pump had queued, and forgets what
\* is still in the channel.
QueueHandedBack == queue

\* A plugin's message waits for a turn someone else starts.
OverflowlessPick(queues) ==
  LET some == {i \in 1 .. 4 : queues[i] # <<>>}
  IN  IF some = {} THEN 0 ELSE CHOOSE i \in some : \A j \in some : i <= j

\* The echo comes before the send.
EagerEchoed(m, landed) == shown \cup {m}

\* A steered message leaves its plugin waiting.
WedgingHandedOver(ms) == {}

\* A human's turn keeps the origin of the one before.
StickyPromoted == IF nextOrigin = Nobody THEN origin ELSE nextOrigin

-----------------------------------------------------------------------------
(***************************************************************************)
(* The channel.                                                            *)
(***************************************************************************)
Room == rx /\ Len(chan) < Cap

\* Nobody will read it again: the turn has drained it, or will not.
Unread == turn \in {"drained", "failed"}

Into(steer) ==
  /\ Room
  /\ chan' = Append(chan, steer)
  /\ exposed' = IF Unread THEN exposed \cup ToSet(steer.text) ELSE exposed

-----------------------------------------------------------------------------
(***************************************************************************)
(* The turn task: run_turn, reduced to what it does with the channel.      *)
(***************************************************************************)
TurnFrame == UNCHANGED <<sent, outbox, pluginVars, tuiVars>>

\* The text of the turn is pushed into the context.
TurnStarts ==
  /\ turn = "spawned"
  /\ turn' = "top"
  /\ reached' = reached \cup ToSet(started)
  /\ UNCHANGED <<started, chan, rx, queue, pending, lost, exposed>> /\ TurnFrame

\* What try_recv yields until the channel is empty: steers go to the model,
\* follow-ups, in their order, to the queue.
SteersOf(steers) ==
  UNION {ToSet(steers[i].text) : i \in {j \in DOMAIN steers : steers[j].kind = "steering"}}

FollowUpsOf(steers) ==
  LET upTo[n \in 0 .. Len(steers)] ==
        IF n = 0 THEN <<>>
        ELSE IF steers[n].kind = "follow_up" THEN Append(upTo[n - 1], steers[n].text)
        ELSE upTo[n - 1]
  IN  upTo[Len(steers)]

\* The pump at the top of an iteration.
Pump ==
  /\ turn = "top"
  /\ turn' = "busy"
  /\ reached' = reached \cup SteersOf(chan)
  /\ queue' = queue \o FollowUpsOf(chan)
  /\ chan' = <<>>
  /\ UNCHANGED <<started, rx, pending, lost, exposed>> /\ TurnFrame

\* Tools were run: another iteration.
Iterate ==
  /\ turn = "busy"
  /\ turn' = "top"
  /\ UNCHANGED <<started, chan, rx, queue, pending, reached, lost, exposed>> /\ TurnFrame

\* drain_steer_to_follow_ups: what the agent is handed.
HandedBack == queue \o TextsOf(chan)

\* The ways out that drain: cancelled at the top or in the stream, or done.
EndTurn ==
  /\ turn \in {"top", "busy"}
  /\ turn' = "drained"
  /\ pending' = pending \o HandedBack
  /\ chan' = <<>>
  /\ queue' = <<>>
  /\ UNCHANGED <<started, rx, reached, lost, exposed>> /\ TurnFrame

\* The ways out that do not: a hook refuses the text, or the provider, the
\* stuck-call tripwire or a write fails, or a stream ends without Done.
FailTurn ==
  /\ turn \in {"spawned", "top", "busy"}
  /\ turn' = "failed"
  /\ reached' = reached \cup ToSet(started)
  /\ exposed' = exposed \cup MsgsOf(TextsOf(chan)) \cup MsgsOf(queue)
  /\ UNCHANGED <<started, chan, rx, queue, pending, lost>> /\ TurnFrame

\* run_turn returns: the receiver and what it holds are dropped, the agent
\* is back in its slot.
Return ==
  /\ turn \in {"drained", "failed"}
  /\ turn' = "over"
  /\ rx' = FALSE
  /\ lost' = lost \cup MsgsOf(TextsOf(chan)) \cup MsgsOf(queue)
  /\ chan' = <<>>
  /\ queue' = <<>>
  /\ UNCHANGED <<started, pending, reached, exposed>> /\ TurnFrame

-----------------------------------------------------------------------------
(***************************************************************************)
(* Plugins and background agents, from threads of their own.               *)
(***************************************************************************)
\* plugin_send::send, when it does not refuse: the guards, the route and the
\* echo under one lock.
PluginSend(m) ==
  LET p == From[m] IN
  /\ m \notin sent
  /\ origin # p
  /\ p \notin waiting
  /\ sent' = sent \cup {m}
  /\ waiting' = waiting \cup {p}
  /\ \/ /\ sink /\ Into(Steer(m))
        /\ echoes' = Append(echoes, m)
        /\ UNCHANGED overflow
     \/ /\ ~(sink /\ Room)
        /\ overflow' = Append(overflow, m)
        /\ UNCHANGED <<echoes, chan, exposed>>
  /\ UNCHANGED <<outbox, origin, nextOrigin, sink, tuiVars,
                 turn, started, rx, queue, pending, reached, lost>>

Report(m) ==
  /\ m \notin sent
  /\ sent' = sent \cup {m}
  /\ outbox' = Append(outbox, m)
  /\ UNCHANGED <<pluginVars, tuiVars, turnVars>>

-----------------------------------------------------------------------------
(***************************************************************************)
(* The TUI.                                                                *)
(***************************************************************************)
\* take_echoes, take_pending: rule 1 clears for the plugins of what was taken.
HandedOver(ms) == {From[m] : m \in ms}

\* KeyAction::StartTurn: echo the text, make a channel, spawn the task.
Start(text) ==
  /\ tui' = "starting"
  /\ streaming' = TRUE
  /\ turn' = "spawned"
  /\ started' = text
  /\ chan' = <<>>
  /\ rx' = TRUE
  /\ sink' = FALSE

\* plugin_send::reset_turn: the task is running by now.
Promoted == nextOrigin

ResetTurn ==
  /\ tui = "starting"
  /\ tui' = "installing"
  /\ origin' = Promoted
  /\ nextOrigin' = Nobody
  /\ UNCHANGED <<sent, outbox, overflow, echoes, waiting, sink,
                 streaming, holding, slot, reportSlot, shown, turnVars>>

\* plugin_send::install
Install ==
  /\ tui = "installing"
  /\ tui' = "ready"
  /\ sink' = TRUE
  /\ UNCHANGED <<sent, outbox, overflow, echoes, waiting, origin, nextOrigin,
                 streaming, holding, slot, reportSlot, shown, turnVars>>

\* steer_or_queue: shown as a steer once it has landed, as queued if it missed.
Echoed(m, landed) == IF landed THEN shown \cup {m} ELSE shown

Submit(m) ==
  /\ tui = "ready" /\ ~streaming
  /\ m \notin sent
  /\ sent' = sent \cup {m}
  /\ shown' = shown \cup {m}
  /\ Start(<<m>>)
  /\ UNCHANGED <<outbox, overflow, echoes, waiting, origin, nextOrigin,
                 holding, slot, reportSlot, queue, pending, reached, lost, exposed>>

TypeSteer(m) ==
  /\ tui = "ready" /\ streaming
  /\ m \notin sent
  /\ sent' = sent \cup {m}
  /\ \/ /\ Into(Steer(m))
        /\ shown' = Echoed(m, TRUE)
        /\ UNCHANGED <<tui, holding, slot>>
     \/ /\ rx /\ ~Room            \* the send waits, and the TUI with it
        /\ tui' = "sending"
        /\ holding' = <<m>>
        /\ shown' = Echoed(m, FALSE)
        /\ UNCHANGED <<slot, chan, exposed>>
     \/ /\ ~rx
        /\ slot' = Append(slot, <<m>>)
        /\ shown' = Echoed(m, TRUE)
        /\ UNCHANGED <<tui, holding, chan, exposed>>
  /\ UNCHANGED <<outbox, pluginVars, streaming, reportSlot,
                 turn, started, rx, queue, pending, reached, lost>>

SendReturns ==
  /\ tui = "sending"
  /\ \/ Into(Steer(Head(holding))) /\ UNCHANGED slot
     \/ ~rx /\ slot' = Append(slot, holding) /\ UNCHANGED <<chan, exposed>>
  /\ shown' = Echoed(Head(holding), TRUE)
  /\ tui' = "ready"
  /\ holding' = <<>>
  /\ UNCHANGED <<sent, outbox, pluginVars, streaming, reportSlot,
                 turn, started, rx, queue, pending, reached, lost>>

\* pick_follow_up: the first of the sources that has something.
Pick(queues) ==
  LET some == {i \in DOMAIN queues : queues[i] # <<>>}
  IN  IF some = {} THEN 0 ELSE CHOOSE i \in some : \A j \in some : i <= j

OutboxAfter(took) == IF took THEN <<>> ELSE outbox

\* It starts a turn.  `agents` is what Agent::pending_follow_ups offers,
\* `handed` the steered messages shown in the same tick.
StartPicked(agents, handed) ==
  LET queues == <<agents, slot, reportSlot, outbox, overflow>>
      n == Pick(queues)
      text == IF n = 4 THEN outbox ELSE IF n = 5 THEN <<Head(overflow)>> ELSE Head(queues[n])
      Rest(q, i) == IF n = i THEN Tail(q) ELSE q
      taken == IF n = 5 THEN ToSet(text) ELSE {}
  IN
  /\ n # 0
  /\ Start(text)
  /\ pending' = Rest(pending, 1)
  /\ slot' = Rest(slot, 2)
  /\ reportSlot' = Rest(reportSlot, 3)
  /\ outbox' = OutboxAfter(n = 4)
  /\ overflow' = Rest(overflow, 5)
  /\ nextOrigin' = IF n = 5 THEN From[Head(overflow)] ELSE nextOrigin
  /\ waiting' = waiting \ HandedOver(handed \cup taken)
  /\ shown' = shown \cup handed \cup ToSet(text)

\* The 120 ms tick with no turn: the echoes owed, then a turn if anything is
\* left to start one with.
TickIdle ==
  /\ tui = "ready" /\ ~streaming
  /\ echoes' = <<>>
  /\ \/ StartPicked(<<>>, ToSet(echoes))
     \/ /\ Pick(<<<<>>, slot, reportSlot, outbox, overflow>>) = 0
        /\ echoes # <<>>
        /\ waiting' = waiting \ HandedOver(ToSet(echoes))
        /\ shown' = shown \cup ToSet(echoes)
        /\ UNCHANGED <<outbox, overflow, nextOrigin, sink, tui, streaming, slot,
                       reportSlot, turn, started, chan, rx, pending>>
  /\ UNCHANGED <<sent, origin, holding, queue, reached, lost, exposed>>

\* The tick of a turn: the echoes owed, then the reports are offered to the
\* turn, or kept at the front of their slot.
TickStreaming ==
  /\ tui = "ready" /\ streaming
  /\ echoes # <<>> \/ outbox # <<>>
  /\ echoes' = <<>>
  /\ waiting' = waiting \ HandedOver(ToSet(echoes))
  /\ shown' = shown \cup ToSet(echoes)
  /\ \/ outbox = <<>> /\ UNCHANGED <<outbox, reportSlot, chan, exposed>>
     \/ /\ outbox # <<>> /\ Into(FollowUp(outbox))
        /\ outbox' = OutboxAfter(TRUE)
        /\ UNCHANGED reportSlot
     \/ /\ outbox # <<>> /\ ~Room
        /\ outbox' = OutboxAfter(TRUE)
        /\ reportSlot' = <<outbox>> \o reportSlot
        /\ UNCHANGED <<chan, exposed>>
  /\ UNCHANGED <<sent, overflow, origin, nextOrigin, sink, tui, streaming, holding,
                 slot, turn, started, rx, queue, pending, reached, lost>>

\* The turn's events have ended: idle, or at once the next turn.
Done ==
  /\ tui = "ready" /\ turn = "over"
  /\ \/ StartPicked(pending, {})
     \/ /\ Pick(<<pending, slot, reportSlot, outbox, overflow>>) = 0
        /\ streaming' = FALSE
        /\ turn' = "none"
        /\ UNCHANGED <<outbox, overflow, waiting, nextOrigin, sink, tui, slot,
                       reportSlot, shown, started, chan, rx, pending>>
  /\ UNCHANGED <<sent, echoes, origin, holding, queue, reached, lost, exposed>>

-----------------------------------------------------------------------------
TuiStep == ResetTurn \/ Install \/ SendReturns
TurnStep == TurnStarts \/ Pump \/ Iterate \/ EndTurn \/ FailTurn \/ Return

Next ==
  \/ \E m \in Typed : Submit(m) \/ TypeSteer(m)
  \/ \E m \in Spoken : PluginSend(m)
  \/ \E m \in Reports : Report(m)
  \/ TickIdle \/ TickStreaming \/ Done
  \/ TuiStep \/ TurnStep

Spec == Init /\ [][Next]_vars

\* The TUI handles what is ready, the tick among it.  A turn goes on and ends
\* (tools return, max_turns bounds its iterations), but it hands its events
\* to the TUI, so only while the TUI is not waiting itself.
Fairness ==
  /\ WF_vars(TuiStep) /\ WF_vars(TickIdle) /\ WF_vars(TickStreaming) /\ WF_vars(Done)
  /\ WF_vars(TurnStep /\ tui # "sending")
  /\ WF_vars(EndTurn /\ tui # "sending")

FairSpec == Spec /\ Fairness

-----------------------------------------------------------------------------
(***************************************************************************)
(* Properties.                                                             *)
(***************************************************************************)
Starting == IF turn = "spawned" THEN ToSet(started) ELSE {}

\* Where m is; 11 is lost.
Places(m) ==
  {n \in 1 .. 11 :
    m \in <<ToSet(outbox), ToSet(overflow), ToSet(holding), MsgsOf(slot), MsgsOf(reportSlot),
            MsgsOf(TextsOf(chan)), MsgsOf(queue), MsgsOf(pending), Starting, reached, lost>>[n]}

\* Nothing typed, accepted from a plugin or reported by an agent is ever in two
\* places: no queue is left holding what the next one was given.
InOnePlace == \A m \in sent : Cardinality(Places(m)) <= 1

\* A text is gone only if it was in a channel, or the queue fed from it, that
\* its turn left unread: by a way out that does not drain, or after the drain.
LostOnlyUnread == \A m \in sent \ exposed : Places(m) \notin SUBSET {11}

\* The TUI reads Agent::pending_follow_ups only when a turn ends; between
\* turns it is empty, so nothing waits there unseen.
IdleOwesNothing == ~streaming => pending = <<>>

\* A plugin has a message on the way exactly while one of its messages waits
\* in the overflow or for its echo: it is never refused for a message that
\* has been handed over, and never has two under way.
RuleOneIsExact ==
  /\ waiting = {From[m] : m \in ToSet(overflow) \cup ToSet(echoes)}
  /\ \A m, n \in ToSet(overflow) \cup ToSet(echoes) : From[m] = From[n] => m = n

\* No send without an echo and no echo without a send: what a turn may read
\* is shown or its echo is owed; what has not landed is neither.
EchoMeansSent ==
  /\ \A m \in MsgsOf(TextsOf(chan)) \cup reached :
       m \in Reports \cup shown \cup ToSet(echoes)
  /\ (ToSet(overflow) \cup ToSet(holding)) \cap (shown \cup ToSet(echoes)) = {}

\* Once a turn has its origin, a plugin is held to "not during a turn its own
\* message started" only in a turn one of its messages did start.
OriginStartedTurn ==
  tui \in {"installing", "ready", "sending"} /\ streaming /\ origin # Nobody =>
    \E m \in ToSet(started) \cap Spoken : From[m] = origin

\* Everything said gets to a turn, or is lost as above, unless the TUI is stuck
\* handing a line to a full channel.
EveryTextArrives ==
  \A m \in Msgs : m \in sent ~> (m \in reached \cup lost \/ [](tui = "sending"))

\* Every text is accounted for: in one place, and shown if a turn may read it.
TextsAccounted == TypeOK /\ InOnePlace /\ EchoMeansSent
=============================================================================
