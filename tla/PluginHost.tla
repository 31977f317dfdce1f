----------------------------- MODULE PluginHost -----------------------------
(***************************************************************************)
(* WASM plugins and /reload.  An instance of a plugin (ComponentBridge,    *)
(* wasm/loader.rs) sits behind a mutex that a call holds for as long as    *)
(* the guest runs, host calls included; wasm/generation.rs says which      *)
(* instance is the live one.  Three kinds of calls enter it, each on a     *)
(* blocking thread: a tool call of the turn, a slash command of the TUI,   *)
(* an event, which does not wait for the mutex.  A guest may call a tool   *)
(* of the host (plugin_tools.rs), and the events of that tool call go to   *)
(* the plugins in turn, the caller's own included.                         *)
(*                                                                         *)
(* /reload (handle_reload, reload_extensions) loads what config.toml now   *)
(* says, then swaps the tables; no turn is on, but guests may still be     *)
(* running: Esc ends a turn, never a guest.  Nothing else waits for them.  *)
(*                                                                         *)
(* The guests are external.  What they do while they load, the store, the  *)
(* loop guard of send_user_message (Steering) and notices are left out;    *)
(* the commands and the subscriptions of a plugin are one row.             *)
(***************************************************************************)
EXTENDS Naturals, FiniteSets

CONSTANTS
  Plugins,     \* their names, which are distinct file stems
  Toolless,    \* those that offer commands and events, but no tool
  ToolCalls,   \* calls of plugin tools, by turns
  Commands,    \* slash commands typed
  Events,      \* deliveries that can be on at once
  MaxTurns,    \* bound: turns started
  MaxReloads,  \* bound: /reload typed
  Configs      \* bound: what the [[extensions]] of a config.toml may come to

ASSUME HostAssumption ==
  /\ Plugins # {} /\ Toolless \subseteq Plugins
  /\ ToolCalls \cap Commands = {} /\ (ToolCalls \cup Commands) \cap Events = {}
  /\ MaxTurns \in Nat /\ MaxReloads \in Nat

Grants == {"tools", "context"}   \* allow_tools, allow_context
Entry == [file : {"none", "bad", "good"}, grants : SUBSET Grants]
ASSUME ConfigAssumption == Configs \subseteq [Plugins -> Entry]

Unread == [p \in Plugins |-> [file |-> "none", grants |-> {}]]

Asked == ToolCalls \cup Commands   \* somebody wants their result
Calls == Asked \cup Events
Turn == "turn"
Nobody == "nobody"
Generations == 1 .. MaxReloads + 1
Instances == Plugins \X Generations
NoInstance == CHOOSE i \in Instances : TRUE   \* of a call that is not on

VARIABLES
  \* --- generation.rs, and the bridges
  active,     \* [Plugins -> Nat]   ACTIVE; 0 is an id that no bridge has
  loaded,     \* [Plugins -> Nat]   the latest instance that was loaded
  holds,      \* [Instances -> SUBSET Grants]  the gates in its PluginState
  \* --- the agent's tables, and CONTRIBUTIONS
  tools,      \* [Plugins -> Nat]   the instance behind its registered tools
  rows,       \* [Plugins -> Nat]   ... its commands and subscriptions
  context,    \* SUBSET Plugins     with text in the system prompt
  \* --- the TUI
  turn,       \* BOOLEAN            the agent is out of its slot
  turns,
  heeded,     \* SUBSET ToolCalls   the turn awaits the result
  config,     \* [Plugins -> Entry] config.toml, as this reload read it
  todo,       \* SUBSET Plugins     still to be loaded by the reload
  reloading,  \* BOOLEAN
  reloads,
  \* --- the calls
  at,         \* [Calls -> ...]
  inst,       \* [Calls -> Instances] the bridge it was handed
  parent,     \* [Events -> ...]    who awaits its delivery
  deliver,    \* [Calls and the turn -> SUBSET Instances] subscribers still to be told
  hosted,     \* SUBSET Calls       have made their tool call (bound: one each)
  result,     \* [Asked -> {"none", "ok", "error"}]
  \* --- history
  late,       \* SUBSET Plugins     whose contribution a replaced instance set
  overtaken   \* SUBSET Commands    replaced after they returned

bridgeVars == <<active, loaded, holds>>
tableVars == <<tools, rows>>
turnVars == <<turn, turns, heeded>>
reloadVars == <<config, todo, reloading, reloads>>
callVars == <<at, inst, parent, deliver, hosted, result>>
vars == <<bridgeVars, tableVars, context, turnVars, reloadVars, callVars, late, overtaken>>

Ids == Generations \cup {0}
Places == {"idle", "begun", "locking", "inside", "hosting", "returned", "over"}

TypeOK ==
  /\ active \in [Plugins -> Ids] /\ loaded \in [Plugins -> Generations]
  /\ tools \in [Plugins -> Ids] /\ rows \in [Plugins -> Ids]
  /\ holds \in [Instances -> SUBSET Grants]
  /\ context \subseteq Plugins /\ late \subseteq Plugins /\ todo \subseteq Plugins
  /\ turn \in BOOLEAN /\ reloading \in BOOLEAN
  /\ turns \in 0 .. MaxTurns /\ reloads \in 0 .. MaxReloads
  /\ config \in [Plugins -> Entry]
  /\ at \in [Calls -> Places] /\ inst \in [Calls -> Instances]
  /\ parent \in [Events -> Calls \cup {Turn, Nobody}]
  /\ deliver \in [Calls \cup {Turn} -> SUBSET Instances]
  /\ heeded \subseteq ToolCalls /\ hosted \subseteq Calls
  /\ result \in [Asked -> {"none", "ok", "error"}] /\ overtaken \subseteq Commands

\* All plugins were loaded at startup, with every grant.
Init ==
  /\ active = [p \in Plugins |-> 1] /\ loaded = active /\ rows = active
  /\ tools = [p \in Plugins |-> IF p \in Toolless THEN 0 ELSE 1]
  /\ holds = [i \in Instances |-> IF i[2] = 1 THEN Grants ELSE {}]
  /\ context = {} /\ turn = FALSE /\ turns = 0 /\ heeded = {}
  /\ config = Unread /\ todo = {} /\ reloading = FALSE /\ reloads = 0
  /\ at = [c \in Calls |-> "idle"] /\ inst = [c \in Calls |-> NoInstance]
  /\ parent = [e \in Events |-> Nobody] /\ deliver = [c \in Calls \cup {Turn} |-> {}]
  /\ hosted = {} /\ result = [c \in Asked |-> "none"] /\ late = {} /\ overtaken = {}

\* is_live.
Live(i) == active[i[1]] = i[2]

\* The mutex of an instance is held.
Busy(i) == \E c \in Calls : inst[c] = i /\ at[c] \in {"inside", "hosting"}

\* What the agent's tables, and the dispatch that was installed from them, reach.
Subscribers == {<<p, rows[p]>> : p \in {q \in Plugins : rows[q] # 0}}

--------------------------------------------------------------------------------
(* Plausible mistakes; each breaks a property of the runs. *)

\* handle_event takes the mutex with lock, as the calls do.
Blocking == TRUE

\* Only the contributions of the plugins that are gone are dropped.
VanishedOnly(good, gone) == gone

--------------------------------------------------------------------------------
(* A call enters an instance, and leaves it. *)

Begin(c, i) == at' = [at EXCEPT ![c] = "begun"] /\ inst' = [inst EXCEPT ![c] = i]

\* What becomes of a call that has its answer: nobody awaits an event's.
After(c) == IF c \in Events THEN "idle" ELSE "returned"

Answer(c, r) ==
  /\ at' = [at EXCEPT ![c] = After(c)]
  /\ result' = IF c \in Asked THEN [result EXCEPT ![c] = r] ELSE result
  /\ parent' = IF c \in Events THEN [parent EXCEPT ![c] = Nobody] ELSE parent
  /\ inst' = IF c \in Events THEN [inst EXCEPT ![c] = NoInstance] ELSE inst
  /\ hosted' = IF c \in Events THEN hosted \ {c} ELSE hosted

\* WasmTool::execute, on the blocking pool.
CallTool(c, p) ==
  /\ turn /\ at[c] = "idle" /\ tools[p] # 0
  /\ Begin(c, <<p, tools[p]>>) /\ heeded' = heeded \cup {c}
  /\ UNCHANGED <<bridgeVars, tableVars, context, turn, turns, reloadVars,
                 parent, deliver, hosted, result, late, overtaken>>

\* KeyAction::RunPluginCommand: one command at a time.
RunCommand(c, p) ==
  /\ ~reloading /\ at[c] = "idle" /\ rows[p] # 0
  /\ \A d \in Commands : at[d] \in {"idle", "over"}
  /\ Begin(c, <<p, rows[p]>>)
  /\ UNCHANGED <<bridgeVars, tableVars, context, turnVars, reloadVars,
                 parent, deliver, hosted, result, late, overtaken>>

\* handle_event takes the mutex with try_lock.
EventsWait == FALSE

\* deliver_with, to one subscriber after the other, each of them awaited, and
\* handle_event up to the guest: a replaced instance, and a busy one, are passed over.
Deliver(c) ==
  LET i == CHOOSE x \in deliver[c] : TRUE
      e == CHOOSE x \in Events : at[x] = "idle"
      enters == Live(i) /\ (Busy(i) => EventsWait)
  IN /\ deliver[c] # {} /\ \A x \in Events : parent[x] # c
     /\ \E x \in Events : at[x] = "idle"
     /\ deliver' = [deliver EXCEPT ![c] = @ \ {i}]
     /\ IF enters
        THEN /\ at' = [at EXCEPT ![e] = IF Busy(i) THEN "locking" ELSE "inside"]
             /\ inst' = [inst EXCEPT ![e] = i] /\ parent' = [parent EXCEPT ![e] = c]
        ELSE UNCHANGED <<at, inst, parent>>
     /\ UNCHANGED <<bridgeVars, tableVars, context, turnVars, reloadVars,
                    hosted, result, late, overtaken>>

\* staleness: before the mutex, so that a refusal waits for nobody.
PassCheck(c) ==
  /\ at[c] = "begun" /\ Live(inst[c]) /\ at' = [at EXCEPT ![c] = "locking"]
  /\ UNCHANGED <<bridgeVars, tableVars, context, turnVars, reloadVars, inst,
                 parent, deliver, hosted, result, late, overtaken>>

Refuse(c) ==
  /\ at[c] = "begun" /\ ~Live(inst[c]) /\ Answer(c, "error")
  /\ UNCHANGED <<bridgeVars, tableVars, context, turnVars, reloadVars,
                 deliver, late, overtaken>>

Enter(c) ==
  /\ at[c] = "locking" /\ ~Busy(inst[c]) /\ at' = [at EXCEPT ![c] = "inside"]
  /\ UNCHANGED <<bridgeVars, tableVars, context, turnVars, reloadVars, inst,
                 parent, deliver, hosted, result, late, overtaken>>

\* call_tool_gated: the built-in tool itself is external.
HostCall(c) ==
  /\ at[c] = "inside" /\ "tools" \in holds[inst[c]] /\ c \notin hosted
  /\ Cardinality({d \in Calls : at[d] = "hosting"}) < Cardinality(Events) - 1   \* bound
  /\ at' = [at EXCEPT ![c] = "hosting"] /\ deliver' = [deliver EXCEPT ![c] = Subscribers]
  /\ hosted' = hosted \cup {c}
  /\ UNCHANGED <<bridgeVars, tableVars, context, turnVars, reloadVars,
                 inst, parent, result, late, overtaken>>

HostDone(c) ==
  /\ at[c] = "hosting" /\ deliver[c] = {} /\ \A e \in Events : parent[e] # c
  /\ at' = [at EXCEPT ![c] = "inside"]
  /\ UNCHANGED <<bridgeVars, tableVars, context, turnVars, reloadVars, inst,
                 parent, deliver, hosted, result, late, overtaken>>

\* set_context_gated: it asks for the grant, not whether the instance is live.
\* Clearing the text, which makes way for nobody, is left out.
SetContext(c) ==
  LET p == inst[c][1] IN
  /\ at[c] = "inside" /\ "context" \in holds[inst[c]]
  /\ context' = context \cup {p}
  /\ late' = IF Live(inst[c]) THEN late \ {p} ELSE late \cup {p}
  /\ UNCHANGED <<bridgeVars, tableVars, turnVars, reloadVars, callVars, overtaken>>

\* staleness_after_running.
Verdict(i) == IF Live(i) THEN "ok" ELSE "error"

Return(c) ==
  /\ at[c] = "inside" /\ Answer(c, Verdict(inst[c]))
  /\ UNCHANGED <<bridgeVars, tableVars, context, turnVars, reloadVars,
                 deliver, late, overtaken>>

\* Also the end of a guest that hangs.  reset keeps every gate; when it fails, the
\* instance traps every later call at once, which may happen here anyway.
Trap(c) ==
  /\ at[c] = "inside" /\ Answer(c, "error")
  /\ UNCHANGED <<bridgeVars, tableVars, context, turnVars, reloadVars,
                 deliver, late, overtaken>>

\* The turn takes the result, or the TUI's ticker does.
Heeded(c) == IF c \in ToolCalls THEN c \in heeded ELSE ~reloading

HandOver(c) ==
  /\ at[c] = "returned" /\ Heeded(c) /\ at' = [at EXCEPT ![c] = "over"]
  /\ inst' = [inst EXCEPT ![c] = NoInstance]
  /\ result' = [result EXCEPT ![c] = "none"] /\ hosted' = hosted \ {c}
  /\ overtaken' = overtaken \ {c}
  /\ UNCHANGED <<bridgeVars, tableVars, context, turnVars, reloadVars,
                 parent, deliver, late>>

--------------------------------------------------------------------------------
(* The turn, and /reload. *)

TurnStarts ==
  /\ ~turn /\ ~reloading /\ turns < MaxTurns
  /\ turn' = TRUE /\ turns' = turns + 1
  /\ deliver' = [deliver EXCEPT ![Turn] = Subscribers]
  /\ UNCHANGED <<bridgeVars, tableVars, context, heeded, reloadVars, at, inst,
                 parent, hosted, result, late, overtaken>>

\* Esc: the futures are dropped, the guests go on.
TurnEnds ==
  /\ turn /\ turn' = FALSE /\ heeded' = {}
  /\ deliver' = [deliver EXCEPT ![Turn] = {}]
  /\ parent' = [e \in Events |-> IF parent[e] = Turn THEN Nobody ELSE parent[e]]
  /\ UNCHANGED <<bridgeVars, tableVars, context, turns, reloadVars, at, inst,
                 hosted, result, late, overtaken>>

\* handle_reload finds the agent in its slot, and reads config.toml.
BeginReload ==
  /\ ~turn /\ ~reloading /\ reloads < MaxReloads
  /\ reloading' = TRUE /\ reloads' = reloads + 1 /\ todo' = Plugins
  /\ config' \in Configs
  /\ UNCHANGED <<bridgeVars, tableVars, context, turnVars, callVars, late, overtaken>>

Overtaken(S) == {c \in Commands : at[c] = "returned" /\ inst[c] \in S}

\* PluginEngine::load; activate comes last, so that a failure changes nothing.
Load(p) ==
  LET good == config[p].file = "good"
      i == <<p, loaded[p] + 1>>
  IN /\ p \in todo /\ todo' = todo \ {p}
     /\ active' = IF good THEN [active EXCEPT ![p] = i[2]] ELSE active
     /\ loaded' = IF good THEN [loaded EXCEPT ![p] = i[2]] ELSE loaded
     /\ holds' = IF good THEN [holds EXCEPT ![i] = config[p].grants] ELSE holds
     /\ overtaken' = overtaken \cup (IF good THEN Overtaken({<<p, active[p]>>}) ELSE {})
     /\ UNCHANGED <<tableVars, context, turnVars, config, reloading, reloads,
                    callVars, late>>

\* Whose contribution goes: nothing live accounts for it.
Disowned(good, gone) == gone \cup {p \in good : "context" \notin config[p].grants}

\* The rest of reload_extensions; plugin_names asks the tools.
Swap ==
  LET Is(f) == {p \in Plugins : config[p].file = f}
      good == Is("good")
      retired == {p \in Is("none") : tools[p] # 0}
      dropped == Disowned(good, retired)
  IN /\ reloading /\ todo = {} /\ reloading' = FALSE /\ config' = Unread
     /\ active' = [p \in Plugins |-> IF p \in retired THEN 0 ELSE active[p]]
     /\ overtaken' = overtaken \cup Overtaken({<<p, active[p]>> : p \in retired})
     /\ tools' = [p \in Plugins |-> IF p \in Is("bad") \/ p \in Toolless THEN tools[p]
                                    ELSE IF p \in good THEN loaded[p] ELSE 0]
     /\ rows' = [p \in Plugins |-> IF p \in Is("bad") THEN rows[p]
                                   ELSE IF p \in good THEN loaded[p] ELSE 0]
     /\ context' = context \ dropped /\ late' = late \ dropped
     /\ UNCHANGED <<loaded, holds, turnVars, todo, reloads, callVars>>

--------------------------------------------------------------------------------
OwnStep ==
  \/ \E c \in Calls \cup {Turn} : Deliver(c)
  \/ \E c \in Asked : PassCheck(c) \/ Refuse(c)
  \/ \E c \in Calls : Enter(c) \/ HostDone(c) \/ Return(c) \/ Trap(c)

Next ==
  \/ OwnStep
  \/ \E c \in ToolCalls, p \in Plugins : CallTool(c, p)
  \/ \E c \in Commands, p \in Plugins : RunCommand(c, p)
  \/ \E c \in Calls : HostCall(c) \/ SetContext(c)
  \/ \E c \in Asked : HandOver(c)
  \/ TurnStarts \/ TurnEnds \/ BeginReload \/ Swap
  \/ \E p \in Plugins : Load(p)

\* A blocking thread runs, and the epoch budget ends every guest call.  What
\* remains is finite: the constants bound the turns, calls and reloads.
Fairness == WF_vars(OwnStep)
Spec == Init /\ [][Next]_vars /\ Fairness

--------------------------------------------------------------------------------
(* Properties. *)

\* Once a reload is over, every tool, command and subscription that is
\* registered reaches the live instance, and a plugin is unreachable only when
\* it is not loaded: rows of a failed plugin were kept with its instance.  A
\* plugin that is gone and had no tool keeps its live instance (README).
TablesAreLive ==
  reloading \/ \A p \in Plugins :
     /\ rows[p] # 0 => rows[p] = active[p]
     /\ tools[p] # 0 => tools[p] = active[p]
     /\ active[p] # 0 /\ p \notin Toolless => rows[p] = active[p] /\ tools[p] = active[p]

\* Once a reload is over, text in the system prompt has an owner: a registered
\* instance that holds allow_context.  Known exceptions (README): a replaced
\* guest that still ran set it afterwards; the plugin is gone and had no tool.
ContributionOwned ==
  reloading \/ \A p \in context :
     \/ rows[p] # 0 /\ "context" \in holds[<<p, rows[p]>>]
     \/ p \in late \/ p \in Toolless

\* The tables, the live instances and the prompt agree after every reload,
\* whatever was still running in a guest when it was typed.
HostSound == TypeOK /\ TablesAreLive /\ ContributionOwned

\* No result of a replaced instance is handed over as a success, to a turn or
\* to the user, whenever /reload was typed; known exception: a command that had
\* returned, which the next tick prints (README).
NoStaleSuccess ==
  [][\A c \in Asked : at[c] = "returned" /\ at'[c] = "over" /\ result[c] = "ok"
                      => Live(inst[c]) \/ c \in overtaken]_vars

\* Every call of a guest ends, whoever waits for whose mutex: a guest whose tool
\* call is announced to the plugins, itself among them, and a call that waits
\* for a guest that waits so.
EveryCallEnds ==
  LET SomeOn == \E c \in Calls : at[c] \notin {"idle", "returned", "over"}
  IN SomeOn ~> ~SomeOn

\* A call ends, and never with a result of code that was replaced.
CallsAnswered == NoStaleSuccess /\ EveryCallEnds
================================================================================
