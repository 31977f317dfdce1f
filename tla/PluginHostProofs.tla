-------------------------- MODULE PluginHostProofs --------------------------
(***************************************************************************)
(* HostSound for any plugins, calls and configurations: whatever guests do *)
(* and whenever /reload comes, the tables, the live instances and the      *)
(* system prompt agree once it is over.                                    *)
(*                                                                         *)
(* While a reload is on they do not, so the invariant says plugin by       *)
(* plugin where it is: one that has been loaded anew (Fresh) waits for its *)
(* tables, and its instance holds what the configuration grants; any other *)
(* is as it was (Settled, Owned).                                          *)
(***************************************************************************)
EXTENDS PluginHost, TLAPS

Settled(p) ==
  /\ rows[p] # 0 => rows[p] = active[p]
  /\ tools[p] # 0 => tools[p] = active[p]
  /\ active[p] # 0 /\ p \notin Toolless => rows[p] = active[p] /\ tools[p] = active[p]

Owned(p) ==
  p \in context => \/ rows[p] # 0 /\ "context" \in holds[<<p, rows[p]>>]
                   \/ p \in late \/ p \in Toolless

Replaced(p) == reloading /\ p \notin todo /\ config[p].file = "good"

Fresh(p) == active[p] = loaded[p] /\ holds[<<p, loaded[p]>>] = config[p].grants

TableInv == \A p \in Plugins : IF Replaced(p) THEN Fresh(p) ELSE Settled(p) /\ Owned(p)

ToollessInv == \A p \in Toolless : tools[p] = 0

\* There are enough generations, and only a reload has plugins to load.
LoadInv ==
  /\ todo # {} => reloading
  /\ \A p \in Plugins : loaded[p] <= reloads + 1 /\ (p \in todo => loaded[p] <= reloads)

IInv == TypeOK /\ TableInv /\ ToollessInv /\ LoadInv

USE HostAssumption, ConfigAssumption

--------------------------------------------------------------------------------
LEMMA SubscribersType == ASSUME TypeOK PROVE Subscribers \subseteq Instances
BY DEF TypeOK, Subscribers, Instances, Ids

LEMMA NoInstanceType == NoInstance \in Instances
<1>1. 1 \in Generations BY DEF Generations
<1>2. PICK p \in Plugins : TRUE OBVIOUS
<1>3. <<p, 1>> \in Instances BY <1>1 DEF Instances
<1> QED BY <1>3 DEF NoInstance

LEMMA UnreadType == Unread \in [Plugins -> Entry]
BY DEF Unread, Entry

\* What Answer leaves.
LEMMA AnswerType ==
  ASSUME TypeOK, NEW c \in Calls, NEW r \in {"none", "ok", "error"}, Answer(c, r)
  PROVE  /\ at' \in [Calls -> Places] /\ inst' \in [Calls -> Instances]
         /\ parent' \in [Events -> Calls \cup {Turn, Nobody}]
         /\ hosted' \subseteq Calls /\ result' \in [Asked -> {"none", "ok", "error"}]
<1>1. After(c) \in Places BY DEF After, Places
<1>2. at' \in [Calls -> Places] BY <1>1 DEF Answer, TypeOK
<1>3. inst' \in [Calls -> Instances] BY NoInstanceType DEF Answer, TypeOK
<1>4. parent' \in [Events -> Calls \cup {Turn, Nobody}] BY DEF Answer, TypeOK
<1>5. hosted' \subseteq Calls BY DEF Answer, TypeOK
<1>6. result' \in [Asked -> {"none", "ok", "error"}] BY DEF Answer, TypeOK
<1> QED BY <1>2, <1>3, <1>4, <1>5, <1>6

\* What most actions leave alone: the tables, the reload and the prompt.
Still == UNCHANGED <<bridgeVars, tableVars, context, late, reloadVars>>

LEMMA StillKeeps ==
  ASSUME IInv, Still
  PROVE  TableInv' /\ ToollessInv' /\ LoadInv'
<1>1. TableInv'
  BY DEF IInv, TableInv, Replaced, Fresh, Settled, Owned, Still, bridgeVars, tableVars, reloadVars
<1>2. ToollessInv' BY DEF IInv, ToollessInv, Still, tableVars
<1>3. LoadInv' BY DEF IInv, LoadInv, Still, bridgeVars, reloadVars
<1> QED BY <1>1, <1>2, <1>3

--------------------------------------------------------------------------------
(* The steps of a call. *)

CallStep ==
  \/ \E c \in ToolCalls, p \in Plugins : CallTool(c, p)
  \/ \E c \in Commands, p \in Plugins : RunCommand(c, p)
  \/ \E c \in Calls \cup {Turn} : Deliver(c)
  \/ \E c \in Asked : PassCheck(c) \/ Refuse(c) \/ HandOver(c)
  \/ \E c \in Calls : Enter(c) \/ HostCall(c) \/ HostDone(c) \/ Return(c) \/ Trap(c)

LEMMA CallStepStill == CallStep => Still
BY DEF CallStep, Still, CallTool, RunCommand, Deliver, PassCheck, Refuse, HandOver, Enter,
       HostCall, HostDone, Return, Trap, turnVars

LEMMA DeliverType ==
  ASSUME TypeOK, NEW c \in Calls \cup {Turn}, Deliver(c) PROVE TypeOK'
<1> DEFINE i == CHOOSE x \in deliver[c] : TRUE
           e == CHOOSE x \in Events : at[x] = "idle"
<1>1. i \in Instances BY DEF Deliver, TypeOK
<1>2. e \in Events BY DEF Deliver
<1>3. e \in Calls BY <1>2 DEF Calls
<1> HIDE DEF i, e
<1>4. deliver' = [deliver EXCEPT ![c] = @ \ {i}] BY DEF Deliver, i
<1>5. deliver' \in [Calls \cup {Turn} -> SUBSET Instances] BY <1>4 DEF TypeOK
<1>6. \/ UNCHANGED <<at, inst, parent>>
      \/ /\ \/ at' = [at EXCEPT ![e] = "locking"]
            \/ at' = [at EXCEPT ![e] = "inside"]
         /\ inst' = [inst EXCEPT ![e] = i] /\ parent' = [parent EXCEPT ![e] = c]
  BY DEF Deliver, i, e
<1>7. at' \in [Calls -> Places] BY <1>3, <1>6 DEF TypeOK, Places
<1>8. inst' \in [Calls -> Instances] BY <1>1, <1>3, <1>6 DEF TypeOK
<1>9. parent' \in [Events -> Calls \cup {Turn, Nobody}] BY <1>2, <1>6 DEF TypeOK
<1> QED BY <1>5, <1>7, <1>8, <1>9
        DEF Deliver, TypeOK, bridgeVars, tableVars, turnVars, reloadVars

LEMMA CallStepType == ASSUME TypeOK, CallStep PROVE TypeOK'
<1> USE DEF bridgeVars, tableVars, turnVars, reloadVars
<1>0. \A c \in Asked : c \in Calls BY DEF Calls
<1>1. ASSUME NEW c \in ToolCalls, NEW p \in Plugins, CallTool(c, p) PROVE TypeOK'
  <2>1. <<p, tools[p]>> \in Instances BY <1>1 DEF CallTool, TypeOK, Instances, Ids
  <2>2. at' \in [Calls -> Places] BY <1>1 DEF CallTool, Begin, TypeOK, Places
  <2>3. inst' \in [Calls -> Instances] BY <1>1, <2>1 DEF CallTool, Begin, TypeOK
  <2> QED BY <1>1, <2>2, <2>3 DEF CallTool, TypeOK
<1>2. ASSUME NEW c \in Commands, NEW p \in Plugins, RunCommand(c, p) PROVE TypeOK'
  <2>1. <<p, rows[p]>> \in Instances BY <1>2 DEF RunCommand, TypeOK, Instances, Ids
  <2>2. at' \in [Calls -> Places] BY <1>2 DEF RunCommand, Begin, TypeOK, Places
  <2>3. inst' \in [Calls -> Instances] BY <1>2, <2>1 DEF RunCommand, Begin, TypeOK
  <2> QED BY <1>2, <2>2, <2>3 DEF RunCommand, TypeOK
<1>3. ASSUME NEW c \in Calls \cup {Turn}, Deliver(c) PROVE TypeOK'
  BY <1>3, DeliverType
<1>4. ASSUME NEW c \in Asked, PassCheck(c) PROVE TypeOK'
  BY <1>0, <1>4 DEF PassCheck, TypeOK, Places
<1>5. ASSUME NEW c \in Asked, Refuse(c) PROVE TypeOK'
  <2>1. Answer(c, "error") BY <1>5 DEF Refuse
  <2> QED BY <1>0, <1>5, <2>1, AnswerType DEF Refuse, TypeOK
<1>6. ASSUME NEW c \in Asked, HandOver(c) PROVE TypeOK'
  <2>1. at' \in [Calls -> Places] BY <1>0, <1>6 DEF HandOver, TypeOK, Places
  <2>2. inst' \in [Calls -> Instances] BY <1>0, <1>6, NoInstanceType DEF HandOver, TypeOK
  <2>3. result' \in [Asked -> {"none", "ok", "error"}] BY <1>6 DEF HandOver, TypeOK
  <2> QED BY <1>6, <2>1, <2>2, <2>3 DEF HandOver, TypeOK
<1>7. ASSUME NEW c \in Calls, Enter(c) PROVE TypeOK'
  BY <1>7 DEF Enter, TypeOK, Places
<1>8. ASSUME NEW c \in Calls, HostCall(c) PROVE TypeOK'
  <2>1. at' \in [Calls -> Places] BY <1>8 DEF HostCall, TypeOK, Places
  <2>2. deliver' \in [Calls \cup {Turn} -> SUBSET Instances]
    BY <1>8, SubscribersType DEF HostCall, TypeOK
  <2> QED BY <1>8, <2>1, <2>2 DEF HostCall, TypeOK
<1>9. ASSUME NEW c \in Calls, HostDone(c) PROVE TypeOK'
  BY <1>9 DEF HostDone, TypeOK, Places
<1>10. ASSUME NEW c \in Calls, Return(c) PROVE TypeOK'
  <2>1. Verdict(inst[c]) \in {"none", "ok", "error"} BY DEF Verdict
  <2>2. Answer(c, Verdict(inst[c])) BY <1>10 DEF Return
  <2> HIDE DEF Verdict
  <2> QED BY <1>10, <2>1, <2>2, AnswerType DEF Return, TypeOK
<1>11. ASSUME NEW c \in Calls, Trap(c) PROVE TypeOK'
  <2>1. Answer(c, "error") BY <1>11 DEF Trap
  <2> QED BY <1>11, <2>1, AnswerType DEF Trap, TypeOK
<1> QED BY <1>1, <1>2, <1>3, <1>4, <1>5, <1>6, <1>7, <1>8, <1>9, <1>10, <1>11 DEF CallStep

--------------------------------------------------------------------------------
(* A contribution, the turn, and the reload. *)

LEMMA SetContextKeeps == ASSUME IInv, NEW c \in Calls, SetContext(c) PROVE IInv'
<1> DEFINE p == inst[c][1]
<1> USE DEF bridgeVars, tableVars, turnVars, reloadVars, callVars
<1>1. /\ inst[c] \in Instances /\ p \in Plugins /\ inst[c][2] \in Generations
      /\ inst[c] = <<p, inst[c][2]>>
  BY DEF IInv, TypeOK, Instances
<1>2. TypeOK' BY <1>1 DEF IInv, TypeOK, SetContext
<1>3. ASSUME NEW q \in Plugins, ~Replaced(q)' PROVE Settled(q)' /\ Owned(q)'
  <2>1. ~Replaced(q) /\ Settled(q) /\ Owned(q)
    BY <1>3 DEF IInv, TableInv, Replaced, SetContext
  <2>2. Settled(q)' BY <2>1 DEF Settled, SetContext
  <2>3. CASE q # p
    BY <2>1, <2>2, <2>3 DEF Owned, SetContext
  <2>4. CASE q = p /\ ~Live(inst[c])
    BY <2>2, <2>4 DEF Owned, SetContext
  <2>5. CASE q = p /\ Live(inst[c])
    <3>1. active[q] # 0 /\ active[q] = inst[c][2]
      BY <1>1, <2>5 DEF Live, Generations
    <3>2. q \notin Toolless => rows[q] # 0 /\ <<q, rows[q]>> = inst[c]
      BY <1>1, <2>1, <2>5, <3>1 DEF Settled
    <3> QED BY <2>2, <3>2 DEF Owned, SetContext
  <2> QED BY <2>3, <2>4, <2>5
<1>4. ASSUME NEW q \in Plugins, Replaced(q)' PROVE Fresh(q)'
  BY <1>4 DEF IInv, TableInv, Replaced, Fresh, SetContext
<1>5. TableInv' BY <1>3, <1>4 DEF TableInv
<1>6. ToollessInv' /\ LoadInv' BY DEF IInv, ToollessInv, LoadInv, SetContext
<1> QED BY <1>2, <1>5, <1>6 DEF IInv

LEMMA TurnKeeps == ASSUME IInv, TurnStarts \/ TurnEnds PROVE IInv'
<1> USE DEF bridgeVars, tableVars, turnVars, reloadVars
<1>1. TypeOK'
  <2>1. CASE TurnStarts
    <3>1. deliver' \in [Calls \cup {Turn} -> SUBSET Instances]
      BY <2>1, SubscribersType DEF IInv, TurnStarts, TypeOK
    <3>2. turns' \in 0 .. MaxTurns BY <2>1 DEF IInv, TurnStarts, TypeOK
    <3> QED BY <2>1, <3>1, <3>2 DEF IInv, TurnStarts, TypeOK
  <2>2. CASE TurnEnds
    <3>1. deliver' \in [Calls \cup {Turn} -> SUBSET Instances]
      BY <2>2 DEF IInv, TurnEnds, TypeOK
    <3>2. parent' \in [Events -> Calls \cup {Turn, Nobody}]
      BY <2>2 DEF IInv, TurnEnds, TypeOK
    <3> QED BY <2>2, <3>1, <3>2 DEF IInv, TurnEnds, TypeOK
  <2> QED BY <2>1, <2>2
<1>2. Still BY DEF Still, TurnStarts, TurnEnds
<1> QED BY <1>1, <1>2, StillKeeps DEF IInv

LEMMA BeginReloadKeeps == ASSUME IInv, BeginReload PROVE IInv'
<1> USE DEF bridgeVars, tableVars, turnVars, callVars
<1>1. config' \in [Plugins -> Entry] BY DEF BeginReload
<1>2. reloads' \in 0 .. MaxReloads /\ reloads' = reloads + 1 BY DEF BeginReload, IInv, TypeOK
<1>3. TypeOK' BY <1>1, <1>2 DEF IInv, TypeOK, BeginReload
<1>4. TableInv'
  <2> SUFFICES ASSUME NEW p \in Plugins
      PROVE IF Replaced(p)' THEN Fresh(p)' ELSE Settled(p)' /\ Owned(p)'
    BY DEF TableInv
  <2>1. ~Replaced(p)' BY DEF Replaced, BeginReload
  <2>2. Settled(p) /\ Owned(p) BY DEF IInv, TableInv, Replaced, BeginReload
  <2> QED BY <2>1, <2>2 DEF Settled, Owned, BeginReload
<1>5. ToollessInv' BY DEF IInv, ToollessInv, BeginReload
<1>6. LoadInv'
  <2>1. \A p \in Plugins : loaded[p] \in Nat BY DEF IInv, TypeOK, Generations
  <2> QED BY <1>2, <2>1 DEF IInv, TypeOK, LoadInv, BeginReload
<1> QED BY <1>3, <1>4, <1>5, <1>6 DEF IInv

LEMMA LoadKeeps == ASSUME IInv, NEW p \in Plugins, Load(p) PROVE IInv'
<1> DEFINE i == <<p, loaded[p] + 1>>
<1> USE DEF tableVars, turnVars, callVars
<1>1. loaded[p] \in Nat /\ reloads \in Nat /\ loaded[p] <= reloads /\ reloads <= MaxReloads
  BY DEF IInv, TypeOK, LoadInv, Load, Generations
<1>2. loaded[p] + 1 \in Generations /\ i \in Instances
  BY <1>1 DEF Generations, Instances
<1>3. config[p].grants \in SUBSET Grants BY DEF IInv, TypeOK, Entry
<1>4. CASE config[p].file = "good"
  <2>1. /\ active' = [active EXCEPT ![p] = loaded[p] + 1]
        /\ loaded' = [loaded EXCEPT ![p] = loaded[p] + 1]
        /\ holds' = [holds EXCEPT ![i] = config[p].grants]
        /\ todo' = todo \ {p} /\ p \in todo
        /\ UNCHANGED <<tools, rows, context, config, reloading, reloads, late>>
    BY <1>4 DEF Load
  <2>2. active' \in [Plugins -> Ids] /\ loaded' \in [Plugins -> Generations]
    BY <1>2, <2>1 DEF IInv, TypeOK, Ids
  <2>3. holds' \in [Instances -> SUBSET Grants] BY <1>2, <1>3, <2>1 DEF IInv, TypeOK
  <2>4. overtaken' \subseteq Commands BY DEF IInv, TypeOK, Load, Overtaken
  <2>5. TypeOK' BY <2>1, <2>2, <2>3, <2>4 DEF IInv, TypeOK, Load
  <2>6. reloading BY <2>1 DEF IInv, LoadInv
  <2>7. Replaced(p)' /\ Fresh(p)'
    BY <1>2, <1>4, <2>1, <2>6 DEF Replaced, Fresh, IInv, TypeOK
  <2>8. ASSUME NEW q \in Plugins, q # p
        PROVE IF Replaced(q)' THEN Fresh(q)' ELSE Settled(q)' /\ Owned(q)'
    <3>1. Replaced(q)' <=> Replaced(q) BY <2>1, <2>8 DEF Replaced
    <3>2. active'[q] = active[q] /\ loaded'[q] = loaded[q] BY <2>1, <2>8 DEF IInv, TypeOK
    <3>3. \A n \in Generations : holds'[<<q, n>>] = holds[<<q, n>>]
      BY <2>1, <2>8 DEF IInv, TypeOK, Instances
    <3>4. Fresh(q) => Fresh(q)' BY <2>1, <3>2, <3>3 DEF Fresh, IInv, TypeOK
    <3>5. Settled(q) => Settled(q)' BY <2>1, <3>2 DEF Settled
    <3>6. rows[q] # 0 => rows[q] \in Generations BY DEF IInv, TypeOK, Ids
    <3>7. Owned(q) => Owned(q)' BY <2>1, <3>3, <3>6 DEF Owned
    <3> QED BY <3>1, <3>4, <3>5, <3>7 DEF IInv, TableInv
  <2>9. TableInv' BY <2>7, <2>8 DEF TableInv
  <2>10. ToollessInv' BY <2>1 DEF IInv, ToollessInv
  <2>11. LoadInv'
    <3>1. \A q \in Plugins : loaded[q] \in Nat BY DEF IInv, TypeOK, Generations
    <3>2. \A q \in Plugins : loaded'[q] = IF q = p THEN loaded[p] + 1 ELSE loaded[q]
      BY <2>1 DEF IInv, TypeOK
    <3> QED BY <1>1, <2>1, <2>6, <3>1, <3>2 DEF IInv, LoadInv
  <2> QED BY <2>5, <2>9, <2>10, <2>11 DEF IInv
<1>5. CASE config[p].file # "good"
  <2>1. /\ todo' = todo \ {p} /\ p \in todo
        /\ UNCHANGED <<active, loaded, holds, tools, rows, context, config, reloading,
                       reloads, late, overtaken>>
    BY <1>5 DEF Load
  <2>2. TypeOK' BY <2>1 DEF IInv, TypeOK, Load
  <2>3. \A q \in Plugins : Replaced(q)' <=> Replaced(q)
    BY <1>5, <2>1 DEF Replaced
  <2>4. TableInv' BY <2>1, <2>3 DEF IInv, TableInv, Fresh, Settled, Owned
  <2>5. ToollessInv' /\ LoadInv' BY <2>1 DEF IInv, ToollessInv, LoadInv
  <2> QED BY <2>2, <2>4, <2>5 DEF IInv
<1> QED BY <1>4, <1>5

LEMMA SwapKeeps == ASSUME IInv, Swap PROVE IInv'
<1> DEFINE Is(f) == {p \in Plugins : config[p].file = f}
           good == Is("good")
           retired == {p \in Is("none") : tools[p] # 0}
           dropped == Disowned(good, retired)
<1> USE DEF turnVars, callVars
<1>1. /\ reloading /\ todo = {} /\ reloading' = FALSE /\ config' = Unread
      /\ active' = [p \in Plugins |-> IF p \in retired THEN 0 ELSE active[p]]
      /\ tools' = [p \in Plugins |-> IF p \in Is("bad") \/ p \in Toolless THEN tools[p]
                                     ELSE IF p \in good THEN loaded[p] ELSE 0]
      /\ rows' = [p \in Plugins |-> IF p \in Is("bad") THEN rows[p]
                                    ELSE IF p \in good THEN loaded[p] ELSE 0]
      /\ context' = context \ dropped /\ late' = late \ dropped
      /\ UNCHANGED <<loaded, holds, todo, reloads>>
  BY DEF Swap
<1>2. TypeOK'
  <2>1. active' \in [Plugins -> Ids] /\ tools' \in [Plugins -> Ids] /\ rows' \in [Plugins -> Ids]
    BY <1>1 DEF IInv, TypeOK, Ids
  <2>2. overtaken' \subseteq Commands BY DEF Swap, Overtaken, IInv, TypeOK
  <2>3. config' \in [Plugins -> Entry] BY <1>1, UnreadType
  <2> QED BY <1>1, <2>1, <2>2, <2>3 DEF Swap, IInv, TypeOK
<1>3. ASSUME NEW p \in Plugins PROVE Settled(p)' /\ Owned(p)'
  <2>1. config[p].file \in {"none", "bad", "good"} BY DEF IInv, TypeOK, Entry
  <2>2. loaded[p] # 0 BY DEF IInv, TypeOK, Generations
  <2>3. p \in Toolless => tools[p] = 0 BY DEF IInv, ToollessInv
  <2>4. CASE config[p].file = "good"
    <3>1. Fresh(p) BY <1>1, <2>4 DEF IInv, TableInv, Replaced
    <3>2. active'[p] = loaded[p] /\ rows'[p] = loaded[p]
      BY <1>1, <2>4, <3>1 DEF Fresh
    <3>3. tools'[p] = IF p \in Toolless THEN tools[p] ELSE loaded[p] BY <1>1, <2>4
    <3>4. Settled(p)' BY <2>3, <3>2, <3>3 DEF Settled
    <3>5. p \in context' => "context" \in config[p].grants
      BY <1>1, <2>4 DEF Disowned
    <3>6. Owned(p)' BY <1>1, <2>2, <3>1, <3>2, <3>5 DEF Owned, Fresh
    <3> QED BY <3>4, <3>6
  <2>5. CASE config[p].file = "bad"
    <3>1. Settled(p) /\ Owned(p) BY <2>5 DEF IInv, TableInv, Replaced
    <3>2. active'[p] = active[p] /\ rows'[p] = rows[p] /\ tools'[p] = tools[p]
      BY <1>1, <2>5
    <3>3. p \notin dropped BY <2>5 DEF Disowned
    <3> QED BY <1>1, <3>1, <3>2, <3>3 DEF Settled, Owned
  <2>6. CASE config[p].file = "none"
    <3>1. Settled(p) /\ Owned(p) BY <2>6 DEF IInv, TableInv, Replaced
    <3>2. rows'[p] = 0 /\ (p \notin Toolless => tools'[p] = 0) /\ (p \in Toolless => tools'[p] = tools[p])
      BY <1>1, <2>6
    <3>3. active'[p] = IF tools[p] # 0 THEN 0 ELSE active[p] BY <1>1, <2>6
    <3>4. Settled(p)' BY <2>3, <3>1, <3>2, <3>3 DEF Settled
    <3>5. CASE tools[p] # 0
      <4>1. p \in dropped BY <2>6, <3>5 DEF Disowned
      <4> QED BY <1>1, <3>4, <4>1 DEF Owned
    <3>6. CASE tools[p] = 0
      <4>1. p \in context' => p \in late \/ p \in Toolless
        BY <1>1, <3>1, <3>6 DEF Owned, Settled
      <4>2. p \notin dropped BY <2>6, <3>6 DEF Disowned
      <4> QED BY <1>1, <3>4, <4>1, <4>2 DEF Owned
    <3> QED BY <3>5, <3>6
  <2> QED BY <2>1, <2>4, <2>5, <2>6
<1>4. TableInv' BY <1>1, <1>3 DEF TableInv, Replaced
<1>5. ToollessInv'
  <2> SUFFICES ASSUME NEW p \in Toolless PROVE tools'[p] = 0 BY DEF ToollessInv
  <2>1. p \in Plugins /\ tools[p] = 0 BY DEF IInv, ToollessInv
  <2> QED BY <1>1, <2>1
<1>6. LoadInv' BY <1>1 DEF IInv, LoadInv
<1> QED BY <1>2, <1>4, <1>5, <1>6 DEF IInv

--------------------------------------------------------------------------------
LEMMA InitSound == Init => IInv
<1> SUFFICES ASSUME Init PROVE IInv OBVIOUS
<1>0. 1 \in Generations BY DEF Generations
<1>1. TypeOK
  <2>1. at \in [Calls -> Places] BY DEF Init, Places
  <2>2. inst \in [Calls -> Instances] BY NoInstanceType DEF Init
  <2>3. config \in [Plugins -> Entry] BY UnreadType DEF Init
  <2>4. /\ active \in [Plugins -> Ids] /\ loaded \in [Plugins -> Generations]
        /\ tools \in [Plugins -> Ids] /\ rows \in [Plugins -> Ids]
    <3>1. loaded = active /\ rows = active BY DEF Init
    <3>2. active \in [Plugins -> Generations] BY <1>0 DEF Init
    <3>3. tools \in [Plugins -> Ids] BY <1>0 DEF Init, Ids
    <3> QED BY <3>1, <3>2, <3>3 DEF Ids
  <2>5. holds \in [Instances -> SUBSET Grants] BY DEF Init
  <2>6. /\ parent \in [Events -> Calls \cup {Turn, Nobody}]
        /\ deliver \in [Calls \cup {Turn} -> SUBSET Instances]
        /\ result \in [Asked -> {"none", "ok", "error"}]
    BY DEF Init
  <2>7. turns \in 0 .. MaxTurns /\ reloads \in 0 .. MaxReloads BY DEF Init
  <2>8. /\ context \subseteq Plugins /\ late \subseteq Plugins /\ todo \subseteq Plugins
        /\ turn \in BOOLEAN /\ reloading \in BOOLEAN
        /\ heeded \subseteq ToolCalls /\ hosted \subseteq Calls /\ overtaken \subseteq Commands
    BY DEF Init
  <2> QED BY <2>1, <2>2, <2>3, <2>4, <2>5, <2>6, <2>7, <2>8 DEF TypeOK
<1>2. TableInv BY DEF Init, TableInv, Replaced, Settled, Owned
<1>3. ToollessInv BY DEF Init, ToollessInv
<1>4. LoadInv BY DEF Init, LoadInv
<1> QED BY <1>1, <1>2, <1>3, <1>4 DEF IInv

LEMMA NextSound == IInv /\ [Next]_vars => IInv'
<1> SUFFICES ASSUME IInv, [Next]_vars PROVE IInv' OBVIOUS
<1>1. CASE CallStep
  BY <1>1, CallStepStill, CallStepType, StillKeeps DEF IInv
<1>2. ASSUME NEW c \in Calls, SetContext(c) PROVE IInv' BY <1>2, SetContextKeeps
<1>3. CASE TurnStarts \/ TurnEnds BY <1>3, TurnKeeps
<1>4. CASE BeginReload BY <1>4, BeginReloadKeeps
<1>5. ASSUME NEW p \in Plugins, Load(p) PROVE IInv' BY <1>5, LoadKeeps
<1>6. CASE Swap BY <1>6, SwapKeeps
<1>7. CASE UNCHANGED vars
  <2> USE <1>7 DEF vars, bridgeVars, tableVars, turnVars, reloadVars, callVars
  <2>1. TypeOK' BY DEF IInv, TypeOK
  <2>2. Still BY DEF Still
  <2> QED BY <2>1, <2>2, StillKeeps DEF IInv
<1>8. Next => \/ CallStep \/ TurnStarts \/ TurnEnds \/ BeginReload \/ Swap
              \/ \E c \in Calls : SetContext(c)
              \/ \E p \in Plugins : Load(p)
  BY DEF Next, OwnStep, CallStep
<1> QED BY <1>1, <1>2, <1>3, <1>4, <1>5, <1>6, <1>7, <1>8

\* A state that IInv describes is one HostSound asks for.
LEMMA SoundFromInv == IInv => HostSound
<1> SUFFICES ASSUME IInv PROVE HostSound OBVIOUS
<1>1. TypeOK BY DEF IInv
<1>2. TablesAreLive BY DEF IInv, TableInv, Replaced, Settled, TablesAreLive
<1>3. ContributionOwned
  BY <1>1 DEF TypeOK, IInv, TableInv, Replaced, Owned, ContributionOwned
<1> QED BY <1>1, <1>2, <1>3 DEF HostSound

\* After every reload, whatever still ran in a guest while it was on, the
\* registered tools, commands and subscriptions are those of the live instances,
\* and text in the system prompt has an owner (reload_extensions, agent/build.rs).
THEOREM HostIsSound == Spec => []HostSound
<1>1. Spec => []IInv BY InitSound, NextSound, PTL DEF Spec
<1> QED BY <1>1, SoundFromInv, PTL

--------------------------------------------------------------------------------
(* No success of a replaced instance is handed over. *)

\* A turn and a reload exclude each other, and only a turn awaits tool calls.
TurnInv == (turn => ~reloading) /\ (heeded # {} => turn)

\* A success that waits to be taken: a reload since then left its mark, or came
\* when nobody awaited it any more.
OkInv ==
  \A c \in Asked : at[c] = "returned" /\ result[c] = "ok" =>
     Live(inst[c]) \/ c \in overtaken \/ c \in ToolCalls \ heeded

OInv == IInv /\ TurnInv /\ OkInv

LEMMA AskedApart == ASSUME NEW c \in Asked PROVE c \in Calls /\ c \notin Events
BY DEF Asked, Calls

LEMMA InitOk == Init => TurnInv /\ OkInv
<1> SUFFICES ASSUME Init PROVE TurnInv /\ OkInv OBVIOUS
<1>1. \A c \in Asked : at[c] = "idle" BY AskedApart DEF Init
<1> QED BY <1>1 DEF Init, TurnInv, OkInv

LEMMA NextTurnInv == ASSUME OInv, [Next]_vars PROVE TurnInv'
<1> USE DEF turnVars, reloadVars, bridgeVars, tableVars, callVars, OInv, TurnInv
<1>1. ASSUME NEW c \in ToolCalls, NEW p \in Plugins, CallTool(c, p) PROVE TurnInv'
  BY <1>1 DEF CallTool
<1>2. CASE TurnStarts BY <1>2 DEF TurnStarts
<1>3. CASE TurnEnds BY <1>3 DEF TurnEnds
<1>4. CASE BeginReload BY <1>4 DEF BeginReload
<1>5. CASE Swap BY <1>5 DEF Swap
<1>6. CASE UNCHANGED <<turn, heeded, reloading>> BY <1>6
<1>7. Next => \/ \E c \in ToolCalls, p \in Plugins : CallTool(c, p)
              \/ TurnStarts \/ TurnEnds \/ BeginReload \/ Swap
              \/ UNCHANGED <<turn, heeded, reloading>>
  BY DEF Next, OwnStep, RunCommand, Deliver, PassCheck, Refuse, HandOver, Enter, HostCall,
         HostDone, SetContext, Return, Trap, Load
<1>8. UNCHANGED vars => UNCHANGED <<turn, heeded, reloading>> BY DEF vars
<1> QED BY <1>1, <1>2, <1>3, <1>4, <1>5, <1>6, <1>7, <1>8

\* A step that answers no call leaves its success, and its instance's right, alone.
Quiet(c) ==
  /\ (at'[c] = "returned" => at[c] = "returned") /\ (at'[c] = "over" => at[c] = "over")
  /\ at[c] = "returned" => result'[c] = result[c] /\ inst'[c] = inst[c]

Kept == UNCHANGED active /\ overtaken \subseteq overtaken' /\ (heeded' \subseteq heeded)

LEMMA QuietKeeps ==
  ASSUME OInv, Kept, \A c \in Asked : Quiet(c) PROVE OkInv'
BY DEF OInv, OkInv, Quiet, Kept, Live

LEMMA AnswerQuiet ==
  ASSUME TypeOK, NEW d \in Calls, NEW r, Answer(d, r), NEW c \in Asked,
         d \in Events \/ c # d, at[d] # "returned"
  PROVE  Quiet(c)
<1>1. c # d BY AskedApart
<1>2. c \in Calls BY AskedApart
<1> QED BY <1>1, <1>2 DEF Answer, Quiet, TypeOK

\* A call that is answered has its success only from a live instance.
LEMMA AnswerKeeps ==
  ASSUME OInv, NEW d \in Calls, NEW r \in {"none", "ok", "error"}, Answer(d, r), at[d] # "returned",
         r = "ok" => Live(inst[d]), Kept
  PROVE  OkInv'
<1>1. \A c \in Asked : c # d \/ d \in Events => Quiet(c) BY AnswerQuiet DEF OInv, IInv
<1>2. CASE d \in Events BY <1>1, <1>2, QuietKeeps
<1>3. CASE d \notin Events
  <2>1. d \in Asked BY <1>3 DEF Calls
  <2>2. result'[d] = r /\ inst' = inst BY <1>3, <2>1 DEF Answer, OInv, IInv, TypeOK
  <2>3. r = "ok" => Live(inst[d])' BY <2>2 DEF Live, Kept
  <2>4. ASSUME NEW c \in Asked, c # d, at'[c] = "returned", result'[c] = "ok"
        PROVE  (Live(inst[c]) \/ c \in overtaken \/ c \in ToolCalls \ heeded)'
    BY <1>1, <2>4 DEF OInv, OkInv, Quiet, Kept, Live
  <2> QED BY <2>2, <2>3, <2>4 DEF OkInv
<1> QED BY <1>2, <1>3

LEMMA HandOverOk ==
  ASSUME OInv, NEW d \in Asked, HandOver(d)
  PROVE  /\ OkInv' /\ \A c \in Asked : c # d => Quiet(c)
         /\ result[d] = "ok" => Live(inst[d]) \/ d \in overtaken
<1> USE DEF bridgeVars, turnVars
<1>1. d \in Calls BY AskedApart
<1>2. at'[d] = "over" BY <1>1 DEF HandOver, OInv, IInv, TypeOK
<1>3. \A c \in Asked : c # d => Quiet(c) /\ (c \in overtaken' <=> c \in overtaken)
  BY AskedApart DEF HandOver, Quiet, OInv, IInv, TypeOK
<1>4. active' = active /\ heeded' = heeded BY DEF HandOver
<1>5. OkInv' BY <1>2, <1>3, <1>4 DEF OInv, OkInv, Quiet, Live
<1>6. result[d] = "ok" => Live(inst[d]) \/ d \in overtaken
  BY DEF HandOver, Heeded, OInv, OkInv
<1> QED BY <1>3, <1>5, <1>6

\* /reload marks the commands it overtakes, and no tool call is awaited.
LEMMA ReloadOk ==
  ASSUME OInv, Swap \/ (\E p \in Plugins : Load(p))
  PROVE  OkInv' /\ (\A c \in Asked : Quiet(c))
<1> USE DEF turnVars, callVars
<1>1. heeded = {} BY DEF OInv, TurnInv, IInv, LoadInv, Swap, Load
<1>2. heeded' = heeded /\ UNCHANGED <<at, inst, result>> BY DEF Swap, Load
<1>3. ASSUME NEW c \in Commands, at[c] = "returned", Live(inst[c])
      PROVE  Live(inst[c])' \/ c \in overtaken'
  <2>1. c \in Calls /\ inst[c] \in Instances /\ inst[c][1] \in Plugins
        /\ inst[c] = <<inst[c][1], active[inst[c][1]]>>
    BY <1>3 DEF OInv, IInv, TypeOK, Calls, Asked, Instances, Live
  <2>2. CASE Swap
    <3> DEFINE retired == {p \in Plugins : config[p].file = "none" /\ tools[p] # 0}
    <3>1. active' = [p \in Plugins |-> IF p \in retired THEN 0 ELSE active[p]]
      BY <2>2 DEF Swap
    <3>2. overtaken' = overtaken \cup Overtaken({<<p, active[p]>> : p \in retired})
      BY <2>2 DEF Swap
    <3>3. CASE inst[c][1] \in retired
      BY <1>3, <2>1, <3>2, <3>3 DEF Overtaken
    <3>4. CASE inst[c][1] \notin retired
      BY <1>2, <1>3, <2>1, <3>1, <3>4 DEF Live
    <3> QED BY <3>3, <3>4
  <2>3. ASSUME NEW p \in Plugins, Load(p) PROVE Live(inst[c])' \/ c \in overtaken'
    <3>1. CASE inst[c][1] = p /\ config[p].file = "good"
      <4>1. c \in Overtaken({<<p, active[p]>>}) BY <1>3, <2>1, <3>1 DEF Overtaken
      <4> QED BY <2>3, <3>1, <4>1 DEF Load
    <3>2. CASE inst[c][1] # p \/ config[p].file # "good"
      <4>1. active'[inst[c][1]] = active[inst[c][1]]
        BY <2>1, <2>3, <3>2 DEF Load, OInv, IInv, TypeOK
      <4> QED BY <1>2, <1>3, <4>1 DEF Live
    <3> QED BY <3>1, <3>2
  <2> QED BY <2>2, <2>3
<1>4. overtaken \subseteq overtaken' BY DEF Swap, Load
<1>5. ASSUME NEW c \in Asked, at'[c] = "returned", result'[c] = "ok"
      PROVE  (Live(inst[c]) \/ c \in overtaken \/ c \in ToolCalls \ heeded)'
  <2>1. Live(inst[c]) \/ c \in overtaken \/ c \in ToolCalls
    BY <1>2, <1>5 DEF OInv, OkInv
  <2>2. c \in ToolCalls => c \in (ToolCalls \ heeded)' BY <1>1, <1>2
  <2>3. c \notin ToolCalls => c \in Commands BY DEF Asked
  <2> QED BY <1>2, <1>3, <1>4, <1>5, <2>1, <2>2, <2>3
<1>6. \A c \in Asked : Quiet(c) BY <1>2 DEF Quiet
<1> QED BY <1>5, <1>6 DEF OkInv

LEMMA DeliverQuiet ==
  ASSUME TypeOK, NEW d \in Calls \cup {Turn}, Deliver(d), NEW c \in Asked PROVE Quiet(c)
<1> DEFINE e == CHOOSE x \in Events : at[x] = "idle"
<1>1. e \in Events BY DEF Deliver
<1>2. c # e /\ c \in Calls BY <1>1, AskedApart
<1> HIDE DEF e
<1>3. \/ UNCHANGED <<at, inst, parent>>
      \/ \E x, i : at' = [at EXCEPT ![e] = x] /\ inst' = [inst EXCEPT ![e] = i]
  BY DEF Deliver, e
<1>4. at'[c] = at[c] /\ inst'[c] = inst[c] BY <1>2, <1>3 DEF TypeOK
<1>5. result' = result BY DEF Deliver
<1> QED BY <1>4, <1>5 DEF Quiet

LEMMA NextOk ==
  ASSUME OInv, [Next]_vars
  PROVE  /\ OkInv'
         /\ \A c \in Asked : at[c] = "returned" /\ at'[c] = "over" /\ result[c] = "ok"
                              => Live(inst[c]) \/ c \in overtaken
<1> DEFINE Goal == /\ OkInv'
                   /\ \A c \in Asked : at[c] = "returned" /\ at'[c] = "over" /\ result[c] = "ok"
                                        => Live(inst[c]) \/ c \in overtaken
<1> USE DEF bridgeVars, tableVars, turnVars, reloadVars, callVars
<1>0. TypeOK BY DEF OInv, IInv
<1>q. ASSUME Kept, \A c \in Asked : Quiet(c) PROVE Goal
  <2>1. OkInv' BY <1>q, QuietKeeps
  <2> QED BY <1>q, <2>1 DEF Quiet
<1>1. ASSUME NEW d \in ToolCalls, NEW p \in Plugins, CallTool(d, p) PROVE Goal
  <2>1. \A c \in Asked : Quiet(c) /\ (c # d => at'[c] = at[c]) /\ at'[d] = "begun"
    BY <1>0, <1>1, AskedApart DEF CallTool, Begin, Quiet, TypeOK, Asked
  <2>2. heeded' = heeded \cup {d} /\ UNCHANGED <<active, overtaken>> BY <1>1 DEF CallTool
  <2>3. OkInv' BY <2>1, <2>2 DEF OInv, OkInv, Quiet, Live
  <2> QED BY <2>1, <2>3 DEF Quiet
<1>2. ASSUME NEW d \in Commands, NEW p \in Plugins, RunCommand(d, p) PROVE Goal
  <2>1. \A c \in Asked : Quiet(c)
    BY <1>0, <1>2, AskedApart DEF RunCommand, Begin, Quiet, TypeOK, Asked
  <2>2. Kept BY <1>2 DEF RunCommand, Kept
  <2> QED BY <1>q, <2>1, <2>2
<1>3. ASSUME NEW d \in Calls \cup {Turn}, Deliver(d) PROVE Goal
  <2>1. Kept BY <1>3 DEF Deliver, Kept
  <2> QED BY <1>0, <1>3, <1>q, <2>1, DeliverQuiet
<1>4. ASSUME NEW d \in Calls, Refuse(d) \/ Return(d) \/ Trap(d) PROVE Goal
  <2>1. PICK r \in {"none", "ok", "error"} : Answer(d, r) /\ (r = "ok" => Live(inst[d]))
    BY <1>4 DEF Refuse, Return, Trap, Verdict
  <2>2. at[d] # "returned" /\ Kept BY <1>4 DEF Refuse, Return, Trap, Kept
  <2>3. OkInv' BY <2>1, <2>2, AnswerKeeps
  <2>4. \A c \in Asked : at[c] = "returned" => Quiet(c)
    BY <1>0, <2>1, <2>2, AnswerQuiet
  <2> QED BY <2>3, <2>4 DEF Quiet
<1>5. ASSUME NEW d \in Asked, HandOver(d) PROVE Goal
  BY <1>5, HandOverOk DEF Quiet
<1>6. ASSUME NEW d \in Calls, Enter(d) \/ HostCall(d) \/ HostDone(d) PROVE Goal
  <2>1. Kept BY <1>6 DEF Enter, HostCall, HostDone, Kept
  <2>2. \A c \in Asked : Quiet(c)
    BY <1>0, <1>6, AskedApart DEF Enter, HostCall, HostDone, Quiet, TypeOK
  <2> QED BY <1>q, <2>1, <2>2
<1>7. ASSUME NEW d \in Asked, PassCheck(d) PROVE Goal
  <2>1. Kept BY <1>7 DEF PassCheck, Kept
  <2>2. \A c \in Asked : Quiet(c)
    BY <1>0, <1>7, AskedApart DEF PassCheck, Quiet, TypeOK
  <2> QED BY <1>q, <2>1, <2>2
<1>8. ASSUME \/ \E c \in Calls : SetContext(c)
             \/ TurnStarts \/ TurnEnds \/ BeginReload \/ UNCHANGED vars
      PROVE  Goal
  <2>1. Kept /\ UNCHANGED <<at, inst, result>>
    BY <1>8 DEF SetContext, TurnStarts, TurnEnds, BeginReload, vars, Kept
  <2> QED BY <1>q, <2>1 DEF Quiet
<1>9. ASSUME Swap \/ (\E p \in Plugins : Load(p)) PROVE Goal
  BY <1>9, ReloadOk DEF Quiet
<1>10. \A c \in Asked : c \in Calls BY AskedApart
<1> HIDE DEF Goal
<1>11. ASSUME OwnStep PROVE Goal BY <1>3, <1>4, <1>6, <1>7, <1>10, <1>11 DEF OwnStep
<1>12. ASSUME Next, ~OwnStep PROVE Goal
  BY <1>1, <1>2, <1>5, <1>6, <1>8, <1>9, <1>12 DEF Next
<1>13. Goal BY <1>8, <1>11, <1>12
<1> QED BY <1>13 DEF Goal

\* What a turn or the user is given as a success is from an instance that was live
\* then, but for the command the tick prints late (staleness_after_running).
THEOREM StaleSuccessNever == Spec => NoStaleSuccess
<1>1. Init => OInv BY InitSound, InitOk DEF OInv
<1>2. OInv /\ [Next]_vars => OInv'
  BY NextSound, NextTurnInv, NextOk DEF OInv
<1>3. OInv /\ [Next]_vars =>
        [\A c \in Asked : at[c] = "returned" /\ at'[c] = "over" /\ result[c] = "ok"
                            => Live(inst[c]) \/ c \in overtaken]_vars
  BY NextOk
<1> QED BY <1>1, <1>2, <1>3, PTL DEF Spec, NoStaleSuccess
================================================================================
