--------------------------- MODULE SteeringProofs ---------------------------
(***************************************************************************)
(* Theorems about Steering, for any texts, plugins and channel capacity.   *)
(***************************************************************************)
EXTENDS Steering, SequenceTheorems, FiniteSetTheorems, WellFoundedInduction,
        NaturalsInduction, TLAPS

-----------------------------------------------------------------------------
(***************************************************************************)
(* The inductive invariant.                                                *)
(***************************************************************************)

\* RuleOneIsExact speaks of sets of messages; a message could still be twice
\* in one queue.  It never is, nor are two of one plugin in either.
RuleInv ==
  /\ overflow \in Seq(Spoken) /\ echoes \in Seq(Spoken)
  /\ \A p : p \in waiting <=>
       \/ \E i \in DOMAIN overflow : p = From[overflow[i]]
       \/ \E i \in DOMAIN echoes : p = From[echoes[i]]
  /\ \A i, j \in DOMAIN overflow : From[overflow[i]] = From[overflow[j]] => i = j
  /\ \A i, j \in DOMAIN echoes : From[echoes[i]] = From[echoes[j]] => i = j
  /\ \A i \in DOMAIN overflow, j \in DOMAIN echoes : From[overflow[i]] # From[echoes[j]]

\* The TUI streams from the start of a turn to its Done, and is inside a
\* handler of a turn only then.
StreamInv ==
  /\ turn # "none" <=> streaming
  /\ tui # "ready" => streaming
  /\ IdleOwesNothing

\* An origin is staged only between the pick of a plugin's message and the
\* reset, for the turn that the message starts.
OriginInv ==
  /\ nextOrigin # Nobody =>
       tui = "starting" /\ \E m \in ToSet(started) \cap Spoken : From[m] = nextOrigin
  /\ OriginStartedTurn

IInv == RuleInv /\ StreamInv /\ OriginInv

-----------------------------------------------------------------------------
(***************************************************************************)
(* Picking the next turn's text.                                           *)
(***************************************************************************)

\* Pick names a queue that has something, if there is one.
LEMMA PickNames ==
  ASSUME NEW a, NEW b, NEW c, NEW d, NEW e
  PROVE  LET n == Pick(<<a, b, c, d, e>>)
         IN  /\ n = 0 => a = <<>>
             /\ n \in 0 .. 5 /\ (n # 0 => <<a, b, c, d, e>>[n] # <<>>)
             /\ n = 5 => e # <<>>
<1> DEFINE qs == <<a, b, c, d, e>>
           some == {i \in DOMAIN qs : qs[i] # <<>>}
<1>1. some \subseteq 1 .. 5 /\ (a # <<>> => 1 \in some) /\ (5 \in some => e # <<>>)
  OBVIOUS
<1>2. CASE some = {}
  BY <1>1, <1>2 DEF Pick
<1>3. CASE some # {}
  <2>1. \E i \in some : \A j \in some : i <= j
    BY <1>1, <1>3
  <2>2. Pick(qs) \in some
    BY <1>3, <2>1 DEF Pick
  <2> QED BY <1>1, <2>2
<1> QED BY <1>2, <1>3

\* What starting a turn does to the plugins' queues: the head of the overflow
\* is its text, and its plugin the origin staged, or neither is touched.
LEMMA PickedTurn ==
  ASSUME NEW STATE agents, NEW STATE handed, StartPicked(agents, handed)
  PROVE  /\ tui' = "starting" /\ streaming' = TRUE /\ turn' = "spawned"
         /\ \/ /\ overflow # <<>>
               /\ overflow' = Tail(overflow)
               /\ started' = <<Head(overflow)>>
               /\ nextOrigin' = From[Head(overflow)]
               /\ waiting' = waiting \ {From[m] : m \in handed \cup {Head(overflow)}}
            \/ /\ overflow' = overflow
               /\ nextOrigin' = nextOrigin
               /\ waiting' = waiting \ {From[m] : m \in handed}
<1> DEFINE queues == <<agents, slot, reportSlot, outbox, overflow>>
           n == Pick(queues)
           text == IF n = 4 THEN outbox ELSE IF n = 5 THEN <<Head(overflow)>> ELSE Head(queues[n])
<1>1. /\ tui' = "starting" /\ streaming' = TRUE /\ turn' = "spawned"
      /\ started' = text
      /\ overflow' = (IF n = 5 THEN Tail(overflow) ELSE overflow)
      /\ nextOrigin' = (IF n = 5 THEN From[Head(overflow)] ELSE nextOrigin)
      /\ waiting' = waiting \ HandedOver(handed \cup IF n = 5 THEN ToSet(text) ELSE {})
  BY Zenon DEF StartPicked, Start
<1>2. n = 5 => overflow # <<>>
  BY PickNames
<1>3. n = 5 => text = <<Head(overflow)>>
  OBVIOUS
<1>4. ToSet(<<Head(overflow)>>) = {Head(overflow)}
  BY DEF ToSet
<1> HIDE DEF n, text
<1>5. CASE n = 5
  BY <1>1, <1>2, <1>3, <1>4, <1>5 DEF HandedOver
<1>6. CASE n # 5
  BY <1>1, <1>6 DEF HandedOver
<1> QED BY <1>5, <1>6

-----------------------------------------------------------------------------
(***************************************************************************)
(* The plugins' queues and rule 1.                                         *)
(***************************************************************************)

\* A send by a plugin that is not waiting.
LEMMA SendKeepsRule ==
  ASSUME RuleInv, NEW m \in Spoken, PluginSend(m)
  PROVE  RuleInv'
<1>1. From[m] \notin waiting /\ waiting' = waiting \cup {From[m]}
  BY DEF PluginSend
<1>2. CASE echoes' = Append(echoes, m) /\ UNCHANGED overflow
  BY <1>1, <1>2 DEF RuleInv
<1>3. CASE overflow' = Append(overflow, m) /\ UNCHANGED echoes
  BY <1>1, <1>3 DEF RuleInv
<1> QED BY <1>2, <1>3 DEF PluginSend

\* Taking every echo.
LEMMA EchoesKeepRule ==
  ASSUME RuleInv, echoes' = <<>>, UNCHANGED overflow,
         waiting' = waiting \ {From[m] : m \in ToSet(echoes)}
  PROVE  RuleInv'
BY DEF RuleInv, ToSet

\* Taking the head of the overflow, and no echo or every echo.
LEMMA HeadKeepsRule ==
  ASSUME RuleInv, overflow # <<>>, overflow' = Tail(overflow), NEW STATE handed,
         waiting' = waiting \ {From[m] : m \in handed \cup {Head(overflow)}},
         \/ handed = {} /\ UNCHANGED echoes
         \/ handed = ToSet(echoes) /\ echoes' = <<>>
  PROVE  RuleInv'
<1>1. /\ overflow \in Seq(Spoken) /\ Len(overflow) \in Nat \ {0}
      /\ overflow' \in Seq(Spoken)
      /\ Head(overflow) = overflow[1]
      /\ DOMAIN overflow = 1 .. Len(overflow)
      /\ DOMAIN overflow' = 1 .. Len(overflow) - 1
      /\ \A i \in DOMAIN overflow' : overflow'[i] = overflow[i + 1]
  BY DEF RuleInv
<1>2. \A p : (\E i \in DOMAIN overflow : p = From[overflow[i]]) /\ p # From[Head(overflow)]
              <=> \E i \in DOMAIN overflow' : p = From[overflow'[i]]
  <2>1. ASSUME NEW p, NEW i \in DOMAIN overflow, p = From[overflow[i]], p # From[Head(overflow)]
        PROVE  \E k \in DOMAIN overflow' : p = From[overflow'[k]]
    <3>1. i - 1 \in DOMAIN overflow' /\ overflow'[i - 1] = overflow[i]
      BY <1>1, <2>1
    <3> QED BY <2>1, <3>1
  <2>2. ASSUME NEW p, NEW i \in DOMAIN overflow', p = From[overflow'[i]]
        PROVE  /\ \E k \in DOMAIN overflow : p = From[overflow[k]]
               /\ p # From[Head(overflow)]
    <3>1. i + 1 \in DOMAIN overflow /\ 1 \in DOMAIN overflow /\ i + 1 # 1
      BY <1>1, <2>2
    <3>2. p = From[overflow[i + 1]] /\ From[Head(overflow)] = From[overflow[1]]
      BY <1>1, <2>2
    <3> QED BY <3>1, <3>2 DEF RuleInv
  <2> QED BY <2>1, <2>2
<1>3. \A i, j \in DOMAIN overflow' : From[overflow'[i]] = From[overflow'[j]] => i = j
  BY <1>1 DEF RuleInv
<1>4. \A i \in DOMAIN overflow' : \E k \in DOMAIN overflow : overflow'[i] = overflow[k]
  BY <1>1
<1>5. CASE handed = {} /\ UNCHANGED echoes
  <2>1. \A p : p \in waiting' <=> p \in waiting /\ p # From[Head(overflow)]
    BY <1>5
  <2>2. \A i \in DOMAIN echoes : From[echoes[i]] # From[Head(overflow)]
    BY <1>1 DEF RuleInv
  <2>3. ASSUME NEW p
        PROVE  p \in waiting' <=>
                 \/ \E i \in DOMAIN overflow' : p = From[overflow'[i]]
                 \/ \E i \in DOMAIN echoes' : p = From[echoes'[i]]
    <3> DEFINE inOverflow == \E i \in DOMAIN overflow : p = From[overflow[i]]
               inEchoes == \E i \in DOMAIN echoes : p = From[echoes[i]]
               isNext == p = From[Head(overflow)]
    <3>1. p \in waiting <=> inOverflow \/ inEchoes
      BY DEF RuleInv
    <3>2. inEchoes => ~isNext
      BY <2>2
    <3>3. inOverflow /\ ~isNext <=> \E i \in DOMAIN overflow' : p = From[overflow'[i]]
      BY <1>2
    <3>4. inEchoes <=> \E i \in DOMAIN echoes' : p = From[echoes'[i]]
      BY <1>5
    <3>5. p \in waiting' <=> p \in waiting /\ ~isNext
      BY <2>1
    <3> HIDE DEF inOverflow, inEchoes, isNext
    <3> QED BY <3>1, <3>2, <3>3, <3>4, <3>5
  <2>4. \A i \in DOMAIN overflow', j \in DOMAIN echoes' : From[overflow'[i]] # From[echoes'[j]]
    BY <1>4, <1>5 DEF RuleInv
  <2> QED BY <1>1, <1>3, <1>5, <2>3, <2>4 DEF RuleInv
<1>6. CASE handed = ToSet(echoes) /\ echoes' = <<>>
  <2>1. \A p : p \in waiting' <=>
          /\ p \in waiting
          /\ p # From[Head(overflow)]
          /\ \A i \in DOMAIN echoes : p # From[echoes[i]]
    BY <1>6 DEF ToSet
  <2>2. \A i \in DOMAIN echoes, k \in DOMAIN overflow : From[echoes[i]] # From[overflow[k]]
    BY DEF RuleInv
  <2>3. ASSUME NEW p
        PROVE  p \in waiting' <=> \E i \in DOMAIN overflow' : p = From[overflow'[i]]
    <3> DEFINE inOverflow == \E i \in DOMAIN overflow : p = From[overflow[i]]
               inEchoes == \E i \in DOMAIN echoes : p = From[echoes[i]]
               isNext == p = From[Head(overflow)]
    <3>1. p \in waiting <=> inOverflow \/ inEchoes
      BY DEF RuleInv
    <3>2. inOverflow => ~inEchoes
      BY <2>2
    <3>3. inOverflow /\ ~isNext <=> \E i \in DOMAIN overflow' : p = From[overflow'[i]]
      BY <1>2
    <3>4. p \in waiting' <=> p \in waiting /\ ~isNext /\ ~inEchoes
      BY <2>1
    <3> HIDE DEF inOverflow, inEchoes, isNext
    <3> QED BY <3>1, <3>2, <3>3, <3>4
  <2>4. DOMAIN echoes' = {} /\ echoes' \in Seq(Spoken)
    BY <1>6
  <2> QED BY <1>1, <1>3, <2>3, <2>4 DEF RuleInv
<1> QED BY <1>5, <1>6

-----------------------------------------------------------------------------
(***************************************************************************)
(* The invariant is inductive.                                             *)
(***************************************************************************)

\* It holds at the start.
LEMMA InitIInv == Init => IInv
BY DEF Init, IInv, RuleInv, StreamInv, OriginInv, IdleOwesNothing, OriginStartedTurn

\* A turn that starts with nothing of a plugin's: what each way of starting
\* one leaves to the invariants of the stream and of the origin.
LEMMA StartKeeps ==
  ASSUME IInv, tui = "ready", tui' = "starting", streaming' = TRUE, turn' = "spawned",
         \/ UNCHANGED nextOrigin
         \/ /\ overflow # <<>>
            /\ started' = <<Head(overflow)>>
            /\ nextOrigin' = From[Head(overflow)]
  PROVE  StreamInv' /\ OriginInv'
<1>1. StreamInv'
  BY DEF StreamInv, IdleOwesNothing
<1>2. OriginInv'
  <2>1. nextOrigin = Nobody
    BY DEF IInv, OriginInv
  <2>2. CASE UNCHANGED nextOrigin
    BY <2>1, <2>2 DEF OriginInv, OriginStartedTurn
  <2>3. CASE /\ overflow # <<>>
             /\ started' = <<Head(overflow)>>
             /\ nextOrigin' = From[Head(overflow)]
    <3>1. Head(overflow) \in Spoken
      BY <2>3 DEF IInv, RuleInv
    <3>2. Head(overflow) \in ToSet(started')
      BY <2>3 DEF ToSet
    <3> QED BY <2>3, <3>1, <3>2 DEF OriginInv, OriginStartedTurn
  <2> QED BY <2>2, <2>3
<1> QED BY <1>1, <1>2

\* The actions of the turn's task, and the others that leave the plugins'
\* queues and the start of a turn alone.
LEMMA TurnKeeps ==
  ASSUME IInv, TurnStep
  PROVE  IInv'
<1>1. UNCHANGED <<overflow, echoes, waiting, origin, nextOrigin, tui, streaming, started>>
  BY DEF TurnStep, TurnStarts, Pump, Iterate, EndTurn, FailTurn, Return, TurnFrame,
         pluginVars, tuiVars
<1>2. RuleInv' /\ OriginInv'
  BY <1>1 DEF IInv, RuleInv, OriginInv, OriginStartedTurn, ToSet
<1>3. turn # "none" /\ turn' # "none"
  BY DEF TurnStep, TurnStarts, Pump, Iterate, EndTurn, FailTurn, Return
<1>4. StreamInv'
  BY <1>1, <1>3 DEF IInv, StreamInv, IdleOwesNothing
<1> QED BY <1>2, <1>4 DEF IInv

\* Every step keeps it.
LEMMA IInvStep == IInv /\ [Next]_vars => IInv'
<1> SUFFICES ASSUME IInv, [Next]_vars
             PROVE  IInv'
  OBVIOUS
<1>1. ASSUME NEW m \in Typed, Submit(m)
      PROVE  IInv'
  <2>1. RuleInv'
    BY <1>1 DEF Submit, Start, IInv, RuleInv
  <2>2. StreamInv' /\ OriginInv'
    BY <1>1, StartKeeps DEF Submit, Start
  <2> QED BY <2>1, <2>2 DEF IInv
<1>2. ASSUME NEW m \in Typed, TypeSteer(m)
      PROVE  IInv'
  <2>1. /\ UNCHANGED <<pluginVars, streaming, turn, started, pending>>
        /\ streaming /\ tui = "ready" /\ tui' \in {"ready", "sending"}
    BY <1>2 DEF TypeSteer
  <2> QED BY <2>1 DEF pluginVars, IInv, RuleInv, StreamInv, IdleOwesNothing, OriginInv,
                      OriginStartedTurn, ToSet
<1>3. ASSUME NEW m \in Spoken, PluginSend(m)
      PROVE  IInv'
  <2>1. RuleInv'
    BY <1>3, SendKeepsRule DEF IInv
  <2>2. UNCHANGED <<origin, nextOrigin, tui, streaming, turn, started, pending>>
    BY <1>3 DEF PluginSend, tuiVars
  <2> QED BY <2>1, <2>2 DEF IInv, StreamInv, IdleOwesNothing, OriginInv,
                            OriginStartedTurn, ToSet
<1>4. ASSUME NEW m \in Reports, Report(m)
      PROVE  IInv'
  BY <1>4 DEF Report, pluginVars, tuiVars, turnVars, IInv, RuleInv, StreamInv,
              IdleOwesNothing, OriginInv, OriginStartedTurn, ToSet
<1>5. CASE TickIdle
  <2>1. CASE StartPicked(<<>>, ToSet(echoes))
    <3>1. RuleInv'
      BY <1>5, <2>1, PickedTurn, HeadKeepsRule, EchoesKeepRule DEF TickIdle, IInv
    <3>2. StreamInv' /\ OriginInv'
      BY <1>5, <2>1, PickedTurn, StartKeeps DEF TickIdle
    <3> QED BY <3>1, <3>2 DEF IInv
  <2>2. CASE /\ waiting' = waiting \ HandedOver(ToSet(echoes))
             /\ UNCHANGED <<overflow, nextOrigin, tui, streaming, turn, started, pending>>
    <3>1. RuleInv'
      BY <1>5, <2>2, EchoesKeepRule DEF TickIdle, HandedOver, IInv
    <3> QED BY <1>5, <2>2, <3>1 DEF TickIdle, IInv, StreamInv, IdleOwesNothing,
                                    OriginInv, OriginStartedTurn, ToSet
  <2> QED BY <1>5, <2>1, <2>2 DEF TickIdle
<1>6. CASE TickStreaming
  <2>1. RuleInv'
    BY <1>6, EchoesKeepRule DEF TickStreaming, HandedOver, IInv
  <2>2. UNCHANGED <<origin, nextOrigin, tui, streaming, turn, started, pending>>
    BY <1>6 DEF TickStreaming
  <2> QED BY <2>1, <2>2 DEF IInv, StreamInv, IdleOwesNothing, OriginInv,
                            OriginStartedTurn, ToSet
<1>7. CASE Done
  <2>1. CASE StartPicked(pending, {})
    <3>1. ASSUME UNCHANGED overflow, waiting' = waiting \ {From[m] : m \in {}}
          PROVE  RuleInv'
      <4>1. UNCHANGED <<overflow, echoes, waiting>>
        BY <1>7, <3>1 DEF Done
      <4> QED BY <4>1 DEF IInv, RuleInv
    <3>2. ASSUME overflow # <<>>, overflow' = Tail(overflow),
                 waiting' = waiting \ {From[m] : m \in {} \cup {Head(overflow)}}
          PROVE  RuleInv'
      <4>1. UNCHANGED echoes
        BY <1>7 DEF Done
      <4> QED BY <3>2, <4>1, HeadKeepsRule DEF IInv
    <3>4. RuleInv'
      BY <2>1, <3>1, <3>2, PickedTurn
    <3>3. StreamInv' /\ OriginInv'
      BY <1>7, <2>1, PickedTurn, StartKeeps DEF Done
    <3> QED BY <3>4, <3>3 DEF IInv
  <2>2. CASE /\ Pick(<<pending, slot, reportSlot, outbox, overflow>>) = 0
             /\ streaming' = FALSE /\ turn' = "none"
             /\ UNCHANGED <<overflow, waiting, nextOrigin, tui, started, pending>>
    <3>1. pending = <<>>
      BY <2>2, PickNames
    <3>2. StreamInv'
      BY <1>7, <2>2, <3>1 DEF Done, StreamInv, IdleOwesNothing
    <3> QED BY <1>7, <2>2, <3>2 DEF Done, IInv, RuleInv, OriginInv, OriginStartedTurn, ToSet
  <2> QED BY <1>7, <2>1, <2>2 DEF Done
<1>8. CASE ResetTurn
  <2>1. /\ tui = "starting" /\ tui' = "installing"
        /\ origin' = nextOrigin /\ nextOrigin' = Nobody
        /\ UNCHANGED <<overflow, echoes, waiting, streaming, turn, started, pending>>
    BY <1>8 DEF ResetTurn, Promoted, turnVars
  <2> QED BY <2>1 DEF IInv, RuleInv, StreamInv, IdleOwesNothing, OriginInv,
                      OriginStartedTurn, ToSet
<1>9. CASE Install
  BY <1>9 DEF Install, turnVars, IInv, RuleInv, StreamInv, IdleOwesNothing, OriginInv,
              OriginStartedTurn, ToSet
<1>10. CASE SendReturns
  <2>1. /\ tui = "sending" /\ tui' = "ready"
        /\ UNCHANGED <<pluginVars, streaming, turn, started, pending>>
    BY <1>10 DEF SendReturns
  <2> QED BY <2>1 DEF pluginVars, IInv, RuleInv, StreamInv, IdleOwesNothing, OriginInv,
                      OriginStartedTurn, ToSet
<1>11. CASE TurnStep
  BY <1>11, TurnKeeps
<1>12. CASE UNCHANGED vars
  BY <1>12 DEF vars, pluginVars, tuiVars, turnVars, IInv, RuleInv, StreamInv,
               IdleOwesNothing, OriginInv, OriginStartedTurn, ToSet
<1> QED BY <1>1, <1>2, <1>3, <1>4, <1>5, <1>6, <1>7, <1>8, <1>9, <1>10, <1>11, <1>12
        DEF Next, TuiStep

\* So it holds in every reachable state.
THEOREM Invariance == Spec => []IInv
BY InitIInv, IInvStep, PTL DEF Spec

-----------------------------------------------------------------------------
(***************************************************************************)
(* Queues of texts: what they hold, and that no two texts share a message. *)
(***************************************************************************)
\* No message is in two texts of q.
Nested(q) == \A i, j \in DOMAIN q : i # j => ToSet(q[i]) \cap ToSet(q[j]) = {}

\* Concatenation, element by element.
LEMMA ConcatIs ==
  ASSUME NEW T, NEW s \in Seq(T), NEW t \in Seq(T)
  PROVE  /\ s \o t \in Seq(T) /\ Len(s) \in Nat
         /\ \A i \in DOMAIN s : i \in DOMAIN (s \o t) /\ (s \o t)[i] = s[i]
         /\ \A j \in DOMAIN t : Len(s) + j \in DOMAIN (s \o t) /\ (s \o t)[Len(s) + j] = t[j]
         /\ \A i \in DOMAIN (s \o t) : i \in DOMAIN s \/ \E j \in DOMAIN t : i = Len(s) + j
<1>1. /\ s \o t \in Seq(T) /\ Len(s \o t) = Len(s) + Len(t)
      /\ \A i \in 1 .. Len(s) + Len(t) :
           (s \o t)[i] = IF i <= Len(s) THEN s[i] ELSE t[i - Len(s)]
  BY ConcatProperties
<1>2. /\ DOMAIN s = 1 .. Len(s) /\ DOMAIN t = 1 .. Len(t) /\ Len(s) \in Nat /\ Len(t) \in Nat
      /\ DOMAIN (s \o t) = 1 .. Len(s) + Len(t)
  BY <1>1, LenProperties
<1> DEFINE r == s \o t
<1> HIDE DEF r
<1>3. \A i \in DOMAIN s : i \in DOMAIN r /\ r[i] = s[i]
  BY <1>1, <1>2 DEF r
<1>4. \A j \in DOMAIN t : Len(s) + j \in DOMAIN r /\ r[Len(s) + j] = t[j]
  BY <1>1, <1>2 DEF r
<1>5. ASSUME NEW i \in DOMAIN r PROVE i \in DOMAIN s \/ \E j \in DOMAIN t : i = Len(s) + j
  <2>1. i \in 1 .. Len(s) \/ (i - Len(s) \in 1 .. Len(t) /\ i = Len(s) + (i - Len(s)))
    BY <1>2 DEF r
  <2>2. QED
    BY <1>2, <2>1
<1>6. QED
  BY <1>1, <1>2, <1>3, <1>4, <1>5 DEF r

\* Queues that share no message are put behind one another.
LEMMA QueueConcat ==
  ASSUME NEW s \in Seq(Texts), NEW t \in Seq(Texts)
  PROVE  /\ s \o t \in Seq(Texts)
         /\ MsgsOf(s \o t) = MsgsOf(s) \cup MsgsOf(t)
         /\ Nested(s) /\ Nested(t) /\ MsgsOf(s) \cap MsgsOf(t) = {} => Nested(s \o t)
<1> DEFINE r == s \o t
<1>1. /\ r \in Seq(Texts)
      /\ \A i \in DOMAIN s : i \in DOMAIN r /\ r[i] = s[i]
      /\ \A j \in DOMAIN t : \E i \in DOMAIN r : r[i] = t[j]
  <2>1. /\ r \in Seq(Texts)
        /\ \A i \in DOMAIN s : i \in DOMAIN r /\ r[i] = s[i]
        /\ \A j \in DOMAIN t : Len(s) + j \in DOMAIN r /\ r[Len(s) + j] = t[j]
    BY ConcatIs
  <2> HIDE DEF r
  <2>2. QED
    BY <2>1
<1>2. \A i \in DOMAIN r : (i \in DOMAIN s /\ r[i] = s[i])
                          \/ \E j \in DOMAIN t : i = Len(s) + j /\ r[i] = t[j]
  <2>1. /\ \A i \in DOMAIN s : r[i] = s[i]
        /\ \A j \in DOMAIN t : r[Len(s) + j] = t[j]
        /\ \A i \in DOMAIN r : i \in DOMAIN s \/ \E j \in DOMAIN t : i = Len(s) + j
    BY ConcatIs
  <2> HIDE DEF r
  <2>2. QED
    BY <2>1
<1> HIDE DEF r
<1>3. MsgsOf(r) = MsgsOf(s) \cup MsgsOf(t)
  BY <1>1, <1>2 DEF MsgsOf
<1>4. ASSUME Nested(s), Nested(t), MsgsOf(s) \cap MsgsOf(t) = {} PROVE Nested(r)
  <2>1. ASSUME NEW i \in DOMAIN r, NEW j \in DOMAIN r, i # j
        PROVE  ToSet(r[i]) \cap ToSet(r[j]) = {}
    <3>1. CASE i \in DOMAIN s /\ r[i] = s[i] /\ j \in DOMAIN s /\ r[j] = s[j]
      BY <1>4, <2>1, <3>1 DEF Nested
    <3>2. ASSUME NEW k \in DOMAIN s, NEW l \in DOMAIN t
          PROVE  ToSet(s[k]) \cap ToSet(t[l]) = {}
      BY <1>4 DEF MsgsOf
    <3>3. ASSUME NEW k \in DOMAIN t, NEW l \in DOMAIN t, i = Len(s) + k, j = Len(s) + l
          PROVE  ToSet(t[k]) \cap ToSet(t[l]) = {}
      BY <1>4, <2>1, <3>3 DEF Nested
    <3>4. QED
      BY <1>2, <3>1, <3>2, <3>3
  <2>2. QED
    BY <2>1 DEF Nested
<1>5. QED
  BY <1>1, <1>3, <1>4 DEF r

\* A queue of one text.
LEMMA QueueOne ==
  ASSUME NEW t \in Texts
  PROVE  <<t>> \in Seq(Texts) /\ MsgsOf(<<t>>) = ToSet(t) /\ Nested(<<t>>)
BY DEF MsgsOf, Nested

\* One more message in a queue of messages.
LEMMA SetAppend ==
  ASSUME NEW T, NEW q \in Seq(T), NEW m \in T
  PROVE  Append(q, m) \in Seq(T) /\ ToSet(Append(q, m)) = ToSet(q) \cup {m}
<1> DEFINE r == Append(q, m)
           n == Len(q)
<1>1. /\ r \in Seq(T) /\ n \in Nat /\ DOMAIN q = 1 .. n /\ DOMAIN r = 1 .. n + 1
      /\ \A i \in 1 .. n : r[i] = q[i]
      /\ r[n + 1] = m
  OBVIOUS
<1> HIDE DEF r, n
<1>2. \A i \in DOMAIN r : i \in DOMAIN q \/ i = n + 1
  BY <1>1
<1>3. (\A i \in DOMAIN q : i \in DOMAIN r) /\ n + 1 \in DOMAIN r
  BY <1>1
<1>4. QED
  BY <1>1, <1>2, <1>3 DEF ToSet, r

\* A text that shares nothing with those of a queue goes to its end.
LEMMA QueueAppend ==
  ASSUME NEW q \in Seq(Texts), NEW t \in Texts, Nested(q), MsgsOf(q) \cap ToSet(t) = {}
  PROVE  /\ Append(q, t) \in Seq(Texts) /\ Nested(Append(q, t))
         /\ MsgsOf(Append(q, t)) = MsgsOf(q) \cup ToSet(t)
<1>1. Append(q, t) = q \o <<t>>
  OBVIOUS
<1>2. <<t>> \in Seq(Texts) /\ MsgsOf(<<t>>) = ToSet(t) /\ Nested(<<t>>)
  BY QueueOne
<1>3. QED
  BY <1>1, <1>2, QueueConcat

\* The first text leaves a queue.
LEMMA QueueTail ==
  ASSUME NEW q \in Seq(Texts), q # <<>>
  PROVE  /\ Tail(q) \in Seq(Texts) /\ Head(q) \in Texts
         /\ MsgsOf(q) = ToSet(Head(q)) \cup MsgsOf(Tail(q))
         /\ Nested(q) => Nested(Tail(q)) /\ ToSet(Head(q)) \cap MsgsOf(Tail(q)) = {}
<1> DEFINE t == Tail(q)
<1>1. /\ t \in Seq(Texts) /\ Head(q) = q[1] /\ Len(q) \in Nat \ {0}
      /\ DOMAIN q = 1 .. Len(q) /\ DOMAIN t = 1 .. Len(q) - 1
      /\ \A i \in DOMAIN t : t[i] = q[i + 1]
  OBVIOUS
<1> HIDE DEF t
<1>2. 1 \in DOMAIN q /\ q[1] \in Texts
  BY <1>1
<1>3. \A i \in DOMAIN t : i + 1 \in DOMAIN q /\ i + 1 # 1 /\ t[i] = q[i + 1]
  BY <1>1
<1>4. \A i \in DOMAIN q : i = 1 \/ \E k \in DOMAIN t : i = k + 1
  <2>1. \A i \in DOMAIN q : i = 1 \/ (i - 1 \in DOMAIN t /\ i = (i - 1) + 1)
    BY <1>1
  <2>2. QED
    BY <2>1
<1>5. MsgsOf(q) = ToSet(Head(q)) \cup MsgsOf(t)
  BY <1>1, <1>2, <1>3, <1>4 DEF MsgsOf
<1>6. ASSUME Nested(q) PROVE Nested(t) /\ ToSet(Head(q)) \cap MsgsOf(t) = {}
  <2>1. Nested(t)
    <3>1. \A i, j \in DOMAIN t : i # j => i + 1 # j + 1
      BY <1>1
    <3>2. QED
      BY <1>3, <1>6, <3>1 DEF Nested
  <2>2. ToSet(Head(q)) \cap MsgsOf(t) = {}
    BY <1>1, <1>2, <1>3, <1>6 DEF Nested, MsgsOf
  <2>3. QED
    BY <2>1, <2>2
<1>7. QED
  BY <1>1, <1>2, <1>5, <1>6 DEF t

\* Texts of steers, and of the follow-ups among them.
SteerMsgs == [kind : {"steering", "follow_up"}, text : Texts]

\* One more steer, and its text.
LEMMA TextsOfAppend ==
  ASSUME NEW c \in Seq(SteerMsgs), NEW x \in SteerMsgs
  PROVE  /\ TextsOf(c) \in Seq(Texts) /\ x.text \in Texts
         /\ TextsOf(Append(c, x)) = TextsOf(c) \o <<x.text>>
<1>1. x.text \in Texts /\ \A i \in DOMAIN c : c[i].text \in Texts
  <2>1. \A i \in DOMAIN c : c[i] \in SteerMsgs
    OBVIOUS
  <2>2. \A y \in SteerMsgs : y.text \in Texts
    BY DEF SteerMsgs
  <2>3. QED
    BY <2>1, <2>2
<1>2. DOMAIN c = 1 .. Len(c) /\ Len(c) \in Nat
  OBVIOUS
<1>3. TextsOf(c) \in Seq(Texts) /\ Len(TextsOf(c)) = Len(c)
  <2>1. TextsOf(c) = [i \in 1 .. Len(c) |-> c[i].text]
    BY <1>2 DEF TextsOf
  <2> DEFINE t == [i \in 1 .. Len(c) |-> c[i].text]
  <2>2. \A i \in 1 .. Len(c) : t[i] \in Texts
    BY <1>1, <1>2
  <2>3. t \in [1 .. Len(c) -> Texts]
    BY <2>2
  <2> HIDE DEF t
  <2>4. t \in Seq(Texts) /\ Len(t) = Len(c)
    BY <1>2, <2>3, IsASeq, LenProperties
  <2>5. QED
    BY <2>1, <2>4 DEF t
<1>4. TextsOf(Append(c, x)) = TextsOf(c) \o <<x.text>>
  <2> DEFINE d == Append(c, x)
             n == Len(c)
  <2>1. /\ DOMAIN d = 1 .. n + 1 /\ \A i \in 1 .. n : d[i] = c[i]
        /\ d[n + 1] = x
    BY AppendProperties
  <2> DEFINE t == TextsOf(d)
             u == TextsOf(c) \o <<x.text>>
  <2>2. \A i \in 1 .. n + 1 : t[i] = d[i].text
    BY <2>1 DEF TextsOf
  <2>3. \A i \in 1 .. n : TextsOf(c)[i] = c[i].text
    BY <1>2 DEF TextsOf
  <2>4. u \in Seq(Texts) /\ Len(u) = n + 1
        /\ \A i \in 1 .. n + 1 : u[i] = IF i <= n THEN TextsOf(c)[i] ELSE x.text
    BY <1>1, <1>3, ConcatProperties
  <2>5. DOMAIN t = 1 .. n + 1 /\ t = [i \in 1 .. n + 1 |-> t[i]]
    BY <2>1 DEF TextsOf
  <2>6. DOMAIN u = 1 .. n + 1 /\ u = [i \in 1 .. n + 1 |-> u[i]]
    BY <2>4
  <2>7. \A i \in 1 .. n + 1 : u[i] = t[i]
    <3> HIDE DEF d, t, u
    <3>1. \A i \in 1 .. n + 1 : i \in 1 .. n \/ (i = n + 1 /\ ~(i <= n))
      BY <1>2
    <3>2. \A i \in 1 .. n : i <= n /\ i \in 1 .. n + 1
      BY <1>2
    <3>3. QED
      BY <2>1, <2>2, <2>3, <2>4, <3>1, <3>2
  <2> HIDE DEF t, u
  <2>8. t = u
    BY <2>5, <2>6, <2>7
  <2>9. QED
    BY <2>8 DEF t, u
<1>5. QED
  BY <1>1, <1>3, <1>4

\* The filter of the pump, as its loop goes.
IsFiltered(f, c, n) ==
  f = [k \in 0 .. n |->
        IF k = 0 THEN <<>>
        ELSE IF c[k].kind = "follow_up" THEN Append(f[k - 1], c[k].text)
        ELSE f[k - 1]]

\* A non-empty set of naturals has a least element.
LEMMA LeastNat ==
  ASSUME NEW T \in SUBSET Nat, T # {}
  PROVE  \E m \in T : \A n \in T : m <= n
<1>1. IsWellFoundedOn(OpToRel(<, Nat), Nat)
  BY NatLessThanWellFounded
<1>2. PICK m \in T : \A n \in T : <<n, m>> \notin OpToRel(<, Nat)
  BY <1>1, WFMin
<1>3. \A n \in T : ~(n < m)
  BY <1>2 DEF OpToRel
<1>4. QED
  BY <1>3

\* Induction, for the sets that the provers can name.
LEMMA NatInduct ==
  ASSUME NEW S, 0 \in S, \A n \in Nat : n \in S => n + 1 \in S
  PROVE  Nat \subseteq S
<1> SUFFICES ASSUME Nat \ S # {} PROVE FALSE
  OBVIOUS
<1>1. PICK m \in Nat \ S : \A n \in Nat \ S : m <= n
  BY LeastNat
<1>2. m - 1 \in Nat
  BY <1>1
<1>3. QED
  BY <1>1, <1>2

\* Such a function exists for every channel.
LEMMA FilterExists ==
  ASSUME NEW c, NEW n \in Nat
  PROVE  \E f : IsFiltered(f, c, n)
<1> DEFINE After(q, k) == IF c[k].kind = "follow_up" THEN Append(q, c[k].text) ELSE q
           S == {k \in Nat : \E f : IsFiltered(f, c, k)}
<1>1. \A f, k : IsFiltered(f, c, k) <=>
        f = [i \in 0 .. k |-> IF i = 0 THEN <<>> ELSE After(f[i - 1], i)]
  BY DEF IsFiltered
<1> HIDE DEF After
<1>2. 0 \in S
  <2>1. [i \in 0 .. 0 |-> <<>>] = [i \in 0 .. 0 |-> IF i = 0 THEN <<>>
                                     ELSE After([j \in 0 .. 0 |-> <<>>][i - 1], i)]
    OBVIOUS
  <2>2. QED
    BY <1>1, <2>1
<1>3. ASSUME NEW k \in Nat, k \in S PROVE k + 1 \in S
  <2>1. PICK f : f = [i \in 0 .. k |-> IF i = 0 THEN <<>> ELSE After(f[i - 1], i)]
    BY <1>1, <1>3
  <2> DEFINE g == [i \in 0 .. k + 1 |-> IF i = k + 1 THEN After(f[k], k + 1) ELSE f[i]]
  <2>2. \A i \in 0 .. k : g[i] = f[i]
    OBVIOUS
  <2>3. \A i \in 0 .. k : f[i] = IF i = 0 THEN <<>> ELSE After(f[i - 1], i)
    BY <2>1
  <2>4. g[k + 1] = After(f[k], k + 1)
    OBVIOUS
  <2>5. DOMAIN g = 0 .. k + 1 /\ g = [i \in 0 .. k + 1 |-> g[i]]
    OBVIOUS
  <2> HIDE DEF g
  <2>6. \A i \in 0 .. k + 1 : g[i] = IF i = 0 THEN <<>> ELSE After(g[i - 1], i)
    <3> SUFFICES ASSUME NEW i \in 0 .. k + 1
                 PROVE  g[i] = IF i = 0 THEN <<>> ELSE After(g[i - 1], i)
      OBVIOUS
    <3>1. CASE i = k + 1
      <4>1. i - 1 = k /\ i # 0 /\ k \in 0 .. k
        BY <3>1
      <4>2. QED
        BY <2>2, <2>4, <3>1, <4>1
    <3>2. CASE i \in 0 .. k
      <4>1. i # 0 => i - 1 \in 0 .. k
        BY <3>2
      <4>2. QED
        BY <2>2, <2>3, <3>2, <4>1
    <3>3. QED
      BY <3>1, <3>2
  <2>7. g = [i \in 0 .. k + 1 |-> IF i = 0 THEN <<>> ELSE After(g[i - 1], i)]
    BY <2>5, <2>6
  <2>8. IsFiltered(g, c, k + 1)
    BY <1>1, <2>7
  <2>9. QED
    BY <2>8
<1> HIDE DEF S
<1>4. Nat \subseteq S
  BY <1>2, <1>3, NatInduct
<1>5. QED
  BY <1>4 DEF S

\* What the pump queues: the texts of the follow-ups, apart if all were.
LEMMA FollowUpsAre ==
  ASSUME NEW c \in Seq(SteerMsgs), Nested(TextsOf(c))
  PROVE  /\ FollowUpsOf(c) \in Seq(Texts) /\ Nested(FollowUpsOf(c))
         /\ MsgsOf(TextsOf(c)) = MsgsOf(FollowUpsOf(c)) \cup SteersOf(c)
         /\ MsgsOf(FollowUpsOf(c)) \cap SteersOf(c) = {}
<1> DEFINE f == CHOOSE g : IsFiltered(g, c, Len(c))
           Of(n) == UNION {ToSet(c[i].text) : i \in {j \in 1 .. n : c[j].kind = "follow_up"}}
           S == {n \in Nat : n <= Len(c) =>
                   /\ f[n] \in Seq(Texts) /\ Nested(f[n])
                   /\ MsgsOf(f[n]) = Of(n)}
<1>1. Len(c) \in Nat /\ DOMAIN c = 1 .. Len(c) /\ \A i \in 1 .. Len(c) : c[i] \in SteerMsgs
  OBVIOUS
<1>2. IsFiltered(f, c, Len(c))
  BY <1>1, FilterExists
<1>3. FollowUpsOf(c) = f[Len(c)]
  BY DEF FollowUpsOf, IsFiltered
<1> HIDE DEF f
<1>4. \A n \in 0 .. Len(c) :
        f[n] = IF n = 0 THEN <<>>
               ELSE IF c[n].kind = "follow_up" THEN Append(f[n - 1], c[n].text)
               ELSE f[n - 1]
  BY <1>2 DEF IsFiltered
<1>5. \A i, j \in 1 .. Len(c) : i # j => ToSet(c[i].text) \cap ToSet(c[j].text) = {}
  BY <1>1 DEF Nested, TextsOf
<1>6. \A i \in 1 .. Len(c) : c[i].text \in Texts /\ c[i].kind \in {"steering", "follow_up"}
  BY <1>1 DEF SteerMsgs
<1>a. \A n, m : m \in Of(n) <=>
        \E i \in 1 .. n : c[i].kind = "follow_up" /\ m \in ToSet(c[i].text)
  OBVIOUS
<1>7. 0 \in S
  <2>1. f[0] = <<>>
    BY <1>1, <1>4
  <2>2. <<>> \in Seq(Texts) /\ Nested(<<>>) /\ MsgsOf(<<>>) = {}
    BY DEF Nested, MsgsOf
  <2>3. Of(0) = {}
    OBVIOUS
  <2> HIDE DEF Of
  <2>4. QED
    BY <2>1, <2>2, <2>3
<1>8. ASSUME NEW n \in Nat, n \in S PROVE n + 1 \in S
  <2> SUFFICES ASSUME n + 1 <= Len(c)
               PROVE  /\ f[n + 1] \in Seq(Texts) /\ Nested(f[n + 1])
                      /\ MsgsOf(f[n + 1]) = Of(n + 1)
    OBVIOUS
  <2>1. f[n] \in Seq(Texts) /\ Nested(f[n]) /\ MsgsOf(f[n]) = Of(n)
    BY <1>1, <1>8
  <2>2. n + 1 \in 1 .. Len(c) /\ n + 1 \in 0 .. Len(c) /\ (n + 1) - 1 = n /\ n + 1 # 0
    BY <1>1
  <2>3. f[n + 1] = IF c[n + 1].kind = "follow_up" THEN Append(f[n], c[n + 1].text) ELSE f[n]
    BY <1>4, <2>2
  <2>4. 1 .. n + 1 = (1 .. n) \cup {n + 1} /\ n + 1 \notin 1 .. n /\ 1 .. n \subseteq 1 .. Len(c)
    BY <1>1
  <2>5. Of(n + 1) = IF c[n + 1].kind = "follow_up" THEN Of(n) \cup ToSet(c[n + 1].text) ELSE Of(n)
    BY <2>4
  <2> HIDE DEF Of
  <2>6. Of(n) \cap ToSet(c[n + 1].text) = {}
    <3>1. \A i \in 1 .. n : ToSet(c[i].text) \cap ToSet(c[n + 1].text) = {}
      BY <1>5, <2>2, <2>4
    <3>2. QED
      BY <1>a, <3>1
  <2>7. CASE c[n + 1].kind = "follow_up"
    <3> DEFINE t == c[n + 1].text
    <3>1. t \in Texts
      BY <1>6, <2>2
    <3>2. <<t>> \in Seq(Texts) /\ MsgsOf(<<t>>) = ToSet(t) /\ Nested(<<t>>)
      BY <3>1, QueueOne
    <3>3. Append(f[n], t) = f[n] \o <<t>>
      BY <2>1, <3>1, AppendIsConcat
    <3> HIDE DEF t
    <3>4. /\ f[n] \o <<t>> \in Seq(Texts)
          /\ MsgsOf(f[n] \o <<t>>) = MsgsOf(f[n]) \cup MsgsOf(<<t>>)
          /\ MsgsOf(f[n]) \cap MsgsOf(<<t>>) = {} => Nested(f[n] \o <<t>>)
      BY <2>1, <3>2, QueueConcat
    <3>5. f[n + 1] = f[n] \o <<t>>
      BY <2>3, <2>7, <3>3 DEF t
    <3>6. Of(n + 1) = Of(n) \cup ToSet(t) /\ Of(n) \cap ToSet(t) = {}
      BY <2>5, <2>6, <2>7 DEF t
    <3>7. QED
      BY <2>1, <3>2, <3>4, <3>5, <3>6
  <2>8. CASE c[n + 1].kind # "follow_up"
    BY <2>1, <2>3, <2>5, <2>8
  <2>9. QED
    BY <2>7, <2>8
<1>9. Nat \subseteq S
  <2> HIDE DEF S
  <2>1. QED
    BY <1>7, <1>8, NatInduct
<1>10. /\ FollowUpsOf(c) \in Seq(Texts) /\ Nested(FollowUpsOf(c))
       /\ MsgsOf(FollowUpsOf(c)) = Of(Len(c))
  <2> HIDE DEF Of
  <2>1. Len(c) \in S /\ Len(c) <= Len(c)
    BY <1>1, <1>9
  <2>2. QED
    BY <1>3, <2>1
<1>11. MsgsOf(TextsOf(c)) = Of(Len(c)) \cup SteersOf(c)
  BY <1>1, <1>6 DEF MsgsOf, TextsOf, SteersOf
<1>12. Of(Len(c)) \cap SteersOf(c) = {}
  <2>1. \A m : m \in SteersOf(c) <=>
          \E i \in 1 .. Len(c) : c[i].kind = "steering" /\ m \in ToSet(c[i].text)
    BY <1>1 DEF SteersOf
  <2> HIDE DEF Of
  <2>2. QED
    BY <1>5, <1>a, <2>1
<1>13. QED
  BY <1>10, <1>11, <1>12

-----------------------------------------------------------------------------
(***************************************************************************)
(* Where texts are: the rest of the inductive invariant.                   *)
(***************************************************************************)
InChan == MsgsOf(TextsOf(chan))

\* The turn's text has been read once the turn is under way; what its channel
\* and its queue still hold after a way out that reads neither is exposed.
TurnInv ==
  /\ turn # "spawned" => ToSet(started) \subseteq reached
  /\ turn \in {"none", "spawned", "drained", "over"} => queue = <<>>
  /\ turn \in {"none", "over"} => chan = <<>>
  /\ Unread => InChan \cup MsgsOf(queue) \subseteq exposed
  /\ tui = "sending" => \E m \in Typed : holding = <<m>>

\* What waits anywhere was said.
SentInv ==
  /\ ToSet(outbox) \cup ToSet(overflow) \cup ToSet(echoes) \cup ToSet(holding) \subseteq sent
  /\ MsgsOf(slot) \cup MsgsOf(reportSlot) \cup InChan \subseteq sent
  /\ MsgsOf(queue) \cup MsgsOf(pending) \cup Starting \subseteq sent

\* No message is in two texts of a queue.
NestedInv ==
  /\ Nested(slot) /\ Nested(reportSlot) /\ Nested(TextsOf(chan))
  /\ Nested(queue) /\ Nested(pending)

\* Of the eleven places no two share a message.
Separate ==
  /\ ToSet(outbox) \cap (ToSet(overflow) \cup ToSet(holding) \cup MsgsOf(slot)
       \cup MsgsOf(reportSlot) \cup InChan \cup MsgsOf(queue) \cup MsgsOf(pending) \cup Starting
       \cup reached \cup lost) = {}
  /\ ToSet(overflow) \cap (ToSet(holding) \cup MsgsOf(slot) \cup MsgsOf(reportSlot) \cup InChan
       \cup MsgsOf(queue) \cup MsgsOf(pending) \cup Starting \cup reached \cup lost) = {}
  /\ ToSet(holding) \cap (MsgsOf(slot) \cup MsgsOf(reportSlot) \cup InChan \cup MsgsOf(queue)
       \cup MsgsOf(pending) \cup Starting \cup reached \cup lost) = {}
  /\ MsgsOf(slot) \cap (MsgsOf(reportSlot) \cup InChan \cup MsgsOf(queue) \cup MsgsOf(pending)
       \cup Starting \cup reached \cup lost) = {}
  /\ MsgsOf(reportSlot) \cap (InChan \cup MsgsOf(queue) \cup MsgsOf(pending) \cup Starting
       \cup reached \cup lost) = {}
  /\ InChan \cap (MsgsOf(queue) \cup MsgsOf(pending) \cup Starting \cup reached \cup lost) = {}
  /\ MsgsOf(queue) \cap (MsgsOf(pending) \cup Starting \cup reached \cup lost) = {}
  /\ MsgsOf(pending) \cap (Starting \cup reached \cup lost) = {}
  /\ Starting \cap (reached \cup lost) = {}
  /\ reached \cap lost = {}

\* What was said is in one of them, or was exposed.
Covered ==
  sent \subseteq exposed \cup ToSet(outbox) \cup ToSet(overflow) \cup ToSet(holding)
    \cup MsgsOf(slot) \cup MsgsOf(reportSlot) \cup InChan \cup MsgsOf(queue) \cup MsgsOf(pending)
    \cup Starting \cup reached

EchoInv == EchoMeansSent /\ Starting \subseteq Reports \cup shown \cup ToSet(echoes)

TextsInv == TypeOK /\ TurnInv /\ SentInv /\ NestedInv /\ Separate /\ Covered /\ EchoInv

\* It holds at the start.
LEMMA InitTexts == Init => TextsInv
<1> SUFFICES ASSUME Init PROVE TextsInv
  OBVIOUS
<1>1. ToSet(<<>>) = {} /\ MsgsOf(<<>>) = {} /\ TextsOf(<<>>) = <<>> /\ Nested(<<>>)
  BY DEF ToSet, MsgsOf, TextsOf, Nested
<1>2. /\ ToSet(outbox) = {} /\ ToSet(overflow) = {} /\ ToSet(echoes) = {} /\ ToSet(holding) = {}
      /\ MsgsOf(slot) = {} /\ MsgsOf(reportSlot) = {} /\ InChan = {} /\ MsgsOf(queue) = {}
      /\ MsgsOf(pending) = {} /\ Starting = {} /\ ToSet(started) = {}
  BY <1>1 DEF Init, InChan, Starting
<1>3. TypeOK
  <2>1. \A T : <<>> \in Seq(T)
    OBVIOUS
  <2>2. Len(<<>>) <= Cap /\ <<>> \in Texts /\ ToSet(<<>>) = {}
    BY SteeringAssumption DEF Texts, ToSet
  <2>3. QED
    BY <2>1, <2>2 DEF Init, TypeOK
<1>4. TurnInv /\ NestedInv
  BY <1>1, <1>2 DEF Init, TurnInv, NestedInv, Unread
<1>5. SentInv /\ Covered
  BY <1>2 DEF Init, SentInv, Covered
<1>6. Separate
  BY <1>2 DEF Init, Separate
<1>7. EchoInv
  BY <1>2 DEF Init, EchoInv, EchoMeansSent, InChan
<1>8. QED
  BY <1>3, <1>4, <1>5, <1>6, <1>7 DEF TextsInv

-----------------------------------------------------------------------------
\* What the pieces of the state are, and how they are written.
LEMMA TextsFacts ==
  ASSUME TypeOK
  PROVE  /\ outbox \in Texts /\ ToSet(outbox) \subseteq Reports
         /\ chan \in Seq(SteerMsgs) /\ TextsOf(chan) \in Seq(Texts)
         /\ ToSet(<<>>) = {} /\ MsgsOf(<<>>) = {} /\ Nested(<<>>) /\ TextsOf(<<>>) = <<>>
         /\ \A m : ToSet(<<m>>) = {m}
         /\ \A m \in Msgs : <<m>> \in Texts
<1>1. outbox \in Seq(Reports) /\ chan \in Seq(SteerMsgs)
  BY DEF TypeOK, SteerMsgs
<1>2. ToSet(outbox) \subseteq Reports
  BY <1>1 DEF ToSet
<1>3. outbox \in Texts
  <2>1. Reports \subseteq Msgs
    BY DEF Msgs
  <2>2. outbox \in [1 .. Len(outbox) -> Reports] /\ Len(outbox) \in Nat
    BY <1>1
  <2>3. outbox \in [1 .. Len(outbox) -> Msgs]
    BY <2>1, <2>2
  <2>4. QED
    BY <2>2, <2>3 DEF Texts
<1>4. TextsOf(chan) \in Seq(Texts)
  <2> DEFINE n == Len(chan)
  <2>1. n \in Nat /\ DOMAIN chan = 1 .. n /\ \A i \in 1 .. n : chan[i] \in SteerMsgs
    BY <1>1
  <2>2. \A x \in SteerMsgs : x.text \in Texts
    BY DEF SteerMsgs
  <2> HIDE DEF n
  <2>3. TextsOf(chan) \in [1 .. n -> Texts]
    BY <2>1, <2>2 DEF TextsOf
  <2>4. QED
    BY <2>1, <2>3
<1>5. ToSet(<<>>) = {} /\ MsgsOf(<<>>) = {} /\ Nested(<<>>) /\ TextsOf(<<>>) = <<>>
      /\ \A m : ToSet(<<m>>) = {m}
  BY DEF ToSet, MsgsOf, TextsOf, Nested
<1>6. \A m \in Msgs : <<m>> \in Texts
  BY DEF Texts
<1>7. QED
  BY <1>1, <1>2, <1>3, <1>4, <1>5, <1>6

\* A send that lands.
LEMMA IntoIs ==
  ASSUME TypeOK, NestedInv, NEW kind \in {"steering", "follow_up"}, NEW t \in Texts,
         Into([kind |-> kind, text |-> t]), InChan \cap ToSet(t) = {}
  PROVE  /\ rx /\ chan' \in Seq(SteerMsgs) /\ Len(chan') <= Cap
         /\ InChan' = InChan \cup ToSet(t) /\ Nested(TextsOf(chan)')
         /\ exposed' = IF Unread THEN exposed \cup ToSet(t) ELSE exposed
<1> DEFINE s == [kind |-> kind, text |-> t]
<1>1. s \in SteerMsgs /\ s.text = t
  BY DEF SteerMsgs
<1>2. /\ rx /\ Len(chan) < Cap /\ chan' = Append(chan, s)
      /\ exposed' = IF Unread THEN exposed \cup ToSet(t) ELSE exposed
  BY <1>1 DEF Into, Room
<1> HIDE DEF s
<1>3. chan \in Seq(SteerMsgs) /\ Len(chan) \in Nat /\ Cap \in Nat
  BY TextsFacts, SteeringAssumption
<1>4. chan' \in Seq(SteerMsgs) /\ Len(chan') = Len(chan) + 1
  BY <1>1, <1>2, <1>3, AppendProperties
<1>5. TextsOf(chan') = TextsOf(chan) \o <<t>> /\ TextsOf(chan) \in Seq(Texts)
  BY <1>1, <1>2, <1>3, TextsOfAppend
<1>6. <<t>> \in Seq(Texts) /\ MsgsOf(<<t>>) = ToSet(t) /\ Nested(<<t>>)
  BY QueueOne
<1>7. MsgsOf(TextsOf(chan')) = MsgsOf(TextsOf(chan)) \cup ToSet(t) /\ Nested(TextsOf(chan'))
  BY <1>5, <1>6, QueueConcat DEF NestedInv, InChan
<1>8. Len(chan') <= Cap
  BY <1>2, <1>3, <1>4
<1>9. QED
  BY <1>2, <1>4, <1>7, <1>8 DEF InChan

\* The steps of the turn's task.
LEMMA TurnKeepsTexts ==
  ASSUME TextsInv, TurnStep
  PROVE  TextsInv'
<1> USE DEF TurnFrame, pluginVars, tuiVars
<1>1. /\ TypeOK /\ TurnInv /\ SentInv /\ NestedInv /\ Separate /\ Covered /\ EchoInv
      /\ TextsOf(<<>>) = <<>> /\ MsgsOf(<<>>) = {} /\ Nested(<<>>)
      /\ chan \in Seq(SteerMsgs) /\ TextsOf(chan) \in Seq(Texts)
  BY TextsFacts DEF TextsInv
\* The text of the turn is read, if it had not been.
<1>2. reached \cup ToSet(started) = reached \cup Starting
  BY <1>1 DEF TurnInv, Starting
<1>3. CASE TurnStarts
  <2>1. /\ turn = "spawned" /\ turn' = "top" /\ reached' = reached \cup Starting /\ Starting' = {}
        /\ InChan' = InChan
        /\ UNCHANGED <<sent, outbox, overflow, echoes, waiting, origin, nextOrigin, sink,
                       tui, streaming, holding, slot, reportSlot, shown,
                       started, chan, rx, queue, pending, lost, exposed>>
    BY <1>3 DEF TurnStarts, Starting, InChan
  <2>2. TypeOK'
    BY <1>1, <2>1 DEF TypeOK, SentInv
  <2>3. TurnInv'
    BY <1>1, <1>3, <2>1 DEF TurnStarts, TurnInv, Unread
  <2>4. SentInv' /\ NestedInv'
    BY <1>1, <2>1 DEF SentInv, NestedInv
  <2>5. Separate'
    BY <1>1, <2>1 DEF Separate
  <2>6. Covered' /\ EchoInv'
    BY <1>1, <2>1 DEF Covered, EchoInv, EchoMeansSent, InChan
  <2>7. QED
    BY <2>2, <2>3, <2>4, <2>5, <2>6 DEF TextsInv
<1>4. CASE Pump
  <2> DEFINE steers == SteersOf(chan)
             ups == FollowUpsOf(chan)
  <2>1. /\ turn = "top" /\ turn' = "busy" /\ reached' = reached \cup steers
        /\ queue' = queue \o ups /\ chan' = <<>>
        /\ UNCHANGED <<sent, outbox, overflow, echoes, waiting, origin, nextOrigin, sink,
                       tui, streaming, holding, slot, reportSlot, shown,
                       started, rx, pending, lost, exposed>>
    BY <1>4 DEF Pump
  <2>2. /\ ups \in Seq(Texts) /\ Nested(ups) /\ InChan = MsgsOf(ups) \cup steers
        /\ MsgsOf(ups) \cap steers = {}
    BY <1>1, FollowUpsAre DEF NestedInv, InChan
  <2> HIDE DEF steers, ups
  <2>3. queue \in Seq(Texts) /\ Nested(queue) /\ MsgsOf(queue) \cap MsgsOf(ups) = {}
    BY <1>1, <2>2 DEF TypeOK, NestedInv, Separate
  <2>4. queue' \in Seq(Texts) /\ MsgsOf(queue') = MsgsOf(queue) \cup MsgsOf(ups) /\ Nested(queue')
    BY <2>1, <2>2, <2>3, QueueConcat
  <2>5. InChan' = {} /\ Starting' = {} /\ Starting = {} /\ TextsOf(chan') = <<>>
    BY <1>1, <2>1 DEF InChan, Starting
  <2>6. TypeOK'
    <3>1. /\ chan' \in Seq([kind : {"steering", "follow_up"}, text : Texts])
          /\ Len(chan') <= Cap /\ steers \subseteq sent
      BY <1>1, <2>1, <2>2, SteeringAssumption DEF SentInv
    <3>2. QED
      BY <1>1, <2>1, <2>4, <3>1 DEF TypeOK
  <2>7. TurnInv'
    BY <1>1, <2>1 DEF TurnInv, Unread
  <2>8. SentInv' /\ NestedInv'
    BY <1>1, <2>1, <2>2, <2>4, <2>5 DEF SentInv, NestedInv
  <2>9. Separate'
    BY <1>1, <2>1, <2>2, <2>4, <2>5 DEF Separate
  <2>10. Covered' /\ EchoInv'
    <3>1. EchoMeansSent'
      BY <1>1, <2>1, <2>2, <2>5 DEF EchoInv, EchoMeansSent, InChan
    <3>2. QED
      BY <1>1, <2>1, <2>2, <2>4, <2>5, <3>1 DEF Covered, EchoInv
  <2>11. QED
    BY <2>6, <2>7, <2>8, <2>9, <2>10 DEF TextsInv
<1>5. CASE Iterate
  <2>1. /\ turn = "busy" /\ turn' = "top" /\ Starting' = Starting /\ InChan' = InChan
        /\ UNCHANGED <<sent, outbox, overflow, echoes, waiting, origin, nextOrigin, sink,
                       tui, streaming, holding, slot, reportSlot, shown,
                       started, chan, rx, queue, pending, reached, lost, exposed>>
    BY <1>5 DEF Iterate, Starting, InChan
  <2>2. TypeOK' /\ TurnInv' /\ SentInv' /\ NestedInv'
    BY <1>1, <2>1 DEF TypeOK, TurnInv, Unread, SentInv, NestedInv
  <2>3. Separate' /\ Covered' /\ EchoInv'
    BY <1>1, <2>1 DEF Separate, Covered, EchoInv, EchoMeansSent, InChan
  <2>4. QED
    BY <2>2, <2>3 DEF TextsInv
<1>6. CASE EndTurn
  <2> DEFINE texts == TextsOf(chan)
  <2>1. /\ turn \in {"top", "busy"} /\ turn' = "drained" /\ pending' = pending \o (queue \o texts)
        /\ queue' = <<>> /\ chan' = <<>>
        /\ UNCHANGED <<sent, outbox, overflow, echoes, waiting, origin, nextOrigin, sink,
                       tui, streaming, holding, slot, reportSlot, shown,
                       started, rx, reached, lost, exposed>>
    BY <1>6 DEF EndTurn, HandedBack
  <2>2. /\ texts \in Seq(Texts) /\ Nested(texts) /\ MsgsOf(texts) = InChan
        /\ queue \in Seq(Texts) /\ Nested(queue) /\ MsgsOf(queue) \cap MsgsOf(texts) = {}
        /\ pending \in Seq(Texts) /\ Nested(pending)
        /\ MsgsOf(pending) \cap (MsgsOf(queue) \cup MsgsOf(texts)) = {}
    BY <1>1 DEF TypeOK, NestedInv, Separate, InChan
  <2> HIDE DEF texts
  <2>3. /\ queue \o texts \in Seq(Texts) /\ Nested(queue \o texts)
        /\ MsgsOf(queue \o texts) = MsgsOf(queue) \cup InChan
    BY <2>2, QueueConcat
  <2>4. /\ pending' \in Seq(Texts) /\ Nested(pending')
        /\ MsgsOf(pending') = MsgsOf(pending) \cup MsgsOf(queue) \cup InChan
    <3> DEFINE handed == queue \o texts
    <3>1. /\ handed \in Seq(Texts) /\ Nested(handed) /\ MsgsOf(handed) = MsgsOf(queue) \cup InChan
          /\ pending' = pending \o handed
      BY <2>1, <2>3
    <3> HIDE DEF handed
    <3>2. MsgsOf(pending) \cap MsgsOf(handed) = {}
      BY <2>2, <3>1
    <3>3. QED
      BY <2>2, <3>1, <3>2, QueueConcat
  <2>5. InChan' = {} /\ Starting' = {} /\ Starting = {} /\ TextsOf(chan') = <<>>
        /\ MsgsOf(queue') = {}
    BY <1>1, <2>1 DEF InChan, Starting
  <2>6. TypeOK'
    <3>1. /\ chan' \in Seq([kind : {"steering", "follow_up"}, text : Texts]) /\ Len(chan') <= Cap
          /\ queue' \in Seq(Texts)
      BY <2>1, SteeringAssumption
    <3>2. QED
      BY <1>1, <2>1, <2>4, <3>1 DEF TypeOK
  <2>7. TurnInv'
    BY <1>1, <2>1, <2>5 DEF TurnInv, Unread
  <2>8. SentInv' /\ NestedInv'
    BY <1>1, <2>1, <2>4, <2>5 DEF SentInv, NestedInv
  <2>9. Separate'
    BY <1>1, <2>1, <2>4, <2>5 DEF Separate
  <2>10. Covered' /\ EchoInv'
    BY <1>1, <2>1, <2>4, <2>5 DEF Covered, EchoInv, EchoMeansSent, InChan
  <2>11. QED
    BY <2>6, <2>7, <2>8, <2>9, <2>10 DEF TextsInv
<1>7. CASE FailTurn
  <2>1. /\ turn \in {"spawned", "top", "busy"} /\ turn' = "failed"
        /\ reached' = reached \cup Starting
        /\ exposed' = exposed \cup InChan \cup MsgsOf(queue)
        /\ Starting' = {} /\ InChan' = InChan
        /\ UNCHANGED <<sent, outbox, overflow, echoes, waiting, origin, nextOrigin, sink,
                       tui, streaming, holding, slot, reportSlot, shown,
                       started, chan, rx, queue, pending, lost>>
    BY <1>2, <1>7 DEF FailTurn, Starting, InChan
  <2>2. TypeOK'
    BY <1>1, <2>1 DEF TypeOK, SentInv
  <2>3. TurnInv'
    BY <1>1, <1>7, <2>1 DEF FailTurn, TurnInv, Unread
  <2>4. SentInv' /\ NestedInv'
    BY <1>1, <2>1 DEF SentInv, NestedInv
  <2>5. Separate'
    BY <1>1, <2>1 DEF Separate
  <2>6. Covered' /\ EchoInv'
    BY <1>1, <2>1 DEF Covered, EchoInv, EchoMeansSent, InChan
  <2>7. QED
    BY <2>2, <2>3, <2>4, <2>5, <2>6 DEF TextsInv
<1>8. CASE Return
  <2>1. /\ turn \in {"drained", "failed"} /\ turn' = "over" /\ rx' = FALSE
        /\ lost' = lost \cup InChan \cup MsgsOf(queue) /\ queue' = <<>> /\ chan' = <<>>
        /\ UNCHANGED <<sent, outbox, overflow, echoes, waiting, origin, nextOrigin, sink,
                       tui, streaming, holding, slot, reportSlot, shown,
                       started, pending, reached, exposed>>
    BY <1>8 DEF Return, InChan
  <2>2. InChan' = {} /\ Starting' = {} /\ Starting = {} /\ TextsOf(chan') = <<>>
        /\ MsgsOf(queue') = {} /\ InChan \cup MsgsOf(queue) \subseteq exposed
    BY <1>1, <2>1 DEF InChan, Starting, TurnInv, Unread
  <2>3. TypeOK'
    <3>1. /\ chan' \in Seq([kind : {"steering", "follow_up"}, text : Texts]) /\ Len(chan') <= Cap
          /\ queue' \in Seq(Texts)
      BY <2>1, SteeringAssumption
    <3>2. QED
      BY <1>1, <2>1, <2>2, <3>1 DEF TypeOK
  <2>4. TurnInv'
    BY <1>1, <2>1, <2>2 DEF TurnInv, Unread
  <2>5. SentInv' /\ NestedInv'
    BY <1>1, <2>1, <2>2 DEF SentInv, NestedInv
  <2>6. Separate'
    BY <1>1, <2>1, <2>2 DEF Separate
  <2>7. Covered' /\ EchoInv'
    BY <1>1, <2>1, <2>2 DEF Covered, EchoInv, EchoMeansSent, InChan
  <2>8. QED
    BY <2>3, <2>4, <2>5, <2>6, <2>7 DEF TextsInv
<1>9. QED
  BY <1>3, <1>4, <1>5, <1>6, <1>7, <1>8 DEF TurnStep

\* A turn starts: its text comes from one of the queues, or was just said.
LEMMA StartKeepsTexts ==
  ASSUME TextsInv, tui = "ready", turn \in {"none", "over"},
         tui' = "starting", streaming' = TRUE, turn' = "spawned", chan' = <<>>, rx' = TRUE,
         sink' = FALSE, UNCHANGED <<holding, queue, reached, lost, exposed, origin>>,
         started' \in Texts, sent \subseteq sent', sent' \subseteq Msgs,
         sent' \subseteq sent \cup ToSet(started'),
         waiting' \subseteq Plugins, nextOrigin' \in Plugins \cup {Nobody},
         outbox' \in Seq(Reports), overflow' \in Seq(Spoken), echoes' \in Seq(Spoken),
         slot' \in Seq(Texts), reportSlot' \in Seq(Texts), pending' \in Seq(Texts),
         Nested(slot'), Nested(reportSlot'), Nested(pending'),
         ToSet(outbox') \subseteq ToSet(outbox) \ ToSet(started'),
         ToSet(overflow') \subseteq ToSet(overflow) \ ToSet(started'),
         MsgsOf(slot') \subseteq MsgsOf(slot) \ ToSet(started'),
         MsgsOf(reportSlot') \subseteq MsgsOf(reportSlot) \ ToSet(started'),
         MsgsOf(pending') \subseteq MsgsOf(pending) \ ToSet(started'),
         ToSet(started') \subseteq (sent' \ sent) \cup ToSet(outbox) \cup ToSet(overflow)
           \cup MsgsOf(slot) \cup MsgsOf(reportSlot) \cup MsgsOf(pending),
         ToSet(outbox) \cup ToSet(overflow) \cup MsgsOf(slot) \cup MsgsOf(reportSlot)
             \cup MsgsOf(pending)
           \subseteq ToSet(started') \cup ToSet(outbox') \cup ToSet(overflow') \cup MsgsOf(slot')
             \cup MsgsOf(reportSlot') \cup MsgsOf(pending'),
         ToSet(echoes') \subseteq ToSet(echoes), ToSet(started') \subseteq shown',
         shown' \cup ToSet(echoes') = shown \cup ToSet(echoes) \cup ToSet(started')
  PROVE  TextsInv'
<1>1. /\ TypeOK /\ TurnInv /\ SentInv /\ NestedInv /\ Separate /\ Covered /\ EchoInv
      /\ ToSet(<<>>) = {} /\ MsgsOf(<<>>) = {} /\ Nested(<<>>) /\ TextsOf(<<>>) = <<>>
  BY TextsFacts DEF TextsInv
<1>2. /\ holding = <<>> /\ ToSet(holding) = {} /\ chan = <<>> /\ InChan = {} /\ InChan' = {}
      /\ queue = <<>> /\ MsgsOf(queue) = {} /\ Starting = {} /\ Starting' = ToSet(started')
  BY <1>1 DEF TypeOK, TurnInv, InChan, Starting
<1>3. ToSet(started') \cap (reached \cup lost) = {}
  BY <1>1 DEF Separate, TypeOK
<1>4. TypeOK'
  <2>1. shown' \cup reached' \cup lost' \cup exposed' \subseteq sent'
    BY <1>1 DEF TypeOK, SentInv
  <2>2. chan' \in Seq([kind : {"steering", "follow_up"}, text : Texts]) /\ Len(chan') <= Cap
    BY SteeringAssumption
  <2>3. /\ holding' = <<>> /\ holding' \in Texts /\ queue' \in Seq(Texts)
        /\ origin' \in Plugins \cup {Nobody}
    BY <1>1, <1>2 DEF TypeOK
  <2>4. QED
    BY <2>1, <2>2, <2>3 DEF TypeOK
<1>5. TurnInv'
  BY <1>2 DEF TurnInv, Unread
<1>6. SentInv' /\ NestedInv'
  BY <1>1, <1>2 DEF SentInv, NestedInv
<1>7. Separate'
  BY <1>1, <1>2, <1>3 DEF Separate
<1>8. Covered'
  BY <1>1, <1>2 DEF Covered
<1>9. EchoInv'
  <2>1. ToSet(overflow') \cap (shown' \cup ToSet(echoes')) = {}
    BY <1>1 DEF EchoInv, EchoMeansSent
  <2>2. QED
    BY <1>1, <1>2, <2>1 DEF EchoInv, EchoMeansSent, InChan
<1>10. QED
  BY <1>4, <1>5, <1>6, <1>7, <1>8, <1>9 DEF TextsInv

\* The text a turn is started with, and the queue it comes from.
LEMMA PickedText ==
  ASSUME TypeOK, NEW STATE agents, NEW STATE handed, agents = <<>> \/ agents = pending,
         StartPicked(agents, handed)
  PROVE  /\ tui' = "starting" /\ streaming' = TRUE /\ turn' = "spawned" /\ chan' = <<>>
         /\ rx' = TRUE /\ sink' = FALSE
         /\ shown' = shown \cup handed \cup ToSet(started')
         /\ waiting' \subseteq waiting
         /\ nextOrigin' = nextOrigin
              \/ (overflow # <<>> /\ nextOrigin' = From[Head(overflow)])
         /\ \/ /\ started' = outbox /\ outbox' = <<>>
               /\ UNCHANGED <<overflow, slot, reportSlot, pending>>
            \/ /\ overflow # <<>> /\ started' = <<Head(overflow)>> /\ overflow' = Tail(overflow)
               /\ UNCHANGED <<outbox, slot, reportSlot, pending>>
            \/ /\ slot # <<>> /\ started' = Head(slot) /\ slot' = Tail(slot)
               /\ UNCHANGED <<outbox, overflow, reportSlot, pending>>
            \/ /\ reportSlot # <<>> /\ started' = Head(reportSlot) /\ reportSlot' = Tail(reportSlot)
               /\ UNCHANGED <<outbox, overflow, slot, pending>>
            \/ /\ pending # <<>> /\ started' = Head(pending) /\ pending' = Tail(pending)
               /\ UNCHANGED <<outbox, overflow, slot, reportSlot>>
<1> DEFINE queues == <<agents, slot, reportSlot, outbox, overflow>>
           n == Pick(queues)
           text == IF n = 4 THEN outbox ELSE IF n = 5 THEN <<Head(overflow)>> ELSE Head(queues[n])
<1>1. /\ tui' = "starting" /\ streaming' = TRUE /\ turn' = "spawned" /\ chan' = <<>>
      /\ rx' = TRUE /\ sink' = FALSE
      /\ n # 0 /\ started' = text
      /\ shown' = shown \cup handed \cup ToSet(text)
      /\ pending' = (IF n = 1 THEN Tail(pending) ELSE pending)
      /\ slot' = (IF n = 2 THEN Tail(slot) ELSE slot)
      /\ reportSlot' = (IF n = 3 THEN Tail(reportSlot) ELSE reportSlot)
      /\ outbox' = (IF n = 4 THEN <<>> ELSE outbox)
      /\ overflow' = (IF n = 5 THEN Tail(overflow) ELSE overflow)
      /\ nextOrigin' = (IF n = 5 THEN From[Head(overflow)] ELSE nextOrigin)
      /\ waiting' = waiting \ HandedOver(handed \cup IF n = 5 THEN ToSet(text) ELSE {})
  BY Zenon DEF StartPicked, Start, OutboxAfter
<1>2. n \in 1 .. 5 /\ queues[n] # <<>>
  BY <1>1, PickNames
<1>3. /\ n = 1 => queues[n] = agents /\ text = Head(agents)
      /\ n = 2 => queues[n] = slot /\ text = Head(slot)
      /\ n = 3 => queues[n] = reportSlot /\ text = Head(reportSlot)
      /\ n = 4 => text = outbox
      /\ n = 5 => queues[n] = overflow /\ text = <<Head(overflow)>>
  OBVIOUS
<1>4. n = 1 => agents = pending
  BY <1>2, <1>3
<1>5. n = 1 \/ n = 2 \/ n = 3 \/ n = 4 \/ n = 5
  BY <1>2
<1> HIDE DEF n, text, queues
<1>6. waiting' \subseteq waiting
  BY <1>1
<1>7. CASE n = 1
  BY <1>1, <1>2, <1>3, <1>4, <1>6, <1>7
<1>8. CASE n = 2
  BY <1>1, <1>2, <1>3, <1>6, <1>8
<1>9. CASE n = 3
  BY <1>1, <1>2, <1>3, <1>6, <1>9
<1>10. CASE n = 4
  BY <1>1, <1>2, <1>3, <1>6, <1>10
<1>11. CASE n = 5
  BY <1>1, <1>2, <1>3, <1>6, <1>11
<1>12. QED
  BY <1>5, <1>7, <1>8, <1>9, <1>10, <1>11

\* A turn started from a queue, at a tick or when the last one is done.
LEMMA PickedKeepsTexts ==
  ASSUME TextsInv, RuleInv, tui = "ready", turn \in {"none", "over"},
         NEW STATE agents, NEW STATE handed, agents = <<>> \/ agents = pending,
         StartPicked(agents, handed),
         \/ handed = {} /\ UNCHANGED echoes
         \/ handed = ToSet(echoes) /\ echoes' = <<>>,
         UNCHANGED <<sent, origin, holding, queue, reached, lost, exposed>>
  PROVE  TextsInv'
<1>1. /\ TypeOK /\ Nested(slot) /\ Nested(reportSlot) /\ Nested(pending)
      /\ ToSet(<<>>) = {} /\ outbox \in Texts /\ \A m : ToSet(<<m>>) = {m}
  BY TextsFacts DEF TextsInv, NestedInv
<1>2. /\ outbox \in Seq(Reports) /\ overflow \in Seq(Spoken) /\ echoes \in Seq(Spoken)
      /\ slot \in Seq(Texts) /\ reportSlot \in Seq(Texts) /\ pending \in Seq(Texts)
      /\ waiting \subseteq Plugins /\ nextOrigin \in Plugins \cup {Nobody} /\ sent \subseteq Msgs
  BY <1>1 DEF TypeOK
<1>3. /\ tui' = "starting" /\ streaming' = TRUE /\ turn' = "spawned" /\ chan' = <<>>
      /\ rx' = TRUE /\ sink' = FALSE
      /\ shown' = shown \cup handed \cup ToSet(started')
      /\ waiting' \subseteq waiting
      /\ nextOrigin' = nextOrigin \/ (overflow # <<>> /\ nextOrigin' = From[Head(overflow)])
  BY <1>1, PickedText
<1>4. waiting' \subseteq Plugins /\ nextOrigin' \in Plugins \cup {Nobody}
  <2>1. overflow # <<>> => Head(overflow) \in Spoken
    BY <1>2
  <2>2. QED
    BY <1>2, <1>3, <2>1, SteeringAssumption DEF Spoken
<1>5. /\ echoes' \in Seq(Spoken) /\ ToSet(echoes') \subseteq ToSet(echoes)
      /\ shown' \cup ToSet(echoes') = shown \cup ToSet(echoes) \cup ToSet(started')
  <2>1. CASE handed = {} /\ UNCHANGED echoes
    BY <1>2, <1>3, <2>1
  <2>2. CASE handed = ToSet(echoes) /\ echoes' = <<>>
    <3>1. echoes' \in Seq(Spoken) /\ ToSet(echoes') = {}
      BY <1>1, <2>2
    <3>2. QED
      BY <1>3, <2>2, <3>1
  <2>3. QED
    BY <2>1, <2>2
\* It leaves the queue it comes from, and no other.
<1>6. \A q \in {slot, reportSlot, pending} : q # <<>> =>
        /\ Tail(q) \in Seq(Texts) /\ Head(q) \in Texts
        /\ MsgsOf(q) = ToSet(Head(q)) \cup MsgsOf(Tail(q))
        /\ Nested(Tail(q)) /\ ToSet(Head(q)) \cap MsgsOf(Tail(q)) = {}
  BY <1>1, <1>2, QueueTail
<1>7. overflow # <<>> =>
        /\ Tail(overflow) \in Seq(Spoken) /\ <<Head(overflow)>> \in Texts
        /\ ToSet(overflow) = {Head(overflow)} \cup ToSet(Tail(overflow))
        /\ Head(overflow) \notin ToSet(Tail(overflow))
  <2> SUFFICES ASSUME overflow # <<>>
               PROVE  /\ Tail(overflow) \in Seq(Spoken) /\ <<Head(overflow)>> \in Texts
                      /\ ToSet(overflow) = {Head(overflow)} \cup ToSet(Tail(overflow))
                      /\ Head(overflow) \notin ToSet(Tail(overflow))
    OBVIOUS
  <2> DEFINE t == Tail(overflow)
             n == Len(overflow)
  <2>1. /\ t \in Seq(Spoken) /\ Head(overflow) = overflow[1] /\ n \in Nat \ {0}
        /\ DOMAIN overflow = 1 .. n /\ DOMAIN t = 1 .. n - 1
        /\ \A i \in DOMAIN t : t[i] = overflow[i + 1]
        /\ Head(overflow) \in Spoken
    BY <1>2
  <2>2. \A i, j \in DOMAIN overflow : overflow[i] = overflow[j] => i = j
    BY DEF RuleInv
  <2> HIDE DEF t, n
  <2>3. \A i \in DOMAIN t : i + 1 \in DOMAIN overflow /\ i + 1 # 1 /\ t[i] = overflow[i + 1]
    BY <2>1
  <2>4. 1 \in DOMAIN overflow /\ \A i \in DOMAIN overflow : i = 1 \/ \E k \in DOMAIN t : i = k + 1
    <3>1. \A i \in DOMAIN overflow : i = 1 \/ (i - 1 \in DOMAIN t /\ i = (i - 1) + 1)
      BY <2>1
    <3>2. QED
      BY <2>1, <3>1
  <2>5. ToSet(overflow) = {Head(overflow)} \cup ToSet(t)
    BY <2>1, <2>3, <2>4 DEF ToSet
  <2>6. Head(overflow) \notin ToSet(t)
    BY <2>1, <2>2, <2>3, <2>4 DEF ToSet
  <2>7. <<Head(overflow)>> \in Texts
    BY <1>1, <2>1, TextsFacts DEF Msgs
  <2>8. QED
    BY <2>1, <2>5, <2>6, <2>7 DEF t
<1> DEFINE Whole == /\ ToSet(outbox') \subseteq ToSet(outbox) \ ToSet(started')
                    /\ ToSet(overflow') \subseteq ToSet(overflow) \ ToSet(started')
                    /\ MsgsOf(slot') \subseteq MsgsOf(slot) \ ToSet(started')
                    /\ MsgsOf(reportSlot') \subseteq MsgsOf(reportSlot) \ ToSet(started')
                    /\ MsgsOf(pending') \subseteq MsgsOf(pending) \ ToSet(started')
                    /\ ToSet(started') \subseteq ToSet(outbox) \cup ToSet(overflow)
                         \cup MsgsOf(slot) \cup MsgsOf(reportSlot) \cup MsgsOf(pending)
                    /\ ToSet(outbox) \cup ToSet(overflow) \cup MsgsOf(slot) \cup MsgsOf(reportSlot)
                           \cup MsgsOf(pending)
                         \subseteq ToSet(started') \cup ToSet(outbox') \cup ToSet(overflow')
                           \cup MsgsOf(slot') \cup MsgsOf(reportSlot') \cup MsgsOf(pending')
           Typed5 == /\ started' \in Texts /\ outbox' \in Seq(Reports) /\ overflow' \in Seq(Spoken)
                     /\ slot' \in Seq(Texts) /\ reportSlot' \in Seq(Texts)
                     /\ pending' \in Seq(Texts)
                     /\ Nested(slot') /\ Nested(reportSlot') /\ Nested(pending')
<1>8. Separate
  BY DEF TextsInv
<1>9. ASSUME started' = outbox, outbox' = <<>>,
             UNCHANGED <<overflow, slot, reportSlot, pending>>
       PROVE  Typed5 /\ Whole
  <2>1. Typed5
    BY <1>1, <1>2, <1>9
  <2>2. Whole
    BY <1>1, <1>8, <1>9 DEF Separate
  <2>3. QED
    BY <2>1, <2>2
<1>10. ASSUME overflow # <<>>, started' = <<Head(overflow)>>, overflow' = Tail(overflow),
             UNCHANGED <<outbox, slot, reportSlot, pending>>
       PROVE  Typed5 /\ Whole
  <2>1. Typed5
    BY <1>1, <1>2, <1>7, <1>10
  <2>2. ToSet(started') = {Head(overflow)}
    BY <1>1, <1>10
  <2>3. Whole
    BY <1>7, <1>8, <1>10, <2>2 DEF Separate
  <2>4. QED
    BY <2>1, <2>3
<1>11. ASSUME slot # <<>>, started' = Head(slot), slot' = Tail(slot),
             UNCHANGED <<outbox, overflow, reportSlot, pending>>
       PROVE  Typed5 /\ Whole
  <2>1. Typed5
    BY <1>1, <1>2, <1>6, <1>11
  <2>2. Whole
    BY <1>6, <1>8, <1>11 DEF Separate
  <2>3. QED
    BY <2>1, <2>2
<1>12. ASSUME reportSlot # <<>>, started' = Head(reportSlot), reportSlot' = Tail(reportSlot),
             UNCHANGED <<outbox, overflow, slot, pending>>
       PROVE  Typed5 /\ Whole
  <2>1. Typed5
    BY <1>1, <1>2, <1>6, <1>12
  <2>2. Whole
    BY <1>6, <1>8, <1>12 DEF Separate
  <2>3. QED
    BY <2>1, <2>2
<1>13. ASSUME pending # <<>>, started' = Head(pending), pending' = Tail(pending),
             UNCHANGED <<outbox, overflow, slot, reportSlot>>
       PROVE  Typed5 /\ Whole
  <2>1. Typed5
    BY <1>1, <1>2, <1>6, <1>13
  <2>2. Whole
    BY <1>6, <1>8, <1>13 DEF Separate
  <2>3. QED
    BY <2>1, <2>2
<1>14. Typed5 /\ Whole
  <2> HIDE DEF Typed5, Whole
  <2> QED
    BY <1>1, <1>9, <1>10, <1>11, <1>12, <1>13, PickedText
<1>15. QED
  BY <1>2, <1>3, <1>4, <1>5, <1>14, StartKeepsTexts

\* A line that starts a turn.
LEMMA SubmitKeepsTexts ==
  ASSUME TextsInv, NEW m \in Typed, Submit(m)
  PROVE  TextsInv'
<1> USE DEF Submit, Start
<1>1. /\ TypeOK /\ SentInv /\ NestedInv /\ EchoInv
      /\ ToSet(<<m>>) = {m} /\ <<m>> \in Texts /\ m \in Msgs
  BY TextsFacts DEF TextsInv, Msgs
<1>2. /\ outbox \in Seq(Reports) /\ overflow \in Seq(Spoken) /\ echoes \in Seq(Spoken)
      /\ slot \in Seq(Texts) /\ reportSlot \in Seq(Texts) /\ pending \in Seq(Texts)
      /\ waiting \subseteq Plugins /\ nextOrigin \in Plugins \cup {Nobody} /\ sent \subseteq Msgs
      /\ turn = "none" /\ Nested(slot) /\ Nested(reportSlot) /\ Nested(pending)
  BY <1>1 DEF TypeOK, NestedInv
<1>3. ToSet(started') = {m} /\ started' \in Texts
  BY <1>1
<1>4. /\ ToSet(outbox') \subseteq ToSet(outbox) \ {m}
      /\ ToSet(overflow') \subseteq ToSet(overflow) \ {m}
      /\ MsgsOf(slot') \subseteq MsgsOf(slot) \ {m}
      /\ MsgsOf(reportSlot') \subseteq MsgsOf(reportSlot) \ {m}
      /\ MsgsOf(pending') \subseteq MsgsOf(pending) \ {m}
  BY <1>1 DEF SentInv
<1>5. /\ sent \subseteq sent' /\ sent' \subseteq Msgs /\ sent' \subseteq sent \cup {m}
      /\ {m} \subseteq sent' \ sent
      /\ shown' = shown \cup {m} /\ UNCHANGED echoes
  BY <1>1, <1>2
<1>6. /\ tui = "ready" /\ turn \in {"none", "over"} /\ tui' = "starting" /\ streaming' = TRUE
      /\ turn' = "spawned" /\ chan' = <<>> /\ rx' = TRUE /\ sink' = FALSE
      /\ UNCHANGED <<outbox, overflow, echoes, waiting, origin, nextOrigin,
                     holding, slot, reportSlot, queue, pending, reached, lost, exposed>>
  BY <1>2
<1>7. QED
  BY <1>2, <1>3, <1>4, <1>5, <1>6, StartKeepsTexts

\* A line typed while a turn runs: steered, held back by a full channel, or queued.
LEMMA TypeSteerKeepsTexts ==
  ASSUME TextsInv, NEW m \in Typed, TypeSteer(m)
  PROVE  TextsInv'
<1> USE DEF pluginVars
<1>1. /\ TypeOK /\ TurnInv /\ SentInv /\ NestedInv /\ Separate /\ Covered /\ EchoInv
      /\ ToSet(<<>>) = {} /\ ToSet(<<m>>) = {m} /\ <<m>> \in Texts /\ m \in Msgs
      /\ \A x : <<x>> # <<>>
  BY TextsFacts DEF TextsInv, Msgs
<1>2. /\ tui = "ready" /\ m \notin sent /\ sent' = sent \cup {m}
      /\ UNCHANGED <<outbox, overflow, echoes, waiting, origin, nextOrigin, sink, streaming,
                     reportSlot, turn, started, rx, queue, pending, reached, lost>>
      /\ Starting' = Starting /\ holding = <<>>
  BY <1>1 DEF TypeSteer, Starting, TypeOK
<1>n. m \notin ToSet(outbox) \cup ToSet(overflow) \cup ToSet(holding) \cup MsgsOf(slot)
        \cup MsgsOf(reportSlot) \cup InChan \cup MsgsOf(queue) \cup MsgsOf(pending) \cup Starting
        \cup reached \cup lost
  BY <1>1, <1>2 DEF SentInv, TypeOK
<1>3. ASSUME Into(Steer(m)), shown' = shown \cup {m}, UNCHANGED <<tui, holding, slot>>
      PROVE  TextsInv'
  <2>1. /\ rx /\ chan' \in Seq(SteerMsgs) /\ Len(chan') <= Cap /\ InChan' = InChan \cup {m}
        /\ Nested(TextsOf(chan)') /\ exposed' = IF Unread THEN exposed \cup {m} ELSE exposed
    BY <1>1, <1>2, <1>3, IntoIs DEF Steer, SentInv
  <2>2. TypeOK'
    BY <1>1, <1>2, <1>3, <2>1 DEF TypeOK, SteerMsgs
  <2>3. TurnInv'
    BY <1>1, <1>2, <1>3, <2>1 DEF TurnInv, TypeOK, Unread
  <2>4. SentInv' /\ NestedInv'
    BY <1>1, <1>2, <1>3, <2>1 DEF SentInv, NestedInv
  <2>5. Separate'
    BY <1>1, <1>2, <1>n, <1>3, <2>1 DEF Separate
  <2>6. Covered'
    BY <1>1, <1>2, <1>3, <2>1 DEF Covered
  <2>7. EchoInv'
    BY <1>1, <1>2, <1>3, <2>1 DEF EchoInv, EchoMeansSent, SentInv, InChan
  <2>8. QED
    BY <2>2, <2>3, <2>4, <2>5, <2>6, <2>7 DEF TextsInv
<1>4. ASSUME rx, tui' = "sending", holding' = <<m>>, UNCHANGED <<shown, slot, chan, exposed>>
      PROVE  TextsInv'
  <2>1. InChan' = InChan /\ ToSet(holding) = {} /\ ToSet(holding') = {m} /\ holding' # <<>>
    BY <1>1, <1>2, <1>4 DEF InChan
  <2>2. TypeOK'
    BY <1>1, <1>2, <1>4, <2>1 DEF TypeOK
  <2>3. TurnInv'
    BY <1>1, <1>2, <1>4, <2>1 DEF TurnInv, Unread
  <2>4. SentInv' /\ NestedInv'
    BY <1>1, <1>2, <1>4, <2>1 DEF SentInv, NestedInv
  <2>5. Separate'
    BY <1>1, <1>2, <1>n, <1>4, <2>1 DEF Separate
  <2>6. Covered'
    BY <1>1, <1>2, <1>4, <2>1 DEF Covered
  <2>7. EchoInv'
    <3>1. m \notin shown /\ m \notin ToSet(echoes)
      BY <1>1, <1>2 DEF SentInv, TypeOK
    <3>2. ToSet(overflow)' = ToSet(overflow) /\ ToSet(echoes)' = ToSet(echoes)
          /\ shown' = shown /\ reached' = reached /\ TextsOf(chan)' = TextsOf(chan)
          /\ MsgsOf(TextsOf(chan))' = MsgsOf(TextsOf(chan)) /\ ToSet(holding)' = {m}
      BY <1>2, <1>4, <2>1
    <3>3. EchoMeansSent'
      BY <1>1, <3>1, <3>2 DEF EchoInv, EchoMeansSent
    <3>4. Starting' \subseteq Reports \cup shown' \cup ToSet(echoes)'
      BY <1>1, <1>2, <3>2 DEF EchoInv
    <3>5. QED
      BY <3>3, <3>4 DEF EchoInv
  <2>8. QED
    BY <2>2, <2>3, <2>4, <2>5, <2>6, <2>7 DEF TextsInv
<1>5. ASSUME slot' = Append(slot, <<m>>), shown' = shown \cup {m},
             UNCHANGED <<tui, holding, chan, exposed>>
      PROVE  TextsInv'
  <2>1. /\ slot' \in Seq(Texts) /\ MsgsOf(slot') = MsgsOf(slot) \cup {m} /\ Nested(slot')
        /\ InChan' = InChan
    <3>1. slot \in Seq(Texts) /\ Nested(slot) /\ m \notin MsgsOf(slot)
      BY <1>1, <1>2 DEF TypeOK, NestedInv, SentInv
    <3>2. QED
      BY <1>1, <1>5, <3>1, QueueAppend DEF InChan
  <2>2. TypeOK'
    BY <1>1, <1>2, <1>5, <2>1 DEF TypeOK
  <2>3. TurnInv'
    BY <1>1, <1>2, <1>5, <2>1 DEF TurnInv, Unread
  <2>4. SentInv' /\ NestedInv'
    BY <1>1, <1>2, <1>5, <2>1 DEF SentInv, NestedInv
  <2>5. Separate'
    BY <1>1, <1>2, <1>n, <1>5, <2>1 DEF Separate
  <2>6. Covered'
    BY <1>1, <1>2, <1>5, <2>1 DEF Covered
  <2>7. EchoInv'
    BY <1>1, <1>2, <1>5, <2>1 DEF EchoInv, EchoMeansSent, SentInv, InChan
  <2>8. QED
    BY <2>2, <2>3, <2>4, <2>5, <2>6, <2>7 DEF TextsInv
<1>6. QED
  BY <1>3, <1>4, <1>5 DEF TypeSteer, Echoed

\* The two ways of a plugin's message.
LEMMA PluginSendKeepsTexts ==
  ASSUME TextsInv, NEW m \in Spoken, PluginSend(m)
  PROVE  TextsInv'
<1> USE DEF tuiVars
<1>1. /\ TypeOK /\ TurnInv /\ SentInv /\ NestedInv /\ Separate /\ Covered /\ EchoInv
      /\ ToSet(<<m>>) = {m} /\ <<m>> \in Texts /\ m \in Msgs /\ From[m] \in Plugins
  BY TextsFacts, SteeringAssumption DEF TextsInv, Msgs, Spoken
<1>2. /\ m \notin sent /\ sent' = sent \cup {m} /\ waiting' = waiting \cup {From[m]}
      /\ UNCHANGED <<outbox, origin, nextOrigin, sink, tui, streaming, holding, slot, reportSlot,
                     shown, turn, started, rx, queue, pending, reached, lost>>
      /\ Starting' = Starting
  BY DEF PluginSend, Starting
<1>3. m \notin ToSet(outbox) \cup ToSet(overflow) \cup ToSet(holding) \cup MsgsOf(slot)
        \cup MsgsOf(reportSlot) \cup InChan \cup MsgsOf(queue) \cup MsgsOf(pending) \cup Starting
        \cup reached \cup lost \cup ToSet(echoes) \cup shown
  BY <1>1, <1>2 DEF SentInv, TypeOK
<1>4. ASSUME Into(Steer(m)), echoes' = Append(echoes, m), UNCHANGED overflow
      PROVE  TextsInv'
  <2>1. /\ rx /\ chan' \in Seq(SteerMsgs) /\ Len(chan') <= Cap /\ InChan' = InChan \cup {m}
        /\ Nested(TextsOf(chan)') /\ exposed' = IF Unread THEN exposed \cup {m} ELSE exposed
    BY <1>1, <1>3, <1>4, IntoIs DEF Steer
  <2>2. echoes' \in Seq(Spoken) /\ ToSet(echoes') = ToSet(echoes) \cup {m}
    BY <1>1, <1>4, SetAppend DEF TypeOK
  <2>3. TypeOK'
    BY <1>1, <1>2, <1>4, <2>1, <2>2 DEF TypeOK, SteerMsgs
  <2>4. TurnInv'
    BY <1>1, <1>2, <2>1 DEF TurnInv, TypeOK, Unread
  <2>5. SentInv' /\ NestedInv'
    BY <1>1, <1>2, <1>4, <2>1, <2>2 DEF SentInv, NestedInv
  <2>6. Separate'
    BY <1>1, <1>2, <1>3, <1>4, <2>1 DEF Separate
  <2>7. Covered'
    BY <1>1, <1>2, <1>4, <2>1 DEF Covered
  <2>8. EchoInv'
    BY <1>1, <1>2, <1>3, <1>4, <2>1, <2>2 DEF EchoInv, EchoMeansSent, InChan
  <2>9. QED
    BY <2>3, <2>4, <2>5, <2>6, <2>7, <2>8 DEF TextsInv
<1>5. ASSUME overflow' = Append(overflow, m), UNCHANGED <<echoes, chan, exposed>>
      PROVE  TextsInv'
  <2>1. overflow' \in Seq(Spoken) /\ ToSet(overflow') = ToSet(overflow) \cup {m} /\ InChan' = InChan
    BY <1>1, <1>5, SetAppend DEF TypeOK, InChan
  <2>2. TypeOK'
    BY <1>1, <1>2, <1>5, <2>1 DEF TypeOK
  <2>3. TurnInv' /\ SentInv' /\ NestedInv'
    BY <1>1, <1>2, <1>5, <2>1 DEF TurnInv, Unread, SentInv, NestedInv
  <2>4. Separate'
    BY <1>1, <1>2, <1>3, <2>1 DEF Separate
  <2>5. Covered'
    BY <1>1, <1>2, <1>5, <2>1 DEF Covered
  <2>6. EchoInv'
    BY <1>1, <1>2, <1>3, <1>5, <2>1 DEF EchoInv, EchoMeansSent, InChan
  <2>7. QED
    BY <2>2, <2>3, <2>4, <2>5, <2>6 DEF TextsInv
<1>6. QED
  BY <1>4, <1>5 DEF PluginSend

\* A report goes to the outbox.
LEMMA ReportKeepsTexts ==
  ASSUME TextsInv, NEW m \in Reports, Report(m)
  PROVE  TextsInv'
<1>1. TypeOK /\ TurnInv /\ SentInv /\ NestedInv /\ Separate /\ Covered /\ EchoInv /\ m \in Msgs
  BY DEF TextsInv, Msgs
<1>2. /\ m \notin sent /\ sent' = sent \cup {m} /\ outbox' = Append(outbox, m)
      /\ UNCHANGED <<overflow, echoes, waiting, origin, nextOrigin, sink, tui, streaming, holding,
                     slot, reportSlot, shown, turn, started, chan, rx, queue, pending, reached,
                     lost, exposed>>
      /\ Starting' = Starting /\ InChan' = InChan
  BY DEF Report, Starting, InChan, pluginVars, tuiVars, turnVars
<1>3. m \notin ToSet(overflow) \cup ToSet(holding) \cup MsgsOf(slot)
        \cup MsgsOf(reportSlot) \cup InChan \cup MsgsOf(queue) \cup MsgsOf(pending) \cup Starting
        \cup reached \cup lost
  BY <1>1, <1>2 DEF SentInv, TypeOK
<1>4. outbox' \in Seq(Reports) /\ ToSet(outbox') = ToSet(outbox) \cup {m}
  BY <1>1, <1>2, SetAppend DEF TypeOK
<1>5. TypeOK'
  BY <1>1, <1>2, <1>4 DEF TypeOK
<1>6. TurnInv' /\ SentInv' /\ NestedInv'
  BY <1>1, <1>2, <1>4 DEF TurnInv, Unread, SentInv, NestedInv
<1>7. Separate'
  BY <1>1, <1>2, <1>3, <1>4 DEF Separate
<1>8. Covered' /\ EchoInv'
  BY <1>1, <1>2, <1>4 DEF Covered, EchoInv, EchoMeansSent, InChan
<1>9. QED
  BY <1>5, <1>6, <1>7, <1>8 DEF TextsInv

\* The tick without a turn.
LEMMA TickIdleKeepsTexts ==
  ASSUME TextsInv, RuleInv, TickIdle
  PROVE  TextsInv'
<1>1. /\ TypeOK /\ TurnInv /\ SentInv /\ NestedInv /\ Separate /\ Covered /\ EchoInv
      /\ ToSet(<<>>) = {}
  BY TextsFacts DEF TextsInv
<1>2. /\ tui = "ready" /\ turn = "none" /\ echoes' = <<>>
      /\ UNCHANGED <<sent, origin, holding, queue, reached, lost, exposed>>
  BY <1>1 DEF TickIdle, TypeOK
<1>3. CASE StartPicked(<<>>, ToSet(echoes))
  BY <1>2, <1>3, PickedKeepsTexts
<1>4. ASSUME waiting' \subseteq waiting, shown' = shown \cup ToSet(echoes),
             UNCHANGED <<outbox, overflow, nextOrigin, sink, tui, streaming, slot,
                         reportSlot, turn, started, chan, rx, pending>>
      PROVE  TextsInv'
  <2>1. Starting' = Starting /\ InChan' = InChan /\ ToSet(echoes') = {}
    BY <1>1, <1>2, <1>4 DEF Starting, InChan
  <2>2. TypeOK'
    BY <1>1, <1>2, <1>4, <2>1 DEF TypeOK, SentInv
  <2>3. TurnInv' /\ SentInv' /\ NestedInv'
    BY <1>1, <1>2, <1>4, <2>1 DEF TurnInv, Unread, SentInv, NestedInv
  <2>4. Separate' /\ Covered'
    BY <1>1, <1>2, <1>4, <2>1 DEF Separate, Covered
  <2>5. EchoInv'
    BY <1>1, <1>2, <1>4, <2>1 DEF EchoInv, EchoMeansSent, InChan
  <2>6. QED
    BY <2>2, <2>3, <2>4, <2>5 DEF TextsInv
<1>5. QED
  BY <1>3, <1>4 DEF TickIdle

\* The end of a turn's events.
LEMMA DoneKeepsTexts ==
  ASSUME TextsInv, RuleInv, Done
  PROVE  TextsInv'
<1>1. /\ TypeOK /\ TurnInv /\ SentInv /\ NestedInv /\ Separate /\ Covered /\ EchoInv
  BY DEF TextsInv
<1>2. /\ tui = "ready" /\ turn = "over"
      /\ UNCHANGED <<sent, echoes, origin, holding, queue, reached, lost, exposed>>
  BY DEF Done
<1>3. CASE StartPicked(pending, {})
  BY <1>2, <1>3, PickedKeepsTexts
<1>4. ASSUME streaming' = FALSE, turn' = "none",
             UNCHANGED <<outbox, overflow, waiting, nextOrigin, sink, tui, slot,
                         reportSlot, shown, started, chan, rx, pending>>
      PROVE  TextsInv'
  <2>1. Starting = {} /\ Starting' = {} /\ InChan' = InChan
    BY <1>2, <1>4 DEF Starting, InChan
  <2>2. TypeOK'
    BY <1>1, <1>2, <1>4, <2>1 DEF TypeOK
  <2>3. TurnInv' /\ SentInv' /\ NestedInv'
    BY <1>1, <1>2, <1>4, <2>1 DEF TurnInv, Unread, SentInv, NestedInv
  <2>4. Separate' /\ Covered'
    BY <1>1, <1>2, <1>4, <2>1 DEF Separate, Covered
  <2>5. EchoInv'
    BY <1>1, <1>2, <1>4, <2>1 DEF EchoInv, EchoMeansSent, InChan
  <2>6. QED
    BY <2>2, <2>3, <2>4, <2>5 DEF TextsInv
<1>5. QED
  BY <1>3, <1>4 DEF Done

\* The tick of a turn: echoes, and the reports offered to it.
LEMMA TickStreamingKeepsTexts ==
  ASSUME TextsInv, TickStreaming
  PROVE  TextsInv'
<1>1. /\ TypeOK /\ TurnInv /\ SentInv /\ NestedInv /\ Separate /\ Covered /\ EchoInv
      /\ ToSet(<<>>) = {} /\ outbox \in Texts /\ ToSet(outbox) \subseteq Reports
  BY TextsFacts DEF TextsInv
<1>2. /\ waiting' \subseteq waiting /\ shown' = shown \cup ToSet(echoes) /\ echoes' = <<>>
      /\ UNCHANGED <<sent, overflow, origin, nextOrigin, sink, tui, streaming, holding,
                     slot, turn, started, rx, queue, pending, reached, lost>>
      /\ Starting' = Starting /\ ToSet(echoes') = {}
  BY <1>1 DEF TickStreaming, Starting
<1>3. ASSUME UNCHANGED <<outbox, reportSlot, chan, exposed>>
      PROVE  TextsInv'
  <2>1. InChan' = InChan
    BY <1>3 DEF InChan
  <2>2. TypeOK'
    BY <1>1, <1>2, <1>3, <2>1 DEF TypeOK, SentInv
  <2>3. TurnInv' /\ SentInv' /\ NestedInv'
    BY <1>1, <1>2, <1>3, <2>1 DEF TurnInv, Unread, SentInv, NestedInv
  <2>4. Separate' /\ Covered'
    BY <1>1, <1>2, <1>3, <2>1 DEF Separate, Covered
  <2>5. EchoInv'
    BY <1>1, <1>2, <1>3, <2>1 DEF EchoInv, EchoMeansSent, InChan
  <2>6. QED
    BY <2>2, <2>3, <2>4, <2>5 DEF TextsInv
<1>4. ASSUME Into(FollowUp(outbox)), outbox' = <<>>, UNCHANGED reportSlot
      PROVE  TextsInv'
  <2> DEFINE rs == ToSet(outbox)
  <2>1. /\ rx /\ chan' \in Seq(SteerMsgs) /\ Len(chan') <= Cap /\ InChan' = InChan \cup rs
        /\ Nested(TextsOf(chan)') /\ exposed' = IF Unread THEN exposed \cup rs ELSE exposed
    BY <1>1, <1>4, IntoIs DEF FollowUp, Separate
  <2>2. outbox' \in Seq(Reports) /\ ToSet(outbox') = {}
    BY <1>1, <1>4
  <2>3. TypeOK'
    BY <1>1, <1>2, <1>4, <2>1, <2>2 DEF TypeOK, SteerMsgs, SentInv
  <2>4. TurnInv'
    BY <1>1, <1>2, <2>1 DEF TurnInv, TypeOK, Unread
  <2>5. SentInv' /\ NestedInv'
    BY <1>1, <1>2, <1>4, <2>1, <2>2 DEF SentInv, NestedInv
  <2>6. Separate'
    BY <1>1, <1>2, <1>4, <2>1, <2>2 DEF Separate
  <2>7. Covered'
    BY <1>1, <1>2, <1>4, <2>1, <2>2 DEF Covered
  <2>8. EchoInv'
    BY <1>1, <1>2, <1>4, <2>1, <2>2 DEF EchoInv, EchoMeansSent, InChan
  <2>9. QED
    BY <2>3, <2>4, <2>5, <2>6, <2>7, <2>8 DEF TextsInv
<1>5. ASSUME outbox' = <<>>, reportSlot' = <<outbox>> \o reportSlot, UNCHANGED <<chan, exposed>>
      PROVE  TextsInv'
  <2>1. /\ reportSlot' \in Seq(Texts) /\ MsgsOf(reportSlot') = MsgsOf(reportSlot) \cup ToSet(outbox)
        /\ Nested(reportSlot')
    <3> DEFINE one == <<outbox>>
    <3>1. /\ one \in Seq(Texts) /\ MsgsOf(one) = ToSet(outbox) /\ Nested(one)
          /\ reportSlot' = one \o reportSlot
      BY <1>1, <1>5, QueueOne
    <3> HIDE DEF one
    <3>2. reportSlot \in Seq(Texts) /\ Nested(reportSlot)
          /\ MsgsOf(one) \cap MsgsOf(reportSlot) = {}
      BY <1>1, <3>1 DEF TypeOK, NestedInv, Separate
    <3>3. QED
      BY <3>1, <3>2, QueueConcat
  <2>2. outbox' \in Seq(Reports) /\ ToSet(outbox') = {} /\ InChan' = InChan
    BY <1>1, <1>5 DEF InChan
  <2>3. TypeOK'
    BY <1>1, <1>2, <1>5, <2>1, <2>2 DEF TypeOK, SentInv
  <2>4. TurnInv' /\ SentInv' /\ NestedInv'
    BY <1>1, <1>2, <1>5, <2>1, <2>2 DEF TurnInv, Unread, SentInv, NestedInv
  <2>5. Separate'
    BY <1>1, <1>2, <1>5, <2>1, <2>2 DEF Separate
  <2>6. Covered'
    BY <1>1, <1>2, <1>5, <2>1, <2>2 DEF Covered
  <2>7. EchoInv'
    BY <1>1, <1>2, <1>5, <2>1, <2>2 DEF EchoInv, EchoMeansSent, InChan
  <2>8. QED
    BY <2>3, <2>4, <2>5, <2>6, <2>7 DEF TextsInv
<1>6. QED
  BY <1>3, <1>4, <1>5 DEF TickStreaming, OutboxAfter

\* The send that waited for room lands, or misses its turn.
LEMMA SendReturnsKeepsTexts ==
  ASSUME TextsInv, SendReturns
  PROVE  TextsInv'
<1> USE DEF pluginVars
<1>1. /\ TypeOK /\ TurnInv /\ SentInv /\ NestedInv /\ Separate /\ Covered /\ EchoInv
      /\ ToSet(<<>>) = {} /\ \A x : ToSet(<<x>>) = {x}
  BY TextsFacts DEF TextsInv
<1>2. PICK m \in Typed : holding = <<m>>
  BY <1>1 DEF SendReturns, TurnInv
<1>3. <<m>> \in Texts /\ ToSet(holding) = {m} /\ Head(holding) = m
  BY <1>1, <1>2, TextsFacts DEF Msgs
<1>4. /\ tui = "sending" /\ tui' = "ready" /\ holding' = <<>> /\ ToSet(holding') = {}
      /\ shown' = shown \cup {m}
      /\ UNCHANGED <<sent, outbox, overflow, echoes, waiting, origin, nextOrigin, sink, streaming,
                     reportSlot, turn, started, rx, queue, pending, reached, lost>>
      /\ Starting' = Starting
  BY <1>1, <1>3 DEF SendReturns, Echoed, Starting
<1>n. m \notin ToSet(outbox) \cup ToSet(overflow) \cup MsgsOf(slot) \cup MsgsOf(reportSlot)
        \cup InChan \cup MsgsOf(queue) \cup MsgsOf(pending) \cup Starting \cup reached \cup lost
  BY <1>1, <1>3 DEF Separate
<1>5. ASSUME Into(Steer(m)), UNCHANGED slot
      PROVE  TextsInv'
  <2>1. /\ rx /\ chan' \in Seq(SteerMsgs) /\ Len(chan') <= Cap /\ InChan' = InChan \cup {m}
        /\ Nested(TextsOf(chan)') /\ exposed' = IF Unread THEN exposed \cup {m} ELSE exposed
    BY <1>1, <1>2, <1>3, <1>n, <1>5, IntoIs DEF Steer
  <2>2. TypeOK'
    <3>1. m \in sent /\ holding' \in Texts
      BY <1>1, <1>3, <1>4 DEF SentInv, Texts
    <3>2. QED
      BY <1>1, <1>4, <1>5, <2>1, <3>1 DEF TypeOK, SteerMsgs
  <2>3. TurnInv'
    BY <1>1, <1>4, <2>1 DEF TurnInv, TypeOK, Unread
  <2>4. SentInv' /\ NestedInv'
    BY <1>1, <1>3, <1>4, <1>5, <2>1 DEF SentInv, NestedInv
  <2>5. Separate'
    BY <1>1, <1>4, <1>n, <1>5, <2>1 DEF Separate
  <2>6. Covered'
    BY <1>1, <1>3, <1>4, <1>5, <2>1 DEF Covered
  <2>7. EchoInv'
    BY <1>1, <1>4, <1>n, <1>5, <2>1 DEF EchoInv, EchoMeansSent, InChan
  <2>8. QED
    BY <2>2, <2>3, <2>4, <2>5, <2>6, <2>7 DEF TextsInv
<1>6. ASSUME slot' = Append(slot, holding), UNCHANGED <<chan, exposed>>
      PROVE  TextsInv'
  <2>1. /\ slot' \in Seq(Texts) /\ MsgsOf(slot') = MsgsOf(slot) \cup {m} /\ Nested(slot')
        /\ InChan' = InChan
    <3>1. slot \in Seq(Texts) /\ Nested(slot) /\ holding \in Texts
          /\ MsgsOf(slot) \cap ToSet(holding) = {}
      BY <1>1, <1>2, <1>3, <1>n DEF TypeOK, NestedInv
    <3>2. QED
      BY <1>3, <1>6, <3>1, QueueAppend DEF InChan
  <2>2. TypeOK'
    <3>1. m \in sent /\ holding' \in Texts
      BY <1>1, <1>3, <1>4 DEF SentInv, Texts
    <3>2. QED
      BY <1>1, <1>4, <1>6, <2>1, <3>1 DEF TypeOK
  <2>3. TurnInv'
    BY <1>1, <1>4, <1>6, <2>1 DEF TurnInv, Unread
  <2>4. SentInv' /\ NestedInv'
    BY <1>1, <1>3, <1>4, <1>6, <2>1 DEF SentInv, NestedInv
  <2>5. Separate'
    BY <1>1, <1>4, <1>n, <1>6, <2>1 DEF Separate
  <2>6. Covered'
    BY <1>1, <1>3, <1>4, <1>6, <2>1 DEF Covered
  <2>7. EchoInv'
    BY <1>1, <1>4, <1>n, <1>6, <2>1 DEF EchoInv, EchoMeansSent, InChan
  <2>8. QED
    BY <2>2, <2>3, <2>4, <2>5, <2>6, <2>7 DEF TextsInv
<1>7. QED
  BY <1>3, <1>5, <1>6 DEF SendReturns

\* Every step keeps it.
LEMMA TextsStep ==
  ASSUME TextsInv, IInv, [Next]_vars
  PROVE  TextsInv'
<1> USE DEF vars, pluginVars, tuiVars, turnVars
<1>1. /\ TypeOK /\ TurnInv /\ SentInv /\ NestedInv /\ Separate /\ Covered /\ EchoInv
      /\ RuleInv /\ StreamInv
  BY DEF TextsInv, IInv
<1>2. CASE ResetTurn
  <2>1. /\ tui # "sending" /\ tui' = "installing" /\ origin' = nextOrigin /\ nextOrigin' = Nobody
        /\ UNCHANGED <<sent, outbox, overflow, echoes, waiting, sink, streaming, holding, slot,
                       reportSlot, shown, turn, started, chan, rx, queue, pending, reached, lost,
                       exposed>>
        /\ Starting' = Starting /\ InChan' = InChan
    BY <1>2 DEF ResetTurn, Promoted, Starting, InChan
  <2>2. TypeOK'
    BY <1>1, <2>1 DEF TypeOK
  <2>3. TurnInv' /\ SentInv' /\ NestedInv'
    BY <1>1, <2>1 DEF TurnInv, Unread, SentInv, NestedInv
  <2>4. Separate' /\ Covered' /\ EchoInv'
    BY <1>1, <2>1 DEF Separate, Covered, EchoInv, EchoMeansSent, InChan
  <2>5. QED
    BY <2>2, <2>3, <2>4 DEF TextsInv
<1>3. CASE Install
  <2>1. /\ tui # "sending" /\ tui' = "ready" /\ sink' = TRUE
        /\ UNCHANGED <<sent, outbox, overflow, echoes, waiting, origin, nextOrigin, streaming,
                       holding, slot, reportSlot, shown, turn, started, chan, rx, queue, pending,
                       reached, lost, exposed>>
        /\ Starting' = Starting /\ InChan' = InChan
    BY <1>3 DEF Install, Starting, InChan
  <2>2. TypeOK'
    BY <1>1, <2>1 DEF TypeOK
  <2>3. TurnInv' /\ SentInv' /\ NestedInv'
    BY <1>1, <2>1 DEF TurnInv, Unread, SentInv, NestedInv
  <2>4. Separate' /\ Covered' /\ EchoInv'
    BY <1>1, <2>1 DEF Separate, Covered, EchoInv, EchoMeansSent, InChan
  <2>5. QED
    BY <2>2, <2>3, <2>4 DEF TextsInv
<1>4. CASE UNCHANGED vars
  <2>1. TypeOK' /\ TurnInv' /\ SentInv' /\ NestedInv'
    BY <1>1, <1>4 DEF TypeOK, TurnInv, Unread, SentInv, NestedInv, Starting, InChan
  <2>2. Separate' /\ Covered' /\ EchoInv'
    BY <1>1, <1>4 DEF Separate, Covered, EchoInv, EchoMeansSent, Starting, InChan
  <2>3. QED
    BY <2>1, <2>2 DEF TextsInv
<1>5. CASE \E m \in Typed : Submit(m) \/ TypeSteer(m)
  BY <1>5, SubmitKeepsTexts, TypeSteerKeepsTexts
<1>6. CASE \E m \in Spoken : PluginSend(m)
  BY <1>6, PluginSendKeepsTexts
<1>7. CASE \E m \in Reports : Report(m)
  BY <1>7, ReportKeepsTexts
<1>8. CASE TickIdle \/ TickStreaming \/ Done
  BY <1>1, <1>8, TickIdleKeepsTexts, TickStreamingKeepsTexts, DoneKeepsTexts
<1>9. CASE SendReturns \/ TurnStep
  BY <1>9, SendReturnsKeepsTexts, TurnKeepsTexts
<1> QED
  BY <1>2, <1>3, <1>4, <1>5, <1>6, <1>7, <1>8, <1>9 DEF Next, TuiStep

\* So it holds in every reachable state.
LEMMA TextsInvariance == Spec => []TextsInv
<1>1. TextsInv /\ IInv /\ [Next]_vars => TextsInv'
  BY TextsStep
<1>2. QED
  BY <1>1, InitTexts, Invariance, PTL DEF Spec

\* What Places(m) lists.
LEMMA PlacesAre ==
  ASSUME TextsInv, NEW m \in sent
  PROVE  /\ \A k, l \in Places(m) : k = l
         /\ m \notin exposed => \E k \in Places(m) : k # 11
         /\ IsFiniteSet(Places(m)) /\ Cardinality(Places(m)) <= 1
<1> DEFINE P == <<ToSet(outbox), ToSet(overflow), ToSet(holding), MsgsOf(slot), MsgsOf(reportSlot),
                  InChan, MsgsOf(queue), MsgsOf(pending), Starting, reached, lost>>
<1>1. Places(m) = {n \in 1 .. 11 : m \in P[n]}
  BY DEF Places, InChan
<1>2. /\ P[1] = ToSet(outbox) /\ P[2] = ToSet(overflow) /\ P[3] = ToSet(holding)
      /\ P[4] = MsgsOf(slot) /\ P[5] = MsgsOf(reportSlot) /\ P[6] = InChan
      /\ P[7] = MsgsOf(queue) /\ P[8] = MsgsOf(pending) /\ P[9] = Starting
      /\ P[10] = reached /\ P[11] = lost
  OBVIOUS
<1> HIDE DEF P
<1>3. Separate /\ Covered
  BY DEF TextsInv
<1>4. \A k, l \in 1 .. 11 : k < l => P[k] \cap P[l] = {}
  <2>1. \A l \in 2 .. 11 : P[1] \cap P[l] = {}
    BY <1>2, <1>3 DEF Separate
  <2>2. \A l \in 3 .. 11 : P[2] \cap P[l] = {}
    BY <1>2, <1>3 DEF Separate
  <2>3. \A l \in 4 .. 11 : P[3] \cap P[l] = {}
    BY <1>2, <1>3 DEF Separate
  <2>4. \A l \in 5 .. 11 : P[4] \cap P[l] = {}
    BY <1>2, <1>3 DEF Separate
  <2>5. \A l \in 6 .. 11 : P[5] \cap P[l] = {}
    BY <1>2, <1>3 DEF Separate
  <2>6. \A l \in 7 .. 11 : P[6] \cap P[l] = {}
    BY <1>2, <1>3 DEF Separate
  <2>7. \A l \in 8 .. 11 : P[7] \cap P[l] = {}
    BY <1>2, <1>3 DEF Separate
  <2>8. \A l \in 9 .. 11 : P[8] \cap P[l] = {}
    BY <1>2, <1>3 DEF Separate
  <2>9. P[9] \cap P[10] = {} /\ P[9] \cap P[11] = {} /\ P[10] \cap P[11] = {}
    BY <1>2, <1>3 DEF Separate
  <2>10. QED
    BY <2>1, <2>2, <2>3, <2>4, <2>5, <2>6, <2>7, <2>8, <2>9
<1>5. \A k, l \in Places(m) : k = l
  <2>1. \A k, l \in 1 .. 11 : k = l \/ k < l \/ l < k
    OBVIOUS
  <2>2. QED
    BY <1>1, <1>4, <2>1
<1>6. ASSUME m \notin exposed PROVE \E k \in Places(m) : k # 11
  <2>1. m \in P[1] \cup P[2] \cup P[3] \cup P[4] \cup P[5] \cup P[6] \cup P[7] \cup P[8]
          \cup P[9] \cup P[10]
    BY <1>2, <1>3, <1>6 DEF Covered
  <2>2. QED
    BY <1>1, <2>1
<1>7. IsFiniteSet(Places(m)) /\ Cardinality(Places(m)) <= 1
  <2>1. CASE Places(m) = {}
    BY <2>1, FS_EmptySet
  <2>2. CASE Places(m) # {}
    <3>1. PICK k \in Places(m) : TRUE
      BY <2>2
    <3>2. Places(m) = {k}
      BY <1>5, <3>1
    <3>3. IsFiniteSet({k}) /\ Cardinality({k}) = 1
      BY FS_Singleton
    <3>4. QED
      BY <3>2, <3>3
  <2>3. QED
    BY <2>1, <2>2
<1>8. QED
  BY <1>5, <1>6, <1>7

-----------------------------------------------------------------------------
(***************************************************************************)
(* What follows.                                                           *)
(***************************************************************************)

\* plugin_send's rule 1: a plugin is waiting exactly while a message of its is
\* in the overflow or still to be echoed, and it has one at most.
THEOREM RuleOne == Spec => []RuleOneIsExact
<1>1. IInv => RuleOneIsExact
  <2> SUFFICES ASSUME RuleInv
               PROVE  RuleOneIsExact
    BY DEF IInv
  <2> DEFINE owed == ToSet(overflow) \cup ToSet(echoes)
  <2>1. waiting = {From[m] : m \in owed}
    BY DEF RuleInv, ToSet
  <2>2. ASSUME NEW m \in owed, NEW n \in owed, From[m] = From[n]
        PROVE  m = n
    BY <2>2 DEF RuleInv, ToSet
  <2> QED BY <2>1, <2>2 DEF RuleOneIsExact
<1> QED BY <1>1, Invariance, PTL

\* Between turns nothing waits in Agent::pending_follow_ups.
THEOREM IdleOwes == Spec => []IdleOwesNothing
<1>1. IInv => IdleOwesNothing
  BY DEF IInv, StreamInv
<1> QED BY <1>1, Invariance, PTL

\* plugin_send's rule 2 is applied in no turn but one that a message of the
\* plugin started.
THEOREM OriginStarted == Spec => []OriginStartedTurn
<1>1. IInv => OriginStartedTurn
  BY DEF IInv, OriginInv
<1> QED BY <1>1, Invariance, PTL

\* Whatever is typed, accepted from a plugin or reported by an agent is in one
\* queue at a time, wherever the turn is when it is cancelled, fails or ends,
\* and a turn reads nothing that is neither shown nor about to be.
THEOREM EveryTextHasOnePlace == Spec => []TextsAccounted
<1>1. TextsInv => TextsAccounted
  <2> SUFFICES ASSUME TextsInv PROVE TextsAccounted
    OBVIOUS
  <2>1. InOnePlace
    BY PlacesAre DEF InOnePlace
  <2>2. QED
    BY <2>1 DEF TextsInv, EchoInv, TextsAccounted
<1>2. QED
  BY <1>1, TextsInvariance, PTL

\* A text can be lost in one way only: in the channel of a turn, or the queue
\* fed from it, that the turn left without draining.
THEOREM OnlyUnreadIsLost == Spec => []LostOnlyUnread
<1>1. TextsInv => LostOnlyUnread
  BY PlacesAre DEF LostOnlyUnread
<1>2. QED
  BY <1>1, TextsInvariance, PTL
=============================================================================
