-------------------------- MODULE McpTransportProofs --------------------------
(***************************************************************************)
(* The safety of the two transports of an MCP server, for any calls.       *)
(*                                                                         *)
(* The pipes of McpStdio, whatever their size: lines stay whole, whoever   *)
(* waits for a reply is known to the reader, and each step is one that     *)
(* McpCall allows.                                                         *)
(*                                                                         *)
(* The sessions of McpSession, however often the server loses them: it     *)
(* honours at most the current one, and each step is one that McpCall      *)
(* allows.                                                                 *)
(***************************************************************************)
EXTENDS McpStdio, McpSession, FiniteSetTheorems, SequenceTheorems, TLAPS

USE StdioAssumption, SessionAssumption

-----------------------------------------------------------------------------
(***************************************************************************)
(* McpStdio.                                                               *)
(***************************************************************************)

\* TypeOK, but for the map that closes empty.
Typed ==
  /\ caller \in [Calls -> {"idle", "writing", "waiting", "grace", "answered", "failed", "dropped"}]
  /\ reply \in [Calls -> {"none", "answer", "closed"}]
  /\ pending \in SUBSET Calls /\ slots \in {"open", "closed"}
  /\ client \in {"ready", "failed"}
  /\ line \in [Lines -> {"none", "behind", "queued", "half", "written", "lost"}]
  /\ holder \in Lines \cup {Nobody} /\ stdin \in {"open", "closed"}
  /\ pipe \in Seq(Parts) /\ Len(pipe) <= Room
  /\ reader \in {"reading", "refusing", "over"}
  /\ exit \in {"no", "stopping", "reaping", "over"}
  /\ server \in {"up", "mute", "dead"}
  /\ heard \in Lines \cup {Nobody}
  /\ work \in [Calls -> {"none", "running", "finished", "over"}]
  /\ asked \in BOOLEAN
  /\ out \in Seq(Lines) /\ Len(out) <= OutRoom

\* Whoever has the lock has written half of its line.
HolderInv == \A l \in Lines : line[l] = "half" <=> holder = l

\* A line is written once: a request by the call that begins, a cancellation by
\* the future that is dropped, and a refusal while the reader waits for it.
FreshInv ==
  /\ \A c \in Calls : /\ caller[c] = "idle" => line[Request(c)] = "none"
                      /\ caller[c] # "dropped" => line[Cancelled(c)] = "none"
  /\ reader # "refusing" => line[Refusal] = "none"

\* In a stream of parts every head is followed by its tail, if by anything,
Paired(s) ==
  \A i \in 1 .. Len(s) : i < Len(s) /\ s[i][1] = "head" => s[i + 1] = <<"tail", s[i][2]>>

\* and it ends in a head exactly while that line's writer has the lock.
EndsWith(s, h) ==
  IF h = Nobody THEN s = <<>> \/ s[Len(s)][1] = "tail"
  ELSE s # <<>> /\ s[Len(s)] = <<"head", h>>

StreamInv ==
  /\ Paired(Stream)
  /\ server = "dead" => pipe = <<>>
  /\ server # "dead" => EndsWith(Stream, holder)

\* A request is in the pipe at most once, and before the server works on it.
OnceInv ==
  /\ \A c \in Calls : work[c] # "none" => line[Request(c)] = "written"
  /\ \A c \in Calls, i \in 1 .. Len(pipe) : pipe[i] = <<"tail", Request(c)>> =>
       /\ line[Request(c)] = "written" /\ work[c] = "none"
       /\ \A j \in 1 .. Len(pipe) : pipe[j] = pipe[i] => j = i

\* An answer is of a call that the server has taken up.
AnswerInv ==
  /\ \A c \in Calls : reply[c] = "answer" \/ caller[c] = "answered" => work[c] # "none"
  /\ \A i \in 1 .. Len(out) : out[i] # Refusal => out[i][2] \in Calls /\ work[out[i][2]] # "none"

SlotsInv == (slots = "closed" => pending = {}) /\ WaiterIsKnown

IInv == Typed /\ SlotsInv /\ HolderInv /\ FreshInv /\ StreamInv /\ OnceInv /\ AnswerInv

-----------------------------------------------------------------------------
(***************************************************************************)
(* Lines, and streams of their parts.                                      *)
(***************************************************************************)
LEMMA LinesAre ==
  /\ Refusal \in Lines /\ Nobody \notin Lines
  /\ \A c \in Calls : /\ Request(c) \in Lines /\ Cancelled(c) \in Lines
                      /\ Request(c) # Refusal /\ Cancelled(c) # Refusal
                      /\ Request(c)[1] = "call" /\ Request(c)[2] = c
  /\ \A c, d \in Calls : /\ Request(c) # Cancelled(d)
                         /\ Request(c) = Request(d) => c = d
                         /\ Cancelled(c) = Cancelled(d) => c = d
  /\ \A l \in Lines : l # Refusal => l[2] \in Calls
BY DEF Lines, Refusal, Nobody, Request, Cancelled

LEMMA PartsAre ==
  /\ \A l \in Lines : <<"head", l>> \in Parts /\ <<"tail", l>> \in Parts
  /\ \A x \in Parts : x[1] \in {"head", "tail"} /\ x[2] \in Lines /\ x = <<x[1], x[2]>>
BY DEF Parts

LEMMA AppendParts ==
  ASSUME NEW s \in Seq(Parts), NEW x \in Parts
  PROVE  /\ Append(s, x) \in Seq(Parts) /\ Len(Append(s, x)) = Len(s) + 1 /\ Len(s) \in Nat
         /\ \A i \in 1 .. Len(s) : Append(s, x)[i] = s[i]
         /\ Append(s, x)[Len(s) + 1] = x
         /\ Append(s, x) # <<>>
OBVIOUS

LEMMA PairedAppend ==
  ASSUME NEW s \in Seq(Parts), NEW x \in Parts, Paired(s),
         s # <<>> /\ s[Len(s)][1] = "head" => x = <<"tail", s[Len(s)][2]>>
  PROVE  Paired(Append(s, x))
<1> DEFINE t == Append(s, x)
<1>1. /\ Len(t) = Len(s) + 1 /\ Len(s) \in Nat /\ t[Len(s) + 1] = x
      /\ \A i \in 1 .. Len(s) : t[i] = s[i]
  BY AppendParts
<1> HIDE DEF t
<1> SUFFICES ASSUME NEW i \in 1 .. Len(s), t[i][1] = "head" PROVE t[i + 1] = <<"tail", t[i][2]>>
  BY <1>1 DEF Paired, t
<1>2. CASE i < Len(s)
  BY <1>1, <1>2 DEF Paired
<1>3. CASE i = Len(s)
  BY <1>1, <1>3
<1> QED BY <1>1, <1>2, <1>3

LEMMA PairedTail ==
  ASSUME NEW s \in Seq(Parts), s # <<>>, Paired(s)
  PROVE  /\ Tail(s) \in Seq(Parts) /\ Paired(Tail(s)) /\ Len(Tail(s)) = Len(s) - 1
         /\ Tail(s) # <<>> => Tail(s)[Len(Tail(s))] = s[Len(s)]
         /\ Tail(s) = <<>> => Len(s) = 1
<1> DEFINE t == Tail(s)
<1>1. /\ t \in Seq(Parts) /\ Len(t) = Len(s) - 1 /\ Len(s) \in Nat /\ Len(t) \in Nat
      /\ \A i \in 1 .. Len(t) : t[i] = s[i + 1]
  BY HeadTailProperties, LenProperties
<1> HIDE DEF t
<1>2. t # <<>> <=> Len(t) > 0
  BY <1>1, EmptySeq
<1>3. Paired(t)
  BY <1>1 DEF Paired
<1>4. t # <<>> => t[Len(t)] = s[Len(s)]
  BY <1>1, <1>2
<1> QED BY <1>1, <1>2, <1>3, <1>4 DEF t

\* What the server has read half of comes first in the stream.
LEMMA StreamIs ==
  ASSUME NEW p \in Seq(Parts), NEW h \in Lines
  PROVE  LET s == <<<<"head", h>>>> \o p IN
         /\ s \in Seq(Parts) /\ Len(s) = Len(p) + 1 /\ s[1] = <<"head", h>>
         /\ \A i \in 1 .. Len(p) : s[i + 1] = p[i]
         /\ Tail(s) = p /\ s # <<>>
<1> DEFINE x == <<"head", h>>
           s == <<x>> \o p
<1>1. x \in Parts BY PartsAre
<1> HIDE DEF x
<1>2. <<x>> \in Seq(Parts) /\ Len(<<x>>) = 1 /\ <<x>>[1] = x BY <1>1
<1>3. /\ s \in Seq(Parts) /\ Len(s) = 1 + Len(p) /\ Len(p) \in Nat
      /\ \A i \in 1 .. 1 + Len(p) : s[i] = IF i <= 1 THEN <<x>>[i] ELSE p[i - 1]
  BY <1>2, ConcatProperties, LenProperties
<1> HIDE DEF s
<1>4. s[1] = x /\ \A i \in 1 .. Len(p) : s[i + 1] = p[i] BY <1>2, <1>3
<1>5. s # <<>> BY <1>3, EmptySeq
<1>6. /\ Tail(s) \in Seq(Parts) /\ Len(Tail(s)) = Len(p)
      /\ \A i \in 1 .. Len(Tail(s)) : Tail(s)[i] = s[i + 1]
  BY <1>3, <1>5, HeadTailProperties
<1>7. Tail(s) = p BY <1>3, <1>4, <1>6, SeqEqual
<1> QED BY <1>3, <1>4, <1>5, <1>7 DEF s, x

LEMMA StreamTyped == ASSUME Typed PROVE Stream \in Seq(Parts)
BY StreamIs DEF Typed, Stream

LEMMA StreamAppend ==
  ASSUME Typed, NEW x \in Parts, pipe' = Append(pipe, x), UNCHANGED heard
  PROVE  Stream' = Append(Stream, x)
<1>1. CASE heard = Nobody BY <1>1 DEF Stream
<1>2. CASE heard # Nobody
  <2> DEFINE h == <<"head", heard>>
  <2>0. h \in Parts BY <1>2, PartsAre DEF Typed
  <2> HIDE DEF h
  <2>1. <<h>> \in Seq(Parts) /\ pipe \in Seq(Parts) /\ <<x>> \in Seq(Parts) BY <2>0 DEF Typed
  <2>2. <<h>> \o Append(pipe, x) = Append(<<h>> \o pipe, x)
    BY <2>0, <2>1, AppendIsConcat, ConcatAssociative, ConcatProperties
  <2> QED BY <1>2, <2>2 DEF Stream, h
<1> QED BY <1>1, <1>2

-----------------------------------------------------------------------------
(***************************************************************************)
(* Types.                                                                  *)
(***************************************************************************)
PipeStep == (\E l \in Lines : WriteStep(l)) \/ ServerReads

CallerStep == \E c \in Calls : Begin(c) \/ Drop(c) \/ CallStep(c)

ServerStep ==
  \/ \E c \in Calls : ServerAnswers(c)
  \/ ServerAsks \/ ServerCloses \/ ServerDies

LEMMA StepCases ==
  ASSUME [Next]_vars
  PROVE  CallerStep \/ PipeStep \/ ReaderStep \/ Shutdown \/ ShutdownStep \/ ServerStep
         \/ UNCHANGED vars
BY DEF Next, CallerStep, PipeStep, ServerStep

\* What steps do to the line of a request or a cancellation.
LineStates == {"none", "behind", "queued", "half", "written", "lost"}
CallerStates == {"idle", "writing", "waiting", "grace", "answered", "failed", "dropped"}

LEMMA BecomesTyped ==
  ASSUME Typed, NEW c \in Calls, NEW s \in CallerStates, Becomes(c, s)
  PROVE  caller' \in [Calls -> CallerStates] /\ caller' = [caller EXCEPT ![c] = s]
BY DEF Becomes, Typed, CallerStates

LEMMA LineTyped ==
  ASSUME Typed, NEW l \in Lines, NEW s \in LineStates
  PROVE  [line EXCEPT ![l] = s] \in [Lines -> LineStates]
BY DEF Typed, LineStates

\* Drop marks the cancellation; the write of the request goes on.
LEMMA DropIs ==
  ASSUME Typed, HolderInv, NEW c \in Calls, Drop(c)
  PROVE  /\ caller[c] \in {"writing", "waiting", "grace"}
         /\ caller' = [caller EXCEPT ![c] = "dropped"]
         /\ pending' \in {pending, pending \ {c}}
         /\ line' \in {line, [line EXCEPT ![Cancelled(c)] = "behind"]}
         /\ UNCHANGED <<holder, stdin, pipe, reply, slots, client, reader, exit, serverVars>>
<1>1. CASE caller[c] = "grace" BY <1>1 DEF Drop, Becomes, pipeVars
<1>2. CASE caller[c] # "grace"
  <2>1. line' = [line EXCEPT ![Cancelled(c)] = "behind", ![Request(c)] = line[Request(c)]]
    BY <1>2 DEF Drop, Place, AbandonedWrite
  <2>2. line' = [line EXCEPT ![Cancelled(c)] = "behind"]
    <3>1. ASSUME NEW D, NEW T, NEW f \in [D -> T], NEW p, NEW q \in D, p # q, NEW v
          PROVE  [f EXCEPT ![p] = v, ![q] = f[q]] = [f EXCEPT ![p] = v]
      <4> DEFINE g == [f EXCEPT ![p] = v]
      <4>1. g \in [D -> T \cup {v}] /\ g[q] = f[q] BY <3>1
      <4> HIDE DEF g
      <4>2. [g EXCEPT ![q] = f[q]] = g BY <4>1
      <4> QED BY <4>2 DEF g
    <3>2. line \in [Lines -> LineStates] /\ Request(c) \in Lines /\ Request(c) # Cancelled(c)
      BY LinesAre DEF Typed, LineStates
    <3> QED BY <2>1, <3>1, <3>2, Zenon
  <2>3. line'[Request(c)] = line[Request(c)] BY <2>2, LinesAre DEF Typed
  <2>4. line[Request(c)] = "lost" => holder # Request(c) BY LinesAre DEF HolderInv
  <2>5. holder' = holder BY <1>2, <2>3, <2>4 DEF Drop
  <2> QED BY <1>2, <2>2, <2>5 DEF Drop, Becomes
<1> QED BY <1>1, <1>2

LEMMA CallerTyped == ASSUME Typed, HolderInv, CallerStep PROVE Typed'
<1> PICK c \in Calls : Begin(c) \/ Drop(c) \/ CallStep(c) BY DEF CallerStep
<1>1. CASE Begin(c)
  <2>1. caller' \in [Calls -> CallerStates]
    BY <1>1, BecomesTyped DEF Begin, CallerStates
  <2>2. line' \in [Lines -> LineStates]
    BY <1>1, LineTyped, LinesAre DEF Begin, Typed, LineStates
  <2>3. pending' \in SUBSET Calls /\ client' \in {"ready", "failed"} BY <1>1 DEF Begin, Typed
  <2> QED BY <1>1, <2>1, <2>2, <2>3 DEF Begin, Typed, serverVars, CallerStates, LineStates
<1>2. CASE Drop(c)
  <2>1. caller' \in [Calls -> CallerStates] BY <1>2, DropIs DEF Typed, CallerStates
  <2>2. line' \in [Lines -> LineStates]
    BY <1>2, DropIs, LinesAre, LineTyped DEF Typed, LineStates
  <2>3. pending' \in SUBSET Calls BY <1>2, DropIs DEF Typed
  <2> QED BY <1>2, <2>1, <2>2, <2>3, DropIs DEF Typed, serverVars, CallerStates, LineStates
<1>3. CASE Written(c)
  <2>1. caller' \in [Calls -> CallerStates] BY <1>3, BecomesTyped DEF Written, CallerStates
  <2> QED BY <1>3, <2>1 DEF Written, Typed, pipeVars, serverVars, CallerStates
<1>4. CASE TakeReply(c)
  <2>1. caller' \in [Calls -> CallerStates] BY <1>4, BecomesTyped DEF TakeReply, CallerStates
  <2> QED BY <1>4, <2>1 DEF TakeReply, Typed, pipeVars, serverVars, CallerStates
<1>5. CASE Timeout(c)
  <2>1. caller' \in [Calls -> CallerStates] BY <1>5, BecomesTyped DEF Timeout, CallerStates
  <2> QED BY <1>5, <2>1 DEF Timeout, Typed, pipeVars, serverVars, CallerStates
<1>6. CASE Overtaken(c)
  <2>1. line' \in [Lines -> LineStates]
    BY <1>6, LineTyped, LinesAre DEF Overtaken, LineStates
  <2> QED BY <1>6, <2>1 DEF Overtaken, Typed, callVars, serverVars, LineStates
<1> QED BY <1>1, <1>2, <1>3, <1>4, <1>5, <1>6 DEF CallStep

LEMMA PipeTyped == ASSUME Typed, PipeStep PROVE Typed'
<1> USE LinesAre
<1>1. ASSUME NEW l \in Lines, PutHead(l) \/ PutTail(l) PROVE Typed'
  <2>1. PICK part \in {"head", "tail"}, s \in LineStates : Put(part, l, s)
    BY <1>1 DEF PutHead, PutTail, LineStates
  <2>2. <<part, l>> \in Parts BY PartsAre
  <2>3. line' \in [Lines -> LineStates] BY <2>1, LineTyped DEF Put
  <2>4. pipe' \in Seq(Parts) /\ Len(pipe') <= Room
    BY <2>1, <2>2, AppendParts DEF Put, Typed, StdioAssumption
  <2>5. holder' \in Lines \cup {Nobody} BY <1>1 DEF PutHead, PutTail
  <2> QED BY <2>1, <2>3, <2>4, <2>5 DEF Put, Typed, callVars, serverVars, LineStates
<1>2. ASSUME NEW l \in Lines, Broken(l) PROVE Typed'
  <2>1. line' \in [Lines -> LineStates] BY <1>2, LineTyped DEF Broken, LineStates
  <2> QED BY <1>2, <2>1 DEF Broken, Typed, callVars, serverVars, LineStates
<1>3. CASE ServerReads
  <2>1. pipe' \in Seq(Parts) /\ Len(pipe') <= Room /\ Head(pipe) \in Parts
    BY <1>3, HeadTailProperties, LenProperties DEF ServerReads, Typed, StdioAssumption
  <2>2. heard' \in Lines \cup {Nobody} BY <1>3, <2>1, PartsAre DEF ServerReads
  <2>3. work' \in [Calls -> {"none", "running", "finished", "over"}]
    BY <1>3 DEF ServerReads, Typed
  <2> QED BY <1>3, <2>1, <2>2, <2>3 DEF ServerReads, Typed, callVars
<1> QED BY <1>1, <1>2, <1>3 DEF PipeStep, WriteStep

LEMMA CloseIs ==
  ASSUME Typed, Close
  PROVE  /\ slots' = "closed" /\ pending' = {} /\ UNCHANGED <<caller, client>>
         /\ reply' \in [Calls -> {"none", "answer", "closed"}]
         /\ \A c \in Calls : reply'[c] = IF c \in pending THEN "closed" ELSE reply[c]
BY DEF Close, Typed

LEMMA GoneIs ==
  ASSUME Typed, Gone
  PROVE  /\ server' = "dead" /\ pipe' = <<>> /\ UNCHANGED <<heard, asked, out>>
         /\ work' \in [Calls -> {"none", "running", "finished", "over"}]
         /\ \A c \in Calls : work'[c] = "none" <=> work[c] = "none"
BY DEF Gone, Typed

LEMMA ReaderTyped == ASSUME Typed, ReaderStep PROVE Typed'
<1> USE LinesAre
<1>1. ASSUME out # <<>> PROVE /\ Head(out) \in Lines /\ Tail(out) \in Seq(Lines)
                              /\ Len(Tail(out)) <= OutRoom
  BY <1>1, HeadTailProperties, LenProperties DEF Typed, StdioAssumption
<1>2. CASE ReadReply
  <2>1. out' \in Seq(Lines) /\ Len(out') <= OutRoom BY <1>1, <1>2 DEF ReadReply
  <2>2. reply' \in [Calls -> {"none", "answer", "closed"}] BY <1>2 DEF ReadReply, Typed
  <2> QED BY <1>2, <2>1, <2>2 DEF ReadReply, Typed, pipeVars
<1>3. CASE ReadRequest
  <2>1. out' \in Seq(Lines) /\ Len(out') <= OutRoom BY <1>1, <1>3 DEF ReadRequest
  <2>2. line' \in [Lines -> LineStates] BY <1>3, LineTyped DEF ReadRequest, LineStates
  <2> QED BY <1>3, <2>1, <2>2 DEF ReadRequest, Typed, callVars, LineStates
<1>4. CASE RefusalWritten
  <2>1. line' \in [Lines -> LineStates] BY <1>4, LineTyped DEF RefusalWritten, LineStates
  <2> QED BY <1>4, <2>1 DEF RefusalWritten, Typed, callVars, serverVars, LineStates
<1>5. CASE EndOfFile
  BY <1>5, CloseIs DEF EndOfFile, Typed, callVars, pipeVars, serverVars
<1> QED BY <1>2, <1>3, <1>4, <1>5 DEF ReaderStep

LEMMA EndTyped == ASSUME Typed, Shutdown \/ ShutdownStep PROVE Typed'
<1> <<>> \in Seq(Parts) /\ Len(<<>>) <= Room BY DEF StdioAssumption
<1>1. CASE Shutdown BY <1>1 DEF Shutdown, Typed, callVars, pipeVars, serverVars
<1>2. CASE CloseStdin BY <1>2 DEF CloseStdin, Typed, callVars, serverVars
<1>3. CASE Reap BY <1>3, CloseIs, GoneIs DEF Reap, Typed, callVars
<1>4. CASE GiveUp BY <1>4, GoneIs DEF GiveUp, Typed, callVars
<1> QED BY <1>1, <1>2, <1>3, <1>4 DEF ShutdownStep

LEMMA ServerTyped == ASSUME Typed, ServerStep PROVE Typed'
<1> <<>> \in Seq(Parts) /\ Len(<<>>) <= Room BY DEF StdioAssumption
<1>0. ASSUME NEW l \in Lines, Len(out) < OutRoom
      PROVE  Append(out, l) \in Seq(Lines) /\ Len(Append(out, l)) <= OutRoom
  BY <1>0, AppendProperties, LenProperties DEF Typed, StdioAssumption
<1>1. ASSUME NEW c \in Calls, ServerAnswers(c) PROVE Typed'
  <2>1. out' \in Seq(Lines) /\ Len(out') <= OutRoom BY <1>0, <1>1, LinesAre DEF ServerAnswers
  <2>2. work' \in [Calls -> {"none", "running", "finished", "over"}]
    BY <1>1 DEF ServerAnswers, Typed
  <2> QED BY <1>1, <2>1, <2>2 DEF ServerAnswers, Typed, callVars, pipeVars
<1>2. CASE ServerAsks
  <2>1. out' \in Seq(Lines) /\ Len(out') <= OutRoom BY <1>0, <1>2, LinesAre DEF ServerAsks
  <2> QED BY <1>2, <2>1 DEF ServerAsks, Typed, callVars, pipeVars
<1>3. CASE ServerCloses BY <1>3 DEF ServerCloses, Typed, callVars, pipeVars
<1>4. CASE ServerDies BY <1>4, GoneIs DEF ServerDies, Typed, callVars
<1> QED BY <1>1, <1>2, <1>3, <1>4 DEF ServerStep

LEMMA NextTyped == ASSUME Typed, HolderInv, [Next]_vars PROVE Typed'
<1>1. CASE UNCHANGED vars
  BY <1>1 DEF vars, callVars, pipeVars, serverVars, Typed
<1> QED BY <1>1, StepCases, CallerTyped, PipeTyped, ReaderTyped, EndTyped, ServerTyped

-----------------------------------------------------------------------------
(***************************************************************************)
(* The lock and the lines.                                                 *)
(***************************************************************************)

\* Steps of callers and of the reader move a line that no one is writing.
LEMMA QuietLine ==
  ASSUME Typed, HolderInv, FreshInv, NEW l \in Lines, NEW s \in LineStates,
         line[l] # "half", s # "half", line' = [line EXCEPT ![l] = s], UNCHANGED holder
  PROVE  HolderInv'
BY DEF HolderInv, Typed

LEMMA NextHolder == ASSUME Typed, HolderInv, FreshInv, [Next]_vars PROVE HolderInv'
<1> USE LinesAre
<1>1. CASE UNCHANGED <<line, holder>> BY <1>1 DEF HolderInv
<1>2. CASE CallerStep
  <2> PICK c \in Calls : Begin(c) \/ Drop(c) \/ CallStep(c) BY <1>2 DEF CallerStep
  <2>1. CASE Begin(c)
    <3>1. CASE Refused BY <1>1, <2>1, <3>1 DEF Begin
    <3>2. CASE ~Refused
      BY <2>1, <3>2, QuietLine DEF Begin, FreshInv, LineStates
    <3> QED BY <3>1, <3>2
  <2>2. CASE Drop(c)
    <3>1. line[Cancelled(c)] = "none" BY <2>2, DropIs DEF FreshInv
    <3> QED BY <1>1, <2>2, <3>1, DropIs, QuietLine DEF LineStates
  <2>3. CASE Overtaken(c) BY <2>3, QuietLine DEF Overtaken, LineStates
  <2>4. CASE Written(c) \/ TakeReply(c) \/ Timeout(c)
    BY <1>1, <2>4 DEF Written, TakeReply, Timeout, pipeVars
  <2> QED BY <2>1, <2>2, <2>3, <2>4 DEF CallStep
<1>3. CASE PipeStep
  <2>1. ASSUME NEW l \in Lines, PutHead(l) PROVE HolderInv'
    BY <2>1 DEF PutHead, Put, HolderInv, Typed
  <2>2. ASSUME NEW l \in Lines, PutTail(l) PROVE HolderInv'
    BY <2>2 DEF PutTail, Put, HolderInv, Typed
  <2>3. ASSUME NEW l \in Lines, Broken(l) PROVE HolderInv'
    BY <2>3 DEF Broken, HolderInv, Typed
  <2>4. CASE ServerReads BY <1>1, <2>4 DEF ServerReads
  <2> QED BY <1>3, <2>1, <2>2, <2>3, <2>4 DEF PipeStep, WriteStep
<1>4. CASE ReaderStep
  <2>1. CASE ReadRequest
    BY <2>1, QuietLine DEF ReadRequest, FreshInv, LineStates
  <2>2. CASE RefusalWritten
    BY <2>2, QuietLine DEF RefusalWritten, LineStates
  <2>3. CASE ReadReply \/ EndOfFile BY <1>1, <2>3 DEF ReadReply, EndOfFile, pipeVars
  <2> QED BY <1>4, <2>1, <2>2, <2>3 DEF ReaderStep
<1>5. CASE Shutdown \/ ShutdownStep
  BY <1>1, <1>5 DEF Shutdown, ShutdownStep, CloseStdin, Reap, GiveUp, pipeVars
<1>6. CASE ServerStep
  BY <1>1, <1>6 DEF ServerStep, ServerAnswers, ServerAsks, ServerCloses, ServerDies, pipeVars
<1>7. CASE UNCHANGED vars BY <1>1, <1>7 DEF vars, pipeVars
<1> QED BY <1>2, <1>3, <1>4, <1>5, <1>6, <1>7, StepCases

LEMMA NextFresh == ASSUME Typed, HolderInv, FreshInv, [Next]_vars PROVE FreshInv'
<1> USE LinesAre
<1>1. CASE UNCHANGED <<line, caller, reader>> BY <1>1 DEF FreshInv
<1>2. ASSUME NEW l \in Lines, NEW s \in LineStates, line[l] # "none",
             line' = [line EXCEPT ![l] = s], UNCHANGED <<caller, reader>>
      PROVE  FreshInv'
  BY <1>2 DEF FreshInv, Typed
<1>3. CASE CallerStep
  <2> PICK c \in Calls : Begin(c) \/ Drop(c) \/ CallStep(c) BY <1>3 DEF CallerStep
  <2>1. ASSUME UNCHANGED <<line, reader>>, caller[c] # "idle", caller[c] # "dropped",
               NEW s \in CallerStates \ {"idle"}, Becomes(c, s)
        PROVE  FreshInv'
    BY <2>1 DEF FreshInv, Becomes, Typed
  <2>2. CASE Begin(c)
    <3>1. CASE Refused BY <2>2, <3>1 DEF Begin, Becomes, FreshInv, Typed
    <3>2. CASE ~Refused BY <2>2, <3>2 DEF Begin, Becomes, FreshInv, Typed
    <3> QED BY <3>1, <3>2
  <2>3. CASE Drop(c)
    <3>1. caller'[c] = "dropped" /\ \A d \in Calls : d # c => caller'[d] = caller[d]
      BY <2>3, DropIs DEF Typed
    <3>2. \A l \in Lines : l # Cancelled(c) => line'[l] = line[l]
      BY <2>3, DropIs DEF Typed
    <3>3. caller[c] # "idle" /\ reader' = reader BY <2>3, DropIs
    <3> QED BY <3>1, <3>2, <3>3 DEF FreshInv
  <2>4. CASE Written(c) BY <2>1, <2>4 DEF Written, pipeVars, CallerStates
  <2>5. CASE TakeReply(c) BY <2>1, <2>5 DEF TakeReply, pipeVars, CallerStates
  <2>6. CASE Timeout(c) BY <2>1, <2>6 DEF Timeout, pipeVars, CallerStates
  <2>7. CASE Overtaken(c) BY <1>2, <2>7 DEF Overtaken, callVars, LineStates
  <2> QED BY <2>2, <2>3, <2>4, <2>5, <2>6, <2>7 DEF CallStep
<1>4. CASE PipeStep
  <2>1. ASSUME NEW l \in Lines, WriteStep(l) PROVE FreshInv'
    BY <1>2, <2>1 DEF WriteStep, PutHead, PutTail, Put, Broken, callVars, LineStates
  <2>2. CASE ServerReads BY <1>1, <2>2 DEF ServerReads, callVars
  <2> QED BY <1>4, <2>1, <2>2 DEF PipeStep
<1>5. CASE ReaderStep
  <2>1. CASE ReadRequest BY <2>1 DEF ReadRequest, FreshInv, Typed, callVars
  <2>2. CASE RefusalWritten BY <2>2 DEF RefusalWritten, FreshInv, Typed, callVars
  <2>3. CASE ReadReply BY <1>1, <2>3 DEF ReadReply, pipeVars
  <2>4. CASE EndOfFile BY <2>4 DEF EndOfFile, Close, callVars, pipeVars, FreshInv
  <2> QED BY <1>5, <2>1, <2>2, <2>3, <2>4 DEF ReaderStep
<1>6. CASE Shutdown \/ ShutdownStep
  BY <1>1, <1>6 DEF Shutdown, ShutdownStep, CloseStdin, Reap, Close, GiveUp, callVars, pipeVars
<1>7. CASE ServerStep
  BY <1>1, <1>7 DEF ServerStep, ServerAnswers, ServerAsks, ServerCloses, ServerDies, callVars,
     pipeVars
<1>8. CASE UNCHANGED vars BY <1>1, <1>8 DEF vars, callVars, pipeVars
<1> QED BY <1>3, <1>4, <1>5, <1>6, <1>7, <1>8, StepCases

\* The waiters and the map.
LEMMA NextSlots == ASSUME Typed, SlotsInv, HolderInv, [Next]_vars PROVE SlotsInv'
<1>1. CASE UNCHANGED <<caller, reply, pending, slots>> BY <1>1 DEF SlotsInv, WaiterIsKnown
<1>2. ASSUME NEW c \in Calls, caller' = [caller EXCEPT ![c] = caller'[c]],
             caller'[c] \in {"writing", "waiting"} => caller[c] \in {"writing", "waiting"},
             pending' \in {pending, pending \ {c}}, UNCHANGED <<reply, slots>>,
             pending' # pending => caller'[c] \notin {"writing", "waiting"}
      PROVE  SlotsInv'
  BY <1>2 DEF SlotsInv, WaiterIsKnown, Typed
<1>3. CASE CallerStep
  <2> PICK c \in Calls : Begin(c) \/ Drop(c) \/ CallStep(c) BY <1>3 DEF CallerStep
  <2>0. ASSUME NEW s \in CallerStates, Becomes(c, s)
        PROVE  caller'[c] = s /\ caller' = [caller EXCEPT ![c] = caller'[c]]
    BY <2>0 DEF Becomes, Typed
  <2>1. CASE Begin(c)
    <3>1. CASE Refused BY <1>2, <2>0, <2>1, <3>1 DEF Begin, CallerStates
    <3>2. CASE ~Refused
      <4>1. /\ slots = "open" /\ pending' = pending \cup {c} /\ UNCHANGED <<reply, slots>>
            /\ \A d \in Calls : d # c => caller'[d] = caller[d]
        BY <2>1, <3>2 DEF Begin, Refused, Becomes, Typed
      <4> QED BY <4>1 DEF SlotsInv, WaiterIsKnown
    <3> QED BY <3>1, <3>2
  <2>2. CASE Drop(c)
    <3>1. caller'[c] = "dropped" /\ caller' = [caller EXCEPT ![c] = caller'[c]]
      BY <2>2, DropIs DEF Typed
    <3> QED BY <1>2, <2>2, <3>1, DropIs
  <2>3. CASE Written(c) BY <1>2, <2>0, <2>3 DEF Written, CallerStates
  <2>4. CASE TakeReply(c) BY <1>2, <2>0, <2>4 DEF TakeReply, CallerStates
  <2>5. CASE Timeout(c) BY <1>2, <2>0, <2>5 DEF Timeout, CallerStates
  <2>6. CASE Overtaken(c) BY <1>1, <2>6 DEF Overtaken, callVars
  <2> QED BY <2>1, <2>2, <2>3, <2>4, <2>5, <2>6 DEF CallStep
<1>4. CASE PipeStep
  BY <1>1, <1>4 DEF PipeStep, WriteStep, PutHead, PutTail, Put, Broken, ServerReads, callVars
<1>5. ASSUME Close PROVE SlotsInv'
  BY <1>5, CloseIs DEF SlotsInv, WaiterIsKnown
<1>6. CASE ReaderStep
  <2>1. CASE ReadReply
    <3>1. PICK to \in SUBSET pending :
            /\ \A c \in Calls : reply'[c] = IF c \in to THEN "answer" ELSE reply[c]
            /\ pending' = pending \ to /\ UNCHANGED <<caller, slots>>
      BY <2>1 DEF ReadReply, Answered
    <3> QED BY <3>1 DEF SlotsInv, WaiterIsKnown
  <2>2. CASE EndOfFile BY <1>1, <1>5, <2>2 DEF EndOfFile, callVars
  <2>3. CASE ReadRequest \/ RefusalWritten
    BY <1>1, <2>3 DEF ReadRequest, RefusalWritten, callVars
  <2> QED BY <1>6, <2>1, <2>2, <2>3 DEF ReaderStep
<1>7. CASE Shutdown \/ ShutdownStep
  BY <1>1, <1>5, <1>7 DEF Shutdown, ShutdownStep, CloseStdin, Reap, GiveUp, callVars
<1>8. CASE ServerStep
  BY <1>1, <1>8 DEF ServerStep, ServerAnswers, ServerAsks, ServerCloses, ServerDies, callVars
<1>9. CASE UNCHANGED vars BY <1>1, <1>9 DEF vars, callVars
<1> QED BY <1>3, <1>4, <1>6, <1>7, <1>8, <1>9, StepCases

-----------------------------------------------------------------------------
(***************************************************************************)
(* The stream.                                                             *)
(***************************************************************************)
LEMMA TailStream ==
  ASSUME NEW s \in Seq(Parts), s # <<>>, Paired(s), s[1][1] = "tail",
         NEW h \in Lines \cup {Nobody}, EndsWith(s, h)
  PROVE  Paired(Tail(s)) /\ EndsWith(Tail(s), h)
<1>1. CASE Tail(s) = <<>>
  <2>1. Len(s) = 1 BY <1>1, PairedTail
  <2>2. h = Nobody BY <2>1 DEF EndsWith
  <2> QED BY <1>1, <2>2, PairedTail DEF EndsWith
<1>2. CASE Tail(s) # <<>>
  <2>1. Tail(s)[Len(Tail(s))] = s[Len(s)] /\ Paired(Tail(s)) BY <1>2, PairedTail
  <2> QED BY <1>2, <2>1 DEF EndsWith
<1> QED BY <1>1, <1>2

LEMMA PutStream ==
  ASSUME Typed, HolderInv, StreamInv, NEW l \in Lines, PutHead(l) \/ PutTail(l)
  PROVE  StreamInv'
<1>0. l # Nobody /\ Stream \in Seq(Parts) BY LinesAre, StreamTyped
<1>1. CASE PutHead(l)
  <2> DEFINE x == <<"head", l>>
  <2>1. x \in Parts /\ x[1] = "head" BY PartsAre
  <2>2. /\ server # "dead" /\ UNCHANGED <<heard, server>> /\ holder = Nobody /\ holder' = l
        /\ pipe' = Append(pipe, x)
    BY <1>1 DEF PutHead, Put, serverVars
  <2>3. Stream' = Append(Stream, x) BY <2>1, <2>2, StreamAppend
  <2>4. Stream # <<>> => Stream[Len(Stream)][1] = "tail" BY <2>2 DEF StreamInv, EndsWith
  <2> HIDE DEF x
  <2>5. Paired(Append(Stream, x)) BY <1>0, <2>1, <2>4, PairedAppend DEF StreamInv
  <2>6. EndsWith(Append(Stream, x), l)
    BY <1>0, <2>1, AppendParts DEF EndsWith, x
  <2> QED BY <2>2, <2>3, <2>5, <2>6 DEF StreamInv
<1>2. CASE PutTail(l)
  <2> DEFINE x == <<"tail", l>>
  <2>1. x \in Parts /\ x[1] = "tail" BY PartsAre
  <2>2. /\ server # "dead" /\ UNCHANGED <<heard, server>> /\ holder = l /\ holder' = Nobody
        /\ pipe' = Append(pipe, x)
    BY <1>2 DEF PutTail, Put, serverVars, HolderInv
  <2>3. Stream' = Append(Stream, x) BY <2>1, <2>2, StreamAppend
  <2>4. Stream # <<>> /\ Stream[Len(Stream)] = <<"head", l>> BY <1>0, <2>2 DEF StreamInv,
       EndsWith
  <2>5. Paired(Append(Stream, x)) BY <1>0, <2>1, <2>4, PairedAppend DEF StreamInv
  <2> HIDE DEF x
  <2>6. EndsWith(Append(Stream, x), Nobody)
    BY <1>0, <2>1, AppendParts DEF EndsWith
  <2> QED BY <2>2, <2>3, <2>5, <2>6 DEF StreamInv
<1> QED BY <1>1, <1>2

\* The server reads the second half of what it has begun, or a first one.
LEMMA ReadStream == ASSUME Typed, StreamInv, ServerReads PROVE StreamInv'
<1>1. /\ server # "dead" /\ server' = server /\ holder' = holder /\ pipe' = Tail(pipe)
      /\ pipe # <<>> /\ pipe \in Seq(Parts) /\ Paired(Stream) /\ EndsWith(Stream, holder)
      /\ heard' = IF Head(pipe)[1] = "head" THEN Head(pipe)[2] ELSE Nobody
  BY DEF ServerReads, Typed, StreamInv
<1>2. /\ Head(pipe) = pipe[1] /\ pipe[1] \in Parts /\ Len(pipe) \in Nat /\ Len(pipe) > 0
      /\ Tail(pipe) \in Seq(Parts)
  BY <1>1, HeadTailProperties, EmptySeq, LenProperties
<1>3. ASSUME Paired(pipe), EndsWith(pipe, holder), pipe[1][1] = "tail" PROVE StreamInv'
  <2>1. Stream' = Tail(pipe) BY <1>1, <1>2, <1>3 DEF Stream
  <2>2. Paired(Tail(pipe)) /\ EndsWith(Tail(pipe), holder)
    BY <1>1, <1>3, TailStream DEF Typed
  <2> QED BY <1>1, <2>1, <2>2 DEF StreamInv
<1>4. CASE heard = Nobody
  <2>1. Stream = pipe BY <1>4 DEF Stream
  <2>2. CASE pipe[1][1] = "tail" BY <1>1, <1>3, <2>1, <2>2
  <2>3. CASE pipe[1][1] = "head"
    <3>1. heard' = pipe[1][2] /\ heard' \in Lines /\ heard' # Nobody
          /\ pipe[1] = <<"head", heard'>>
      BY <1>1, <1>2, <2>3, PartsAre, LinesAre
    <3>2. Stream' = <<pipe[1]>> \o Tail(pipe) BY <1>1, <3>1 DEF Stream
    <3>3. <<pipe[1]>> \o Tail(pipe) = pipe
      <4> DEFINE s == <<<<"head", heard'>>>> \o Tail(pipe)
      <4>1. /\ s \in Seq(Parts) /\ Len(s) = Len(Tail(pipe)) + 1 /\ s[1] = <<"head", heard'>>
            /\ \A i \in 1 .. Len(Tail(pipe)) : s[i + 1] = Tail(pipe)[i]
        BY <1>2, <3>1, StreamIs
      <4>2. /\ Len(Tail(pipe)) = Len(pipe) - 1
            /\ \A i \in 1 .. Len(Tail(pipe)) : Tail(pipe)[i] = pipe[i + 1]
        BY <1>1, HeadTailProperties
      <4> HIDE DEF s
      <4>3. Len(s) = Len(pipe) /\ \A i \in 1 .. Len(pipe) : s[i] = pipe[i]
        <5>1. Len(s) = Len(pipe) BY <1>2, <4>1, <4>2
        <5>2. ASSUME NEW i \in 1 .. Len(pipe) PROVE s[i] = pipe[i]
          <6>1. CASE i = 1 BY <3>1, <4>1, <6>1
          <6>2. CASE i # 1
            <7>1. i - 1 \in 1 .. Len(Tail(pipe)) /\ (i - 1) + 1 = i BY <1>2, <4>2, <6>2
            <7>2. s[(i - 1) + 1] = pipe[(i - 1) + 1] BY <4>1, <4>2, <7>1
            <7> QED BY <7>1, <7>2
          <6> QED BY <6>1, <6>2
        <5> QED BY <5>1, <5>2
      <4>4. s = pipe BY <1>1, <4>1, <4>3, SeqEqual
      <4> QED BY <3>1, <4>4 DEF s
    <3> QED BY <1>1, <2>1, <3>2, <3>3 DEF StreamInv
  <2> QED BY <1>2, <2>2, <2>3, PartsAre
<1>5. CASE heard # Nobody
  <2>1. heard \in Lines BY <1>5 DEF Typed
  <2> DEFINE s == <<<<"head", heard>>>> \o pipe
  <2>2. Stream = s BY <1>5 DEF Stream
  <2>3. /\ s \in Seq(Parts) /\ Len(s) = Len(pipe) + 1 /\ s[1] = <<"head", heard>>
        /\ s[2] = pipe[1] /\ Tail(s) = pipe /\ s # <<>>
    <3>1. /\ s \in Seq(Parts) /\ Len(s) = Len(pipe) + 1 /\ s[1] = <<"head", heard>>
          /\ \A i \in 1 .. Len(pipe) : s[i + 1] = pipe[i]
          /\ Tail(s) = pipe /\ s # <<>>
      BY <1>1, <2>1, StreamIs
    <3> HIDE DEF s
    <3>2. s[1 + 1] = pipe[1] BY <1>2, <3>1
    <3> QED BY <3>1, <3>2
  <2> HIDE DEF s
  <2>4. Paired(s) /\ EndsWith(s, holder) BY <1>1, <2>2
  <2>5. pipe[1] = <<"tail", heard>>
    <3>1. 1 \in 1 .. Len(s) /\ 1 < Len(s) /\ s[1][1] = "head" /\ s[1][2] = heard BY <1>2, <2>3
    <3>2. s[1 + 1] = <<"tail", s[1][2]>> BY <2>4, <3>1 DEF Paired
    <3> QED BY <2>3, <3>1, <3>2
  <2>6. Paired(pipe) /\ pipe[Len(pipe)] = s[Len(s)] BY <1>1, <2>3, <2>4, PairedTail
  <2>7. EndsWith(pipe, holder) BY <1>1, <2>3, <2>4, <2>6 DEF EndsWith
  <2>8. pipe[1][1] = "tail" BY <2>5
  <2> QED BY <1>3, <2>6, <2>7, <2>8
<1> QED BY <1>4, <1>5

LEMMA GoneStream == ASSUME Typed, Gone PROVE StreamInv'
<1>1. server' = "dead" /\ pipe' = <<>> /\ heard' = heard BY GoneIs
<1>2. Stream' \in Seq(Parts) /\ Len(Stream') <= 1
  <2>1. CASE heard = Nobody BY <1>1, <2>1 DEF Stream
  <2>2. CASE heard # Nobody
    <3>1. heard \in Lines /\ <<>> \in Seq(Parts) BY <2>2 DEF Typed
    <3>2. LET s == <<<<"head", heard>>>> \o <<>> IN s \in Seq(Parts) /\ Len(s) = Len(<<>>) + 1
      BY <3>1, StreamIs
    <3>3. Stream' = <<<<"head", heard>>>> \o <<>> BY <1>1, <2>2 DEF Stream
    <3> QED BY <3>2, <3>3
  <2> QED BY <2>1, <2>2
<1> QED BY <1>1, <1>2 DEF StreamInv, Paired

LEMMA NextStream == ASSUME Typed, HolderInv, StreamInv, [Next]_vars PROVE StreamInv'
<1>1. CASE UNCHANGED <<pipe, heard, holder>> /\ (server' = "dead" <=> server = "dead")
  BY <1>1 DEF StreamInv, Stream
<1>2. CASE CallerStep
  <2> PICK c \in Calls : Begin(c) \/ Drop(c) \/ CallStep(c) BY <1>2 DEF CallerStep
  <2>1. CASE Drop(c) BY <1>1, <2>1, DropIs DEF serverVars
  <2>2. CASE Begin(c) \/ CallStep(c)
    BY <1>1, <2>2 DEF Begin, CallStep, Written, TakeReply, Timeout, Overtaken, pipeVars,
       serverVars
  <2> QED BY <2>1, <2>2
<1>3. CASE PipeStep
  <2>1. ASSUME NEW l \in Lines, Broken(l) PROVE StreamInv'
    <3>1. UNCHANGED <<pipe, heard, server>> /\ Stream' = Stream
      BY <2>1 DEF Broken, serverVars, Stream
    <3>2. server = "dead" \/ holder' = holder BY <2>1 DEF Broken
    <3> QED BY <3>1, <3>2 DEF StreamInv
  <2> QED BY <1>3, <2>1, PutStream, ReadStream DEF PipeStep, WriteStep
<1>4. CASE ReaderStep
  BY <1>1, <1>4 DEF ReaderStep, ReadReply, ReadRequest, RefusalWritten, EndOfFile, pipeVars,
     serverVars
<1>5. CASE Shutdown \/ ShutdownStep
  BY <1>1, <1>5, GoneStream DEF Shutdown, ShutdownStep, CloseStdin, Reap, GiveUp, pipeVars,
     serverVars
<1>6. CASE ServerStep
  BY <1>1, <1>6, GoneStream
     DEF ServerStep, ServerAnswers, ServerAsks, ServerCloses, ServerDies, pipeVars
<1>7. CASE UNCHANGED vars BY <1>1, <1>7 DEF vars, pipeVars, serverVars
<1> QED BY <1>2, <1>3, <1>4, <1>5, <1>6, <1>7, StepCases

-----------------------------------------------------------------------------
(***************************************************************************)
(* Requests are read once, and answers are of calls that were taken up.    *)
(***************************************************************************)

\* What most steps leave alone: a written request stays written, and the
\* server has taken up what it had.
Kept ==
  /\ \A c \in Calls : line[Request(c)] = "written" => line'[Request(c)] = "written"
  /\ \A c \in Calls : work'[c] = "none" <=> work[c] = "none"

LEMMA OnceKept ==
  ASSUME OnceInv, Kept, pipe' = pipe \/ pipe' = <<>>
  PROVE  OnceInv'
<1>1. CASE pipe' = pipe BY <1>1 DEF OnceInv, Kept
<1>2. CASE pipe' = <<>> BY <1>2 DEF OnceInv, Kept
<1> QED BY <1>1, <1>2

\* The pipe and the wire from the server, in the steps that are not of the pipe.
LEMMA KeptBy ==
  ASSUME Typed, HolderInv, FreshInv,
         \/ CallerStep \/ ReaderStep \/ Shutdown \/ ShutdownStep \/ ServerStep
         \/ UNCHANGED vars
  PROVE  Kept /\ (pipe' = pipe \/ pipe' = <<>>)
<1> USE LinesAre
<1>1. CASE UNCHANGED <<line, work, pipe>> BY <1>1 DEF Kept
<1>2. ASSUME NEW l \in Lines, NEW s \in LineStates, UNCHANGED <<work, pipe>>,
             line' = [line EXCEPT ![l] = s],
             \A c \in Calls : l # Request(c) \/ line[l] # "written"
      PROVE  Kept /\ pipe' = pipe
  BY <1>2 DEF Kept, Typed
<1>3. ASSUME Gone, UNCHANGED line PROVE Kept /\ pipe' = <<>>
  BY <1>3, GoneIs DEF Kept
<1>4. CASE CallerStep
  <2> PICK c \in Calls : Begin(c) \/ Drop(c) \/ CallStep(c) BY <1>4 DEF CallerStep
  <2>1. CASE Begin(c)
    <3>1. CASE Refused BY <1>1, <2>1, <3>1 DEF Begin, serverVars
    <3>2. CASE ~Refused
      BY <1>2, <2>1, <3>2 DEF Begin, serverVars, FreshInv, LineStates
    <3> QED BY <3>1, <3>2
  <2>2. CASE Drop(c) BY <1>1, <1>2, <2>2, DropIs DEF serverVars, LineStates
  <2>3. CASE Written(c) \/ TakeReply(c) \/ Timeout(c)
    BY <1>1, <2>3 DEF Written, TakeReply, Timeout, pipeVars, serverVars
  <2>4. CASE Overtaken(c) BY <1>2, <2>4 DEF Overtaken, serverVars, LineStates
  <2> QED BY <2>1, <2>2, <2>3, <2>4 DEF CallStep
<1>5. CASE ReaderStep
  <2>1. CASE ReadReply \/ EndOfFile
    BY <1>1, <2>1 DEF ReadReply, EndOfFile, pipeVars, serverVars
  <2>2. CASE ReadRequest
    <3>1. line' = [line EXCEPT ![Refusal] = "queued"] /\ UNCHANGED <<work, pipe>>
      BY <2>2 DEF ReadRequest
    <3>2. "queued" \in LineStates /\ \A c \in Calls : Refusal # Request(c) BY DEF LineStates
    <3> HIDE DEF LineStates
    <3> QED BY <1>2, <3>1, <3>2
  <2>3. CASE RefusalWritten
    <3>1. line' = [line EXCEPT ![Refusal] = "none"] /\ work' = work /\ pipe' = pipe
      BY <2>3 DEF RefusalWritten, serverVars
    <3>2. \A c \in Calls : Request(c) \in Lines /\ Request(c) # Refusal OBVIOUS
    <3>3. \A c \in Calls : line'[Request(c)] = line[Request(c)]
      BY <3>1, <3>2 DEF Typed
    <3> QED BY <3>1, <3>3 DEF Kept
  <2> QED BY <1>5, <2>1, <2>2, <2>3 DEF ReaderStep
<1>6. CASE Shutdown \/ ShutdownStep
  BY <1>1, <1>3, <1>6 DEF Shutdown, ShutdownStep, CloseStdin, Reap, GiveUp, pipeVars, serverVars
<1>7. CASE ServerStep
  <2>1. ASSUME NEW c \in Calls, ServerAnswers(c) PROVE Kept /\ pipe' = pipe
    BY <2>1 DEF ServerAnswers, pipeVars, Kept, Typed
  <2>2. CASE ServerAsks \/ ServerCloses BY <1>1, <2>2 DEF ServerAsks, ServerCloses, pipeVars
  <2>3. CASE ServerDies BY <1>3, <2>3 DEF ServerDies
  <2> QED BY <1>7, <2>1, <2>2, <2>3 DEF ServerStep
<1>8. CASE UNCHANGED vars BY <1>1, <1>8 DEF vars, pipeVars, serverVars
<1> QED BY <1>4, <1>5, <1>6, <1>7, <1>8

LEMMA PutOnce ==
  ASSUME Typed, OnceInv, NEW l \in Lines, NEW part \in {"head", "tail"},
         NEW state \in {"half", "written"}, Put(part, l, state), line[l] # "written",
         part = "tail" => state = "written"
  PROVE  OnceInv'
<1> DEFINE x == <<part, l>>
<1>1. x \in Parts /\ x[1] = part /\ x[2] = l BY PartsAre
<1>2. /\ pipe' = Append(pipe, x) /\ UNCHANGED work
      /\ line'[l] = state /\ \A k \in Lines : k # l => line'[k] = line[k]
  BY DEF Put, serverVars, Typed
<1>3. /\ Len(pipe') = Len(pipe) + 1 /\ Len(pipe) \in Nat /\ pipe'[Len(pipe) + 1] = x
      /\ \A i \in 1 .. Len(pipe) : pipe'[i] = pipe[i]
  BY <1>1, <1>2, AppendParts DEF Typed
<1>4. \A c \in Calls : line[Request(c)] = "written" => line'[Request(c)] = "written"
  BY <1>2, LinesAre
<1>5. \A c \in Calls : work'[c] # "none" => line'[Request(c)] = "written"
  BY <1>2, <1>4 DEF OnceInv
<1>6. ASSUME NEW c \in Calls, NEW i \in 1 .. Len(pipe'), pipe'[i] = <<"tail", Request(c)>>
      PROVE  /\ line'[Request(c)] = "written" /\ work'[c] = "none"
             /\ \A j \in 1 .. Len(pipe') : pipe'[j] = pipe'[i] => j = i
  <2>1. CASE i = Len(pipe) + 1
    <3>1. part = "tail" /\ l = Request(c) BY <1>1, <1>3, <1>6, <2>1
    <3>2. line'[l] = "written" BY <1>2, <3>1
    <3>3. work'[c] = "none" BY <1>2, <3>1 DEF OnceInv
    <3>4. \A j \in 1 .. Len(pipe) : pipe[j] # <<"tail", Request(c)>> BY <3>1 DEF OnceInv
    <3>5. \A j \in 1 .. Len(pipe') : pipe'[j] = pipe'[i] => j = i BY <1>3, <1>6, <2>1, <3>4
    <3> QED BY <3>1, <3>2, <3>3, <3>5
  <2>2. CASE i # Len(pipe) + 1
    <3>1. i \in 1 .. Len(pipe) /\ pipe[i] = <<"tail", Request(c)>> BY <1>3, <1>6, <2>2
    <3>2. /\ line[Request(c)] = "written" /\ work[c] = "none"
          /\ \A j \in 1 .. Len(pipe) : pipe[j] = pipe[i] => j = i
      BY <3>1 DEF OnceInv
    <3>3. x # pipe[i] BY <3>1, <3>2, <1>1
    <3>4. \A j \in 1 .. Len(pipe') : pipe'[j] = pipe'[i] => j = i BY <1>3, <3>1, <3>2, <3>3
    <3> QED BY <1>2, <1>4, <3>2, <3>4
  <2> QED BY <2>1, <2>2
<1> QED BY <1>5, <1>6 DEF OnceInv

\* A line the server has read whole was at the head of the pipe.
LEMMA ReadIs ==
  ASSUME Typed, ServerReads
  PROVE  /\ pipe' = Tail(pipe) /\ Len(pipe') = Len(pipe) - 1 /\ Len(pipe) \in Nat \ {0}
         /\ \A i \in 1 .. Len(pipe') : pipe'[i] = pipe[i + 1]
         /\ \A c \in Calls : /\ work[c] = "none" => \/ work'[c] = "none"
                                                    \/ pipe[1] = <<"tail", Request(c)>>
                             /\ work[c] # "none" => work'[c] # "none"
         /\ UNCHANGED <<callVars, line, holder, stdin, reader, exit, server, asked, out>>
<1>1. /\ pipe # <<>> /\ pipe \in Seq(Parts) /\ pipe' = Tail(pipe)
      /\ UNCHANGED <<callVars, line, holder, stdin, reader, exit, server, asked, out>>
      /\ work' = [c \in Calls |->
           IF Whole(Request(c)) THEN "running"
           ELSE IF Whole(Cancelled(c)) /\ work[c] = "running" THEN "over" ELSE work[c]]
  BY DEF ServerReads, Typed
<1>2. /\ Head(pipe) = pipe[1] /\ Len(pipe) \in Nat \ {0} /\ Len(Tail(pipe)) = Len(pipe) - 1
      /\ \A i \in 1 .. Len(Tail(pipe)) : Tail(pipe)[i] = pipe[i + 1]
  BY <1>1, HeadTailProperties, EmptySeq, LenProperties
<1>3. ASSUME NEW c \in Calls
      PROVE  /\ work[c] = "none" => \/ work'[c] = "none"
                                    \/ pipe[1] = <<"tail", Request(c)>>
             /\ work[c] # "none" => work'[c] # "none"
  BY <1>1, <1>2 DEF Whole
<1> QED BY <1>1, <1>2, <1>3

LEMMA ReadOnce == ASSUME Typed, OnceInv, ServerReads PROVE OnceInv'
<1>1. /\ Len(pipe') = Len(pipe) - 1 /\ Len(pipe) \in Nat \ {0} /\ line' = line
      /\ \A i \in 1 .. Len(pipe') : pipe'[i] = pipe[i + 1]
      /\ \A c \in Calls : /\ work[c] = "none" => \/ work'[c] = "none"
                                                 \/ pipe[1] = <<"tail", Request(c)>>
                          /\ work[c] # "none" => work'[c] # "none"
  BY ReadIs
<1>2. \A c \in Calls : work'[c] # "none" => line'[Request(c)] = "written"
  <2> SUFFICES ASSUME NEW c \in Calls, work'[c] # "none" PROVE line[Request(c)] = "written"
    BY <1>1
  <2>1. 1 \in 1 .. Len(pipe) BY <1>1
  <2> QED BY <1>1, <2>1 DEF OnceInv
<1>3. ASSUME NEW c \in Calls, NEW i \in 1 .. Len(pipe'), pipe'[i] = <<"tail", Request(c)>>
      PROVE  /\ line'[Request(c)] = "written" /\ work'[c] = "none"
             /\ \A j \in 1 .. Len(pipe') : pipe'[j] = pipe'[i] => j = i
  <2>1. i + 1 \in 1 .. Len(pipe) /\ 1 \in 1 .. Len(pipe) /\ pipe[i + 1] = <<"tail", Request(c)>>
    BY <1>1, <1>3
  <2>2. /\ line[Request(c)] = "written" /\ work[c] = "none"
        /\ \A j \in 1 .. Len(pipe) : pipe[j] = pipe[i + 1] => j = i + 1
    BY <2>1 DEF OnceInv
  <2>3. pipe[1] # <<"tail", Request(c)>>
    <3>1. SUFFICES ASSUME pipe[1] = <<"tail", Request(c)>> PROVE FALSE OBVIOUS
    <3>2. 1 = i + 1 BY <2>1, <2>2, <3>1
    <3> QED BY <3>2
  <2>4. work'[c] = "none" BY <1>1, <2>2, <2>3
  <2>5. ASSUME NEW j \in 1 .. Len(pipe'), pipe'[j] = pipe'[i] PROVE j = i
    <3>1. j + 1 \in 1 .. Len(pipe) /\ pipe[j + 1] = pipe[i + 1] BY <1>1, <2>5
    <3>2. j + 1 = i + 1 BY <2>2, <3>1
    <3> QED BY <3>2
  <2> QED BY <1>1, <2>2, <2>4, <2>5
<1> QED BY <1>2, <1>3 DEF OnceInv

LEMMA NextOnce == ASSUME Typed, HolderInv, FreshInv, OnceInv, [Next]_vars PROVE OnceInv'
<1>1. CASE PipeStep
  <2>1. ASSUME NEW l \in Lines, PutHead(l) PROVE OnceInv'
    BY <2>1, PutOnce DEF PutHead
  <2>2. ASSUME NEW l \in Lines, PutTail(l) PROVE OnceInv'
    BY <2>2, PutOnce DEF PutTail
  <2>3. ASSUME NEW l \in Lines, Broken(l) PROVE OnceInv'
    <3>1. Kept /\ pipe' = pipe BY <2>3, LinesAre DEF Broken, Kept, serverVars, Typed
    <3> QED BY <3>1, OnceKept
  <2> QED BY <1>1, <2>1, <2>2, <2>3, ReadOnce DEF PipeStep, WriteStep
<1>2. CASE ~PipeStep BY <1>2, StepCases, KeptBy, OnceKept
<1> QED BY <1>1, <1>2

LEMMA AnswerKept ==
  ASSUME AnswerInv, out' = out, \A c \in Calls : work[c] # "none" => work'[c] # "none",
         \A c \in Calls : /\ reply'[c] = "answer" => reply[c] = "answer"
                          /\ caller'[c] = "answered" => caller[c] = "answered" \/ reply[c] = "answer"
  PROVE  AnswerInv'
BY DEF AnswerInv

LEMMA NextAnswer ==
  ASSUME Typed, HolderInv, FreshInv, AnswerInv, [Next]_vars
  PROVE  AnswerInv'
<1>1. CASE CallerStep
  <2>1. Kept BY <1>1, KeptBy
  <2> PICK c \in Calls : Begin(c) \/ Drop(c) \/ CallStep(c) BY <1>1 DEF CallerStep
  <2>2. ASSUME NEW s \in CallerStates, Becomes(c, s), s = "answered" => reply[c] = "answer",
               UNCHANGED <<reply, out>>
        PROVE  AnswerInv'
    <3>1. \A d \in Calls : caller'[d] = "answered" => caller[d] = "answered" \/ reply[d] = "answer"
      BY <2>2 DEF Becomes, Typed
    <3> QED BY <2>1, <2>2, <3>1, AnswerKept DEF Kept
  <2>3. CASE Begin(c) BY <2>2, <2>3 DEF Begin, CallerStates, serverVars
  <2>4. CASE Drop(c) BY <2>2, <2>4 DEF Drop, CallerStates, serverVars
  <2>5. CASE Written(c) BY <2>2, <2>5 DEF Written, CallerStates, serverVars
  <2>6. CASE TakeReply(c) BY <2>2, <2>6 DEF TakeReply, CallerStates, serverVars
  <2>7. CASE Timeout(c) BY <2>2, <2>7 DEF Timeout, CallerStates, serverVars
  <2>8. CASE Overtaken(c)
    BY <2>1, <2>8, AnswerKept DEF Overtaken, callVars, serverVars, Kept
  <2> QED BY <2>3, <2>4, <2>5, <2>6, <2>7, <2>8 DEF CallStep
<1>2. CASE PipeStep
  <2>1. UNCHANGED <<callVars, out>> /\ \A c \in Calls : work[c] # "none" => work'[c] # "none"
    <3>1. CASE \E l \in Lines : WriteStep(l)
      BY <3>1 DEF WriteStep, PutHead, PutTail, Put, Broken, serverVars
    <3>2. CASE ServerReads BY <3>2, ReadIs
    <3> QED BY <1>2, <3>1, <3>2 DEF PipeStep
  <2> QED BY <2>1, AnswerKept DEF callVars
<1>3. ASSUME out # <<>>, out' = Tail(out), UNCHANGED <<caller, work>>,
             \A c \in Calls : reply'[c] = "answer" => reply[c] = "answer" \/ c = Head(out)[2],
             Head(out) = Refusal => UNCHANGED reply
      PROVE  AnswerInv'
  <2>1. /\ Head(out) = out[1] /\ 1 \in 1 .. Len(out)
        /\ \A i \in 1 .. Len(out') : out'[i] = out[i + 1] /\ i + 1 \in 1 .. Len(out)
    <3>1. out \in Seq(Lines) BY DEF Typed
    <3>2. /\ Head(out) = out[1] /\ Len(out) \in Nat \ {0} /\ Len(Tail(out)) = Len(out) - 1
          /\ \A i \in 1 .. Len(Tail(out)) : Tail(out)[i] = out[i + 1]
      BY <1>3, <3>1, HeadTailProperties, EmptySeq, LenProperties
    <3> QED BY <1>3, <3>2
  <2>2. \A i \in 1 .. Len(out') : out'[i] # Refusal =>
          out'[i][2] \in Calls /\ work'[out'[i][2]] # "none"
    BY <1>3, <2>1 DEF AnswerInv
  <2>3. ASSUME NEW c \in Calls, reply'[c] = "answer" PROVE work'[c] # "none"
    <3>1. CASE reply[c] = "answer" BY <1>3, <3>1 DEF AnswerInv
    <3>2. CASE reply[c] # "answer"
      <4>1. c = out[1][2] /\ out[1] # Refusal BY <1>3, <2>1, <2>3, <3>2
      <4> QED BY <1>3, <2>1, <4>1 DEF AnswerInv
    <3> QED BY <3>1, <3>2
  <2>4. \A c \in Calls : caller'[c] = "answered" => work'[c] # "none" BY <1>3 DEF AnswerInv
  <2> QED BY <2>2, <2>3, <2>4 DEF AnswerInv
<1>4. ASSUME Close PROVE \A c \in Calls : reply'[c] = "answer" => reply[c] = "answer"
  BY <1>4, CloseIs
<1>5. CASE ReaderStep
  <2>1. CASE ReadReply
    BY <1>3, <2>1 DEF ReadReply, Answered
  <2>2. CASE ReadRequest BY <1>3, <2>2 DEF ReadRequest, callVars
  <2>3. CASE RefusalWritten
    BY <2>3, AnswerKept DEF RefusalWritten, callVars, serverVars
  <2>4. CASE EndOfFile
    BY <1>4, <2>4, CloseIs, AnswerKept DEF EndOfFile, callVars, serverVars
  <2> QED BY <1>5, <2>1, <2>2, <2>3, <2>4 DEF ReaderStep
<1>6. CASE Shutdown \/ ShutdownStep
  <2>1. CASE Shutdown \/ CloseStdin
    BY <2>1, AnswerKept DEF Shutdown, CloseStdin, callVars, serverVars
  <2>2. CASE Reap
    BY <1>4, <2>2, GoneIs, CloseIs, AnswerKept DEF Reap, callVars
  <2>3. CASE GiveUp BY <2>3, GoneIs, AnswerKept DEF GiveUp, callVars
  <2> QED BY <1>6, <2>1, <2>2, <2>3 DEF ShutdownStep
<1>7. CASE ServerStep
  <2>1. ASSUME NEW l \in Lines, out' = Append(out, l), UNCHANGED <<caller, reply>>,
               \A c \in Calls : work[c] # "none" => work'[c] # "none",
               l # Refusal => l[2] \in Calls /\ work'[l[2]] # "none"
        PROVE  AnswerInv'
    <3>1. /\ Len(out') = Len(out) + 1 /\ Len(out) \in Nat /\ out'[Len(out) + 1] = l
          /\ \A i \in 1 .. Len(out) : out'[i] = out[i]
      BY <2>1, AppendProperties, LenProperties DEF Typed
    <3>2. ASSUME NEW i \in 1 .. Len(out'), out'[i] # Refusal
          PROVE  out'[i][2] \in Calls /\ work'[out'[i][2]] # "none"
      <4>1. CASE i = Len(out) + 1 BY <2>1, <3>1, <3>2, <4>1
      <4>2. CASE i # Len(out) + 1
        <5>1. i \in 1 .. Len(out) /\ out'[i] = out[i] BY <3>1, <4>2
        <5> QED BY <2>1, <3>2, <5>1 DEF AnswerInv
      <4> QED BY <4>1, <4>2
    <3> QED BY <2>1, <3>2 DEF AnswerInv
  <2>2. ASSUME NEW c \in Calls, ServerAnswers(c) PROVE AnswerInv'
    <3>1. work'[c] = "finished" /\ \A d \in Calls : work[d] # "none" => work'[d] # "none"
      BY <2>2 DEF ServerAnswers, Typed
    <3> QED BY <2>1, <2>2, <3>1, LinesAre DEF ServerAnswers, callVars
  <2>3. CASE ServerAsks BY <2>1, <2>3, LinesAre DEF ServerAsks, callVars
  <2>4. CASE ServerCloses BY <2>4, AnswerKept DEF ServerCloses, callVars
  <2>5. CASE ServerDies BY <2>5, GoneIs, AnswerKept DEF ServerDies, callVars
  <2> QED BY <1>7, <2>2, <2>3, <2>4, <2>5 DEF ServerStep
<1>8. CASE UNCHANGED vars BY <1>8, AnswerKept DEF vars, callVars, serverVars
<1> QED BY <1>1, <1>2, <1>5, <1>6, <1>7, <1>8, StepCases

-----------------------------------------------------------------------------
(***************************************************************************)
(* The invariant.                                                          *)
(***************************************************************************)
LEMMA InitInv == Init => IInv
<1> SUFFICES ASSUME Init PROVE IInv OBVIOUS
<1> USE LinesAre
<1>1. Typed
  <2>1. /\ <<>> \in Seq(Parts) /\ Len(<<>>) <= Room
        /\ <<>> \in Seq(Lines) /\ Len(<<>>) <= OutRoom
    BY DEF StdioAssumption
  <2> QED BY <2>1 DEF Init, Typed
<1>2. SlotsInv BY DEF Init, SlotsInv, WaiterIsKnown
<1>3. HolderInv BY DEF Init, HolderInv
<1>4. FreshInv BY DEF Init, FreshInv
<1>5. StreamInv BY DEF Init, StreamInv, Stream, Paired, EndsWith
<1>6. OnceInv BY DEF Init, OnceInv
<1>7. AnswerInv BY DEF Init, AnswerInv
<1> QED BY <1>1, <1>2, <1>3, <1>4, <1>5, <1>6, <1>7 DEF IInv

LEMMA NextInv == ASSUME IInv, [Next]_vars PROVE IInv'
<1> Typed /\ SlotsInv /\ HolderInv /\ FreshInv /\ StreamInv /\ OnceInv /\ AnswerInv BY DEF IInv
<1>1. Typed' /\ SlotsInv' /\ HolderInv' BY NextTyped, NextSlots, NextHolder
<1>2. FreshInv' /\ StreamInv' BY NextFresh, NextStream
<1>3. OnceInv' /\ AnswerInv' BY NextOnce, NextAnswer
<1> QED BY <1>1, <1>2, <1>3 DEF IInv

LEMMA Invariance == Spec => []IInv
BY InitInv, NextInv, PTL DEF Spec

LEMMA WireFromInv == ASSUME IInv PROVE WireSound
<1>1. TypeOK BY DEF IInv, Typed, SlotsInv, TypeOK
<1>2. LinesIntact
  <2> SUFFICES ASSUME NEW i \in 1 .. Len(Stream), Stream[i][1] = "head"
               PROVE  \/ i = Len(Stream) /\ (holder = Stream[i][2] \/ server = "dead")
                      \/ i < Len(Stream) /\ Stream[i + 1] = <<"tail", Stream[i][2]>>
    BY DEF LinesIntact
  <2>1. Stream \in Seq(Parts) /\ Len(Stream) \in Nat BY StreamTyped, LenProperties DEF IInv
  <2>2. CASE i < Len(Stream) BY <2>2 DEF IInv, StreamInv, Paired
  <2>3. CASE i = Len(Stream)
    <3>1. Stream # <<>> BY <2>1
    <3>2. server = "dead" \/ EndsWith(Stream, holder) BY DEF IInv, StreamInv
    <3> QED BY <2>3, <3>1, <3>2 DEF EndsWith
  <2> QED BY <2>1, <2>2, <2>3
<1>3. WaiterIsKnown BY DEF IInv, SlotsInv
<1> QED BY <1>1, <1>2, <1>3 DEF WireSound

\* Whatever callers time out or are dropped, the lines in the pipe to the server
\* stay whole, and whoever waits is known to the reader or has its reply
\* (mcp/stdio.rs, write_line, register and close).
THEOREM WireIsSound == Spec => []WireSound
BY WireFromInv, Invariance, PTL

-----------------------------------------------------------------------------
(***************************************************************************)
(* The promise of McpCall.                                                 *)
(***************************************************************************)
Knows == [c \in Calls |-> Told(c)]
Runs == [c \in Calls |-> IF work[c] = "none" THEN 0 ELSE 1]

LEMMA InitPromise == Init => Promise!Init
BY DEF Init, Promise!Init, Told

\* A call moves on for its caller, or stays as it was.
LEMMA Moves ==
  ASSUME Typed, NEW c \in Calls, NEW s \in CallerStates, caller' = [caller EXCEPT ![c] = s],
         \/ caller[c] = "idle" /\ s \in {"writing", "failed"}
         \/ caller[c] \in {"writing", "waiting", "grace"} /\ s # "idle",
         s = "answered" => work[c] # "none",
         UNCHANGED work
  PROVE  [Promise!Next]_(Promise!vars)
<1>1. \A d \in Calls : d # c => Told(d)' = Told(d) BY DEF Told, Typed
<1>2. Knows' = [Knows EXCEPT ![c] = Told(c)'] BY <1>1 DEF Knows
<1>3. caller'[c] = s /\ Runs' = Runs BY DEF Typed, Runs
<1>4. CASE s \in {"failed", "dropped"}
  <2>1. Told(c)' = "failure" BY <1>3, <1>4 DEF Told
  <2>2. Told(c) \in {"unasked", "open"} BY DEF Told
  <2>3. {c} \in SUBSET {d \in Calls : Knows[d] \in {"unasked", "open"}} BY <2>2 DEF Knows
  <2>4. Knows' = [d \in Calls |-> IF d \in {c} THEN "failure" ELSE Knows[d]]
    BY <1>1, <2>1 DEF Knows
  <2>5. Promise!Fail BY <1>3, <2>3, <2>4 DEF Promise!Fail, Knows, Runs
  <2> QED BY <2>5 DEF Promise!Next
<1>5. CASE s = "answered"
  <2>1. Told(c)' = "answer" /\ Told(c) = "open" /\ Runs[c] = 1 BY <1>3, <1>5 DEF Told, Runs
  <2>2. Promise!Answer(c)
    BY <1>2, <1>3, <2>1 DEF Promise!Answer, Promise!Tell, Knows, Runs
  <2> QED BY <2>2 DEF Promise!Next
<1>6. CASE s \in {"writing", "waiting", "grace"}
  <2>1. Told(c)' = "open" BY <1>3, <1>6 DEF Told
  <2>2. CASE caller[c] = "idle"
    <3>1. Told(c) = "unasked" BY <2>2 DEF Told
    <3>2. Promise!Ask(c) BY <1>2, <1>3, <2>1, <3>1 DEF Promise!Ask, Promise!Tell, Knows, Runs
    <3> QED BY <3>2 DEF Promise!Next
  <2>3. CASE caller[c] # "idle"
    <3>1. Told(c) = "open" BY <2>3 DEF Told
    <3>2. Knows' = Knows BY <1>1, <2>1, <3>1 DEF Knows
    <3> QED BY <1>3, <3>2 DEF Promise!vars, Knows, Runs
  <2> QED BY <2>2, <2>3
<1> QED BY <1>4, <1>5, <1>6 DEF CallerStates

\* What leaves the callers alone, and takes up no call, is not seen.
LEMMA Unseen ==
  ASSUME UNCHANGED caller, \A c \in Calls : work'[c] = "none" <=> work[c] = "none"
  PROVE  [Promise!Next]_(Promise!vars)
<1>1. Knows' = Knows BY DEF Knows, Told
<1>2. Runs' = Runs BY DEF Runs
<1> QED BY <1>1, <1>2 DEF Promise!vars, Knows, Runs

\* A request that is read whole is taken up for the first time.
LEMMA ReadPromise ==
  ASSUME Typed, FreshInv, OnceInv, ServerReads
  PROVE  [Promise!Next]_(Promise!vars)
<1>1. /\ UNCHANGED caller /\ 1 \in 1 .. Len(pipe)
      /\ \A c \in Calls : /\ work[c] = "none" => \/ work'[c] = "none"
                                                 \/ pipe[1] = <<"tail", Request(c)>>
                          /\ work[c] # "none" => work'[c] # "none"
  BY ReadIs DEF callVars
<1>2. CASE \A c \in Calls : work'[c] = "none" <=> work[c] = "none" BY <1>1, <1>2, Unseen
<1>3. ASSUME NEW c \in Calls, work[c] = "none", work'[c] # "none"
      PROVE  [Promise!Next]_(Promise!vars)
  <2>1. pipe[1] = <<"tail", Request(c)>> BY <1>1, <1>3
  <2>2. line[Request(c)] = "written" BY <1>1, <2>1 DEF OnceInv
  <2>3. caller[c] # "idle" BY <2>2 DEF FreshInv
  <2>4. ASSUME NEW d \in Calls, d # c PROVE work'[d] = "none" <=> work[d] = "none"
    <3>1. pipe[1] # <<"tail", Request(d)>> BY <2>1, <2>4, LinesAre
    <3> QED BY <1>1, <3>1
  <2>5. Runs' = [Runs EXCEPT ![c] = 1] /\ Runs[c] = 0 BY <1>3, <2>4 DEF Runs
  <2>6. Knows' = Knows BY <1>1 DEF Knows, Told
  <2>7. Told(c) # "unasked" BY <2>3 DEF Told, Typed
  <2>8. Promise!Run(c) BY <2>5, <2>6, <2>7 DEF Promise!Run, Knows, Runs
  <2> QED BY <2>8 DEF Promise!Next
<1> QED BY <1>1, <1>2, <1>3

LEMMA NextPromise ==
  ASSUME IInv, [Next]_vars
  PROVE  [Promise!Next]_(Promise!vars)
<1> Typed /\ HolderInv /\ FreshInv /\ OnceInv /\ AnswerInv BY DEF IInv
<1>1. CASE CallerStep
  <2> PICK c \in Calls : Begin(c) \/ Drop(c) \/ CallStep(c) BY <1>1 DEF CallerStep
  <2>1. CASE Begin(c)
    BY <2>1, Moves DEF Begin, Becomes, CallerStates, serverVars
  <2>2. CASE Drop(c) BY <2>2, Moves DEF Drop, Becomes, CallerStates, serverVars
  <2>3. CASE Written(c) BY <2>3, Moves DEF Written, Becomes, CallerStates, serverVars
  <2>4. CASE TakeReply(c)
    BY <2>4, Moves DEF TakeReply, Becomes, CallerStates, serverVars, AnswerInv
  <2>5. CASE Timeout(c) BY <2>5, Moves DEF Timeout, Becomes, CallerStates, serverVars
  <2>6. CASE Overtaken(c) BY <2>6, Unseen DEF Overtaken, callVars, serverVars
  <2> QED BY <2>1, <2>2, <2>3, <2>4, <2>5, <2>6 DEF CallStep
<1>2. CASE PipeStep
  <2>1. CASE \E l \in Lines : WriteStep(l)
    BY <2>1, Unseen DEF WriteStep, PutHead, PutTail, Put, Broken, callVars, serverVars
  <2> QED BY <1>2, <2>1, ReadPromise DEF PipeStep
<1>3. CASE ReaderStep \/ Shutdown \/ ShutdownStep \/ ServerStep \/ UNCHANGED vars
  <2>1. Kept BY <1>3, KeptBy
  <2>2. UNCHANGED caller
    BY <1>3 DEF ReaderStep, ReadReply, ReadRequest, RefusalWritten, EndOfFile, Close, Shutdown,
      ShutdownStep, CloseStdin, Reap, GiveUp, ServerStep, ServerAnswers, ServerAsks, ServerCloses,
      ServerDies, callVars, vars
  <2> QED BY <2>1, <2>2, Unseen DEF Kept
<1> QED BY <1>1, <1>2, <1>3, StepCases

\* The safety of CallsKeepPromise: the server takes a request up once, and each
\* caller is told one thing, an answer only when the call ran (mcp/stdio.rs,
\* request_with_timeout and InFlight).
THEOREM StdioIsSafe == Spec => Promise!Safe
BY InitPromise, NextPromise, Invariance, PTL DEF Spec, Promise!Safe

-----------------------------------------------------------------------------
(***************************************************************************)
(* McpSession.                                                             *)
(***************************************************************************)
RequestStates == {"idle", "begun", "sent", "expired", "leading", "renewed", "again",
            "answered", "failed", "dropped"}
Wires == {"none", "sent", "ran", "refused", "cut"}
Stages == {"none", "asked", "granted", "arriving", "captured", "notified", "heard", "unheard"}

\* TypeOK, but for the lock: the leader is unique.
SessionTyped ==
  /\ request \in [Requests -> RequestStates]
  /\ seen \in [Requests -> 0 .. epoch] /\ under \in [Requests -> 0 .. issued]
  /\ wire \in [Requests -> Wires]
  /\ epoch \in Nat /\ last \in {"none", "ok", "failed"} /\ hs \in Stages
  /\ issued \in Nat
  /\ session \in 1 .. issued /\ offer \in 0 .. issued
  /\ good \subseteq 1 .. issued /\ live \subseteq 1 .. issued
  /\ closed \in {"no", "closing", "deleted", "given up"} /\ doomed \in 0 .. issued
  /\ losses \in 0 .. MaxLosses /\ runs \in [Requests -> Nat]

\* The lock is held exactly during a handshake; one that was granted has an offer.
LockInv ==
  /\ hs = "none" <=> LockFree
  /\ \A c, d \in Requests : request[c] = "leading" /\ request[d] = "leading" => c = d
  /\ hs \in {"granted", "arriving"} => offer # 0

\* The server has forgotten every session that was set up completely.
Lost == good \cap live = {}

\* What a call that no handshake has overtaken knows of the session: it carries
\* the current one, unless all are lost; refused, it knows that they are.
KnownLost ==
  \A c \in Requests : seen[c] = epoch =>
    /\ request[c] = "sent" => under[c] = session \/ Lost
    /\ request[c] = "sent" /\ wire[c] = "refused" => Lost
    /\ request[c] = "expired" => Lost

\* A handshake has nothing to lose; shutdown's DELETE names what is to go.
SessionInv ==
  /\ hs # "none" => Lost
  /\ closed = "closing" => good \cap live \subseteq {doomed}

\* A call has run if it ran, and is not sent again unless it was refused.
RunInv ==
  \A c \in Requests :
    /\ wire[c] \in {"none", "sent", "refused"} => runs[c] = 0
    /\ wire[c] = "ran" => runs[c] = 1
    /\ request[c] \in {"idle", "begun"} => wire[c] = "none"
    /\ request[c] \in {"expired", "leading", "renewed"} => wire[c] = "refused"

SessionsInv == SessionTyped /\ LockInv /\ OneGoodSession /\ KnownLost /\ SessionInv /\ RunInv


ClientStep ==
  \/ \E c \in Requests : Prepare(c) \/ Send(c) \/ Learn(c) \/ Fail(c) \/ Follow(c)
  \/ CloseSession

LeadStep ==
  \/ \E c \in Requests : Lead(c) \/ Recovered(c) \/ NotRecovered(c) \/ Abandon(c)
  \/ Arrive \/ Capture \/ Notify

HostStep ==
  \/ \E c \in Requests : Handle(c) \/ Cut(c)
  \/ Initialize \/ HearInitialized \/ Forget \/ Delete

LEMMA SessionCases == ASSUME [SessionNext]_sessionVars PROVE ClientStep \/ LeadStep \/ HostStep \/ UNCHANGED sessionVars
BY DEF SessionNext, RequestStep, ClientStep, LeadStep, HostStep

-----------------------------------------------------------------------------
(* Types and the lock. *)
LEMMA EntersTyped ==
  ASSUME SessionTyped, NEW c \in Requests, NEW s \in RequestStates, Enters(c, s)
  PROVE  request' \in [Requests -> RequestStates]
BY DEF Enters, SessionTyped

\* A caller that neither takes nor gives back the lock.
LEMMA EntersLock ==
  ASSUME SessionTyped, LockInv, NEW c \in Requests, NEW s, s # "leading", request[c] # "leading",
         Enters(c, s), UNCHANGED <<hs, offer>>
  PROVE  LockInv'
BY DEF Enters, SessionTyped, LockInv, LockFree

\* One that gives it back.
LEMMA ReturnsLock ==
  ASSUME SessionTyped, LockInv, NEW c \in Requests, NEW s, s # "leading", request[c] = "leading",
         Enters(c, s), hs' = "none"
  PROVE  LockInv'
BY DEF Enters, SessionTyped, LockInv, LockFree

LEMMA ClientTyped == ASSUME SessionTyped, LockInv, ClientStep PROVE SessionTyped' /\ LockInv'
<1>1. CASE CloseSession
  BY <1>1 DEF CloseSession, SessionTyped, LockInv, LockFree, requestVars, hostVars
<1>2. CASE \E c \in Requests : Prepare(c) \/ Send(c) \/ Learn(c) \/ Fail(c) \/ Follow(c)
  <2>1. PICK c \in Requests : Prepare(c) \/ Send(c) \/ Learn(c) \/ Fail(c) \/ Follow(c) BY <1>2
  <2>2. PICK s \in RequestStates : Enters(c, s) /\ s # "leading"
    BY <2>1 DEF Prepare, Send, Learn, Outcome, Fail, Follow, RequestStates
  <2>3. request[c] # "leading" BY <2>1 DEF Prepare, Send, Learn, Fail, Follow
  <2>4. UNCHANGED <<clientVars, hostVars>> BY <2>1 DEF Prepare, Send, Learn, Fail, Follow
  <2>5. LockInv' BY <2>2, <2>3, <2>4, EntersLock DEF clientVars
  <2>6. request' \in [Requests -> RequestStates] BY <2>2, EntersTyped
  <2>7. seen' \in [Requests -> 0 .. epoch] /\ under' \in [Requests -> 0 .. issued] /\ wire' \in [Requests -> Wires]
    <3>1. CASE Prepare(c)
      <4>1. epoch \in Nat BY DEF SessionTyped
      <4>2. epoch \in 0 .. epoch BY <4>1
      <4> QED BY <3>1, <4>2 DEF Prepare, SessionTyped
    <3>2. CASE Send(c) BY <3>2 DEF Send, SessionTyped, Wires
    <3>3. CASE Learn(c) \/ Fail(c) \/ Follow(c) BY <3>3 DEF Learn, Fail, Follow, SessionTyped
    <3> QED BY <2>1, <3>1, <3>2, <3>3
  <2> QED BY <2>4, <2>5, <2>6, <2>7 DEF SessionTyped, clientVars, hostVars
<1> QED BY <1>1, <1>2 DEF ClientStep

LEMMA LeadTyped == ASSUME SessionTyped, LockInv, LeadStep PROVE SessionTyped' /\ LockInv'
<1>1. CASE \E c \in Requests : Lead(c)
  <2>1. PICK c \in Requests : Lead(c) BY <1>1
  <2>2. request' \in [Requests -> RequestStates] BY <2>1, EntersTyped DEF Lead, RequestStates
  <2>3. LockInv' BY <2>1 DEF Lead, Enters, SessionTyped, LockInv, LockFree
  <2> QED BY <2>1, <2>2, <2>3 DEF Lead, SessionTyped, Stages, hostVars
<1>2. CASE \E c \in Requests : Recovered(c) \/ NotRecovered(c)
  <2>1. PICK c \in Requests : Recovered(c) \/ NotRecovered(c) BY <1>2
  <2>2. PICK s \in {"renewed", "failed"} : request[c] = "leading" /\ Enters(c, s)
    BY <2>1 DEF Recovered, NotRecovered, Finish
  <2>3. request' \in [Requests -> RequestStates] BY <2>2, EntersTyped DEF RequestStates
  <2>4. /\ epoch' = epoch + 1 /\ hs' = "none"
        /\ UNCHANGED <<seen, wire, under, offer, session, closed, doomed, hostVars>>
    BY <2>1 DEF Recovered, NotRecovered, Finish
  <2>5. LockInv' BY <2>2, <2>4, ReturnsLock
  <2>6. epoch' \in Nat /\ seen' \in [Requests -> 0 .. epoch']
    <3>1. epoch \in Nat BY DEF SessionTyped
    <3>2. epoch' \in Nat /\ 0 .. epoch \subseteq 0 .. epoch' BY <2>4, <3>1
    <3>3. seen' \in [Requests -> 0 .. epoch] BY <2>4 DEF SessionTyped
    <3> QED BY <3>2, <3>3
  <2>7. good' \subseteq 1 .. issued /\ last' \in {"none", "ok", "failed"}
    BY <2>1 DEF Recovered, NotRecovered, Finish, SessionTyped
  <2> QED BY <2>3, <2>4, <2>5, <2>6, <2>7 DEF SessionTyped, Stages, hostVars
<1>3. CASE \E c \in Requests : Abandon(c)
  <2>1. PICK c \in Requests : Abandon(c) BY <1>3
  <2>2. request' \in [Requests -> RequestStates] BY <2>1, EntersTyped DEF Abandon, RequestStates
  <2>3. LockInv' BY <2>1, EntersLock, ReturnsLock DEF Abandon
  <2> QED BY <2>1, <2>2, <2>3 DEF Abandon, SessionTyped, Stages, hostVars
<1>4. CASE Arrive \/ Notify
  <2>1. LockInv' BY <1>4 DEF Arrive, Notify, LockInv, LockFree, requestVars
  <2> QED BY <1>4, <2>1 DEF Arrive, Notify, SessionTyped, Stages, requestVars, hostVars
<1>5. CASE Capture
  <2>1. offer \in 0 .. issued /\ offer # 0 /\ issued \in Nat
    BY <1>5 DEF Capture, LockInv, SessionTyped
  <2>2. session' \in 1 .. issued BY <1>5, <2>1 DEF Capture
  <2>3. LockInv' BY <1>5 DEF Capture, LockInv, LockFree, requestVars
  <2> QED BY <1>5, <2>2, <2>3 DEF Capture, SessionTyped, Stages, requestVars, hostVars
<1> QED BY <1>1, <1>2, <1>3, <1>4, <1>5 DEF LeadStep

LEMMA HostTyped == ASSUME SessionTyped, LockInv, HostStep PROVE SessionTyped' /\ LockInv'
<1>1. CASE \E c \in Requests : Handle(c) \/ Cut(c)
  <2>1. PICK c \in Requests : Handle(c) \/ Cut(c) BY <1>1
  <2>2. wire' \in [Requests -> Wires] BY <2>1 DEF Handle, Cut, SessionTyped, Wires
  <2>3. runs' \in [Requests -> Nat]
    <3>1. runs \in [Requests -> Nat] BY DEF SessionTyped
    <3>2. runs' = runs \/ runs' = [runs EXCEPT ![c] = runs[c] + 1]
      BY <2>1 DEF Handle, Cut, hostVars
    <3> QED BY <3>1, <3>2
  <2>4. UNCHANGED <<request, seen, under, clientVars, live, issued, losses>>
    BY <2>1 DEF Handle, Cut, hostVars
  <2> QED BY <2>2, <2>3, <2>4 DEF SessionTyped, LockInv, LockFree, clientVars
<1>2. CASE Initialize
  <2> issued \in Nat /\ issued' = issued + 1 BY <1>2 DEF Initialize, SessionTyped
  <2>1. /\ issued' \in Nat /\ issued' \in 1 .. issued' /\ issued' \in 0 .. issued'
        /\ 0 .. issued \subseteq 0 .. issued' /\ 1 .. issued \subseteq 1 .. issued'
    OBVIOUS
  <2>2. live' \subseteq 1 .. issued' /\ offer' \in 1 .. issued' /\ offer' \in 0 .. issued' /\ offer' # 0
    <3>1. live \subseteq 1 .. issued BY DEF SessionTyped
    <3>2. live' = live \cup {issued'} /\ offer' = issued' BY <1>2 DEF Initialize
    <3>3. offer' # 0 BY <3>2
    <3> QED BY <2>1, <3>1, <3>2, <3>3
  <2>3. under' \in [Requests -> 0 .. issued']
    <3>1. under' \in [Requests -> 0 .. issued] BY <1>2 DEF Initialize, SessionTyped, requestVars
    <3> QED BY <2>1, <3>1
  <2>4. session' \in 1 .. issued' /\ good' \subseteq 1 .. issued' /\ doomed' \in 0 .. issued'
    BY <1>2, <2>1 DEF Initialize, SessionTyped
  <2>5. hs' \in Stages BY <1>2 DEF Initialize, Stages
  <2>6. LockInv' BY <1>2, <2>2 DEF Initialize, LockInv, LockFree, requestVars
  <2> QED BY <1>2, <2>1, <2>2, <2>3, <2>4, <2>5, <2>6 DEF Initialize, SessionTyped, requestVars
<1>3. CASE HearInitialized
  BY <1>3 DEF HearInitialized, SessionTyped, LockInv, LockFree, Stages, requestVars, hostVars
<1>4. CASE Forget
  <2>1. losses' \in 0 .. MaxLosses
    <3>1. losses \in 0 .. MaxLosses /\ losses < MaxLosses /\ losses' = losses + 1
      BY <1>4 DEF Forget, SessionTyped
    <3> QED BY <3>1
  <2>2. LockInv' BY <1>4 DEF Forget, LockInv, LockFree, requestVars, clientVars
  <2> QED BY <1>4, <2>1, <2>2 DEF Forget, SessionTyped, requestVars, clientVars
<1>5. CASE Delete
  <2>1. LockInv' BY <1>5 DEF Delete, LockInv, LockFree, requestVars
  <2> QED BY <1>5, <2>1 DEF Delete, SessionTyped, requestVars
<1> QED BY <1>1, <1>2, <1>3, <1>4, <1>5 DEF HostStep

LEMMA NextSessionTyped == ASSUME SessionTyped, LockInv, [SessionNext]_sessionVars PROVE SessionTyped' /\ LockInv'
<1>1. CASE UNCHANGED sessionVars
  BY <1>1 DEF sessionVars, SessionTyped, LockInv, LockFree, requestVars, clientVars, hostVars
<1> QED BY <1>1, SessionCases, ClientTyped, LeadTyped, HostTyped

\* What TypeOK says of the lock with a cardinality.
LEMMA TypeFromLock == ASSUME SessionTyped, LockInv PROVE SessionTypeOK
<1> DEFINE L == {c \in Requests : request[c] = "leading"}
<1>1. Cardinality(L) <= 1
  <2>1. CASE L = {} BY <2>1, FS_EmptySet
  <2>2. CASE L # {}
    <3>1. PICK c \in Requests : c \in L BY <2>2
    <3>2. L = {c} BY <3>1 DEF LockInv
    <3>3. Cardinality({c}) = 1 BY FS_Singleton
    <3> QED BY <3>2, <3>3
  <2> QED BY <2>1, <2>2
<1>2. (hs # "none") = (\E c \in Requests : request[c] = "leading")
  BY DEF LockInv, LockFree
<1> QED BY <1>1, <1>2 DEF SessionTyped, SessionTypeOK, RequestStates, Wires, Stages

-----------------------------------------------------------------------------
(* Sessions. *)
SafeInv == OneGoodSession /\ KnownLost /\ SessionInv

LEMMA ClientSafe == ASSUME SessionTyped, LockInv, SafeInv, ClientStep PROVE SafeInv'
<1>1. UNCHANGED <<good, live, session, hs, epoch>>
  BY DEF ClientStep, Prepare, Send, Learn, Fail, Follow, CloseSession, clientVars, hostVars
<1>2. Lost' = Lost BY <1>1 DEF Lost
<1>3. OneGoodSession' /\ SessionInv'
  <2>1. CASE CloseSession
    BY <1>1, <2>1 DEF CloseSession, SafeInv, OneGoodSession, SessionInv, Lost
  <2>2. CASE ~CloseSession
    <3>1. UNCHANGED <<closed, doomed>>
      BY <2>2 DEF ClientStep, Prepare, Send, Learn, Fail, Follow, clientVars
    <3> QED BY <1>1, <3>1 DEF SafeInv, OneGoodSession, SessionInv, Lost
  <2> QED BY <2>1, <2>2
<1>4. KnownLost'
  <2>1. CASE CloseSession BY <1>1, <1>2, <2>1 DEF CloseSession, SafeInv, KnownLost, requestVars
  <2>2. CASE \E c \in Requests : Prepare(c)
    BY <1>1, <1>2, <2>2 DEF Prepare, Enters, SafeInv, KnownLost, SessionTyped
  <2>3. CASE \E c \in Requests : Send(c)
    BY <1>1, <1>2, <2>3 DEF Send, Enters, SafeInv, KnownLost, SessionTyped
  <2>4. CASE \E c \in Requests : Learn(c)
    BY <1>1, <1>2, <2>4 DEF Learn, Outcome, Enters, SafeInv, KnownLost, SessionTyped
  <2>5. CASE \E c \in Requests : Fail(c) \/ Follow(c)
    BY <1>1, <1>2, <2>5 DEF Fail, Follow, Enters, SafeInv, KnownLost, SessionTyped
  <2> QED BY <2>1, <2>2, <2>3, <2>4, <2>5 DEF ClientStep
<1> QED BY <1>3, <1>4 DEF SafeInv

LEMMA LeadSafe == ASSUME SessionTyped, LockInv, SafeInv, LeadStep PROVE SafeInv'
<1>1. CASE \E c \in Requests : Lead(c)
  <2>1. PICK c \in Requests : Lead(c) BY <1>1
  <2>2. Lost BY <2>1 DEF Lead, Stale, SafeInv, KnownLost, SessionTyped
  <2> QED BY <2>1, <2>2 DEF Lead, Enters, SafeInv, OneGoodSession, KnownLost, SessionInv, Lost,
       SessionTyped, hostVars
<1>2. CASE \E c \in Requests : Recovered(c)
  <2>1. PICK c \in Requests : Recovered(c) BY <1>2
  <2>2. Lost BY <2>1 DEF Recovered, SafeInv, SessionInv
  <2>3. good' = good \cup {session} /\ UNCHANGED <<session, live, closed>> /\ closed = "no" /\ hs' = "none"
    BY <2>1 DEF Recovered, Finish, hostVars
  <2>4. OneGoodSession' /\ SessionInv'
    BY <2>2, <2>3 DEF OneGoodSession, SessionInv, Lost
  <2>5. \A d \in Requests : seen'[d] # epoch'
    <3>1. seen' = seen /\ epoch' = epoch + 1 BY <2>1 DEF Recovered, Finish
    <3>2. epoch \in Nat /\ seen \in [Requests -> 0 .. epoch] BY DEF SessionTyped
    <3> QED BY <3>1, <3>2
  <2> QED BY <2>4, <2>5 DEF SafeInv, KnownLost
<1>3. CASE \E c \in Requests : NotRecovered(c)
  <2>1. PICK c \in Requests : NotRecovered(c) BY <1>3
  <2>2. UNCHANGED <<good, session, live, closed, doomed>> /\ hs' = "none"
    BY <2>1 DEF NotRecovered, Finish, hostVars
  <2>3. OneGoodSession' /\ SessionInv'
    BY <2>2 DEF SafeInv, OneGoodSession, SessionInv, Lost
  <2>4. \A d \in Requests : seen'[d] # epoch'
    <3>1. seen' = seen /\ epoch' = epoch + 1 BY <2>1 DEF NotRecovered, Finish
    <3>2. epoch \in Nat /\ seen \in [Requests -> 0 .. epoch] BY DEF SessionTyped
    <3> QED BY <3>1, <3>2
  <2> QED BY <2>3, <2>4 DEF SafeInv, KnownLost
<1>4. CASE \E c \in Requests : Abandon(c)
  BY <1>4 DEF Abandon, Enters, SafeInv, OneGoodSession, KnownLost, SessionInv, Lost, SessionTyped,
     hostVars
<1>5. CASE Arrive \/ Capture \/ Notify
  BY <1>5 DEF Arrive, Capture, Notify, SafeInv, OneGoodSession, KnownLost, SessionInv, Lost,
     requestVars, hostVars
<1> QED BY <1>1, <1>2, <1>3, <1>4, <1>5 DEF LeadStep

LEMMA ServerSafe == ASSUME SessionTyped, LockInv, SafeInv, HostStep PROVE SafeInv'
<1>1. CASE \E c \in Requests : Handle(c)
  <2>1. PICK c \in Requests : Handle(c) BY <1>1
  <2>2. UNCHANGED <<good, live, session, epoch, hs, closed, doomed, request, seen, under>>
    BY <2>1 DEF Handle, clientVars
  <2>3. wire'[c] = "refused" /\ request[c] = "sent" /\ seen[c] = epoch => Lost
    BY <2>1 DEF Handle, SafeInv, KnownLost, OneGoodSession, Lost, SessionTyped
  <2>4. \A d \in Requests : d # c => wire'[d] = wire[d] BY <2>1 DEF Handle, SessionTyped
  <2> QED BY <2>2, <2>3, <2>4 DEF SafeInv, OneGoodSession, KnownLost, SessionInv, Lost
<1>2. CASE \E c \in Requests : Cut(c)
  BY <1>2 DEF Cut, SafeInv, OneGoodSession, KnownLost, SessionInv, Lost, SessionTyped, clientVars,
     hostVars
<1>3. CASE Initialize
  <2>1. good' \cap live' = good \cap live
    <3>1. issued \in Nat /\ good \subseteq 1 .. issued BY DEF SessionTyped
    <3>2. good' = good /\ live' = live \cup {issued + 1} BY <1>3 DEF Initialize
    <3>3. issued + 1 \notin good BY <3>1
    <3> QED BY <3>2, <3>3
  <2> QED BY <1>3, <2>1 DEF Initialize, SafeInv, OneGoodSession, KnownLost, SessionInv, Lost,
       requestVars
<1>4. CASE HearInitialized
  BY <1>4 DEF HearInitialized, SafeInv, OneGoodSession, KnownLost, SessionInv, Lost, requestVars,
     hostVars
<1>5. CASE Forget
  BY <1>5 DEF Forget, SafeInv, OneGoodSession, KnownLost, SessionInv, Lost, requestVars, clientVars
<1>6. CASE Delete
  BY <1>6 DEF Delete, SafeInv, OneGoodSession, KnownLost, SessionInv, Lost, requestVars
<1> QED BY <1>1, <1>2, <1>3, <1>4, <1>5, <1>6 DEF HostStep

LEMMA NextSafe == ASSUME SessionTyped, LockInv, SafeInv, [SessionNext]_sessionVars PROVE SafeInv'
<1>1. CASE UNCHANGED sessionVars
  BY <1>1 DEF sessionVars, SafeInv, OneGoodSession, KnownLost, SessionInv, Lost, requestVars,
     clientVars, hostVars
<1> QED BY <1>1, SessionCases, ClientSafe, LeadSafe, ServerSafe

-----------------------------------------------------------------------------
(* Calls. *)
LEMMA NextRuns == ASSUME SessionTyped, RunInv, [SessionNext]_sessionVars PROVE RunInv'
<1>1. CASE UNCHANGED <<request, wire, runs>> BY <1>1 DEF RunInv
<1>2. CASE ClientStep
  <2>1. CASE \E c \in Requests : Prepare(c)
    BY <2>1 DEF Prepare, Enters, RunInv, SessionTyped, hostVars
  <2>2. CASE \E c \in Requests : Send(c)
    BY <2>2 DEF Send, Enters, RunInv, SessionTyped, hostVars
  <2>3. CASE \E c \in Requests : Learn(c)
    BY <2>3 DEF Learn, Outcome, Enters, RunInv, SessionTyped, hostVars
  <2>4. CASE \E c \in Requests : Fail(c) \/ Follow(c)
    BY <2>4 DEF Fail, Follow, Enters, RunInv, SessionTyped, hostVars
  <2> QED BY <1>1, <1>2, <2>1, <2>2, <2>3, <2>4 DEF ClientStep, CloseSession, requestVars, hostVars
<1>3. CASE LeadStep
  <2>1. CASE \E c \in Requests : Lead(c) \/ Recovered(c) \/ NotRecovered(c) \/ Abandon(c)
    <3>1. PICK c \in Requests : Lead(c) \/ Recovered(c) \/ NotRecovered(c) \/ Abandon(c) BY <2>1
    <3>2. UNCHANGED <<wire, runs>>
      BY <3>1 DEF Lead, Recovered, NotRecovered, Finish, Abandon, hostVars
    <3>3. \E s \in {"leading", "renewed", "failed", "dropped"} :
             /\ request' = [request EXCEPT ![c] = s]
             /\ s \in {"leading", "renewed"} => request[c] \in {"expired", "leading"}
      BY <3>1 DEF Lead, Recovered, NotRecovered, Finish, Abandon, Enters
    <3> QED BY <3>2, <3>3 DEF RunInv, SessionTyped
  <2> QED BY <1>1, <1>3, <2>1 DEF LeadStep, Arrive, Capture, Notify, requestVars, hostVars
<1>4. CASE HostStep
  <2>1. CASE \E c \in Requests : Handle(c)
    <3>1. PICK c \in Requests : Handle(c) BY <2>1
    <3>2. wire[c] = "sent" /\ runs[c] = 0 /\ UNCHANGED request BY <3>1 DEF Handle, RunInv
    <3>3. \/ wire'[c] = "ran" /\ runs'[c] = 1
          \/ wire'[c] = "refused" /\ runs'[c] = 0
      <4>1. CASE under[c] \in live
        <5>1. runs'[c] = runs[c] + 1 BY <3>1, <4>1 DEF Handle, SessionTyped
        <5>2. wire'[c] = "ran" BY <3>1, <4>1 DEF Handle, SessionTyped
        <5> QED BY <3>2, <5>1, <5>2
      <4>2. CASE under[c] \notin live BY <3>1, <3>2, <4>2 DEF Handle, SessionTyped
      <4> QED BY <4>1, <4>2
    <3>4. \A d \in Requests : d # c => wire'[d] = wire[d] /\ runs'[d] = runs[d]
      BY <3>1 DEF Handle, SessionTyped
    <3> QED BY <3>2, <3>3, <3>4 DEF RunInv
  <2>2. CASE \E c \in Requests : Cut(c) BY <2>2 DEF Cut, RunInv, SessionTyped, hostVars
  <2> QED BY <1>1, <1>4, <2>1, <2>2
          DEF HostStep, Initialize, HearInitialized, Forget, Delete, requestVars, hostVars
<1>5. CASE UNCHANGED sessionVars BY <1>1, <1>5 DEF sessionVars, requestVars, hostVars
<1> QED BY <1>2, <1>3, <1>4, <1>5, SessionCases

-----------------------------------------------------------------------------
LEMMA InitSessions == SessionInit => SessionsInv
BY DEF SessionInit, SessionsInv, SessionTyped, LockInv, LockFree, OneGoodSession, KnownLost,
     SessionInv, RunInv, Lost,
       RequestStates, Wires, Stages

LEMMA NextSessions == SessionsInv /\ [SessionNext]_sessionVars => SessionsInv'
<1> SUFFICES ASSUME SessionsInv, [SessionNext]_sessionVars PROVE SessionsInv' OBVIOUS
<1>1. SessionTyped' /\ LockInv' BY NextSessionTyped DEF SessionsInv
<1>2. SafeInv' BY NextSafe DEF SessionsInv, SafeInv
<1>3. RunInv' BY NextRuns DEF SessionsInv
<1> QED BY <1>1, <1>2, <1>3 DEF SessionsInv, SafeInv

LEMMA SessionsInvariance == SessionSpec => []SessionsInv
BY InitSessions, NextSessions, PTL DEF SessionSpec

\* Of the sessions whose handshake was completed the server honours at most the
\* current one, and none once shutdown's DELETE has arrived (mcp/client.rs,
\* recover_session; mcp/http.rs, begin_shutdown).
THEOREM SessionsAreSound == SessionSpec => []SessionsSound
<1>1. SessionsInv => SessionsSound BY TypeFromLock DEF SessionsInv, SessionsSound
<1> QED BY <1>1, SessionsInvariance, PTL

-----------------------------------------------------------------------------
(* The promise. *)
LEMMA InitHttpPromise == SessionInit => HttpPromise!Init
BY DEF SessionInit, HttpPromise!Init, RequestTold

LEMMA NextHttpPromise ==
  ASSUME SessionsInv, [SessionNext]_sessionVars
  PROVE  [HttpPromise!Next]_(HttpPromise!vars)
<1> DEFINE T == [d \in Requests |-> RequestTold(d)]
<1> SessionTyped /\ RunInv BY DEF SessionsInv
<1>1. CASE UNCHANGED <<T, runs>> BY <1>1 DEF HttpPromise!vars
<1>2. CASE \E c \in Requests, s \in RequestStates : request' = [request EXCEPT ![c] = s] /\ UNCHANGED runs
                    /\ ((request[c] = "idle" /\ s \in {"begun", "failed"})
                       \/ (request[c] \in {"begun", "sent", "expired", "leading", "renewed", "again"}
                           /\ s # "idle"
                           /\ (s = "answered" => runs[c] = 1)))
  <2>1. PICK c \in Requests, s \in RequestStates :
          /\ request' = [request EXCEPT ![c] = s] /\ UNCHANGED runs
          /\ \/ request[c] = "idle" /\ s \in {"begun", "failed"}
             \/ /\ request[c] \in {"begun", "sent", "expired", "leading", "renewed", "again"}
                /\ s # "idle" /\ (s = "answered" => runs[c] = 1)
    BY <1>2
  <2>2. \A d \in Requests : d # c => RequestTold(d)' = RequestTold(d) BY <2>1 DEF RequestTold,
       SessionTyped
  <2>3. T' = [T EXCEPT ![c] = RequestTold(c)'] BY <2>2
  <2>4. request'[c] = s BY <2>1 DEF SessionTyped
  <2>5. CASE s \in {"failed", "dropped"}
    <3>1. RequestTold(c)' = "failure" BY <2>4, <2>5 DEF RequestTold
    <3>2. RequestTold(c) \in {"unasked", "open"} BY <2>1 DEF RequestTold
    <3>3. {c} \in SUBSET {d \in Requests : T[d] \in {"unasked", "open"}} BY <3>2
    <3>4. T' = [d \in Requests |-> IF d \in {c} THEN "failure" ELSE T[d]] BY <2>2, <3>1
    <3>5. HttpPromise!Fail BY <2>1, <3>3, <3>4 DEF HttpPromise!Fail
    <3> QED BY <3>5 DEF HttpPromise!Next
  <2>6. CASE s = "answered"
    <3>1. RequestTold(c)' = "answer" /\ RequestTold(c) = "open" /\ runs[c] = 1 BY <2>1, <2>4, <2>6
         DEF RequestTold
    <3>2. HttpPromise!Answer(c) BY <2>1, <2>3, <3>1 DEF HttpPromise!Answer, HttpPromise!Tell
    <3> QED BY <3>2 DEF HttpPromise!Next
  <2>7. CASE s \in {"begun", "sent", "expired", "leading", "renewed", "again"}
    <3>1. RequestTold(c)' = "open" BY <2>4, <2>7 DEF RequestTold
    <3>2. CASE request[c] = "idle"
      <4>1. RequestTold(c) = "unasked" BY <3>2 DEF RequestTold
      <4>2. HttpPromise!Ask(c) BY <2>1, <2>3, <3>1, <4>1 DEF HttpPromise!Ask, HttpPromise!Tell
      <4> QED BY <4>2 DEF HttpPromise!Next
    <3>3. CASE request[c] # "idle"
      <4>1. RequestTold(c) = "open" BY <2>1, <3>3 DEF RequestTold
      <4>2. T' = T BY <2>2, <3>1, <4>1
      <4> QED BY <1>1, <2>1, <4>2
    <3> QED BY <3>2, <3>3
  <2> QED BY <2>1, <2>5, <2>6, <2>7 DEF RequestStates
<1>3. CASE ClientStep
  <2>1. CASE CloseSession BY <1>1, <2>1 DEF CloseSession, requestVars, hostVars, RequestTold
  <2>2. CASE \E c \in Requests : Prepare(c)
    BY <1>2, <2>2 DEF Prepare, Enters, RequestStates, hostVars
  <2>3. CASE \E c \in Requests : Send(c) \/ Fail(c) \/ Follow(c)
    BY <1>2, <2>3 DEF Send, Fail, Follow, Enters, RequestStates, hostVars
  <2>4. CASE \E c \in Requests : Learn(c)
    BY <1>2, <2>4 DEF Learn, Outcome, Enters, RunInv, RequestStates, hostVars
  <2> QED BY <1>3, <2>1, <2>2, <2>3, <2>4 DEF ClientStep
<1>4. CASE LeadStep
  <2>1. CASE \E c \in Requests : Lead(c) \/ Recovered(c) \/ NotRecovered(c) \/ Abandon(c)
    BY <1>2, <2>1 DEF Lead, Recovered, NotRecovered, Finish, Abandon, Enters, RequestStates,
       hostVars
  <2>2. CASE Arrive \/ Capture \/ Notify
    BY <1>1, <2>2 DEF Arrive, Capture, Notify, requestVars, hostVars, RequestTold
  <2> QED BY <1>4, <2>1, <2>2 DEF LeadStep
<1>5. CASE HostStep
  <2>1. UNCHANGED request
    BY <1>5 DEF HostStep, Handle, Cut, Initialize, HearInitialized, Forget, Delete, requestVars
  <2>2. T' = T BY <2>1 DEF RequestTold
  <2>3. CASE \E c \in Requests : Handle(c) /\ under[c] \in live
    <3>1. PICK c \in Requests : Handle(c) /\ under[c] \in live BY <2>3
    <3>2. runs[c] = 0 /\ request[c] # "idle" BY <3>1 DEF Handle, RunInv
    <3>3. RequestTold(c) # "unasked" BY <3>2 DEF RequestTold, SessionTyped, RequestStates
    <3>4. runs' = [runs EXCEPT ![c] = 1]
      <4>1. runs' = [runs EXCEPT ![c] = runs[c] + 1] BY <3>1 DEF Handle
      <4>2. runs[c] + 1 = 1 BY <3>2
      <4> QED BY <4>1, <4>2
    <3>5. HttpPromise!Run(c) BY <2>2, <3>2, <3>3, <3>4 DEF HttpPromise!Run
    <3> QED BY <3>5 DEF HttpPromise!Next
  <2>4. CASE UNCHANGED runs BY <1>1, <2>2, <2>4
  <2> QED BY <1>5, <2>3, <2>4
          DEF HostStep, Handle, Cut, Initialize, HearInitialized, Forget, Delete, clientVars,
               hostVars
<1>6. CASE UNCHANGED sessionVars BY <1>1, <1>6 DEF sessionVars, requestVars, hostVars, RequestTold
<1> QED BY <1>3, <1>4, <1>5, <1>6, SessionCases

\* The safety of CallsKeepPromise: the one repetition of a refused request runs
\* no call twice, and each caller is told one thing.
THEOREM SessionIsSafe == SessionSpec => HttpPromise!Safe
BY InitHttpPromise, NextHttpPromise, SessionsInvariance, PTL DEF SessionSpec, HttpPromise!Safe
=============================================================================
