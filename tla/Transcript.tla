----------------------------- MODULE Transcript -----------------------------
(***************************************************************************)
(* A conversation and its session log: run_turn and execute_tool_calls of  *)
(* agent/loop_.rs, the JSONL file of session.rs they append to, compaction *)
(* (agent/compact.rs), and load_session, which rebuilds the conversation   *)
(* from the file after an exit or a crash.                                 *)
(*                                                                         *)
(* One task runs a turn; the tools of a batch run concurrently inside it,  *)
(* so everything between two awaits of the task is one step, except that a *)
(* kill may come between any two things it does to the world: an appended  *)
(* line and a started tool are steps of their own.  Esc cancels the token  *)
(* at any time; the task notices at some of its awaits: not while hooks    *)
(* run or a summary is written, which are places of their own here.        *)
(*                                                                         *)
(* What messages say is left out.  A user's or the model's text is named   *)
(* by the line that logs it, a tool call by the id it got, in the order of *)
(* the model's answer (run_turn gives fresh ids where a gateway repeats    *)
(* one).                                                                   *)
(***************************************************************************)
EXTENDS Naturals, Sequences, FiniteSets, SequencesExt

CONSTANTS
  MaxCalls,        \* bound: tool calls
  MaxBatch,        \* bound: tool calls in one answer
  MaxUsers,        \* bound: user messages, steers included
  MaxLines,        \* bound: lines of the file after which no more are typed
  MaxCompactions,  \* bound: compaction passes
  MaxCrashes,      \* bound: kills of the process
  Key,             \* [CallIds -> paths \cup {NoKey}], tool::mutation_key
  NoKey,
  Hashed           \* BOOLEAN: the provider collects calls in a HashMap (openai.rs)

CallIds == 1 .. MaxCalls

ASSUME TranscriptAssumption ==
  /\ MaxCalls \in Nat /\ MaxBatch \in Nat /\ MaxUsers \in Nat /\ MaxLines \in Nat
  /\ MaxCompactions \in Nat /\ MaxCrashes \in Nat
  /\ DOMAIN Key = CallIds
  /\ Hashed \in BOOLEAN

VARIABLES
  log,        \* Seq(Entry)      the session file, without its header
  ctx,        \* Seq(Message)    Context::messages
  at,         \* where the task is; "down" when there is no process
  cancel,     \* BOOLEAN         the turn's CancellationToken
  issued,     \* Nat             call ids given out
  crashes,    \* Nat             kills so far
  batch,      \* Seq(CallIds)    the calls of the batch, in the order collected
  serial,     \* BOOLEAN         one at a time: Sequential mode, or a Sequential tool
  pc,         \* [CallIds -> ...] run_one_tool
  completed,  \* Seq(CallIds)    outcomes, in the order they landed
  ran,        \* SUBSET CallIds  tools started: what may have happened to the world
  unfiled     \* BOOLEAN         the conversation has, or had, a message the file
              \*                 does not have (history: no such field in the code)

batchVars == <<batch, serial, pc, completed>>
vars == <<log, ctx, at, cancel, issued, crashes, batchVars, ran, unfiled>>

Entry == [kind : {"user", "assistant", "call", "result", "cancelled", "compaction"},
          id : Nat]
Message == [kind : {"user", "assistant", "tool", "unknown", "summary"},
            id : Nat, calls : Seq(CallIds)]

Line(kind, id) == [kind |-> kind, id |-> id]
Says(kind, id) == [kind |-> kind, id |-> id, calls |-> <<>>]

TypeOK ==
  /\ log \in Seq(Entry)
  /\ ctx \in Seq(Message)
  /\ at \in {"idle", "folding", "opening", "top", "starting", "streaming", "batch",
            "marking", "ending", "closing", "tailing", "down"}
  /\ unfiled \in BOOLEAN
  /\ cancel \in BOOLEAN
  /\ issued \in 0 .. MaxCalls
  /\ crashes \in 0 .. MaxCrashes
  /\ batch \in Seq(CallIds)
  /\ serial \in BOOLEAN
  /\ pc \in [CallIds -> {"waiting", "logged", "running", "ending", "done"}]
  /\ completed \in Seq(CallIds)
  /\ ran \in SUBSET CallIds
  /\ IsInjective(batch) /\ IsInjective(completed)
  /\ ToSet(completed) = {c \in ToSet(batch) : pc[c] = "done"}
  /\ (batch # <<>>) <=> (at \in {"batch", "marking"})

(***************************************************************************)
(* Plausible mistakes in definitions below, each named for one of them;    *)
(* Spec uses none.                                                         *)
(***************************************************************************)

\* Only a conversation that ends in a call is repaired.
LastUnknowns(msgs, i) ==
  IF i < Len(msgs) THEN <<>>
  ELSE [k \in DOMAIN msgs[i].calls |-> Says("unknown", msgs[i].calls[k])]

\* The line counts the first message that was kept.
InclusiveLine(n) == Append(log, Line("compaction", n + 1))

UnloggedCallLine(c) == log

\* Calls that write to one path do not wait for each other.
EagerWaitsFor(i) == {}

\* Esc is noticed between tools.
PatientBatchCancelled ==
  /\ at = "batch" /\ cancel
  /\ \A c \in CallIds : pc[c] \in {"waiting", "done"}
  /\ \E c \in ToSet(batch) : pc[c] # "done"
  /\ at' = "marking"
  /\ UNCHANGED <<log, ctx, cancel, issued, crashes, batchVars, ran, unfiled>>

ShortOutcomes == completed

-----------------------------------------------------------------------------
NoBatch ==
  /\ batch' = <<>>
  /\ serial' = FALSE
  /\ pc' = [c \in CallIds |-> "waiting"]
  /\ completed' = <<>>

Init ==
  /\ log = <<>>
  /\ ctx = <<>>
  /\ at = "idle"
  /\ cancel = FALSE
  /\ issued = 0
  /\ crashes = 0
  /\ batch = <<>>
  /\ serial = FALSE
  /\ pc = [c \in CallIds |-> "waiting"]
  /\ completed = <<>>
  /\ ran = {}
  /\ unfiled = FALSE

Logged(kind, id) == \E i \in DOMAIN log : log[i] = Line(kind, id)
Count(kind) == Cardinality({i \in DOMAIN log : log[i].kind = kind})

-----------------------------------------------------------------------------
(***************************************************************************)
(* load_session.                                                           *)
(***************************************************************************)

\* A ToolCall line joins the assistant message that is still open: the one
\* the line before it belongs to.
Joins(lines, i) == i > 1 /\ lines[i - 1].kind \in {"assistant", "call"}

\* A Compaction line: the first `replaced` messages give way to the summary.
Summarized(msgs, replaced) ==
  <<Says("summary", 0)>> \o SubSeq(msgs, replaced + 1, Len(msgs))

Replay1(msgs, lines, i) ==
  LET e == lines[i] IN
  CASE e.kind \in {"user", "assistant"} -> Append(msgs, Says(e.kind, e.id))
    [] e.kind = "call" /\ Joins(lines, i) ->
         [msgs EXCEPT ![Len(msgs)].calls = Append(@, e.id)]
    [] e.kind = "call" /\ ~Joins(lines, i) ->
         Append(msgs, [kind |-> "assistant", id |-> 0, calls |-> <<e.id>>])
    [] e.kind \in {"result", "cancelled"} -> Append(msgs, Says("tool", e.id))
    [] e.kind = "compaction" -> Summarized(msgs, e.id)

Replay(lines) ==
  LET upTo[i \in 0 .. Len(lines)] ==
        IF i = 0 THEN <<>> ELSE Replay1(upTo[i - 1], lines, i)
  IN  upTo[Len(lines)]

\* repair_orphaned_tool_calls: after an assistant message, an "outcome
\* unknown" result for each of its calls that has no answer anywhere.
Answered(msgs) == {msgs[i].id : i \in {j \in DOMAIN msgs : msgs[j].kind \in {"tool", "unknown"}}}

Unknowns(msgs, i) ==
  LET calls == msgs[i].calls
  IN  FlattenSeq([k \in DOMAIN calls |->
        IF calls[k] \in Answered(msgs) THEN <<>> ELSE <<Says("unknown", calls[k])>>])

Repair(msgs) == FlattenSeq([i \in DOMAIN msgs |-> <<msgs[i]>> \o Unknowns(msgs, i)])

Load(lines) == Repair(Replay(lines))

-----------------------------------------------------------------------------
(***************************************************************************)
(* run_turn.                                                               *)
(***************************************************************************)

\* Where the kept tail may begin: sizes decide, and it is moved on to the next
\* message that is not a tool result; something is always summarized.
Cuts == {i \in 1 .. Len(ctx) - 1 : ctx[i + 1].kind \in {"user", "assistant", "summary"}}

MayCompact == Count("compaction") < MaxCompactions /\ Cuts # {}

\* The provider is asked for the summary, and nothing else ends the wait: the
\* turn's token is not looked at here.
Summarizing == {"folding", "tailing"}

CompactionLine(n) == Append(log, Line("compaction", n))

\* The summary is there, or a placeholder where the provider failed.  Between
\* the change of the context and the line only hooks run, and a kill there
\* leaves what one before the summary leaves.  /compact, between turns, has no
\* token and is this one step.
Compact(n) ==
  /\ at \in Summarizing \cup {"idle"}
  /\ MayCompact
  /\ n \in Cuts
  /\ ctx' = Summarized(ctx, n)
  /\ log' = CompactionLine(n)
  /\ at' = IF at = "folding" THEN "opening" ELSE "idle"
  /\ UNCHANGED <<cancel, issued, crashes, batchVars, ran, unfiled>>

MayType ==
  /\ Count("user") < MaxUsers
  /\ Len(log) - Count("compaction") < MaxLines

\* run_turn is called, with a fresh token: maybe_compact, then the hooks that
\* may refuse the prompt.
StartTurn ==
  /\ at = "idle"
  /\ MayType
  /\ at' \in {"opening"} \cup (IF MayCompact THEN {"folding"} ELSE {})
  /\ cancel' = FALSE
  /\ UNCHANGED <<log, ctx, issued, crashes, batchVars, ran, unfiled>>

Refuse ==
  /\ at = "opening"
  /\ at' = "idle"
  /\ UNCHANGED <<log, ctx, cancel, issued, crashes, batchVars, ran, unfiled>>

\* They let it pass: the user's message is pushed and logged.  A run that has
\* used up its limits goes no further.
Submit ==
  /\ at = "opening"
  /\ ctx' = Append(ctx, Says("user", Len(log) + 1))
  /\ log' = Append(log, Line("user", Len(log) + 1))
  /\ at' \in {"top", "idle"}
  /\ UNCHANGED <<cancel, issued, crashes, batchVars, ran, unfiled>>

Esc ==
  /\ at \notin {"idle", "down"}
  /\ ~cancel
  /\ cancel' = TRUE
  /\ UNCHANGED <<log, ctx, at, issued, crashes, batchVars, ran, unfiled>>

\* The top of an iteration: a cancelled turn returns; otherwise the steer
\* pump pushes and logs what was typed meanwhile.
TopCancelled ==
  /\ at = "top"
  /\ cancel
  /\ at' = "idle"
  /\ UNCHANGED <<log, ctx, cancel, issued, crashes, batchVars, ran, unfiled>>

SteerLine == Append(log, Line("user", Len(log) + 1))

Steer ==
  /\ at = "top"
  /\ ~cancel
  /\ MayType
  /\ ctx' = Append(ctx, Says("user", Len(log) + 1))
  /\ log' = SteerLine
  /\ UNCHANGED <<at, cancel, issued, crashes, batchVars, ran, unfiled>>

Request ==
  /\ at = "top"
  /\ ~cancel
  /\ at' = "starting"
  /\ UNCHANGED <<log, ctx, cancel, issued, crashes, batchVars, ran, unfiled>>

\* They are over, and the request goes out.
TurnStartHooks ==
  /\ at = "starting"
  /\ at' = "streaming"
  /\ UNCHANGED <<log, ctx, cancel, issued, crashes, batchVars, ran, unfiled>>

\* An error of the provider ends the turn, an answer without text or calls the
\* loop: nothing is written.
NoAnswer ==
  /\ at = "streaming"
  /\ at' \in {"idle", "closing"}
  /\ UNCHANGED <<log, ctx, cancel, issued, crashes, batchVars, ran, unfiled>>

\* Esc wins against the stream: a marker stands for the answer.
StreamAborted ==
  /\ at = "streaming"
  /\ cancel
  /\ log' = Append(log, Line("assistant", Len(log) + 1))
  /\ ctx' = Append(ctx, Says("assistant", Len(log) + 1))
  /\ at' = "idle"
  /\ UNCHANGED <<cancel, issued, crashes, batchVars, ran, unfiled>>

\* The orders in which n new calls reach run_turn: the model's own, or any,
\* when the parser drains a HashMap.
Collected(n) ==
  IF Hashed THEN SetToSeqs(issued + 1 .. issued + n)
            ELSE {[i \in 1 .. n |-> issued + i]}

\* An answer: text, calls, or both.  Its calls are run only if it finished
\* with "tool calls": one cut off by the token limit or by the end of the
\* stream ends the loop or the turn, its calls in the context all the same.
Runs(calls, finish) == finish = "tool_calls" /\ calls # <<>>

Reply(text, calls, finish, oneByOne) ==
  LET n == Len(calls)
      line == IF text THEN <<Line("assistant", Len(log) + 1)>> ELSE <<>>
  IN
  /\ at = "streaming"
  /\ text \/ n > 0
  /\ issued + n <= MaxCalls
  /\ log' = log \o line
  /\ ctx' = Append(ctx, [kind |-> "assistant", id |-> IF text THEN Len(log) + 1 ELSE 0,
                         calls |-> calls])
  /\ issued' = issued + n
  /\ IF Runs(calls, finish)
       THEN at' = "batch" /\ batch' = calls /\ serial' = oneByOne
       ELSE at' = (IF finish = "none" THEN "idle" ELSE "closing") /\ UNCHANGED <<batch, serial>>
  /\ unfiled' = (unfiled \/ (~text /\ ~Runs(calls, finish)))
  /\ UNCHANGED <<cancel, crashes, pc, completed, ran>>

\* The end of a round: the loop goes on, or a limit is reached.
TurnEndHooks ==
  /\ at = "ending"
  /\ at' \in {"top", "closing"}
  /\ UNCHANGED <<log, ctx, cancel, issued, crashes, batchVars, ran, unfiled>>

\* The end of the loop; maybe_compact comes after.
MessageEndHooks ==
  /\ at = "closing"
  /\ at' \in {"idle"} \cup (IF MayCompact THEN {"tailing"} ELSE {})
  /\ UNCHANGED <<log, ctx, cancel, issued, crashes, batchVars, ran, unfiled>>

-----------------------------------------------------------------------------
(***************************************************************************)
(* execute_tool_calls and run_one_tool.                                    *)
(***************************************************************************)

\* group_batch: the calls that must be done before the i-th begins, those
\* before it in its group.  With a Sequential tool in the batch, or in
\* Sequential mode, that is all of them; else those that write to its path.
WaitsFor(i) ==
  {batch[j] : j \in {k \in 1 .. i - 1 :
     serial \/ (Key[batch[k]] # NoKey /\ Key[batch[k]] = Key[batch[i]])}}

AllDone == \A c \in ToSet(batch) : pc[c] = "done"

\* Between logging a call and the first poll of its tool there is no await.
MidPoll == \E c \in CallIds : pc[c] = "logged"

CallLine(c) == Append(log, Line("call", c))

\* The start hooks allow the call: it is logged.
Begin(i) ==
  /\ at = "batch" /\ ~MidPoll
  /\ pc[batch[i]] = "waiting"
  /\ \A c \in WaitsFor(i) : pc[c] = "done"
  /\ log' = CallLine(batch[i])
  /\ pc' = [pc EXCEPT ![batch[i]] = "logged"]
  /\ UNCHANGED <<ctx, at, cancel, issued, crashes, batch, serial, completed, ran, unfiled>>

\* They block it: only the refusal is logged, as its result.
Block(i) ==
  /\ at = "batch" /\ ~MidPoll
  /\ pc[batch[i]] = "waiting"
  /\ \A c \in WaitsFor(i) : pc[c] = "done"
  /\ log' = Append(log, Line("result", batch[i]))
  /\ pc' = [pc EXCEPT ![batch[i]] = "ending"]
  /\ UNCHANGED <<ctx, at, cancel, issued, crashes, batch, serial, completed, ran, unfiled>>

\* tool.execute
Execute(c) ==
  /\ pc[c] = "logged"
  /\ pc' = [pc EXCEPT ![c] = "running"]
  /\ ran' = ran \cup {c}
  /\ UNCHANGED <<log, ctx, at, cancel, issued, crashes, batch, serial, completed, unfiled>>

\* It returns, and its result is logged.
Finish(c) ==
  /\ at = "batch" /\ ~MidPoll
  /\ pc[c] = "running"
  /\ log' = Append(log, Line("result", c))
  /\ pc' = [pc EXCEPT ![c] = "ending"]
  /\ UNCHANGED <<ctx, at, cancel, issued, crashes, batch, serial, completed, ran, unfiled>>

\* The end hooks and the event are done, the outcome lands in `completed`.
Complete(c) ==
  /\ at = "batch" /\ ~MidPoll
  /\ pc[c] = "ending"
  /\ pc' = [pc EXCEPT ![c] = "done"]
  /\ completed' = Append(completed, c)
  /\ UNCHANGED <<log, ctx, at, cancel, issued, crashes, batch, serial, ran, unfiled>>

\* Esc wins against the batch: its futures are dropped, running tools are
\* killed.
BatchCancelled ==
  /\ at = "batch" /\ ~MidPoll
  /\ cancel /\ ~AllDone
  /\ at' = "marking"
  /\ UNCHANGED <<log, ctx, cancel, issued, crashes, batchVars, ran, unfiled>>

\* A "cancelled" result for each call without an outcome, in batch order.
ToMark == ToSet(batch) \ ToSet(completed)

Unmarked == {c \in ToMark : ~Logged("cancelled", c)}

Mark(i) ==
  /\ at = "marking"
  /\ batch[i] \in Unmarked
  /\ \A j \in 1 .. i - 1 : batch[j] \notin Unmarked
  /\ log' = Append(log, Line("cancelled", batch[i]))
  /\ UNCHANGED <<ctx, at, cancel, issued, crashes, batchVars, ran, unfiled>>

\* Phase 2: the results are pushed.  The same failing calls three times in a
\* row end the turn.  An answer without text of which no call was begun has no
\* line, only the results have.
Outcomes == IF at = "marking" THEN batch ELSE completed

NoneBegun == \A c \in ToSet(batch) : ~Logged("call", c)

Settle ==
  /\ \/ at = "batch" /\ AllDone
     \/ at = "marking" /\ Unmarked = {}
  /\ ctx' = ctx \o [i \in DOMAIN Outcomes |-> Says("tool", Outcomes[i])]
  /\ at' \in {"ending", "idle"}
  /\ unfiled' = (unfiled \/ (ctx[Len(ctx)].id = 0 /\ NoneBegun))
  /\ NoBatch
  /\ UNCHANGED <<log, cancel, issued, crashes, ran>>

-----------------------------------------------------------------------------
\* The process is killed: the conversation is gone, the file stays.
Crash ==
  /\ at # "down"
  /\ crashes < MaxCrashes
  /\ crashes' = crashes + 1
  /\ at' = "down"
  /\ ctx' = <<>>
  /\ cancel' = FALSE
  /\ NoBatch
  /\ UNCHANGED <<log, issued, ran, unfiled>>

\* --continue, /resume.  What the repair adds is not written to the file.
Resume ==
  /\ at = "down"
  /\ ctx' = Load(log)
  /\ at' = "idle"
  /\ unfiled' = (Load(log) # Replay(log))
  /\ UNCHANGED <<log, cancel, issued, crashes, batchVars, ran>>

Next ==
  \/ StartTurn \/ Refuse \/ Submit \/ Esc \/ TopCancelled \/ Steer \/ Request \/ TurnStartHooks
  \/ NoAnswer \/ StreamAborted \/ TurnEndHooks \/ MessageEndHooks
  \/ \E n \in Cuts : Compact(n)
  \/ \E text \in BOOLEAN, n \in 0 .. MaxBatch, finish \in {"tool_calls", "stop", "none"} :
       \E calls \in Collected(n), oneByOne \in {FALSE, n > 1} : Reply(text, calls, finish, oneByOne)
  \/ \E i \in DOMAIN batch : Begin(i) \/ Block(i) \/ Mark(i)
  \/ \E c \in CallIds : Execute(c) \/ Finish(c) \/ Complete(c)
  \/ BatchCancelled \/ Settle
  \/ Crash \/ Resume

\* What the task itself does next: hooks return, by their timeout or when a
\* plugin's budget is spent.  Nothing is assumed of a tool (it may hang), of the
\* provider, whether it answers or summarizes, of the user, or of the process's
\* survival.
LoopStep ==
  \/ Submit \/ Refuse \/ TurnStartHooks \/ TurnEndHooks \/ MessageEndHooks
  \/ TopCancelled \/ StreamAborted \/ BatchCancelled \/ Settle
  \/ \E i \in DOMAIN batch : Mark(i)
  \/ \E c \in CallIds : Execute(c)

Spec == Init /\ [][Next]_vars
FairSpec == Spec /\ WF_vars(LoopStep)

-----------------------------------------------------------------------------
(***************************************************************************)
(* Properties.                                                             *)
(***************************************************************************)
IsAnswer(m) == m.kind \in {"tool", "unknown"}

\* The answers that stand directly after msgs[i], nothing in between.
AnswersAfter(msgs, i) ==
  {j \in i + 1 .. Len(msgs) : \A k \in i + 1 .. j : IsAnswer(msgs[k])}

AnswersTo(msgs, i, c) == {j \in AnswersAfter(msgs, i) : msgs[j].id = c}

\* Every answer belongs to the assistant message its run of answers follows.
NoStrayAnswer(msgs) ==
  \A j \in DOMAIN msgs : IsAnswer(msgs[j]) =>
    \E i \in 1 .. j - 1 : j \in AnswersAfter(msgs, i) /\ msgs[j].id \in ToSet(msgs[i].calls)

AllAnsweredOnce(msgs, i) ==
  \A c \in ToSet(msgs[i].calls) : Cardinality(AnswersTo(msgs, i, c)) = 1

\* What goes to the provider, in a process that has not resumed: every tool
\* result follows the assistant message that asked for it with nothing in
\* between, and the calls of one answer are all answered there, each once,
\* whatever Esc cut short and compaction dropped.  (The calls of an answer
\* that was cut off are never run, and stay unanswered.)
RequestPaired ==
  at = "streaming" /\ crashes = 0 =>
    /\ NoStrayAnswer(ctx)
    /\ \A i \in DOMAIN ctx :
         \/ AllAnsweredOnce(ctx, i)
         \/ /\ AnswersAfter(ctx, i) = {}
            /\ \A c \in ToSet(ctx[i].calls), k \in {"call", "result", "cancelled"} : ~Logged(k, c)

\* What a kill at any point leaves: every call the resumed conversation shows
\* has an answer; one made up by repair_orphaned_tool_calls stands directly
\* after its call, and only where the file has none.
EveryCallAnswered ==
  LET msgs == Load(log) IN
  \A i \in DOMAIN msgs : \A c \in ToSet(msgs[i].calls) :
    \/ Says("unknown", c) \notin ToSet(msgs) /\ Says("tool", c) \in ToSet(msgs)
    \/ /\ \E j \in AnswersTo(msgs, i, c) : msgs[j].kind = "unknown"
       /\ ~Logged("result", c) /\ ~Logged("cancelled", c)

LastCompaction == Max({0} \cup {i \in DOMAIN log : log[i].kind = "compaction"})

\* A tool that was started may have changed the world.  Whenever the process
\* dies, the resumed model sees that call and some answer to it, unless a
\* summary stands for both.
EffectsAreKnown ==
  LET msgs == Load(log) IN
  \A c \in ran :
    \/ \E k \in 1 .. LastCompaction : log[k] = Line("call", c)
    \/ \E i, j \in DOMAIN msgs :
         c \in ToSet(msgs[i].calls) /\ i < j /\ IsAnswer(msgs[j]) /\ msgs[j].id = c

\* The text of an answer and its calls come back as one assistant message,
\* never as two in a row.
OneAssistantPerTurn ==
  LET msgs == Load(log) IN
  \A i \in 1 .. Len(msgs) - 1 :
    ~(msgs[i].kind = "assistant" /\ msgs[i + 1].kind = "assistant")

\* The lines a message of the context stands for, and the other way round.
KindOf(line) == IF line.kind \in {"result", "cancelled"} THEN "tool" ELSE line.kind
Holds(msgs, line) ==
  \E i \in DOMAIN msgs : msgs[i].kind = KindOf(line) /\ msgs[i].id = line.id

\* Whatever was said or answered since the last compaction is in the resumed
\* conversation and, between batches, in the running one: no summary, no
\* replay and no repair swallows it.
RecentLinesHeld ==
  LET msgs == Load(log) IN
  \A k \in LastCompaction + 1 .. Len(log) :
    log[k].kind # "call" =>
      /\ Holds(msgs, log[k])
      /\ at \notin {"batch", "marking", "down"} => Holds(ctx, log[k])

\* Messages that have a line of their own: an answer of calls alone has not.
OwnLine(m) == m.kind \in {"user", "tool"} \/ (m.kind = "assistant" /\ m.id # 0)

\* What the conversation still holds after any number of compactions the
\* resumed one holds too: `replaced_count` counts the messages of the context,
\* and never makes the replay drop one the context kept.  Where the replay had
\* built fewer messages it may: the exception is a conversation in which an
\* answer without text had no call on file, or a repair had made a result up.
KeptIsReplayed ==
  LET msgs == Load(log) IN
  ~unfiled => \A i \in DOMAIN ctx : OwnLine(ctx[i]) =>
    \E j \in DOMAIN msgs : msgs[j].kind = ctx[i].kind /\ msgs[j].id = ctx[i].id

ReplayLosesNothing == RecentLinesHeld /\ KeptIsReplayed

\* The provider is never told something the session file does not hold: at
\* every request each message but a summary, a made-up answer or an answer
\* of calls alone has its line.
RequestIsLogged ==
  at = "streaming" =>
    \A i \in DOMAIN ctx :
      \/ ctx[i].kind \in {"summary", "unknown"}
      \/ ctx[i].kind = "assistant" /\ ctx[i].id = 0
      \/ \E k \in DOMAIN log : KindOf(log[k]) = ctx[i].kind /\ log[k].id = ctx[i].id

\* Two calls that write to one file, or any two when tools run one at a
\* time: the later in the model's answer does not begin (its hooks included)
\* until the earlier is done.
PathOrder ==
  at = "batch" =>
    \A c, d \in ToSet(batch) :
      /\ c < d
      /\ serial \/ (Key[c] # NoKey /\ Key[c] = Key[d])
      /\ pc[d] # "waiting"
      => pc[c] = "done"

\* Esc writes no "cancelled" result over one that had landed.
FinishedGetsNoMarker == \A c \in ToSet(completed) : ~Logged("cancelled", c)

\* Esc ends the turn, even when a tool or the provider's answer hangs, unless
\* the provider leaves a compaction inside the turn without an end for ever.
CancelEnds == cancel ~> (at \in {"idle", "down"} \/ [](at \in Summarizing))

\* A conversation is one a provider accepts, at every request and after every
\* resume, and is on file.
RequestsSound == TypeOK /\ RequestPaired /\ OneAssistantPerTurn /\ RequestIsLogged

\* Each call has its answer, in the context and after a resume, and one only.
CallsAnsweredOnce == EveryCallAnswered /\ FinishedGetsNoMarker
=============================================================================
