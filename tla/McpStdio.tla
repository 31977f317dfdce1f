------------------------------ MODULE McpStdio ------------------------------
(***************************************************************************)
(* One MCP server on the end of two pipes: StdioTransport (mcp/stdio.rs)   *)
(* under McpClient's gate (mcp/client.rs) and the manager's shutdown       *)
(* (mcp/manager.rs).  Several callers share the one pipe; each request     *)
(* runs under a timeout, and its future may be dropped at any time (Esc,   *)
(* or the agent it runs for is gone).                                      *)
(*                                                                         *)
(* A line is written in two parts, so that a part can be alone in a pipe   *)
(* that is full.  The server is external: it reads, works on any number of *)
(* calls at once, honours a cancellation of a call it has seen, may ask    *)
(* something of its own, close its stdout, or die.                         *)
(***************************************************************************)
EXTENDS Naturals, Sequences

CONSTANTS
  Calls,   \* requests; a request's id stands for it
  Room,    \* parts of lines the pipe to the server holds
  OutRoom  \* lines the pipe from the server holds

ASSUME StdioAssumption == Room \in Nat \ {0} /\ OutRoom \in Nat \ {0}

Refusal == <<"refusal", "refusal">>
Request(c) == <<"call", c>>
Cancelled(c) == <<"cancelled", c>>
Lines == {Refusal} \cup ({"call", "cancelled"} \X Calls)
Nobody == <<"nobody", "nobody">>

VARIABLES
  caller,  \* [Calls -> ...]   the future of request_with_timeout
  reply,   \* [Calls -> ...]   what is in the call's oneshot channel
  pending, \* SUBSET Calls     Slots::Open's map
  slots,   \* "open" or "closed"
  client,  \* McpClient's state: "ready" or "failed"
  line,    \* [Lines -> ...]   the task that writes a line
  holder,  \* who has the lock of stdin
  stdin,   \* "open", or "closed": taken by shutdown
  pipe,    \* Seq of parts     on their way to the server
  reader,  \* read_stdout: "reading", "refusing" or "over"
  exit,    \* where shutdown is
  server,  \* "up", "mute" (its stdout is closed) or "dead"
  heard,   \* the line the server has read half of
  work,    \* [Calls -> ...]   what the server does for a call
  asked,   \* BOOLEAN          the server sent a request of its own
  out      \* Seq of Lines     on their way from the server

callVars == <<caller, reply, pending, slots, client>>
pipeVars == <<line, holder, stdin, pipe>>
serverVars == <<server, heard, work, asked, out>>
vars == <<callVars, pipeVars, reader, exit, serverVars>>

Parts == {<<part, l>> : part \in {"head", "tail"}, l \in Lines}

TypeOK ==
  /\ caller \in [Calls -> {"idle", "writing", "waiting", "grace", "answered", "failed", "dropped"}]
  /\ reply \in [Calls -> {"none", "answer", "closed"}]
  /\ pending \in SUBSET Calls /\ slots \in {"open", "closed"}
  /\ slots = "closed" => pending = {}   \* Slots::Closed has no map
  /\ client \in {"ready", "failed"}
  /\ line \in [Lines -> {"none", "behind", "queued", "half", "written", "lost"}]
  /\ holder \in Lines \cup {Nobody} /\ stdin \in {"open", "closed"}
  /\ pipe \in Seq(Parts) /\ Len(pipe) <= Room
  /\ reader \in {"reading", "refusing", "over"}
  /\ exit \in {"no", "stopping", "reaping", "over"}
  /\ server \in {"up", "mute", "dead"}
  /\ heard \in Lines \cup {Nobody}
  /\ work \in [Calls -> {"none", "running", "finished", "over"}]
  /\ asked \in BOOLEAN
  /\ out \in Seq(Lines) /\ Len(out) <= OutRoom

Init ==
  /\ caller = [c \in Calls |-> "idle"] /\ reply = [c \in Calls |-> "none"]
  /\ pending = {} /\ slots = "open" /\ client = "ready"
  /\ line = [l \in Lines |-> "none"]
  /\ holder = Nobody /\ stdin = "open" /\ pipe = <<>>
  /\ reader = "reading" /\ exit = "no"
  /\ server = "up" /\ heard = Nobody
  /\ work = [c \in Calls |-> "none"] /\ asked = FALSE /\ out = <<>>

-----------------------------------------------------------------------------
(***************************************************************************)
(* Plausible mistakes in definitions below, each named for one of them;    *)
(* Spec uses none.                                                         *)
(***************************************************************************)

\* The cancellation does not wait for the request's own write.
EagerPlace(c) == "queued"

\* A write belongs to the future and ends with it, half a line written.
TornWrite(c) == IF line[Request(c)] \in {"queued", "half"} THEN "lost" ELSE line[Request(c)]

\* A reply is taken by whoever waits.
AnyoneAnswered(c) == IF pending = {} THEN {} ELSE {CHOOSE d \in pending : TRUE}

-----------------------------------------------------------------------------
(***************************************************************************)
(* A request.                                                              *)
(***************************************************************************)
Becomes(c, state) == caller' = [caller EXCEPT ![c] = state]

\* ready_transport, and register under the lock of the map.
Refused == client = "failed" \/ slots = "closed"

Begin(c) ==
  /\ caller[c] = "idle" /\ exit # "over"
  /\ IF Refused
     THEN Becomes(c, "failed") /\ client' = "failed" /\ UNCHANGED <<pending, line>>
     ELSE /\ Becomes(c, "writing")
          /\ pending' = pending \cup {c}
          /\ line' = [line EXCEPT ![Request(c)] = "queued"]
          /\ UNCHANGED client
  /\ UNCHANGED <<reply, slots, holder, stdin, pipe, reader, exit, serverVars>>

\* The detached write is over: wait for the reply, or, if it failed, for
\* the reader's explanation.
Written(c) ==
  /\ caller[c] = "writing" /\ line[Request(c)] \in {"written", "lost"}
  /\ Becomes(c, IF line[Request(c)] = "written" THEN "waiting" ELSE "grace")
  /\ UNCHANGED <<reply, pending, slots, client, pipeVars, reader, exit, serverVars>>

\* classify: a dead transport is recorded as the client's state.
TakeReply(c) ==
  /\ caller[c] \in {"waiting", "grace"} /\ reply[c] # "none"
  /\ IF reply[c] = "answer"
     THEN Becomes(c, "answered") /\ UNCHANGED client
     ELSE Becomes(c, "failed") /\ client' = "failed"
  /\ UNCHANGED <<reply, pending, slots, pipeVars, reader, exit, serverVars>>

\* The call's timeout, or WRITE_FAILURE_GRACE, has passed.
Timeout(c) ==
  /\ caller[c] \in {"waiting", "grace"} /\ reply[c] = "none"
  /\ Becomes(c, "failed")
  /\ pending' = pending \ {c}
  /\ client' = IF caller[c] = "grace" THEN "failed" ELSE client
  /\ UNCHANGED <<reply, slots, pipeVars, reader, exit, serverVars>>

\* InFlight::drop.  The write goes on without its future.
AbandonedWrite(c) == line[Request(c)]
Place(c) == "behind"

Drop(c) ==
  /\ caller[c] \in {"writing", "waiting", "grace"}
  /\ Becomes(c, "dropped")
  /\ IF caller[c] = "grace"   \* disarmed
     THEN UNCHANGED <<pending, pipeVars>>
     ELSE /\ pending' = pending \ {c}
          /\ line' = [line EXCEPT ![Cancelled(c)] = Place(c), ![Request(c)] = AbandonedWrite(c)]
          /\ holder' = IF line'[Request(c)] = "lost" /\ holder = Request(c) THEN Nobody ELSE holder
          /\ UNCHANGED <<stdin, pipe>>
  /\ UNCHANGED <<reply, slots, client, reader, exit, serverVars>>

\* The task of the cancellation has awaited the write.
Overtaken(c) ==
  /\ line[Cancelled(c)] = "behind" /\ line[Request(c)] \in {"written", "lost"}
  /\ line' = [line EXCEPT ![Cancelled(c)] = "queued"]
  /\ UNCHANGED <<callVars, holder, stdin, pipe, reader, exit, serverVars>>

-----------------------------------------------------------------------------
(***************************************************************************)
(* write_line: one lock for the payload and its newline.                   *)
(***************************************************************************)
Put(part, l, state) ==
  /\ Len(pipe) < Room /\ server # "dead"
  /\ pipe' = Append(pipe, <<part, l>>)
  /\ line' = [line EXCEPT ![l] = state]
  /\ UNCHANGED <<callVars, stdin, reader, exit, serverVars>>

PutHead(l) ==
  /\ line[l] = "queued" /\ holder = Nobody /\ stdin = "open" /\ Put("head", l, "half")
  /\ holder' = l

PutTail(l) ==
  /\ line[l] = "half" /\ Put("tail", l, "written")
  /\ holder' = Nobody

\* stdin was closed, or the server is dead.
Broken(l) ==
  /\ \/ line[l] = "queued" /\ holder = Nobody /\ (stdin = "closed" \/ server = "dead")
     \/ line[l] = "half" /\ server = "dead"
  /\ line' = [line EXCEPT ![l] = "lost"]
  /\ holder' = Nobody
  /\ UNCHANGED <<callVars, stdin, pipe, reader, exit, serverVars>>

WriteStep(l) == PutHead(l) \/ PutTail(l) \/ Broken(l)

-----------------------------------------------------------------------------
(***************************************************************************)
(* read_stdout, and Shared::close.                                         *)
(***************************************************************************)

\* close: every pending request is failed, and none comes after it.
Close ==
  /\ slots' = "closed"
  /\ pending' = {}
  /\ reply' = [c \in Calls |-> IF c \in pending THEN "closed" ELSE reply[c]]
  /\ UNCHANGED <<caller, client>>

\* Those a reply with this id is delivered to.
Answered(c) == {c} \cap pending

ReadReply ==
  /\ reader = "reading" /\ out # <<>> /\ Head(out) # Refusal
  /\ LET to == Answered(Head(out)[2]) IN
       /\ reply' = [c \in Calls |-> IF c \in to THEN "answer" ELSE reply[c]]
       /\ pending' = pending \ to
  /\ out' = Tail(out)
  /\ UNCHANGED <<caller, slots, client, pipeVars, reader, exit, server, heard, work, asked>>

\* answer_unsupported: nothing is read until the refusal is written.
ReadRequest ==
  /\ reader = "reading" /\ out # <<>> /\ Head(out) = Refusal
  /\ reader' = "refusing"
  /\ line' = [line EXCEPT ![Refusal] = "queued"]
  /\ out' = Tail(out)
  /\ UNCHANGED <<callVars, holder, stdin, pipe, exit, server, heard, work, asked>>

RefusalWritten ==
  /\ reader = "refusing" /\ line[Refusal] \in {"written", "lost"}
  /\ reader' = "reading"
  /\ line' = [line EXCEPT ![Refusal] = "none"]
  /\ UNCHANGED <<callVars, holder, stdin, pipe, exit, serverVars>>

EndOfFile ==
  /\ reader = "reading" /\ out = <<>> /\ server # "up"
  /\ reader' = "over"
  /\ IF slots = "open" THEN Close ELSE UNCHANGED callVars
  /\ UNCHANGED <<pipeVars, exit, serverVars>>

ReaderStep == ReadReply \/ ReadRequest \/ RefusalWritten \/ EndOfFile

-----------------------------------------------------------------------------
(***************************************************************************)
(* shutdown, under the manager's SHUTDOWN_BUDGET.                          *)
(***************************************************************************)
Shutdown ==
  /\ exit = "no" /\ exit' = "stopping"
  /\ UNCHANGED <<callVars, pipeVars, reader, serverVars>>

\* stdin is taken under its lock, so behind every write that has it.
CloseStdin ==
  /\ exit = "stopping" /\ holder = Nobody
  /\ stdin' = "closed" /\ exit' = "reaping"
  /\ UNCHANGED <<callVars, line, holder, pipe, reader, serverVars>>

\* What becomes of the server's work and its pipe when it is gone.
Gone ==
  /\ server' = "dead"
  /\ pipe' = <<>>
  /\ work' = [c \in Calls |-> IF work[c] = "running" THEN "over" ELSE work[c]]
  /\ UNCHANGED <<heard, asked, out>>

\* It left when its stdin was closed, or was killed with its group.
Reap ==
  /\ exit = "reaping" /\ exit' = "over"
  /\ Gone
  /\ IF slots = "open" THEN Close ELSE UNCHANGED callVars
  /\ UNCHANGED <<line, holder, stdin, reader>>

\* The budget runs out while a write has the lock: the process leaves, and
\* with it the server (kill_now, or the kernel).
GiveUp ==
  /\ exit = "stopping" /\ exit' = "over"
  /\ Gone
  /\ UNCHANGED <<callVars, line, holder, stdin, reader>>

ShutdownStep == CloseStdin \/ Reap \/ GiveUp

-----------------------------------------------------------------------------
(***************************************************************************)
(* The server.                                                             *)
(***************************************************************************)

Whole(l) == Head(pipe) = <<"tail", l>> /\ heard = l

\* A part is read; a whole line is acted upon.  A cancellation of a call it
\* has not seen is ignored.
ServerReads ==
  /\ server # "dead" /\ pipe # <<>>
  /\ pipe' = Tail(pipe)
  /\ heard' = IF Head(pipe)[1] = "head" THEN Head(pipe)[2] ELSE Nobody
  /\ work' = [c \in Calls |->
       IF Whole(Request(c)) THEN "running"
       ELSE IF Whole(Cancelled(c)) /\ work[c] = "running" THEN "over" ELSE work[c]]
  /\ UNCHANGED <<callVars, line, holder, stdin, reader, exit, server, asked, out>>

ServerAnswers(c) ==
  /\ server = "up" /\ work[c] = "running" /\ Len(out) < OutRoom
  /\ work' = [work EXCEPT ![c] = "finished"]
  /\ out' = Append(out, Request(c))
  /\ UNCHANGED <<callVars, pipeVars, reader, exit, server, heard, asked>>

ServerAsks ==
  /\ server = "up" /\ ~asked /\ Len(out) < OutRoom
  /\ asked' = TRUE
  /\ out' = Append(out, Refusal)
  /\ UNCHANGED <<callVars, pipeVars, reader, exit, server, heard, work>>

ServerCloses ==
  /\ server = "up" /\ server' = "mute"
  /\ UNCHANGED <<callVars, pipeVars, reader, exit, heard, work, asked, out>>

ServerDies ==
  /\ server # "dead" /\ Gone
  /\ UNCHANGED <<callVars, line, holder, stdin, reader, exit>>

-----------------------------------------------------------------------------
CallStep(c) == Written(c) \/ TakeReply(c) \/ Timeout(c) \/ Overtaken(c)

Next ==
  \/ \E c \in Calls : Begin(c) \/ Drop(c) \/ CallStep(c) \/ ServerAnswers(c)
  \/ \E l \in Lines : WriteStep(l)
  \/ ReaderStep \/ Shutdown \/ ShutdownStep
  \/ ServerReads \/ ServerAsks \/ ServerCloses \/ ServerDies

Spec == Init /\ [][Next]_vars

\* As long as some task can run, a timer is due or a pipe has room, one such
\* step is taken.  There are finitely many of them, so none waits for ever.
OwnStep ==
  \/ \E c \in Calls : CallStep(c)
  \/ \E l \in Lines : WriteStep(l)
  \/ ReaderStep \/ ShutdownStep

Fairness == WF_vars(OwnStep)

FairSpec == Spec /\ Fairness

\* A server that keeps reading its stdin for as long as it lives.
ReadingSpec == FairSpec /\ WF_vars(ServerReads)

-----------------------------------------------------------------------------
(***************************************************************************)
(* Properties.                                                             *)
(***************************************************************************)

\* A line that was begun goes on before any other: no half of a line is
\* followed by another message, whoever dropped what in between.
Stream == IF heard = Nobody THEN pipe ELSE <<<<"head", heard>>>> \o pipe
LinesIntact ==
  \A i \in 1 .. Len(Stream) :
    Stream[i][1] = "head" =>
      \/ i = Len(Stream) /\ (holder = Stream[i][2] \/ server = "dead")
      \/ i < Len(Stream) /\ Stream[i + 1] = <<"tail", Stream[i][2]>>

\* Whoever waits for a reply is in the open map or has it in its channel: nobody
\* waits on a channel that no one will ever send to.
WaiterIsKnown ==
  \A c \in Calls : caller[c] \in {"writing", "waiting"} =>
    reply[c] # "none" \/ (c \in pending /\ slots = "open")

\* The wire and the map of waiters hold together.
WireSound == TypeOK /\ LinesIntact /\ WaiterIsKnown

\* A call whose caller is gone does not go on at the server for nobody: its
\* cancellation follows the request, and so is honoured.
NothingRunsForNobody ==
  LET Orphaned == \E c \in Calls : caller[c] = "dropped" /\ work[c] = "running"
  IN  Orphaned ~> ~Orphaned

\* The transport keeps what McpCall promises about calls.
Told(c) ==
  CASE caller[c] = "idle" -> "unasked"
    [] caller[c] \in {"writing", "waiting", "grace"} -> "open"
    [] caller[c] = "answered" -> "answer"
    [] caller[c] \in {"failed", "dropped"} -> "failure"

Promise == INSTANCE McpCall WITH
  told <- [c \in Calls |-> Told(c)],
  runs <- [c \in Calls |-> IF work[c] = "none" THEN 0 ELSE 1]

CallsKeepPromise == Promise!Spec
=============================================================================
