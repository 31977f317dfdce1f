----------------------------- MODULE McpSession -----------------------------
(***************************************************************************)
(* An MCP server over HTTP (mcp/http.rs) and the recovery of its session   *)
(* by the client (mcp/client.rs).  Each request carries the session id of  *)
(* the moment it is sent; a server that has lost the session answers 404   *)
(* and has not run the request.  Whoever learns of it first repeats the    *)
(* handshake under an async lock, and everyone sends its own request once  *)
(* more.  A future may be dropped, time out or be cancelled by shutdown at *)
(* any point.                                                              *)
(*                                                                         *)
(* The server is external: it keeps sessions until it restarts, and may    *)
(* fail to answer.  A request of the handshake whose future is gone is     *)
(* either handled before or not at all.                                    *)
(***************************************************************************)
EXTENDS Naturals, FiniteSets

CONSTANTS
  Requests,
  MaxLosses  \* bound on the times the server forgets its sessions

ASSUME SessionAssumption == MaxLosses \in Nat

VARIABLES
  request,   \* [Calls -> ...]   the future of McpClient::request
  seen,     \* [Calls -> Nat]   the epoch it noted before it was sent
  wire,     \* [Calls -> ...]   its last request: sent, ran, refused or cut
  under,    \* [Calls -> Nat]   the session that request carries
  epoch,    \* SessionRecovery::epoch
  last,     \* how the last recovery went: "none", "ok" or "failed"
  hs,       \* where the handshake is, "none" outside one
  offer,    \* the session in the answer to initialize
  session,  \* Session::id of the transport
  good,     \* the sessions whose handshake was completed
  closed,   \* shutdown: "no", "closing", "deleted" or "given up"
  doomed,   \* the session in the headers of shutdown's DELETE
  live,     \* the sessions the server knows
  issued,   \* how many it has issued
  losses,
  runs      \* [Calls -> Nat]   times the server ran the call

requestVars == <<request, seen, wire, under>>
clientVars == <<epoch, last, hs, offer, session, good, closed, doomed>>
hostVars == <<live, issued, losses, runs>>
sessionVars == <<requestVars, clientVars, hostVars>>

SessionTypeOK ==
  /\ request \in [Requests -> {"idle", "begun", "sent", "expired", "leading", "renewed", "again",
                           "answered", "failed", "dropped"}]
  /\ seen \in [Requests -> 0 .. epoch] /\ under \in [Requests -> 0 .. issued]
  /\ wire \in [Requests -> {"none", "sent", "ran", "refused", "cut"}]
  /\ epoch \in Nat /\ last \in {"none", "ok", "failed"}
  /\ hs \in {"none", "asked", "granted", "arriving", "captured", "notified", "heard", "unheard"}
  /\ (hs # "none") = (\E c \in Requests : request[c] = "leading")
  /\ Cardinality({c \in Requests : request[c] = "leading"}) <= 1
  /\ session \in 1 .. issued /\ offer \in 0 .. issued
  /\ good \subseteq 1 .. issued /\ live \subseteq 1 .. issued
  /\ closed \in {"no", "closing", "deleted", "given up"} /\ doomed \in 0 .. issued
  /\ losses \in 0 .. MaxLosses /\ runs \in [Requests -> Nat]

\* After connect_with: the first handshake is done.
SessionInit ==
  /\ request = [c \in Requests |-> "idle"] /\ seen = [c \in Requests |-> 0]
  /\ wire = [c \in Requests |-> "none"] /\ under = [c \in Requests |-> 0]
  /\ epoch = 0 /\ last = "none" /\ hs = "none" /\ offer = 0
  /\ session = 1 /\ good = {1} /\ closed = "no" /\ doomed = 0
  /\ live = {1} /\ issued = 1 /\ losses = 0 /\ runs = [c \in Requests |-> 0]

-----------------------------------------------------------------------------
(***************************************************************************)
(* Plausible mistakes in definitions below, each named for one of them;    *)
(* Spec uses none.                                                         *)
(***************************************************************************)
\* Everyone who was refused does the handshake.
AlwaysStale(c) == TRUE

\* A request that was cut is sent again too.
RetryAnyway(c) ==
  IF request[c] = "sent" /\ wire[c] \in {"refused", "cut"} THEN "expired"
  ELSE IF wire[c] = "ran" THEN "answered" ELSE "failed"

-----------------------------------------------------------------------------
(***************************************************************************)
(* request: a call, and its one repetition.                                *)
(***************************************************************************)
Enters(c, state) == request' = [request EXCEPT ![c] = state]

\* ready_transport, and the epoch before anything is sent.
Prepare(c) ==
  /\ request[c] = "idle"
  /\ Enters(c, IF closed = "no" THEN "begun" ELSE "failed")
  /\ seen' = [seen EXCEPT ![c] = epoch]
  /\ UNCHANGED <<wire, under, clientVars, hostVars>>

\* headers_for reads the session of now; the first time, or once more.
Send(c) ==
  /\ request[c] \in {"begun", "renewed"} /\ closed = "no"
  /\ Enters(c, IF request[c] = "begun" THEN "sent" ELSE "again")
  /\ wire' = [wire EXCEPT ![c] = "sent"]
  /\ under' = [under EXCEPT ![c] = session]
  /\ UNCHANGED <<seen, clientVars, hostVars>>

\* What becomes of a call whose request has come back: only a 404 to the
\* first one is followed by a second.
Outcome(c) ==
  CASE wire[c] = "ran" -> "answered"
    [] wire[c] = "refused" /\ request[c] = "sent" -> "expired"
    [] OTHER -> "failed"

Learn(c) ==
  /\ request[c] \in {"sent", "again"} /\ wire[c] # "sent" /\ closed = "no"
  /\ Enters(c, Outcome(c))
  /\ UNCHANGED <<seen, wire, under, clientVars, hostVars>>

\* The call's timeout; or shutdown has cancelled it, or refuses it.
Fail(c) ==
  /\ \/ request[c] \in {"sent", "again"}
     \/ request[c] \in {"begun", "renewed"} /\ closed # "no"
  /\ Enters(c, "failed")
  /\ UNCHANGED <<seen, wire, under, clientVars, hostVars>>

-----------------------------------------------------------------------------
(***************************************************************************)
(* recover_session, under the lock of `last`.                              *)
(***************************************************************************)
LockFree == \A c \in Requests : request[c] # "leading"

\* Nobody has replaced the session since this call went out.
Stale(c) == epoch = seen[c]

Lead(c) ==
  /\ request[c] = "expired" /\ LockFree /\ Stale(c)
  /\ Enters(c, "leading")
  /\ hs' = "asked"
  /\ UNCHANGED <<seen, wire, under, epoch, last, offer, session, good, closed, doomed, hostVars>>

\* Somebody has: its outcome is shared.
Follow(c) ==
  /\ request[c] = "expired" /\ LockFree /\ ~Stale(c)
  /\ Enters(c, IF last = "failed" THEN "failed" ELSE "renewed")
  /\ UNCHANGED <<seen, wire, under, clientVars, hostVars>>

\* exchange: the answer is there.  The cancellation was looked at before
\* (bounded), and may come on another thread from here on.
Arrive ==
  /\ hs = "granted" /\ closed = "no"
  /\ hs' = "arriving"
  /\ UNCHANGED <<requestVars, epoch, last, offer, session, good, closed, doomed, hostVars>>

\* The id is taken from the headers, before the body is judged.
Capture ==
  /\ hs = "arriving"
  /\ hs' = "captured" /\ session' = offer
  /\ UNCHANGED <<requestVars, epoch, last, offer, good, closed, doomed, hostVars>>

\* The version is one of ours: say that we proceed.
Notify ==
  /\ hs = "captured" /\ closed = "no"
  /\ hs' = "notified"
  /\ UNCHANGED <<requestVars, epoch, last, offer, session, good, closed, doomed, hostVars>>

Finish(c, outcome, then) ==
  /\ request[c] = "leading"
  /\ hs' = "none" /\ last' = outcome /\ epoch' = epoch + 1
  /\ Enters(c, then)
  /\ UNCHANGED <<seen, wire, under, offer, session, closed, doomed, hostVars>>

Recovered(c) ==
  /\ hs = "heard" /\ closed = "no"
  /\ Finish(c, "ok", "renewed")
  /\ good' = good \cup {session}

\* A timeout, a refusal, another version, or shutdown.
NotRecovered(c) == hs # "arriving" /\ Finish(c, "failed", "failed") /\ UNCHANGED good

-----------------------------------------------------------------------------
\* The future is dropped wherever it waits; a lock it holds is released,
\* and nothing is recorded.
Abandon(c) ==
  /\ request[c] \in {"sent", "expired", "leading", "again"}
  /\ request[c] = "leading" => hs # "arriving"
  /\ Enters(c, "dropped")
  /\ hs' = IF request[c] = "leading" THEN "none" ELSE hs
  /\ UNCHANGED <<seen, wire, under, epoch, last, offer, session, good, closed, doomed, hostVars>>

\* begin_shutdown: closed and cancelled first, then one DELETE.
CloseSession ==
  /\ closed = "no" /\ closed' = "closing" /\ doomed' = session
  /\ UNCHANGED <<requestVars, epoch, last, hs, offer, session, good, hostVars>>

Delete ==
  /\ closed = "closing"
  /\ \/ closed' = "deleted" /\ live' = live \ {doomed}
     \/ closed' = "given up" /\ UNCHANGED live
  /\ UNCHANGED <<requestVars, epoch, last, hs, offer, session, good, doomed, issued, losses, runs>>

-----------------------------------------------------------------------------
(***************************************************************************)
(* The server.                                                             *)
(***************************************************************************)
Handle(c) ==
  /\ wire[c] = "sent"
  /\ IF under[c] \in live
     THEN wire' = [wire EXCEPT ![c] = "ran"] /\ runs' = [runs EXCEPT ![c] = @ + 1]
     ELSE wire' = [wire EXCEPT ![c] = "refused"] /\ UNCHANGED runs
  /\ UNCHANGED <<request, seen, under, clientVars, live, issued, losses>>

\* A 5xx, a broken stream, a connection that is refused.
Cut(c) ==
  /\ wire[c] \in {"sent", "ran"}
  /\ wire' = [wire EXCEPT ![c] = "cut"]
  /\ UNCHANGED <<request, seen, under, clientVars, hostVars>>

Initialize ==
  /\ hs = "asked"
  /\ issued' = issued + 1 /\ live' = live \cup {issued'} /\ offer' = issued'
  /\ hs' = "granted"
  /\ UNCHANGED <<requestVars, epoch, last, session, good, closed, doomed, losses, runs>>

HearInitialized ==
  /\ hs = "notified"
  /\ hs' = IF session \in live THEN "heard" ELSE "unheard"
  /\ UNCHANGED <<requestVars, epoch, last, offer, session, good, closed, doomed, hostVars>>

Forget ==
  /\ losses < MaxLosses /\ losses' = losses + 1
  /\ live' = {}
  /\ UNCHANGED <<requestVars, clientVars, issued, runs>>

-----------------------------------------------------------------------------
RequestStep(c) ==
  Send(c) \/ Learn(c) \/ Fail(c) \/ Lead(c) \/ Follow(c) \/ Recovered(c) \/ NotRecovered(c)

SessionNext ==
  \/ \E c \in Requests : Prepare(c) \/ RequestStep(c) \/ Abandon(c) \/ Handle(c) \/ Cut(c)
  \/ Arrive \/ Capture \/ Notify \/ CloseSession \/ Delete
  \/ Initialize \/ HearInitialized \/ Forget

SessionSpec == SessionInit /\ [][SessionNext]_sessionVars

\* Timers fire, a poll that has begun goes on, and the lock is fair: it is
\* tokio's, which serves those who wait in their order.
FairSessionSpec ==
  /\ SessionSpec /\ WF_sessionVars(Capture)
  /\ \A c \in Requests : WF_sessionVars(RequestStep(c)) /\ SF_sessionVars(Lead(c) \/ Follow(c))

-----------------------------------------------------------------------------
(***************************************************************************)
(* Properties.                                                             *)
(***************************************************************************)

\* Many requests refused for one lost session lead to one handshake: a
\* session that was set up completely is not replaced for as long as the
\* server honours it, and when shutdown's DELETE has arrived none is left,
\* whatever handshake was under way.
OneGoodSession ==
  /\ good \cap live \subseteq {session}
  /\ closed = "deleted" => good \cap live = {}

\* The sessions of the server and the client's idea of them hold together.
SessionsSound == SessionTypeOK /\ OneGoodSession

\* The transport keeps what McpCall promises: in particular no call runs
\* twice, whatever is repeated.
RequestTold(c) ==
  CASE request[c] = "idle" -> "unasked"
    [] request[c] = "answered" -> "answer"
    [] request[c] \in {"failed", "dropped"} -> "failure"
    [] OTHER -> "open"

HttpPromise == INSTANCE McpCall WITH Calls <- Requests, told <- [c \in Requests |-> RequestTold(c)]

RequestsKeepPromise == HttpPromise!Spec
=============================================================================
