------------------------------ MODULE BriefFile ------------------------------
(***************************************************************************)
(* The two files an agent is worked through, brief.md and report.md, and   *)
(* who reads and writes them while its runs come and go:                   *)
(*   send_message (tool/agent_ctl.rs) numbers and appends amendments, and  *)
(*     continues an agent that has ended;                                  *)
(*   the parent's task of each run (tool/agent.rs: run_body, StateGuard,   *)
(*     spawn_tracked, spawn_continue_background) records the state in the  *)
(*     brief (archive.rs) and ensures, merges and reads the report;        *)
(*   finish_worktree_and_record, on a blocking thread, once the git part   *)
(*     of it is over (that part is Worktrees');                            *)
(*   the child (mode/print.rs) reads the brief for its task and for each   *)
(*     self-check, hears of amendments from a watcher (mode/brief_watch.rs)*)
(*     while a turn is on, and writes its report last of all.              *)
(*                                                                         *)
(* One agent, dispatched with a worktree or without; its runs are numbered *)
(* from 1, and only the first has the worktree (prepare_continue).  The    *)
(* brief is its state field and its amendments; to the watcher, which      *)
(* takes nothing else from the file, its size is the amendments alone.     *)
(* index.md, which no code reads, is left out; that a task may be          *)
(* cancelled before its first poll is AgentRegistry's.                     *)
(***************************************************************************)
EXTENDS Naturals, Sequences, FiniteSets

CONSTANTS
  MaxMessages,  \* bound: calls of send_message, without a worktree and with one
  MaxRuns,      \* bound: runs of the agent
  SelfChecks    \* SELF_CHECK_TURNS

ASSUME BriefAssumption ==
  MaxMessages \in [BOOLEAN -> Nat] /\ MaxRuns \in Nat \ {0} /\ SelfChecks \in Nat

Messages == UNION {1 .. MaxMessages[b] : b \in BOOLEAN}
Runs == 1 .. MaxRuns
Finishers == {"body", "drop"}    \* run_body's, and StateGuard's
Terminal == {"ended", "stopped"}
Amendment == [n : Nat, text : Messages]

VARIABLES
  isolated,  \* BOOLEAN             the first run has a worktree
  \* --- the files
  brief,     \* [state, amends], or Torn
  lock,      \* brief_write_lock: the run whose state write holds it, or 0
  report,    \* SUBSET Parts        what report.md holds
  \* --- the parent
  state,     \* AgentEntry::state
  pc,        \* [Runs -> ...]       where the task of a run is
  end,       \* [Runs -> ...]       what it came to
  held,      \* the brief as the holder of the lock has read it
  prev,      \* [Runs -> SUBSET Parts]  prev_report, then what the merge will write
  finish,    \* [Finishers -> ...]
  copy,      \* [Finishers -> ...] the brief as it has read it
  orphan,    \* SUBSET Finishers    whose open brief.md was renamed over
  sender,    \* the locals of send_message; `text` counts its calls
  \* --- the child of the latest run
  child,     \* where it is
  turn,      \* turns it has begun
  last,      \* the watcher's `last`
  seen,      \* the watcher's prev_size, processed_size, and whether it reads
  channel,   \* Seq(Amendment)      the steer channel
  known,     \* SUBSET Messages     what the session was shown
  \* --- history
  appended,  \* SUBSET Messages     whose append succeeded
  exposed,   \* SUBSET Messages     appended while a finisher held a copy
  written,   \* parts once written to report.md
  early,     \* BOOLEAN  a run was continued before all of its files were settled
  clash      \* BOOLEAN  a state write, an amendment or the watcher met a finisher's rewrite

fileVars == <<isolated, brief, lock, report>>
taskVars == <<state, pc, end, held, prev>>
finishVars == <<finish, copy, orphan>>
childVars == <<child, turn, last, seen, channel, known>>
historyVars == <<appended, exposed, written, early, clash>>
vars == <<fileVars, taskVars, finishVars, sender, childVars, historyVars>>

\* brief.md between fs::write's truncation and its write: nothing to parse.
Torn == [state |-> "torn", amends |-> <<>>]
Unseen == [prev |-> {}, processed |-> {}, reading |-> FALSE]
Texts(amends) == {amends[i].text : i \in DOMAIN amends}
Part(by, r) == [by |-> by, run |-> r]
Parts == {Part(by, r) : by \in {"child", "parent", "worktree"}, r \in Runs}
Highest(amends) ==
  CHOOSE n \in {amends[i].n : i \in DOMAIN amends} \cup {0} :
    \A i \in DOMAIN amends : amends[i].n <= n

TypeOK ==
  /\ isolated \in BOOLEAN
  /\ brief.state \in Terminal \cup {"queued", "running", "torn"}
  /\ brief.amends \in Seq(Amendment)
  /\ lock \in Runs \cup {0}
  /\ report \in SUBSET Parts /\ prev \in [Runs -> SUBSET Parts]
  /\ state \in Terminal \cup {"queued", "running"}
  /\ pc \in [Runs -> {"none", "queued", "starting", "running", "finishing",
                      "ending", "merging", "writing", "telling", "over"}]
  /\ end \in [Runs -> Terminal \cup {"none"}]
  /\ finish \in [Finishers -> {"none", "begun", "recorded", "read", "cut", "done"}]
  /\ orphan \in SUBSET Finishers
  /\ sender.at \in {"idle", "numbered", "continuing"}
  /\ child \in {"none", "fresh", "turn", "between", "finished", "gone"}
  /\ turn \in 0 .. SelfChecks + 1
  /\ channel \in Seq(Amendment) /\ last \in Nat
  /\ {known, appended, exposed} \subseteq SUBSET Messages

Init ==
  /\ isolated \in BOOLEAN
  /\ brief = [state |-> "queued", amends |-> <<>>]
  /\ lock = 0 /\ report = {}
  /\ state = "queued"
  /\ pc = [r \in Runs |-> IF r = 1 THEN "queued" ELSE "none"]
  /\ end = [r \in Runs |-> "none"]
  /\ held = Torn /\ copy = [f \in Finishers |-> Torn]
  /\ prev = [r \in Runs |-> {}]
  /\ finish = [f \in Finishers |-> "none"] /\ orphan = {}
  /\ sender = [at |-> "idle", text |-> 0, live |-> TRUE, n |-> 0]
  /\ child = "none" /\ turn = 0 /\ last = 0 /\ seen = Unseen
  /\ channel = <<>> /\ known = {}
  /\ appended = {} /\ exposed = {} /\ written = {} /\ early = FALSE /\ clash = FALSE

-----------------------------------------------------------------------------
(***************************************************************************)
(* Plausible mistakes in definitions below, each named for one of them;    *)
(* Spec uses none.                                                         *)
(***************************************************************************)
\* An amendment is appended without the lock.
UnguardedUnlocked == TRUE

\* run_body does not wait for the worktree's finish.
HastyFinishedWith(r) == TRUE

\* The new report takes the place of the old.
ReplacedMerged(r) == report

\* The baseline is the next number, not the last.
NextBaseline == Highest(brief.amends) + 1

\* The watcher always takes the last section for torn.
WaryFresh == {i \in DOMAIN brief.amends : brief.amends[i].n > last /\ i < Len(brief.amends)}

-----------------------------------------------------------------------------
(***************************************************************************)
(* What several operations share.                                          *)
(***************************************************************************)
GoTo(r, place) == pc' = [pc EXCEPT ![r] = place]

\* A finisher that has read the brief and is yet to write it back.
Open(f) == finish[f] \in {"read", "cut"}
Rewriting == \E f \in Finishers : Open(f)

Noted == written' = written \cup report'

\* ensure_report: "Never overwrites an existing report."
Ensured(r) == IF report = {} THEN {Part("parent", r)} ELSE report

\* The child process is gone, and its watcher with it.
NoChild ==
  /\ child' = "none" /\ turn' = 0 /\ last' = 0 /\ seen' = Unseen /\ channel' = <<>>
  /\ UNCHANGED known

-----------------------------------------------------------------------------
(***************************************************************************)
(* send_message.                                                           *)
(***************************************************************************)

\* The registry's entry, and the number of the amendment, from the brief as
\* it is now.  (That the two are read one after the other adds nothing but
\* another way to meet a finisher's rewrite.)
NextNumber == Len(brief.amends) + 1

Look ==
  /\ sender.at = "idle" /\ sender.text < MaxMessages[isolated]
  /\ sender' = [at |-> "numbered", text |-> sender.text + 1,
                live |-> state \notin Terminal, n |-> NextNumber]
  /\ clash' = (clash \/ Rewriting)
  /\ UNCHANGED <<fileVars, taskVars, finishVars, childVars, appended, exposed, written, early>>

\* append_amendment, under the lock.  What is put into a truncated file is
\* overwritten with it.
Append1 == [n |-> sender.n, text |-> sender.text]
Unlocked == lock = 0

Amend ==
  /\ sender.at = "numbered" /\ Unlocked
  /\ brief' = IF brief = Torn THEN Torn ELSE [brief EXCEPT !.amends = Append(@, Append1)]
  /\ appended' = appended \cup {sender.text}
  /\ exposed' = IF Rewriting THEN exposed \cup {sender.text} ELSE exposed
  /\ clash' = (clash \/ Rewriting)
  /\ sender' = [sender EXCEPT !.at = IF sender.live THEN "idle" ELSE "continuing"]
  /\ UNCHANGED <<isolated, lock, report, taskVars, finishVars, childVars, written, early>>

\* AgentRegistry::reactivate (only send_message looks at the state), and
\* spawn_continue_background.
Continue(r) ==
  /\ sender.at = "continuing" /\ state \in Terminal
  /\ pc[r] = "none" /\ r > 1 /\ pc[r - 1] # "none"
  /\ state' = "queued"
  /\ prev' = [prev EXCEPT ![r] = report]
  /\ GoTo(r, "queued")
  /\ sender' = [sender EXCEPT !.at = "idle"]
  /\ early' = (early \/ (\E q \in 1 .. r - 1 : pc[q] # "over")
                     \/ (\E f \in Finishers : finish[f] \notin {"none", "done"}))
  /\ UNCHANGED <<fileVars, end, held, finishVars, childVars, appended, exposed, written, clash>>

-----------------------------------------------------------------------------
(***************************************************************************)
(* The task of a run.                                                      *)
(***************************************************************************)

\* acquire_run, and set_state(Running) in memory.
Acquire(r) ==
  /\ pc[r] = "queued"
  /\ state' = "running"
  /\ GoTo(r, "starting")
  /\ UNCHANGED <<fileVars, end, held, prev, finishVars, sender, childVars, historyVars>>

\* set_agent_state: read under the lock, ...
Records(r) == pc[r] \in {"starting", "ending"}

ReadState(r) ==
  /\ Records(r) /\ lock = 0
  /\ lock' = r
  /\ held' = brief
  /\ clash' = (clash \/ Rewriting)
  /\ UNCHANGED <<isolated, brief, report, state, pc, end, prev, finishVars, sender, childVars,
                 appended, exposed, written, early>>

\* ... and renamed into place, unless there was nothing to set the field in.
\* The child of a run that starts is started next.
NewState(r) == IF pc[r] = "starting" THEN "running" ELSE end[r]

WriteState(r) ==
  /\ lock = r
  /\ lock' = 0
  /\ held' = Torn
  /\ IF held = Torn
     THEN UNCHANGED <<brief, orphan>>
     ELSE /\ brief' = [held EXCEPT !.state = NewState(r)]
          /\ orphan' = orphan \cup {f \in Finishers : finish[f] = "cut"}
  /\ clash' = (clash \/ Rewriting)
  /\ GoTo(r, IF pc[r] = "starting" THEN "running" ELSE IF r = 1 THEN "telling" ELSE "merging")
  /\ child' = IF pc[r] = "starting" THEN "fresh" ELSE child
  /\ UNCHANGED <<isolated, report, state, end, prev, finish, copy, sender, turn, last, seen,
                 channel, known, appended, exposed, written, early>>

\* The child is gone: a report is ensured, and the worktree's finish awaited.
HasWorktree(r) == isolated /\ r = 1

Ended(r) ==
  /\ state' = "ended"
  /\ end' = [end EXCEPT ![r] = "ended"]
  /\ GoTo(r, "ending")

Collect(r) ==
  /\ pc[r] = "running" /\ child = "gone"
  /\ report' = Ensured(r) /\ Noted
  /\ IF HasWorktree(r)
     THEN /\ finish' = [finish EXCEPT !["body"] = "begun"]
          /\ GoTo(r, "finishing") /\ UNCHANGED <<state, end>>
     ELSE Ended(r) /\ UNCHANGED finish
  /\ NoChild
  /\ UNCHANGED <<isolated, brief, lock, held, prev, copy, orphan, sender, appended, exposed, early, clash>>

FinishedWith(r) == finish["body"] = "done"

Settle(r) ==
  /\ pc[r] = "finishing" /\ FinishedWith(r)
  /\ Ended(r)
  /\ UNCHANGED <<fileVars, held, prev, finishVars, sender, childVars, historyVars>>

\* The run is stopped where its task awaits: StateGuard::drop, with the
\* child killed before it.
Stop(r) ==
  /\ pc[r] \in {"queued", "running", "finishing"}
  /\ report' = Ensured(r) /\ Noted
  /\ finish' = IF HasWorktree(r) THEN [finish EXCEPT !["drop"] = "begun"] ELSE finish
  /\ state' = "stopped"
  /\ end' = [end EXCEPT ![r] = "stopped"]
  /\ GoTo(r, "ending")
  /\ NoChild
  /\ UNCHANGED <<isolated, brief, lock, held, prev, copy, orphan, sender, appended, exposed, early, clash>>

\* A continuation puts the report it found before the one there is now.
Merged(r) == prev[r] \cup report

ReadReport(r) ==
  /\ pc[r] = "merging"
  /\ prev' = [prev EXCEPT ![r] = Merged(r)]
  /\ GoTo(r, "writing")
  /\ UNCHANGED <<fileVars, state, end, held, finishVars, sender, childVars, historyVars>>

WriteReport(r) ==
  /\ pc[r] = "writing"
  /\ report' = prev[r]
  /\ prev' = [prev EXCEPT ![r] = {}]
  /\ GoTo(r, "telling")
  /\ UNCHANGED <<isolated, brief, lock, state, end, held, finishVars, sender, childVars, historyVars>>

\* The report is read and handed on: to the call, or to the outbox.
Tell(r) ==
  /\ pc[r] = "telling"
  /\ GoTo(r, "over")
  /\ UNCHANGED <<fileVars, state, end, held, prev, finishVars, sender, childVars, historyVars>>

-----------------------------------------------------------------------------
(***************************************************************************)
(* finish_worktree_and_record, after the git part.                         *)
(***************************************************************************)
FinishFrame == UNCHANGED <<isolated, lock, taskVars, sender, childVars, appended, exposed, early>>

\* The outcome, appended to the report.
RecordOutcome(f) ==
  /\ finish[f] = "begun"
  /\ report' = report \cup {Part("worktree", 1)} /\ Noted
  /\ finish' = [finish EXCEPT ![f] = "recorded"]
  /\ UNCHANGED <<brief, copy, orphan, clash>> /\ FinishFrame

\* The brief is read, without the lock; there is no field to set in nothing.
ReadBack(f) ==
  /\ finish[f] = "recorded"
  /\ copy' = [copy EXCEPT ![f] = brief]
  /\ finish' = [finish EXCEPT ![f] = IF brief = Torn THEN "done" ELSE "read"]
  /\ clash' = (clash \/ lock # 0)
  /\ UNCHANGED <<brief, report, orphan, written>> /\ FinishFrame

\* write_private: the file is truncated, and then written, ...
Truncate(f) ==
  /\ finish[f] = "read"
  /\ brief' = Torn
  /\ finish' = [finish EXCEPT ![f] = "cut"]
  /\ UNCHANGED <<report, copy, orphan, clash, written>> /\ FinishFrame

\* ... wherever its name has gone meanwhile.
WriteBack(f) ==
  /\ finish[f] = "cut"
  /\ brief' = IF f \in orphan THEN brief ELSE copy[f]
  /\ copy' = [copy EXCEPT ![f] = Torn]
  /\ orphan' = orphan \ {f}
  /\ finish' = [finish EXCEPT ![f] = "done"]
  /\ UNCHANGED <<report, clash, written>> /\ FinishFrame

-----------------------------------------------------------------------------
(***************************************************************************)
(* The child.                                                              *)
(***************************************************************************)
ChildFrame ==
  /\ clash' = (clash \/ (seen.reading /\ ~seen'.reading /\ brief = Torn))
  /\ UNCHANGED <<isolated, brief, lock, taskVars, finishVars, sender, appended, exposed, early>>

\* One read is the prompt of a turn and the baseline of its watcher.
Baseline == Highest(brief.amends)

BeginTurn ==
  /\ child \in {"fresh", "between"}
  /\ child' = "turn" /\ turn' = turn + 1
  /\ known' = known \cup Texts(brief.amends)
  /\ last' = Baseline
  /\ seen' = Unseen /\ channel' = <<>>
  /\ UNCHANGED <<report, written>> /\ ChildFrame

\* A poll of the watcher: a size seen twice, and not yet done with, is read.
Poll ==
  /\ child = "turn" /\ ~seen.reading
  /\ IF seen.prev # {brief.amends}
     THEN seen' = [seen EXCEPT !.prev = {brief.amends}]
     ELSE /\ seen.processed # seen.prev
          /\ seen' = [seen EXCEPT !.reading = TRUE]
  /\ UNCHANGED <<child, turn, last, channel, known, report, written>> /\ ChildFrame

\* By the time it is read the file may be longer than the size noted.  The
\* sections numbered above `last` are taken in the order of their numbers, of
\* two with one number the first.
Fresh ==
  {i \in DOMAIN brief.amends :
    brief.amends[i].n > last /\ \A j \in 1 .. i - 1 : brief.amends[j].n # brief.amends[i].n}

Numbered(n) == {brief.amends[i] : i \in {j \in Fresh : brief.amends[j].n = n}}

News ==
  LET upTo[n \in 0 .. Highest(brief.amends)] ==
        IF n = 0 THEN <<>>
        ELSE IF Numbered(n) = {} THEN upTo[n - 1]
        ELSE Append(upTo[n - 1], CHOOSE a \in Numbered(n) : TRUE)
  IN upTo[Highest(brief.amends)]

Forward ==
  /\ seen.reading
  /\ seen' = [seen EXCEPT !.reading = FALSE, !.processed = seen.prev]
  /\ channel' = channel \o News
  /\ last' = IF Fresh = {} THEN last ELSE Highest(brief.amends)
  /\ UNCHANGED <<child, turn, known, report, written>> /\ ChildFrame

\* An iteration of the agent's loop begins with what the channel holds.
Iterate ==
  /\ child = "turn" /\ channel # <<>>
  /\ known' = known \cup Texts(channel)
  /\ channel' = <<>>
  /\ UNCHANGED <<child, turn, last, seen, report, written>> /\ ChildFrame

\* The receiver goes with the turn.  A self-check follows unless the turn
\* failed, met a limit or left no item open, or it was the last allowed.
MayCheck == turn <= SelfChecks

EndTurn(next) ==
  /\ child = "turn"
  /\ next = "between" => MayCheck
  /\ child' = next
  /\ seen' = Unseen /\ channel' = <<>> /\ last' = 0
  /\ UNCHANGED <<turn, known, report, written>> /\ ChildFrame

\* write_report_durable replaces what is there.
LeaveReport(r) ==
  /\ pc[r] = "running" /\ child = "finished"
  /\ report' = {Part("child", r)} /\ Noted
  /\ child' = "gone"
  /\ UNCHANGED <<turn, last, seen, channel, known>> /\ ChildFrame

\* It crashes, or is killed at its timeout.
Die ==
  /\ child \in {"fresh", "turn", "between", "finished"}
  /\ child' = "gone"
  /\ seen' = Unseen /\ channel' = <<>>
  /\ UNCHANGED <<turn, last, known, report, written>> /\ ChildFrame

-----------------------------------------------------------------------------
SenderStep == Look \/ Amend \/ \E r \in Runs : Continue(r)
RunStep(r) ==
  \/ Acquire(r) \/ ReadState(r) \/ WriteState(r) \/ Collect(r) \/ Settle(r)
  \/ ReadReport(r) \/ WriteReport(r) \/ Tell(r)
FinishStep(f) == RecordOutcome(f) \/ ReadBack(f) \/ Truncate(f) \/ WriteBack(f)
WatchStep == Poll \/ Forward
ChildStep ==
  \/ BeginTurn \/ Iterate \/ Die
  \/ \E next \in {"between", "finished"} : EndTurn(next)
  \/ \E r \in Runs : LeaveReport(r)

Next ==
  \/ SenderStep \/ ChildStep \/ WatchStep
  \/ \E r \in Runs : RunStep(r) \/ Stop(r)
  \/ \E f \in Finishers : FinishStep(f)

Spec == Init /\ [][Next]_vars

\* The watcher polls, the loop iterates, and a rewrite that has begun ends;
\* nothing makes the child end its turn.
Fairness ==
  /\ WF_vars(WatchStep) /\ WF_vars(Iterate)
  /\ WF_vars(\E f \in Finishers : FinishStep(f))

FairSpec == Spec /\ Fairness

-----------------------------------------------------------------------------
(***************************************************************************)
(* Properties.                                                             *)
(***************************************************************************)
InBrief == Texts(brief.amends)

\* An amendment, once appended, stays in the brief, through every rewrite of
\* its front matter, unless it was appended while the end of a worktree was
\* about to write back the brief as it had read it.
AmendmentsStay == brief # Torn => appended \subseteq InBrief \cup exposed

\* While a turn is on, the watcher will come to every amendment that its
\* prompt did not hold: it is known, on its way, or above `last`; none falls
\* between the read for the prompt and the watcher's baseline (WR-05).
NoneMissed ==
  child = "turn" /\ ~clash /\ brief # Torn =>
    \A i \in DOMAIN brief.amends :
      \/ brief.amends[i].text \in known \cup Texts(channel)
      \/ brief.amends[i].n > last

\* All tasks are over, and so are the ends of the worktree.
AtRest ==
  /\ \A r \in Runs : pc[r] \in {"none", "over"}
  /\ \A f \in Finishers : finish[f] \in {"none", "done"}
  /\ sender.at # "continuing"

\* At rest report.md holds every part it was ever given, of every run, and
\* the outcome of the worktree, if each continuation began when the files of
\* the runs before it were settled.
ReportsKept == AtRest /\ ~early => written \subseteq report

\* At rest the brief shows the state the registry has, unless a state write
\* met a finisher's rewrite or that of an earlier run.
BriefShowsState == AtRest /\ ~early /\ ~clash => brief.state = state

\* The result of a run that was not stopped tells what became of its
\* worktree.
OutcomeTold ==
  ~early /\ isolated /\ pc[1] = "telling" /\ end[1] = "ended" => Part("worktree", 1) \in report

\* What the files say of a run that is over is so.
RunsTold == TypeOK /\ BriefShowsState /\ OutcomeTold

\* While a turn goes on the model comes to know every amendment of the brief.
AmendmentHeard ==
  child = "turn" ~>
    (brief # Torn /\ InBrief \subseteq known) \/ child # "turn" \/ clash
=============================================================================
