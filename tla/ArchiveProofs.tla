---------------------------- MODULE ArchiveProofs ----------------------------
(***************************************************************************)
(* What an agent's work leaves on disk, whatever the number of messages,   *)
(* runs, agents and edits.                                                 *)
(*                                                                         *)
(* BriefFile: amendments stay in the brief and no turn misses one, reports *)
(* accumulate, and what the files say of a run that is over is so.         *)
(*                                                                         *)
(* Worktrees: nothing an agent did on its branch is lost, what a finish    *)
(* says happened did, and no merge is left half done but by a death.       *)
(***************************************************************************)
EXTENDS BriefFile, Worktrees, SequenceTheorems, NaturalsInduction, WellFoundedInduction, TLAPS

-----------------------------------------------------------------------------
(***************************************************************************)
(* BriefFile: the inductive invariant.                                     *)
(***************************************************************************)
Whole == [state : Terminal \cup {"queued", "running"}, amends : Seq(Amendment)]
Places == {"none", "queued", "starting", "running", "finishing", "ending", "merging", "writing",
           "telling", "over"}
SeenTypes ==
  [prev : SUBSET Seq(Amendment), processed : SUBSET Seq(Amendment), reading : BOOLEAN]

\* TypeOK with the types it leaves out: the brief and the copies of it are
\* whole or torn, the sender's number is a message's.
FileTypes ==
  /\ isolated \in BOOLEAN /\ brief \in Whole \cup {Torn} /\ lock \in Runs \cup {0}
  /\ report \in SUBSET Parts /\ written \in SUBSET Parts

TaskTypes ==
  /\ state \in Terminal \cup {"queued", "running"}
  /\ pc \in [Runs -> Places] /\ end \in [Runs -> Terminal \cup {"none"}]
  /\ held \in Whole \cup {Torn} /\ prev \in [Runs -> SUBSET Parts]
  /\ \A r \in Runs : pc[r] = "ending" => end[r] \in Terminal

FinishTypes ==
  /\ finish \in [Finishers -> {"none", "begun", "recorded", "read", "cut", "done"}]
  /\ copy \in [Finishers -> Whole \cup {Torn}] /\ orphan \in SUBSET Finishers

SenderTypes ==
  /\ sender \in [at : {"idle", "numbered", "continuing"}, text : Nat, live : BOOLEAN, n : Nat]
  /\ sender.at = "numbered" => sender.text \in Messages
  /\ appended \in SUBSET Messages /\ exposed \in SUBSET Messages

ChildTypes ==
  /\ child \in {"none", "fresh", "turn", "between", "finished", "gone"}
  /\ turn \in 0 .. SelfChecks + 1 /\ last \in Nat
  /\ seen \in SeenTypes
  /\ channel \in Seq(Amendment) /\ known \in SUBSET Messages

Typed ==
  /\ FileTypes /\ TaskTypes /\ FinishTypes /\ SenderTypes /\ ChildTypes
  /\ early \in BOOLEAN /\ clash \in BOOLEAN

\* One run at most is active, one is exactly when the agent is; the lock is
\* held to record a state, and only a running run has a child.
Active(r) == pc[r] \in {"queued", "starting", "running", "finishing"}

RunsInv ==
  /\ \A q, r \in Runs : Active(q) /\ Active(r) => q = r
  /\ state \in Terminal <=> \A r \in Runs : ~Active(r)
  /\ lock # 0 => pc[lock] \in {"starting", "ending"}
  /\ child # "none" => \E r \in Runs : pc[r] = "running"
  /\ child \in {"none", "fresh"} => turn = 0
  /\ child = "between" => turn <= SelfChecks

\* Which finishes the first run can have begun, by where it is.
BegunInv ==
  /\ finish["body"] # "none" => pc[1] \notin {"none", "queued", "starting", "running"}
  /\ finish["drop"] # "none" => pc[1] \notin {"none", "queued", "starting", "running", "finishing"}

\* The brief is torn only while a finisher that cut it is to write it back.
RewriteInv ==
  /\ orphan \subseteq {f \in Finishers : finish[f] = "cut"}
  /\ brief = Torn => \E f \in Finishers : finish[f] = "cut" /\ f \notin orphan
  /\ \A f \in Finishers : Open(f) => copy[f] # Torn

\* What was appended is in the brief and in every copy of it that may yet be
\* written back, or is exposed.
StayInv ==
  /\ brief # Torn => appended \subseteq Texts(brief.amends) \cup exposed
  /\ lock # 0 /\ held # Torn => appended \subseteq Texts(held.amends) \cup exposed
  /\ \A f \in Finishers : Open(f) => appended \subseteq Texts(copy[f].amends) \cup exposed

\* Writers that have not met have all read the same brief.
AgreeInv ==
  ~clash =>
    /\ orphan = {}
    /\ Rewriting => lock = 0
    /\ lock # 0 => held = brief
    /\ \A f \in Finishers : Open(f) /\ brief # Torn => copy[f] = brief
    /\ \A f, g \in Finishers : Open(f) /\ Open(g) => copy[f] = copy[g]

\* Amendments are numbered from 1, `last` is the number of one of them, and
\* each is known, in the channel, or above it.
Holds(amends) ==
  /\ \A i \in DOMAIN amends : amends[i].n = i
  /\ sender.at = "numbered" => sender.n = Len(amends) + 1
  /\ child = "turn" =>
       /\ last <= Len(amends)
       /\ \A i \in DOMAIN amends :
            amends[i].text \in known \cup Texts(channel) \/ amends[i].n > last

HeldInv ==
  ~clash =>
    /\ brief # Torn => Holds(brief.amends)
    /\ \A f \in Finishers : Open(f) => Holds(copy[f].amends)

\* Runs begin in the order of their numbers; a continuation that is not early
\* begins when those before it are over, ...
OrderInv ==
  /\ pc[1] \notin {"none", "merging", "writing"}
  /\ \A q, r \in Runs : q < r /\ pc[r] # "none" => pc[q] # "none"
  /\ ~early => \A q, r \in Runs : q < r /\ pc[r] # "none" => pc[q] = "over"

\* ... and the finishers through.
SettledInv ==
  ~early =>
    \A r \in Runs : r # 1 /\ pc[r] # "none" =>
      \A f \in Finishers : finish[f] \in {"none", "done"}

\* A run that ends has what the registry says; the first had nothing before
\* it, and did not end before its worktree's finish.
EndInv ==
  /\ prev[1] = {}
  /\ isolated /\ pc[1] \in {"ending", "telling"} /\ end[1] = "ended" => finish["body"] = "done"
  /\ ~early => \A r \in Runs : pc[r] = "ending" => end[r] = state

\* Where everything once written to the report is: until the run leaves its
\* own report, in what it read before; until it has merged them, in the two;
\* then in what it is about to write; and in the end in the report.
Before(r) == pc[r] \in {"queued", "starting"} \/ (pc[r] = "running" /\ child # "gone")

KeptInv ==
  ~early =>
    /\ \A r \in Runs : Before(r) \/ pc[r] = "writing" => written \subseteq prev[r]
    /\ \A r \in Runs : pc[r] \in {"running", "finishing", "ending", "merging"} =>
                         written \subseteq prev[r] \cup report
    /\ (\A r \in Runs : pc[r] \in {"none", "telling", "over"}) => written \subseteq report

\* Once the state is recorded it is in the brief, and in what is put back.
Unsettled(r) == Active(r) \/ pc[r] = "ending"

ShownInv ==
  ~early /\ ~clash /\ (\A r \in Runs : ~Unsettled(r)) =>
    /\ brief # Torn => brief.state = state
    /\ \A f \in Finishers : Open(f) => copy[f].state = state

\* The outcome of a worktree, once recorded, stays in its run's report.
ToldInv ==
  ~early /\ finish["body"] \notin {"none", "begun"} /\ pc[1] \notin {"none", "over"} =>
    Part("worktree", 1) \in report

BriefIInv ==
  /\ Typed /\ RunsInv /\ BegunInv /\ RewriteInv /\ StayInv /\ AgreeInv /\ HeldInv
  /\ OrderInv /\ SettledInv /\ EndInv /\ KeptInv /\ ShownInv /\ ToldInv

-----------------------------------------------------------------------------
(***************************************************************************)
(* Sequences of amendments.                                                *)
(***************************************************************************)
\* Induction, for the sets that the provers can name.
LEMMA NatInduct ==
  ASSUME NEW S, 0 \in S, \A n \in Nat : n \in S => n + 1 \in S
  PROVE  Nat \subseteq S
<1> SUFFICES ASSUME Nat \ S # {} PROVE FALSE
  OBVIOUS
<1>1. PICK m \in Nat \ S : \A n \in Nat \ S : m <= n
  <2>1. IsWellFoundedOn(OpToRel(<, Nat), Nat)
    BY NatLessThanWellFounded
  <2>2. PICK m \in Nat \ S : \A n \in Nat \ S : <<n, m>> \notin OpToRel(<, Nat)
    BY <2>1, WFMin
  <2>3. \A n \in Nat \ S : ~(n < m)
    BY <2>2 DEF OpToRel
  <2> QED BY <2>3
<1>2. m - 1 \in Nat BY <1>1
<1> QED BY <1>1, <1>2

\* The number of an amendment is a Nat, and the largest of them exists.
LEMMA HighestIs ==
  ASSUME NEW amends \in Seq(Amendment)
  PROVE  /\ Highest(amends) \in Nat
         /\ \A i \in DOMAIN amends : amends[i].n <= Highest(amends)
         /\ Highest(amends) = 0 \/ \E i \in DOMAIN amends : Highest(amends) = amends[i].n
<1> DEFINE Tops(k) == {n \in {amends[i].n : i \in 1 .. k} \cup {0} :
                       \A i \in 1 .. k : amends[i].n <= n}
           S == {k \in Nat : k <= Len(amends) => Tops(k) # {}}
<1>1. DOMAIN amends = 1 .. Len(amends) /\ Len(amends) \in Nat
      /\ \A i \in 1 .. Len(amends) : amends[i].n \in Nat
  <2>1. \A i \in 1 .. Len(amends) : amends[i] \in Amendment OBVIOUS
  <2> QED BY <2>1 DEF Amendment
<1>a. \A k, n : n \in Tops(k) <=> /\ n = 0 \/ \E i \in 1 .. k : n = amends[i].n
                               /\ \A i \in 1 .. k : amends[i].n <= n
  OBVIOUS
<1> HIDE DEF Tops
<1>2. 0 \in S
  <2>1. 1 .. 0 = {} OBVIOUS
  <2>2. 0 \in Tops(0) BY <1>a, <2>1
  <2> QED BY <2>2
<1>3. ASSUME NEW k \in Nat, k \in S PROVE k + 1 \in S
  <2> SUFFICES ASSUME k + 1 <= Len(amends) PROVE Tops(k + 1) # {}
    OBVIOUS
  <2>1. PICK n \in Tops(k) : TRUE BY <1>1, <1>3
  <2>2. /\ n = 0 \/ \E i \in 1 .. k : n = amends[i].n
        /\ \A i \in 1 .. k : amends[i].n <= n
    BY <1>a, <2>1
  <2>3. amends[k + 1].n \in Nat /\ \A i \in 1 .. k : amends[i].n \in Nat BY <1>1
  <2>4. 1 .. k + 1 = (1 .. k) \cup {k + 1} OBVIOUS
  <2>5. CASE amends[k + 1].n <= n
    <3>1. n \in Tops(k + 1) BY <1>a, <2>2, <2>4, <2>5
    <3> QED BY <3>1
  <2>6. CASE n < amends[k + 1].n
    <3>1. \A i \in 1 .. k + 1 : amends[i].n <= amends[k + 1].n
      BY <2>2, <2>3, <2>4, <2>6
    <3>2. amends[k + 1].n \in Tops(k + 1) BY <1>a, <2>4, <3>1
    <3> QED BY <3>2
  <2>7. n \in Nat BY <2>2, <2>3
  <2> QED BY <2>3, <2>5, <2>6, <2>7
<1>4. Len(amends) \in S
  <2> HIDE DEF S
  <2> QED BY <1>1, <1>2, <1>3, NatInduct
<1>5. Tops(Len(amends)) # {} BY <1>1, <1>4
<1>6. \E n \in {amends[i].n : i \in DOMAIN amends} \cup {0} :
        \A i \in DOMAIN amends : amends[i].n <= n
  <2>1. PICK n \in Tops(Len(amends)) : TRUE BY <1>5
  <2>2. n \in {amends[i].n : i \in DOMAIN amends} \cup {0} BY <1>1, <1>a, <2>1
  <2>3. \A i \in DOMAIN amends : amends[i].n <= n BY <1>1, <1>a, <2>1
  <2> QED BY <2>2, <2>3
<1>7. /\ Highest(amends) \in {amends[i].n : i \in DOMAIN amends} \cup {0}
      /\ \A i \in DOMAIN amends : amends[i].n <= Highest(amends)
  BY <1>6 DEF Highest
<1> QED BY <1>1, <1>7

\* The texts of longer sequences.
LEMMA TextsOfAppend ==
  ASSUME NEW amends \in Seq(Amendment), NEW a \in Amendment
  PROVE  Texts(Append(amends, a)) = Texts(amends) \cup {a.text}
<1>1. DOMAIN Append(amends, a) = (DOMAIN amends) \cup {Len(amends) + 1}
  OBVIOUS
<1>2. \A i \in DOMAIN amends : Append(amends, a)[i] = amends[i]
  OBVIOUS
<1>3. Append(amends, a)[Len(amends) + 1] = a
  OBVIOUS
<1> QED BY <1>1, <1>2, <1>3 DEF Texts

LEMMA TextsOfConcat ==
  ASSUME NEW s \in Seq(Amendment), NEW t \in Seq(Amendment)
  PROVE  Texts(s \o t) = Texts(s) \cup Texts(t)
<1>1. DOMAIN (s \o t) = 1 .. Len(s) + Len(t) /\ DOMAIN s = 1 .. Len(s) /\ DOMAIN t = 1 .. Len(t)
      /\ Len(s) \in Nat /\ Len(t) \in Nat
  OBVIOUS
<1>2. \A i \in 1 .. Len(s) : (s \o t)[i] = s[i]
  OBVIOUS
<1>3. \A i \in 1 .. Len(t) : (s \o t)[Len(s) + i] = t[i]
  OBVIOUS
<1>4. ASSUME NEW i \in DOMAIN (s \o t) PROVE (s \o t)[i].text \in Texts(s) \cup Texts(t)
  <2>1. CASE i \in 1 .. Len(s) BY <1>1, <1>2, <2>1 DEF Texts
  <2>2. CASE i \notin 1 .. Len(s)
    <3>1. i - Len(s) \in 1 .. Len(t) /\ i = Len(s) + (i - Len(s)) BY <1>1, <2>2
    <3>2. (s \o t)[i] = t[i - Len(s)] BY <1>3, <3>1
    <3> QED BY <1>1, <3>1, <3>2 DEF Texts
  <2> QED BY <2>1, <2>2
<1>5. Texts(s) \subseteq Texts(s \o t)
  BY <1>1, <1>2 DEF Texts
<1>6. Texts(t) \subseteq Texts(s \o t)
  <2>1. \A i \in 1 .. Len(t) : Len(s) + i \in DOMAIN (s \o t) BY <1>1
  <2> QED BY <1>1, <1>3, <2>1 DEF Texts
<1> QED BY <1>4, <1>5, <1>6 DEF Texts

\* Texts are messages.
LEMMA TextsAre ==
  ASSUME NEW amends \in Seq(Amendment)
  PROVE  Texts(amends) \subseteq Messages
<1>1. \A i \in DOMAIN amends : amends[i].text \in Messages
  <2>1. \A i \in DOMAIN amends : amends[i] \in Amendment OBVIOUS
  <2> QED BY <2>1 DEF Amendment
<1> QED BY <1>1 DEF Texts

-----------------------------------------------------------------------------
(***************************************************************************)
(* What the watcher forwards.                                              *)
(***************************************************************************)
\* The loop of the watcher, over the numbers.
IsUpTo(f, n) ==
  f = [k \in 0 .. n |->
        IF k = 0 THEN <<>>
        ELSE IF Numbered(k) = {} THEN f[k - 1]
        ELSE Append(f[k - 1], CHOOSE a \in Numbered(k) : TRUE)]

\* The function that News is defined by exists.
LEMMA UpToExists ==
  ASSUME NEW n \in Nat
  PROVE  \E f : IsUpTo(f, n)
<1> DEFINE After(q, k) == IF Numbered(k) = {} THEN q ELSE Append(q, CHOOSE a \in Numbered(k) : TRUE)
           S == {k \in Nat : \E f : IsUpTo(f, k)}
<1>1. \A f, k : IsUpTo(f, k) <=>
        f = [i \in 0 .. k |-> IF i = 0 THEN <<>> ELSE After(f[i - 1], i)]
  BY DEF IsUpTo
<1> HIDE DEF After
<1>2. 0 \in S
  <2>1. [i \in 0 .. 0 |-> <<>>] = [i \in 0 .. 0 |-> IF i = 0 THEN <<>>
                                     ELSE After([j \in 0 .. 0 |-> <<>>][i - 1], i)]
    OBVIOUS
  <2> QED BY <1>1, <2>1
<1>3. ASSUME NEW k \in Nat, k \in S PROVE k + 1 \in S
  <2>1. PICK f : f = [i \in 0 .. k |-> IF i = 0 THEN <<>> ELSE After(f[i - 1], i)]
    BY <1>1, <1>3
  <2> DEFINE g == [i \in 0 .. k + 1 |-> IF i = k + 1 THEN After(f[k], k + 1) ELSE f[i]]
  <2>2. \A i \in 0 .. k : g[i] = f[i] OBVIOUS
  <2>3. \A i \in 0 .. k : f[i] = IF i = 0 THEN <<>> ELSE After(f[i - 1], i) BY <2>1
  <2>4. g[k + 1] = After(f[k], k + 1) OBVIOUS
  <2>5. DOMAIN g = 0 .. k + 1 /\ g = [i \in 0 .. k + 1 |-> g[i]] OBVIOUS
  <2> HIDE DEF g
  <2>6. \A i \in 0 .. k + 1 : g[i] = IF i = 0 THEN <<>> ELSE After(g[i - 1], i)
    <3> SUFFICES ASSUME NEW i \in 0 .. k + 1
                 PROVE  g[i] = IF i = 0 THEN <<>> ELSE After(g[i - 1], i)
      OBVIOUS
    <3>1. CASE i = k + 1
      <4>1. i - 1 = k /\ i # 0 /\ k \in 0 .. k BY <3>1
      <4> QED BY <2>2, <2>4, <3>1, <4>1
    <3>2. CASE i \in 0 .. k
      <4>1. i # 0 => i - 1 \in 0 .. k BY <3>2
      <4> QED BY <2>2, <2>3, <3>2, <4>1
    <3> QED BY <3>1, <3>2
  <2>7. g = [i \in 0 .. k + 1 |-> IF i = 0 THEN <<>> ELSE After(g[i - 1], i)]
    BY <2>5, <2>6
  <2>8. IsUpTo(g, k + 1) BY <1>1, <2>7
  <2> QED BY <2>8
<1> HIDE DEF S
<1>4. Nat \subseteq S BY <1>2, <1>3, NatInduct
<1> QED BY <1>4 DEF S

\* Each section numbered above `last`, once for each number, is in the news.
LEMMA NewsIs ==
  ASSUME brief.amends \in Seq(Amendment), last \in Nat
  PROVE  /\ News \in Seq(Amendment)
         /\ \A i \in Fresh : brief.amends[i].text \in Texts(News)
<1> DEFINE H == Highest(brief.amends)
           f == CHOOSE g : IsUpTo(g, H)
           S == {n \in Nat : n <= H =>
                   /\ f[n] \in Seq(Amendment)
                   /\ \A i \in Fresh : brief.amends[i].n <= n =>
                                      brief.amends[i].text \in Texts(f[n])}
<1>1. H \in Nat /\ \A i \in Fresh : brief.amends[i].n \in Nat \ {0} /\ brief.amends[i].n <= H
                               /\ brief.amends[i] \in Amendment
  <2>1. \A i \in DOMAIN brief.amends : brief.amends[i] \in Amendment OBVIOUS
  <2>2. \A i \in DOMAIN brief.amends : brief.amends[i].n \in Nat BY <2>1 DEF Amendment
  <2>3. \A i \in Fresh : i \in DOMAIN brief.amends /\ brief.amends[i].n > last BY DEF Fresh
  <2>4. H \in Nat /\ \A i \in DOMAIN brief.amends : brief.amends[i].n <= H BY HighestIs
  <2> HIDE DEF H
  <2> QED BY <2>1, <2>2, <2>3, <2>4
<1>2. News = f[H]
  BY DEF News, IsUpTo
<1>3. IsUpTo(f, H)
  <2>1. \E g : IsUpTo(g, H) BY <1>1, UpToExists
  <2> QED BY <2>1
<1> HIDE DEF f, H
<1>4. \A n \in 0 .. H : f[n] = IF n = 0 THEN <<>>
                               ELSE IF Numbered(n) = {} THEN f[n - 1]
                               ELSE Append(f[n - 1], CHOOSE a \in Numbered(n) : TRUE)
  BY <1>3 DEF IsUpTo
<1>5. \A n : Numbered(n) # {} => (CHOOSE a \in Numbered(n) : TRUE) \in Numbered(n)
  OBVIOUS
<1>6. ASSUME NEW i \in Fresh PROVE Numbered(brief.amends[i].n) = {brief.amends[i]}
  <2>1. ASSUME NEW j \in Fresh, brief.amends[j].n = brief.amends[i].n PROVE j = i
    <3>1. i \in Nat /\ j \in Nat /\ i >= 1 /\ j >= 1 BY DEF Fresh
    <3>2. ~(j \in 1 .. i - 1) /\ ~(i \in 1 .. j - 1) BY <2>1 DEF Fresh
    <3> QED BY <3>1, <3>2
  <2> QED BY <2>1 DEF Numbered
<1>7. 0 \in S
  <2>1. f[0] = <<>> BY <1>1, <1>4
  <2>2. \A i \in Fresh : ~(brief.amends[i].n <= 0) BY <1>1
  <2>3. f[0] \in Seq(Amendment) BY <2>1
  <2> QED BY <2>2, <2>3
<1>8. ASSUME NEW n \in Nat, n \in S PROVE n + 1 \in S
  <2> SUFFICES ASSUME n + 1 <= H
               PROVE  /\ f[n + 1] \in Seq(Amendment)
                      /\ \A i \in Fresh : brief.amends[i].n <= n + 1
                                         => brief.amends[i].text \in Texts(f[n + 1])
    OBVIOUS
  <2>1. /\ f[n] \in Seq(Amendment)
        /\ \A i \in Fresh : brief.amends[i].n <= n => brief.amends[i].text \in Texts(f[n])
    BY <1>1, <1>8
  <2>2. f[n + 1] = IF Numbered(n + 1) = {} THEN f[n]
                   ELSE Append(f[n], CHOOSE a \in Numbered(n + 1) : TRUE)
    BY <1>1, <1>4
  <2>3. CASE \E i \in Fresh : brief.amends[i].n = n + 1
    <3>1. PICK i \in Fresh : brief.amends[i].n = n + 1 BY <2>3
    <3>2. Numbered(n + 1) = {brief.amends[i]} BY <1>6, <3>1
    <3>3. f[n + 1] = Append(f[n], brief.amends[i]) /\ brief.amends[i] \in Amendment
      BY <1>1, <1>5, <2>2, <3>2
    <3>4. Texts(f[n + 1]) = Texts(f[n]) \cup {brief.amends[i].text}
      BY <2>1, <3>3, TextsOfAppend
    <3>5. ASSUME NEW j \in Fresh, brief.amends[j].n <= n + 1
          PROVE  brief.amends[j].text \in Texts(f[n + 1])
      <4>1. CASE brief.amends[j].n = n + 1
        <5>1. brief.amends[j] \in Numbered(n + 1) BY <4>1 DEF Numbered
        <5>2. brief.amends[j] = brief.amends[i] BY <3>2, <5>1
        <5> QED BY <3>4, <5>2
      <4>2. CASE brief.amends[j].n <= n BY <2>1, <3>4, <4>2
      <4> QED BY <1>1, <3>5, <4>1, <4>2
    <3>6. f[n + 1] \in Seq(Amendment) BY <2>1, <3>3
    <3> QED BY <3>5, <3>6
  <2>4. CASE ~\E i \in Fresh : brief.amends[i].n = n + 1
    <3>1. Numbered(n + 1) = {} BY <2>4 DEF Numbered
    <3>2. \A i \in Fresh : brief.amends[i].n <= n + 1 => brief.amends[i].n <= n BY <1>1, <2>4
    <3> QED BY <2>1, <2>2, <3>1, <3>2
  <2> QED BY <2>3, <2>4
<1>9. H \in S
  <2> HIDE DEF S
  <2> QED BY <1>1, <1>7, <1>8, NatInduct
<1> QED BY <1>1, <1>2, <1>9

\* A torn brief is not whole, and has no amendments.
LEMMA NotTorn ==
  /\ Torn \notin Whole
  /\ Torn.amends \in Seq(Amendment) /\ Torn.amends = <<>>
  /\ \A b \in Whole : /\ b.amends \in Seq(Amendment)
                      /\ b.state \in Terminal \cup {"queued", "running"}
<1>1. Torn \notin Whole BY DEF Torn, Whole, Terminal
<1>2. Torn.amends \in Seq(Amendment) /\ Torn.amends = <<>> BY DEF Torn
<1>3. \A b \in Whole : /\ b.amends \in Seq(Amendment)
                       /\ b.state \in Terminal \cup {"queued", "running"}
  BY DEF Whole
<1> QED BY <1>1, <1>2, <1>3

\* What a field of a brief is set to does not reach the other.
LEMMA StateSet ==
  ASSUME NEW b \in Whole, NEW s \in Terminal \cup {"queued", "running"}
  PROVE  /\ [b EXCEPT !.state = s] \in Whole /\ [b EXCEPT !.state = s] # Torn
         /\ [b EXCEPT !.state = s].amends = b.amends /\ [b EXCEPT !.state = s].state = s
<1>1. /\ [b EXCEPT !.state = s] \in Whole
      /\ [b EXCEPT !.state = s].amends = b.amends /\ [b EXCEPT !.state = s].state = s
  BY DEF Whole
<1> QED BY <1>1, NotTorn

LEMMA AmendsSet ==
  ASSUME NEW b \in Whole, NEW a \in Amendment
  PROVE  /\ [b EXCEPT !.amends = Append(@, a)] \in Whole
         /\ [b EXCEPT !.amends = Append(@, a)] # Torn
         /\ [b EXCEPT !.amends = Append(@, a)].amends = Append(b.amends, a)
         /\ [b EXCEPT !.amends = Append(@, a)].state = b.state
<1>1. Append(b.amends, a) \in Seq(Amendment) BY NotTorn
<1>2. [b EXCEPT !.amends = Append(@, a)] = [b EXCEPT !.amends = Append(b.amends, a)] BY DEF Whole
<1>3. /\ [b EXCEPT !.amends = Append(b.amends, a)] \in Whole
      /\ [b EXCEPT !.amends = Append(b.amends, a)].amends = Append(b.amends, a)
      /\ [b EXCEPT !.amends = Append(b.amends, a)].state = b.state
  <2> HIDE DEF Amendment
  <2> QED BY <1>1 DEF Whole
<1> QED BY <1>2, <1>3, NotTorn

\* What the sender has numbered is one of the messages.
LEMMA MessageIs ==
  ASSUME isolated \in BOOLEAN, NEW t \in Nat, t < MaxMessages[isolated]
  PROVE  t + 1 \in Messages
<1>1. MaxMessages[isolated] \in Nat BY BriefAssumption DEF BriefAssumption
<1>2. t + 1 \in 1 .. MaxMessages[isolated] BY <1>1
<1> QED BY <1>2 DEF Messages

\* The steps, one by one.
LEMMA BriefCases ==
  ASSUME [Next]_vars
  PROVE  \/ Look \/ Amend \/ BeginTurn \/ Iterate \/ Die \/ Poll \/ Forward \/ UNCHANGED vars
         \/ \E next \in {"between", "finished"} : EndTurn(next)
         \/ \E r \in Runs : \/ Continue(r) \/ Acquire(r) \/ ReadState(r) \/ WriteState(r)
                            \/ Collect(r) \/ Settle(r) \/ Stop(r) \/ ReadReport(r)
                            \/ WriteReport(r) \/ Tell(r) \/ LeaveReport(r)
         \/ \E f \in Finishers : RecordOutcome(f) \/ ReadBack(f) \/ Truncate(f) \/ WriteBack(f)
BY DEF Next, SenderStep, ChildStep, WatchStep, RunStep, FinishStep

\* ensure_report only adds.
LEMMA EnsuredIs ==
  ASSUME report \in SUBSET Parts, NEW r \in Runs
  PROVE  Ensured(r) \in SUBSET Parts /\ report \subseteq Ensured(r)
BY DEF Ensured, Parts, Part

\* Runs are numbered from 1.
LEMMA RunOne == 1 \in Runs /\ Runs \subseteq Nat \ {0}
BY BriefAssumption DEF Runs, BriefAssumption

\* The types imply those of the model.
LEMMA TypesImplyTypeOK == Typed => TypeOK
<1> SUFFICES ASSUME Typed PROVE TypeOK OBVIOUS
<1>1. /\ brief.state \in Terminal \cup {"queued", "running", "torn"}
      /\ brief.amends \in Seq(Amendment)
  <2>1. CASE brief \in Whole BY <2>1, NotTorn
  <2>2. CASE brief = Torn BY <2>2, NotTorn DEF Torn
  <2> QED BY <2>1, <2>2 DEF Typed, FileTypes
<1>2. sender.at \in {"idle", "numbered", "continuing"} BY DEF Typed, SenderTypes
<1> QED BY <1>1, <1>2
        DEF Typed, TypeOK, FileTypes, TaskTypes, FinishTypes, SenderTypes, ChildTypes, Places

LEMMA UnseenIs ==
  Unseen \in SeenTypes
<1> DEFINE S == SUBSET Seq(Amendment)
<1>1. {} \in S OBVIOUS
<1> HIDE DEF S
<1> QED BY <1>1 DEF Unseen, SeenTypes

LEMMA TypedInit == Init => Typed
<1> SUFFICES ASSUME Init PROVE Typed OBVIOUS
<1>1. brief \in Whole
  BY DEF Init, Whole
<1>2. FileTypes BY <1>1 DEF Init, FileTypes
<1>3. TaskTypes BY DEF Init, TaskTypes, Places, Terminal
<1>4. FinishTypes BY DEF Init, FinishTypes
<1>5. SenderTypes BY DEF Init, SenderTypes
<1>6. ChildTypes
  <2>1. 0 \in 0 .. SelfChecks + 1 BY BriefAssumption DEF BriefAssumption
  <2> QED BY <2>1, UnseenIs DEF Init, ChildTypes
<1> QED BY <1>2, <1>3, <1>4, <1>5, <1>6 DEF Init, Typed

LEMMA RunsInit == Init => RunsInv /\ RewriteInv
BY RunOne DEF Init, RunsInv, RewriteInv, Active, Open, Terminal, Torn, Unseen

\* What the sender writes is an amendment, and stays beside what was there.
LEMMA AmendIs ==
  ASSUME Typed, Amend
  PROVE  /\ Append1 \in Amendment /\ Append1.n = sender.n /\ Append1.text = sender.text
         /\ brief = Torn => brief' = Torn
         /\ brief # Torn => /\ brief' \in Whole /\ brief' # Torn /\ brief'.state = brief.state
                            /\ brief'.amends = Append(brief.amends, Append1)
                            /\ brief.amends \in Seq(Amendment)
<1>1. Append1 \in Amendment /\ Append1.n = sender.n /\ Append1.text = sender.text
  BY DEF Amend, Append1, Amendment, Typed, SenderTypes
<1>2. CASE brief = Torn BY <1>1, <1>2 DEF Amend
<1>3. CASE brief # Torn
  <2>1. brief \in Whole /\ brief' = [brief EXCEPT !.amends = Append(@, Append1)]
    BY <1>3 DEF Amend, Typed, FileTypes
  <2>2. /\ brief' \in Whole /\ brief' # Torn /\ brief'.state = brief.state
        /\ brief'.amends = Append(brief.amends, Append1)
    BY <1>1, <2>1, AmendsSet
  <2> QED BY <1>1, <1>3, <2>1, <2>2, NotTorn
<1> QED BY <1>2, <1>3

\* A write of the state changes nothing but the state.
LEMMA WriteStateIs ==
  ASSUME Typed, RunsInv, NEW r \in Runs, WriteState(r)
  PROVE  /\ lock # 0 /\ lock' = 0 /\ pc[r] \in {"starting", "ending"}
         /\ held = Torn => UNCHANGED <<brief, orphan>>
         /\ held # Torn => /\ brief' \in Whole /\ brief' # Torn
                           /\ brief'.amends = held.amends /\ brief'.state = NewState(r)
<1>1. pc[r] \in {"starting", "ending"} /\ r # 0 BY RunOne DEF WriteState, RunsInv
<1>2. NewState(r) \in Terminal \cup {"queued", "running"}
  BY <1>1 DEF NewState, Typed, TaskTypes
<1>3. ASSUME held # Torn
      PROVE  /\ brief' \in Whole /\ brief' # Torn
             /\ brief'.amends = held.amends /\ brief'.state = NewState(r)
  <2>1. held \in Whole BY <1>3 DEF Typed, TaskTypes
  <2>2. brief' = [held EXCEPT !.state = NewState(r)] BY <1>3 DEF WriteState
  <2> HIDE DEF NewState
  <2> QED BY <1>2, <2>1, <2>2, StateSet
<1> QED BY <1>1, <1>3 DEF WriteState

\* What a poll does to what the watcher has seen.
LEMMA SeenIs ==
  ASSUME NEW S, NEW w \in [prev : S, processed : S, reading : BOOLEAN], NEW x \in S
  PROVE  /\ [w EXCEPT !.prev = x] \in [prev : S, processed : S, reading : BOOLEAN]
         /\ [w EXCEPT !.reading = TRUE] \in [prev : S, processed : S, reading : BOOLEAN]
OBVIOUS

\* Every step keeps the types.
LEMMA TypedStep ==
  ASSUME Typed, RunsInv, [Next]_vars
  PROVE  Typed'
<1> USE DEF Typed, FileTypes, TaskTypes, FinishTypes, SenderTypes, ChildTypes, SeenTypes
<1>a. Unseen \in SeenTypes
      /\ 0 \in 0 .. SelfChecks + 1
  BY UnseenIs, BriefAssumption DEF BriefAssumption
<1>b. brief.amends \in Seq(Amendment)
  BY NotTorn
<1>1. CASE Look
  <2>1. sender' \in [at : {"idle", "numbered", "continuing"}, text : Nat, live : BOOLEAN, n : Nat]
        /\ sender'.text = sender.text + 1 /\ sender'.text \in Messages
    <3>1. sender.text \in Nat /\ sender.text < MaxMessages[isolated] BY <1>1 DEF Look
    <3>2. sender.text + 1 \in Messages BY <3>1, MessageIs
    <3>3. NextNumber \in Nat BY <1>b DEF NextNumber
    <3> QED BY <1>1, <3>1, <3>2, <3>3 DEF Look
  <2> QED BY <1>1, <2>1 DEF Look, fileVars, taskVars, finishVars, childVars
<1>2. CASE Amend
  <2>2. brief' \in Whole \cup {Torn} BY <1>2, AmendIs
  <2>3. SenderTypes' BY <1>2 DEF Amend
  <2> QED BY <1>2, <2>2, <2>3 DEF Amend, taskVars, finishVars, childVars
<1>3. ASSUME NEW r \in Runs, Continue(r) PROVE Typed'
  <2>1. TaskTypes' BY <1>3 DEF Continue, GoTo, Places, fileVars
  <2>2. SenderTypes' BY <1>3 DEF Continue
  <2> QED BY <1>3, <2>1, <2>2 DEF Continue, fileVars, finishVars, childVars
<1>4. ASSUME NEW r \in Runs, Acquire(r) PROVE Typed'
  <2>1. TaskTypes' BY <1>4 DEF Acquire, GoTo, Places
  <2> QED BY <1>4, <2>1 DEF Acquire, fileVars, finishVars, childVars, historyVars
<1>5. ASSUME NEW r \in Runs, ReadState(r) PROVE Typed'
  <2>1. FileTypes' BY <1>5 DEF ReadState
  <2>2. TaskTypes' BY <1>5 DEF ReadState
  <2> QED BY <1>5, <2>1, <2>2 DEF ReadState, finishVars, childVars
<1>6. ASSUME NEW r \in Runs, WriteState(r) PROVE Typed'
  <2>1. pc[r] \in {"starting", "ending"} BY <1>6, WriteStateIs
  <2>2. brief' \in Whole \cup {Torn} BY <1>6, WriteStateIs
  <2>3. FileTypes' BY <1>6, <2>2 DEF WriteState
  <2>4. TaskTypes' BY <1>6, <2>1 DEF WriteState, GoTo, Places
  <2>5. FinishTypes' BY <1>6 DEF WriteState
  <2>6. ChildTypes' BY <1>6 DEF WriteState
  <2> QED BY <1>6, <2>3, <2>4, <2>5, <2>6 DEF WriteState
<1>7. ASSUME NEW r \in Runs, Collect(r) PROVE Typed'
  <2>1. FileTypes' BY <1>7, EnsuredIs DEF Collect, Noted
  <2>2. TaskTypes' BY <1>7 DEF Collect, Ended, GoTo, Places, Terminal
  <2>3. FinishTypes' BY <1>7 DEF Collect, Finishers
  <2>4. ChildTypes' BY <1>7, <1>a DEF Collect, NoChild
  <2> QED BY <1>7, <2>1, <2>2, <2>3, <2>4 DEF Collect, NoChild
<1>8. ASSUME NEW r \in Runs, Settle(r) PROVE Typed'
  <2>1. TaskTypes' BY <1>8 DEF Settle, Ended, GoTo, Places, Terminal
  <2> QED BY <1>8, <2>1 DEF Settle, fileVars, finishVars, childVars, historyVars
<1>9. ASSUME NEW r \in Runs, Stop(r) PROVE Typed'
  <2>1. FileTypes' BY <1>9, EnsuredIs DEF Stop, Noted
  <2>2. TaskTypes' BY <1>9 DEF Stop, GoTo, Places, Terminal
  <2>3. FinishTypes' BY <1>9 DEF Stop, Finishers
  <2>4. ChildTypes' BY <1>9, <1>a DEF Stop, NoChild
  <2> QED BY <1>9, <2>1, <2>2, <2>3, <2>4 DEF Stop, NoChild
<1>10. ASSUME NEW r \in Runs, ReadReport(r) PROVE Typed'
  <2>1. TaskTypes' BY <1>10 DEF ReadReport, Merged, GoTo, Places
  <2> QED BY <1>10, <2>1 DEF ReadReport, fileVars, finishVars, childVars, historyVars
<1>11. ASSUME NEW r \in Runs, WriteReport(r) PROVE Typed'
  <2>1. TaskTypes' BY <1>11 DEF WriteReport, GoTo, Places
  <2> QED BY <1>11, <2>1 DEF WriteReport, finishVars, childVars, historyVars
<1>12. ASSUME NEW r \in Runs, Tell(r) PROVE Typed'
  <2>1. TaskTypes' BY <1>12 DEF Tell, GoTo, Places
  <2> QED BY <1>12, <2>1 DEF Tell, fileVars, finishVars, childVars, historyVars
<1>13. ASSUME NEW f \in Finishers, RecordOutcome(f) PROVE Typed'
  <2>1. Part("worktree", 1) \in Parts BY RunOne DEF Parts
  <2>2. FileTypes' BY <1>13, <2>1 DEF RecordOutcome, Noted, FinishFrame
  <2> QED BY <1>13, <2>2 DEF RecordOutcome, FinishFrame, taskVars, childVars
<1>14. ASSUME NEW f \in Finishers, ReadBack(f) PROVE Typed'
  <2>1. FinishTypes' BY <1>14 DEF ReadBack
  <2> QED BY <1>14, <2>1 DEF ReadBack, FinishFrame, taskVars, childVars
<1>15. ASSUME NEW f \in Finishers, Truncate(f) PROVE Typed'
  <2>1. FinishTypes' BY <1>15 DEF Truncate
  <2> QED BY <1>15, <2>1 DEF Truncate, FinishFrame, taskVars, childVars
<1>16. ASSUME NEW f \in Finishers, WriteBack(f) PROVE Typed'
  <2>1. FinishTypes' BY <1>16 DEF WriteBack
  <2>2. FileTypes' BY <1>16 DEF WriteBack, FinishFrame
  <2> QED BY <1>16, <2>1, <2>2 DEF WriteBack, FinishFrame, taskVars, childVars
<1>17. CASE BeginTurn
  <2>1. Baseline \in Nat BY <1>b, HighestIs DEF Baseline
  <2>2. Texts(brief.amends) \subseteq Messages BY <1>b, TextsAre
  <2>3. turn' \in 0 .. SelfChecks + 1
    BY <1>17, BriefAssumption DEF BeginTurn, RunsInv, BriefAssumption
  <2>4. ChildTypes' BY <1>17, <1>a, <2>1, <2>2, <2>3 DEF BeginTurn
  <2> QED BY <1>17, <2>4 DEF BeginTurn, ChildFrame, taskVars, finishVars
<1>18. CASE Poll
  <2>1. seen' \in SeenTypes
    <3> DEFINE S == SUBSET Seq(Amendment)
    <3>1. {brief.amends} \in S /\ seen \in [prev : S, processed : S, reading : BOOLEAN] BY <1>b
    <3>2. \/ seen' = [seen EXCEPT !.prev = {brief.amends}]
          \/ seen' = [seen EXCEPT !.reading = TRUE]
      BY <1>18 DEF Poll
    <3> HIDE DEF S
    <3>3. /\ [seen EXCEPT !.prev = {brief.amends}] \in [prev : S, processed : S, reading : BOOLEAN]
          /\ [seen EXCEPT !.reading = TRUE] \in [prev : S, processed : S, reading : BOOLEAN]
      BY <3>1, SeenIs
    <3> QED BY <3>2, <3>3 DEF S
  <2> QED BY <1>18, <2>1 DEF Poll, ChildFrame, taskVars, finishVars
<1>19. CASE Forward
  <2>1. last' \in Nat BY <1>19, <1>b, HighestIs DEF Forward
  <2>2. channel' \in Seq(Amendment) BY <1>19, <1>b, NewsIs DEF Forward
  <2>3. ChildTypes' BY <1>19, <2>1, <2>2 DEF Forward
  <2> QED BY <1>19, <2>3 DEF Forward, ChildFrame, taskVars, finishVars
<1>20. CASE Iterate
  <2>1. Texts(channel) \subseteq Messages BY TextsAre
  <2>2. ChildTypes' BY <1>20, <2>1 DEF Iterate
  <2> QED BY <1>20, <2>2 DEF Iterate, ChildFrame, taskVars, finishVars
<1>21. ASSUME NEW next \in {"between", "finished"}, EndTurn(next) PROVE Typed'
  <2>1. ChildTypes' BY <1>21, <1>a DEF EndTurn
  <2> QED BY <1>21, <2>1 DEF EndTurn, ChildFrame, taskVars, finishVars
<1>22. ASSUME NEW r \in Runs, LeaveReport(r) PROVE Typed'
  <2>0. Part("child", r) \in Parts BY DEF Parts
  <2>1. FileTypes' BY <1>22, <2>0 DEF LeaveReport, ChildFrame, Noted
  <2>2. ChildTypes' BY <1>22 DEF LeaveReport
  <2> QED BY <1>22, <2>1, <2>2 DEF LeaveReport, ChildFrame, taskVars, finishVars
<1>23. CASE Die
  <2>1. ChildTypes' BY <1>23, <1>a DEF Die
  <2> QED BY <1>23, <2>1 DEF Die, ChildFrame, taskVars, finishVars
<1>24. CASE UNCHANGED vars
  BY <1>24 DEF vars, fileVars, taskVars, finishVars, childVars, historyVars
<1> QED BY <1>1, <1>2, <1>3, <1>4, <1>5, <1>6, <1>7, <1>8, <1>9, <1>10, <1>11, <1>12, <1>13,
           <1>14, <1>15, <1>16, <1>17, <1>18, <1>19, <1>20, <1>21, <1>22, <1>23, <1>24, BriefCases


-----------------------------------------------------------------------------
(***************************************************************************)
(* The runs, and the brief between a finisher's two writes.              *)
(***************************************************************************)
\* One run is active at most, whatever stops or continues.
LEMMA RunsStep ==
  ASSUME Typed, RunsInv, [Next]_vars
  PROVE  RunsInv'
<1> USE DEF RunsInv, Active
<1>a. pc \in [Runs -> Places] /\ lock \in Runs \cup {0} /\ turn \in Nat
  BY BriefAssumption DEF Typed, TaskTypes, FileTypes, ChildTypes, BriefAssumption
<1>b. SelfChecks \in Nat BY BriefAssumption DEF BriefAssumption
<1>c. \A r \in Runs : r # 0 BY RunOne
<1>1. CASE Look BY <1>1 DEF Look, fileVars, taskVars, childVars
<1>2. CASE Amend BY <1>2 DEF Amend, taskVars, childVars
<1>3. ASSUME NEW r \in Runs, Continue(r) PROVE RunsInv'
  BY <1>a, <1>3 DEF Continue, GoTo, fileVars, childVars, Terminal
<1>4. ASSUME NEW r \in Runs, Acquire(r) PROVE RunsInv'
  BY <1>a, <1>4 DEF Acquire, GoTo, fileVars, childVars, Terminal
<1>5. ASSUME NEW r \in Runs, ReadState(r) PROVE RunsInv'
  BY <1>a, <1>5 DEF ReadState, Records, childVars
<1>6. ASSUME NEW r \in Runs, WriteState(r) PROVE RunsInv'
  <2>1. lock' = 0 /\ pc[r] \in {"starting", "ending"} BY <1>6, <1>c DEF WriteState
  <2>2. CASE pc[r] = "starting"
    <3>1. pc' = [pc EXCEPT ![r] = "running"] /\ child' = "fresh" /\ UNCHANGED <<turn, state>>
      BY <1>6, <2>2 DEF WriteState, GoTo
    <3>2. child = "none" BY <1>a, <2>2
    <3> QED BY <1>a, <2>1, <2>2, <3>1, <3>2
  <2>3. CASE pc[r] = "ending"
    <3>1. /\ pc' = [pc EXCEPT ![r] = IF r = 1 THEN "telling" ELSE "merging"]
          /\ child' = child /\ UNCHANGED <<turn, state>>
      BY <1>6, <2>3 DEF WriteState, GoTo
    <3> QED BY <1>a, <2>1, <2>3, <3>1
  <2> QED BY <2>1, <2>2, <2>3
<1>7. ASSUME NEW r \in Runs, Collect(r) PROVE RunsInv'
  BY <1>a, <1>7 DEF Collect, Ended, GoTo, NoChild, Terminal
<1>8. ASSUME NEW r \in Runs, Settle(r) PROVE RunsInv'
  BY <1>a, <1>8 DEF Settle, Ended, GoTo, fileVars, childVars, Terminal
<1>9. ASSUME NEW r \in Runs, Stop(r) PROVE RunsInv'
  BY <1>a, <1>9 DEF Stop, GoTo, NoChild, Terminal
<1>10. ASSUME NEW r \in Runs, ReadReport(r) PROVE RunsInv'
  BY <1>a, <1>10 DEF ReadReport, GoTo, fileVars, childVars
<1>11. ASSUME NEW r \in Runs, WriteReport(r) PROVE RunsInv'
  BY <1>a, <1>11 DEF WriteReport, GoTo, childVars
<1>12. ASSUME NEW r \in Runs, Tell(r) PROVE RunsInv'
  BY <1>a, <1>12 DEF Tell, GoTo, fileVars, childVars
<1>13. ASSUME NEW f \in Finishers, RecordOutcome(f) \/ ReadBack(f) \/ Truncate(f) \/ WriteBack(f)
       PROVE  RunsInv'
  BY <1>13 DEF RecordOutcome, ReadBack, Truncate, WriteBack, FinishFrame, taskVars, childVars
<1>14. CASE BeginTurn BY <1>a, <1>14 DEF BeginTurn, ChildFrame, taskVars
<1>15. CASE Poll \/ Forward \/ Iterate
  BY <1>15 DEF Poll, Forward, Iterate, ChildFrame, taskVars
<1>16. ASSUME NEW next \in {"between", "finished"}, EndTurn(next) PROVE RunsInv'
  BY <1>a, <1>16 DEF EndTurn, MayCheck, ChildFrame, taskVars
<1>17. ASSUME NEW r \in Runs, LeaveReport(r) PROVE RunsInv'
  BY <1>a, <1>17 DEF LeaveReport, ChildFrame, taskVars
<1>18. CASE Die BY <1>18 DEF Die, ChildFrame, taskVars
<1>19. CASE UNCHANGED vars BY <1>19 DEF vars, fileVars, taskVars, childVars
<1> QED BY <1>1, <1>2, <1>3, <1>4, <1>5, <1>6, <1>7, <1>8, <1>9, <1>10, <1>11, <1>12, <1>13,
           <1>14, <1>15, <1>16, <1>17, <1>18, <1>19, BriefCases

\* A finish begins once, and when its run says so.
LEMMA BegunStep ==
  ASSUME Typed, RunsInv, BegunInv, [Next]_vars
  PROVE  BegunInv'
<1> USE DEF BegunInv, Finishers
<1>a. /\ pc \in [Runs -> Places] /\ 1 \in Runs /\ \A r \in Runs : r # 0
      /\ finish \in [Finishers -> {"none", "begun", "recorded", "read", "cut", "done"}]
  BY RunOne DEF Typed, TaskTypes, FinishTypes
<1>1. CASE UNCHANGED <<pc, finish>> BY <1>1
<1>2. ASSUME NEW r \in Runs, Continue(r) PROVE BegunInv'
  BY <1>a, <1>2 DEF Continue, GoTo, finishVars
<1>3. ASSUME NEW r \in Runs, Acquire(r) PROVE BegunInv'
  BY <1>a, <1>3 DEF Acquire, GoTo, finishVars
<1>4. ASSUME NEW r \in Runs, WriteState(r) PROVE BegunInv'
  <2>1. pc[r] \in {"starting", "ending"} BY <1>4, <1>a DEF WriteState, RunsInv
  <2> QED BY <1>a, <1>4, <2>1 DEF WriteState, GoTo
<1>5. ASSUME NEW r \in Runs, Collect(r) PROVE BegunInv'
  BY <1>a, <1>5 DEF Collect, HasWorktree, Ended, GoTo
<1>6. ASSUME NEW r \in Runs, Stop(r) PROVE BegunInv'
  BY <1>a, <1>6 DEF Stop, HasWorktree, GoTo
<1>7. ASSUME NEW r \in Runs, Settle(r) PROVE BegunInv'
  BY <1>a, <1>7 DEF Settle, Ended, GoTo, finishVars
<1>8. ASSUME NEW r \in Runs, ReadReport(r) \/ WriteReport(r) \/ Tell(r) PROVE BegunInv'
  BY <1>a, <1>8 DEF ReadReport, WriteReport, Tell, GoTo, finishVars
<1>9. ASSUME NEW f \in Finishers, RecordOutcome(f) \/ ReadBack(f) \/ Truncate(f) \/ WriteBack(f)
      PROVE  BegunInv'
  BY <1>a, <1>9 DEF RecordOutcome, ReadBack, Truncate, WriteBack, FinishFrame, taskVars
<1>10. CASE Look \/ Amend \/ BeginTurn \/ Iterate \/ Die \/ Poll \/ Forward \/ UNCHANGED vars
  BY <1>1, <1>10 DEF Look, Amend, BeginTurn, Iterate, Die, Poll, Forward, vars, taskVars,
     finishVars,
     ChildFrame
<1>11. CASE \E next \in {"between", "finished"} : EndTurn(next)
  BY <1>1, <1>11 DEF EndTurn, ChildFrame, taskVars, finishVars
<1>12. ASSUME NEW r \in Runs, ReadState(r) \/ LeaveReport(r) PROVE BegunInv'
  BY <1>1, <1>12 DEF ReadState, LeaveReport, ChildFrame, taskVars, finishVars
<1> QED BY <1>2, <1>3, <1>4, <1>5, <1>6, <1>7, <1>8, <1>9, <1>10, <1>11, <1>12, BriefCases

\* A torn brief is one that a finisher is to write.
LEMMA RewriteStep ==
  ASSUME Typed, RunsInv, BegunInv, RewriteInv, [Next]_vars
  PROVE  RewriteInv'
<1> USE DEF RewriteInv, Open
<1>a. /\ finish \in [Finishers -> {"none", "begun", "recorded", "read", "cut", "done"}]
      /\ copy \in [Finishers -> Whole \cup {Torn}] /\ orphan \subseteq Finishers
      /\ brief \in Whole \cup {Torn} /\ held \in Whole \cup {Torn}
  BY DEF Typed, FinishTypes, FileTypes, TaskTypes
<1>1. CASE UNCHANGED <<brief, finishVars>> BY <1>1 DEF finishVars
<1>2. CASE Amend
  <2>1. brief # Torn => brief' # Torn BY <1>2, AmendIs
  <2> QED BY <1>2, <2>1 DEF Amend, finishVars
<1>3. ASSUME NEW r \in Runs, WriteState(r) PROVE RewriteInv'
  <2>1. CASE held = Torn BY <1>3, <2>1 DEF WriteState
  <2>2. CASE held # Torn
    <3>1. brief' # Torn BY <1>3, <2>2, WriteStateIs
    <3> QED BY <1>a, <1>3, <2>2, <3>1 DEF WriteState
  <2> QED BY <2>1, <2>2
<1>4. ASSUME NEW r \in Runs, Collect(r) \/ Stop(r) PROVE RewriteInv'
  <2>1. UNCHANGED <<brief, copy, orphan>> BY <1>4 DEF Collect, Stop
  <2>2. \A f \in Finishers : finish'[f] = finish[f] \/ (finish'[f] = "begun" /\ finish[f] = "none")
    BY <1>a, <1>4 DEF Collect, Stop, HasWorktree, Finishers, BegunInv
  <2> QED BY <1>a, <2>1, <2>2
<1>5. ASSUME NEW f \in Finishers, RecordOutcome(f) PROVE RewriteInv'
  BY <1>a, <1>5 DEF RecordOutcome
<1>6. ASSUME NEW f \in Finishers, ReadBack(f) PROVE RewriteInv'
  BY <1>a, <1>6 DEF ReadBack
<1>7. ASSUME NEW f \in Finishers, Truncate(f) PROVE RewriteInv'
  BY <1>a, <1>7 DEF Truncate
<1>8. ASSUME NEW f \in Finishers, WriteBack(f) PROVE RewriteInv'
  BY <1>a, <1>8 DEF WriteBack
<1>9. CASE Look \/ BeginTurn \/ Iterate \/ Die \/ Poll \/ Forward \/ UNCHANGED vars
  BY <1>1, <1>9 DEF Look, BeginTurn, Iterate, Die, Poll, Forward, vars, fileVars, ChildFrame
<1>10. CASE \E next \in {"between", "finished"} : EndTurn(next)
  BY <1>1, <1>10 DEF EndTurn, ChildFrame
<1>11. ASSUME NEW r \in Runs,
              \/ Continue(r) \/ Acquire(r) \/ ReadState(r) \/ Settle(r) \/ ReadReport(r)
              \/ WriteReport(r) \/ Tell(r) \/ LeaveReport(r)
       PROVE  RewriteInv'
  BY <1>1, <1>11 DEF Continue, Acquire, ReadState, Settle, ReadReport, WriteReport, Tell,
     LeaveReport,
     fileVars, ChildFrame
<1> QED BY <1>2, <1>3, <1>4, <1>5, <1>6, <1>7, <1>8, <1>9, <1>10, <1>11, BriefCases


-----------------------------------------------------------------------------
(***************************************************************************)
(* Amendments stay.                                                        *)
(***************************************************************************)
\* Each writer of the brief puts back what was appended, or it was exposed.
LEMMA StayStep ==
  ASSUME Typed, RunsInv, RewriteInv, StayInv, [Next]_vars
  PROVE  StayInv'
<1> USE DEF StayInv, Open
<1>a. /\ finish \in [Finishers -> {"none", "begun", "recorded", "read", "cut", "done"}]
      /\ copy \in [Finishers -> Whole \cup {Torn}]
      /\ lock \in Runs \cup {0} /\ \A r \in Runs : r # 0
  BY RunOne DEF Typed, FinishTypes, FileTypes
<1>1. CASE UNCHANGED <<brief, lock, held, finish, copy, appended, exposed>> BY <1>1
<1>2. CASE Amend
  <2>1. CASE brief = Torn
    BY <1>2, <2>1 DEF Amend, taskVars, finishVars, Unlocked, Rewriting
  <2>2. CASE brief # Torn
    <3>1. Texts(brief'.amends) = Texts(brief.amends) \cup {sender.text}
      BY <1>2, <2>2, AmendIs, TextsOfAppend
    <3> QED BY <1>2, <2>2, <3>1 DEF Amend, taskVars, finishVars, Unlocked, Rewriting
  <2> QED BY <2>1, <2>2
<1>3. ASSUME NEW r \in Runs, ReadState(r) PROVE StayInv'
  BY <1>3 DEF ReadState, finishVars
<1>4. ASSUME NEW r \in Runs, WriteState(r) PROVE StayInv'
  BY <1>a, <1>4, WriteStateIs DEF WriteState
<1>5. ASSUME NEW r \in Runs, Collect(r) \/ Stop(r) PROVE StayInv'
  <2>1. UNCHANGED <<brief, lock, held, copy, appended, exposed>> BY <1>5 DEF Collect, Stop
  <2>2. \A f \in Finishers : finish'[f] = finish[f] \/ finish'[f] = "begun"
    BY <1>a, <1>5 DEF Collect, Stop, Finishers
  <2> QED BY <2>1, <2>2
<1>6. ASSUME NEW f \in Finishers, RecordOutcome(f) \/ ReadBack(f) \/ Truncate(f) \/ WriteBack(f)
      PROVE  StayInv'
  <2>1. CASE RecordOutcome(f) BY <1>a, <2>1 DEF RecordOutcome, FinishFrame, taskVars
  <2>2. CASE ReadBack(f) BY <1>a, <2>2 DEF ReadBack, FinishFrame, taskVars
  <2>3. CASE Truncate(f) BY <1>a, <2>3 DEF Truncate, FinishFrame, taskVars
  <2>4. CASE WriteBack(f) BY <1>a, <2>4 DEF WriteBack, FinishFrame, taskVars
  <2> QED BY <1>6, <2>1, <2>2, <2>3, <2>4
<1>7. CASE Look \/ BeginTurn \/ Iterate \/ Die \/ Poll \/ Forward \/ UNCHANGED vars
  BY <1>1, <1>7 DEF Look, BeginTurn, Iterate, Die, Poll, Forward, vars, fileVars, taskVars,
     finishVars,
     historyVars, ChildFrame
<1>8. CASE \E next \in {"between", "finished"} : EndTurn(next)
  BY <1>1, <1>8 DEF EndTurn, ChildFrame, taskVars, finishVars
<1>9. ASSUME NEW r \in Runs,
             \/ Continue(r) \/ Acquire(r) \/ Settle(r) \/ ReadReport(r)
             \/ WriteReport(r) \/ Tell(r) \/ LeaveReport(r)
      PROVE  StayInv'
  BY <1>1, <1>9 DEF Continue, Acquire, Settle, ReadReport, WriteReport, Tell, LeaveReport,
     fileVars, taskVars, finishVars, historyVars, ChildFrame
<1> QED BY <1>2, <1>3, <1>4, <1>5, <1>6, <1>7, <1>8, <1>9, BriefCases

-----------------------------------------------------------------------------
(***************************************************************************)
(* Unless they meet, the writers of the brief agree about it.              *)
(***************************************************************************)
\* A copy differs from the brief only if writers have met.
LEMMA AgreeStep ==
  ASSUME Typed, RunsInv, BegunInv, RewriteInv, AgreeInv, [Next]_vars
  PROVE  AgreeInv'
<1> USE DEF AgreeInv, Open, Rewriting
<1>a. /\ finish \in [Finishers -> {"none", "begun", "recorded", "read", "cut", "done"}]
      /\ copy \in [Finishers -> Whole \cup {Torn}]
      /\ lock \in Runs \cup {0} /\ \A r \in Runs : r # 0
      /\ orphan \in SUBSET Finishers
  BY RunOne DEF Typed, FinishTypes, FileTypes
<1>1. ASSUME UNCHANGED <<brief, lock, held, finish, copy, orphan>>, ~clash' => ~clash
      PROVE  AgreeInv'
  BY <1>1
<1>2. CASE Amend
  BY <1>2 DEF Amend, Unlocked, taskVars, finishVars
<1>3. ASSUME NEW r \in Runs, ReadState(r) PROVE AgreeInv'
  BY <1>3 DEF ReadState, finishVars
<1>4. ASSUME NEW r \in Runs, WriteState(r) PROVE AgreeInv'
  BY <1>a, <1>4 DEF WriteState
<1>5. ASSUME NEW r \in Runs, Collect(r) \/ Stop(r) PROVE AgreeInv'
  <2>1. UNCHANGED <<brief, lock, held, copy, orphan, clash>> BY <1>5 DEF Collect, Stop
  <2>2. \A f \in Finishers : finish'[f] = finish[f] \/ finish'[f] = "begun"
    BY <1>a, <1>5 DEF Collect, Stop, Finishers
  <2> QED BY <2>1, <2>2
<1>6. ASSUME NEW f \in Finishers, RecordOutcome(f) \/ ReadBack(f) \/ Truncate(f) \/ WriteBack(f)
      PROVE  AgreeInv'
  <2>1. CASE RecordOutcome(f) BY <1>a, <2>1 DEF RecordOutcome, FinishFrame, taskVars
  <2>2. CASE ReadBack(f) BY <1>a, <2>2 DEF ReadBack, FinishFrame, taskVars
  <2>3. CASE Truncate(f) BY <1>a, <2>3 DEF Truncate, FinishFrame, taskVars
  <2>4. CASE WriteBack(f)
    <3>1. ~clash => brief' = copy[f] BY <2>4 DEF WriteBack
    <3>2. UNCHANGED <<lock, held, clash>> /\ orphan' \subseteq orphan
      BY <2>4 DEF WriteBack, FinishFrame, taskVars
    <3>3. /\ Open(f) /\ finish' = [finish EXCEPT ![f] = "done"] /\ copy' = [copy EXCEPT ![f] = Torn]
      BY <2>4 DEF WriteBack
    <3> QED BY <1>a, <3>1, <3>2, <3>3
  <2> QED BY <1>6, <2>1, <2>2, <2>3, <2>4
<1>7. CASE Look \/ BeginTurn \/ Iterate \/ Die \/ Poll \/ Forward \/ UNCHANGED vars
  BY <1>1, <1>7 DEF Look, BeginTurn, Iterate, Die, Poll, Forward, vars, fileVars, taskVars,
     finishVars,
     historyVars, ChildFrame
<1>8. CASE \E next \in {"between", "finished"} : EndTurn(next)
  BY <1>1, <1>8 DEF EndTurn, ChildFrame, taskVars, finishVars
<1>9. ASSUME NEW r \in Runs,
             \/ Continue(r) \/ Acquire(r) \/ Settle(r) \/ ReadReport(r)
             \/ WriteReport(r) \/ Tell(r) \/ LeaveReport(r)
      PROVE  AgreeInv'
  BY <1>1, <1>9 DEF Continue, Acquire, Settle, ReadReport, WriteReport, Tell, LeaveReport,
     fileVars, taskVars, finishVars, historyVars, ChildFrame
<1> QED BY <1>2, <1>3, <1>4, <1>5, <1>6, <1>7, <1>8, <1>9, BriefCases


-----------------------------------------------------------------------------
(***************************************************************************)
(* No amendment is missed.                                                 *)
(***************************************************************************)
\* Holds, of the state after a step.
HoldsNext(amends) ==
  /\ \A i \in DOMAIN amends : amends[i].n = i
  /\ sender'.at = "numbered" => sender'.n = Len(amends) + 1
  /\ child' = "turn" =>
       /\ last' <= Len(amends)
       /\ \A i \in DOMAIN amends :
            amends[i].text \in known' \cup Texts(channel)' \/ amends[i].n > last'

\* The brief and the copies of it are sequences of amendments.
LEMMA AmendsAre ==
  ASSUME Typed
  PROVE  /\ brief.amends \in Seq(Amendment)
         /\ \A f \in Finishers : copy[f].amends \in Seq(Amendment)
         /\ \A a \in Seq(Amendment) : /\ Len(a) \in Nat /\ DOMAIN a = 1 .. Len(a)
                                      /\ \A i \in DOMAIN a : a[i] \in Amendment
<1>1. brief.amends \in Seq(Amendment) BY NotTorn DEF Typed, FileTypes
<1>2. ASSUME NEW f \in Finishers PROVE copy[f].amends \in Seq(Amendment)
  <2>1. copy[f] \in Whole \cup {Torn} BY DEF Typed, FinishTypes
  <2> QED BY <2>1, NotTorn
<1>3. ASSUME NEW a \in Seq(Amendment)
      PROVE  Len(a) \in Nat /\ DOMAIN a = 1 .. Len(a) /\ \A i \in DOMAIN a : a[i] \in Amendment
  OBVIOUS
<1> QED BY <1>1, <1>2, <1>3

\* The highest number is that of the last section.
LEMMA HighestHeld ==
  ASSUME NEW a \in Seq(Amendment), \A i \in DOMAIN a : a[i].n = i
  PROVE  Highest(a) \in Nat /\ Highest(a) <= Len(a) /\ \A i \in DOMAIN a : i <= Highest(a)
<1>1. DOMAIN a = 1 .. Len(a) /\ Len(a) \in Nat OBVIOUS
<1>2. /\ Highest(a) \in Nat
      /\ \A i \in DOMAIN a : a[i].n <= Highest(a)
      /\ Highest(a) = 0 \/ \E i \in DOMAIN a : Highest(a) = a[i].n
  BY HighestIs
<1> HIDE DEF Highest
<1> QED BY <1>1, <1>2

\* A turn that begins has everything in its prompt.
LEMMA BeginHeld ==
  ASSUME Typed, BeginTurn, NEW a \in Seq(Amendment), Holds(a), brief = Torn \/ brief.amends = a
  PROVE  HoldsNext(a)
<1>1. DOMAIN a = 1 .. Len(a) /\ Len(a) \in Nat OBVIOUS
<1>2. /\ last' = Highest(brief.amends) /\ known' = known \cup Texts(brief.amends)
      /\ UNCHANGED sender
  BY DEF BeginTurn, Baseline, ChildFrame
<1>3. CASE brief.amends = a
  <2>1. Highest(a) <= Len(a) BY HighestHeld DEF Holds
  <2>2. \A i \in DOMAIN a : a[i].text \in Texts(a) BY DEF Texts
  <2> QED BY <1>2, <1>3, <2>1, <2>2 DEF HoldsNext, Holds
<1>4. CASE brief = Torn
  <2>1. brief.amends = <<>> BY <1>4, NotTorn
  <2>2. Highest(<<>>) = 0
    <3>1. <<>> \in Seq(Amendment) /\ DOMAIN <<>> = {} OBVIOUS
    <3> QED BY <3>1, HighestIs
  <2>3. last' = 0 BY <1>2, <2>1, <2>2
  <2> QED BY <1>1, <1>2, <2>3 DEF HoldsNext, Holds
<1> QED BY <1>3, <1>4

\* What the watcher takes is sent, and what it leaves is still to come.
LEMMA ForwardHeld ==
  ASSUME Typed, Forward, Holds(brief.amends), child = "turn"
  PROVE  HoldsNext(brief.amends)
<1> DEFINE a == brief.amends
<1>1. /\ a \in Seq(Amendment) /\ Len(a) \in Nat /\ DOMAIN a = 1 .. Len(a)
      /\ last \in Nat /\ channel \in Seq(Amendment)
  BY AmendsAre DEF Typed, ChildTypes
<1>2. News \in Seq(Amendment) /\ \A i \in Fresh : a[i].text \in Texts(News)
  BY <1>1, NewsIs
<1>3. /\ channel' = channel \o News /\ UNCHANGED <<known, sender, child>>
      /\ last' = IF Fresh = {} THEN last ELSE Highest(a)
  BY DEF Forward, ChildFrame
<1>4. Texts(channel') = Texts(channel) \cup Texts(News)
  BY <1>1, <1>2, <1>3, TextsOfConcat
<1>5. \A i \in DOMAIN a : a[i].n > last => i \in Fresh
  <2>1. ASSUME NEW i \in DOMAIN a, a[i].n > last PROVE i \in Fresh
    <3>1. \A j \in 1 .. i - 1 : j \in DOMAIN a /\ j # i BY <1>1
    <3>2. \A j \in 1 .. i - 1 : a[j].n # a[i].n BY <3>1 DEF Holds
    <3> QED BY <2>1, <3>2 DEF Fresh
  <2> QED BY <2>1
<1>6. Highest(a) \in Nat /\ Highest(a) <= Len(a) BY <1>1, HighestHeld DEF Holds
<1>7. last' <= Len(a) BY <1>1, <1>3, <1>6 DEF Holds
<1>8. ASSUME NEW i \in DOMAIN a PROVE a[i].text \in known' \cup Texts(channel') \/ a[i].n > last'
  <2>1. CASE a[i].text \in known \cup Texts(channel) BY <1>3, <1>4, <2>1
  <2>2. CASE a[i].n > last BY <1>2, <1>4, <1>5, <2>2
  <2> QED BY <2>1, <2>2 DEF Holds
<1>9. Texts(channel)' = Texts(channel') BY DEF Texts
<1> QED BY <1>3, <1>7, <1>8, <1>9 DEF HoldsNext, Holds

\* No step loses an amendment between the sender and the session.
LEMMA HeldStep ==
  ASSUME Typed, RunsInv, RewriteInv, AgreeInv, HeldInv, [Next]_vars
  PROVE  HeldInv'
<1> USE DEF Open
<1>a. /\ finish \in [Finishers -> {"none", "begun", "recorded", "read", "cut", "done"}]
      /\ copy \in [Finishers -> Whole \cup {Torn}]
      /\ lock \in Runs \cup {0} /\ \A r \in Runs : r # 0
  BY RunOne DEF Typed, FinishTypes, FileTypes
<1>b. /\ brief.amends \in Seq(Amendment) /\ Len(brief.amends) \in Nat
      /\ \A f \in Finishers : copy[f].amends \in Seq(Amendment)
      /\ DOMAIN brief.amends = 1 .. Len(brief.amends)
  BY AmendsAre
<1>c. SUFFICES ASSUME ~clash'
               PROVE  /\ brief' # Torn => HoldsNext(brief'.amends)
                      /\ \A f \in Finishers : Open(f)' => HoldsNext(copy'[f].amends)
  BY DEF HeldInv, HoldsNext, Holds
<1> DEFINE Goal == /\ brief' # Torn => HoldsNext(brief'.amends)
                   /\ \A f \in Finishers : Open(f)' => HoldsNext(copy'[f].amends)
<1>0. ASSUME UNCHANGED <<brief, copy>>, ~clash, \A f \in Finishers : Open(f)' => Open(f),
             \A a \in Seq(Amendment) : Holds(a) => HoldsNext(a)
      PROVE  Goal
  BY <1>0, <1>b DEF HeldInv
<1>h. ASSUME sender' = sender, UNCHANGED childVars
      PROVE  \A a : Holds(a) => HoldsNext(a)
  BY <1>h DEF Holds, HoldsNext, childVars, Texts
<1>n. ASSUME sender' = sender, child' # "turn"
      PROVE  \A a : Holds(a) => HoldsNext(a)
  BY <1>n DEF Holds, HoldsNext
<1>1. CASE Look
  <2>1. ~Rewriting /\ ~clash /\ UNCHANGED <<brief, copy, finish, childVars>>
    BY <1>1, <1>c DEF Look, fileVars, finishVars
  <2>2. brief # Torn /\ Holds(brief.amends) BY <2>1 DEF HeldInv, RewriteInv, Rewriting
  <2>3. sender'.n = Len(brief.amends) + 1 BY <1>1 DEF Look, NextNumber
  <2>4. HoldsNext(brief.amends) BY <2>1, <2>2, <2>3 DEF Holds, HoldsNext, childVars, Texts
  <2>5. \A f \in Finishers : ~Open(f)' BY <2>1 DEF Rewriting
  <2> QED BY <2>1, <2>4, <2>5
<1>2. CASE Amend
  <2>1. ~Rewriting /\ ~clash /\ UNCHANGED <<copy, finish, childVars>>
    BY <1>2, <1>c DEF Amend, finishVars
  <2>2. brief # Torn /\ Holds(brief.amends) BY <2>1 DEF HeldInv, RewriteInv, Rewriting
  <2>3. /\ Append1 \in Amendment /\ Append1.n = Len(brief.amends) + 1
        /\ brief'.amends = Append(brief.amends, Append1)
        /\ sender'.at # "numbered"
    BY <1>2, <2>2, AmendIs DEF Amend, Holds
  <2> DEFINE a == brief.amends
             b == Append(a, Append1)
  <2>4. /\ DOMAIN b = DOMAIN a \cup {Len(a) + 1} /\ Len(b) = Len(a) + 1
        /\ \A i \in DOMAIN a : b[i] = a[i] /\ b[Len(a) + 1] = Append1
    BY <1>b, <2>3
  <2>5. b[Len(a) + 1] = Append1 BY <1>b, <2>3
  <2>6. child = "turn" => last <= Len(a) /\ last \in Nat
    BY <2>2 DEF Holds, Typed, ChildTypes
  <2>7. Texts(channel)' = Texts(channel) /\ UNCHANGED <<child, last, known>>
    BY <2>1 DEF childVars, Texts
  <2>8. HoldsNext(b)
    <3>1. \A i \in DOMAIN b : b[i].n = i BY <2>2, <2>3, <2>4, <2>5 DEF Holds
    <3>2. ASSUME child' = "turn"
          PROVE  /\ last' <= Len(b)
                 /\ \A i \in DOMAIN b : b[i].text \in known' \cup Texts(channel)' \/ b[i].n > last'
      <4>1. last' <= Len(b) BY <1>b, <2>4, <2>6, <2>7, <3>2
      <4>2. \A i \in DOMAIN a : b[i].text \in known' \cup Texts(channel)' \/ b[i].n > last'
        BY <2>2, <2>4, <2>7, <3>2 DEF Holds
      <4>3. b[Len(a) + 1].n > last' BY <1>b, <2>3, <2>5, <2>6, <2>7, <3>2
      <4> HIDE DEF a, b
      <4> QED BY <2>4, <4>1, <4>2, <4>3
    <3> HIDE DEF b
    <3> QED BY <2>3, <3>1, <3>2 DEF HoldsNext
  <2>9. \A f \in Finishers : ~Open(f)' BY <2>1 DEF Rewriting
  <2> QED BY <2>3, <2>8, <2>9
<1>3. ASSUME NEW r \in Runs, Continue(r) PROVE Goal
  <2>1. \A a : Holds(a) => HoldsNext(a)
    BY <1>3 DEF Continue, childVars, Holds, HoldsNext, Texts
  <2> QED BY <1>0, <1>3, <1>c, <2>1 DEF Continue, fileVars, finishVars
<1>4. ASSUME NEW r \in Runs, WriteState(r) PROVE Goal
  <2>1. ~clash /\ ~Rewriting /\ UNCHANGED <<copy, finish>> BY <1>4, <1>c DEF WriteState
  <2>2. lock # 0 /\ held = brief /\ brief # Torn
    BY <1>4, <2>1, WriteStateIs DEF AgreeInv, RewriteInv, Rewriting
  <2>3. brief'.amends = brief.amends BY <1>4, <2>2, WriteStateIs
  <2>4. sender' = sender /\ (child' # "turn" \/ UNCHANGED childVars)
    BY <1>4 DEF WriteState, childVars
  <2>5. HoldsNext(brief.amends) BY <1>h, <1>n, <2>1, <2>2, <2>4 DEF HeldInv
  <2>6. \A f \in Finishers : ~Open(f)' BY <2>1 DEF Rewriting
  <2> QED BY <2>3, <2>5, <2>6
<1>5. ASSUME NEW r \in Runs, Collect(r) \/ Stop(r) PROVE Goal
  <2>1. ~clash /\ UNCHANGED <<brief, copy, sender>> /\ child' # "turn"
    BY <1>5, <1>c DEF Collect, Stop, NoChild
  <2>2. \A f \in Finishers : Open(f)' => Open(f)
    BY <1>a, <1>5 DEF Collect, Stop, Finishers
  <2> QED BY <1>0, <1>n, <2>1, <2>2
<1>6. ASSUME NEW f \in Finishers, RecordOutcome(f) \/ ReadBack(f) \/ Truncate(f) \/ WriteBack(f)
      PROVE  Goal
  <2>1. ~clash /\ \A a : Holds(a) => HoldsNext(a)
    <3>1. ~clash /\ sender' = sender /\ UNCHANGED childVars
      <4>1. sender' = sender /\ UNCHANGED childVars
        BY <1>6 DEF RecordOutcome, ReadBack, Truncate, WriteBack, FinishFrame
      <4>2. clash' = clash \/ clash' = (clash \/ lock # 0)
        BY <1>6 DEF RecordOutcome, ReadBack, Truncate, WriteBack
      <4>3. ~clash BY <1>c, <4>2
      <4> QED BY <4>1, <4>3
    <3> QED BY <1>h, <3>1
  <2>2. CASE RecordOutcome(f)
    <3>1. UNCHANGED <<brief, copy>> /\ finish' = [finish EXCEPT ![f] = "recorded"]
      BY <2>2 DEF RecordOutcome
    <3>2. \A g \in Finishers : Open(g)' => Open(g) BY <1>a, <3>1
    <3> QED BY <1>0, <2>1, <3>1, <3>2
  <2>3. CASE ReadBack(f)
    <3>1. /\ brief' = brief /\ copy' = [copy EXCEPT ![f] = brief]
          /\ finish' = [finish EXCEPT ![f] = IF brief = Torn THEN "done" ELSE "read"]
      BY <2>3 DEF ReadBack
    <3> QED BY <1>a, <2>1, <3>1 DEF HeldInv
  <2>4. CASE Truncate(f)
    <3>1. brief' = Torn /\ copy' = copy /\ Open(f) /\ finish' = [finish EXCEPT ![f] = "cut"]
      BY <2>4 DEF Truncate
    <3> QED BY <1>a, <2>1, <3>1 DEF HeldInv
  <2>5. CASE WriteBack(f)
    <3>1. /\ brief' = copy[f] /\ copy' = [copy EXCEPT ![f] = Torn] /\ Open(f)
          /\ finish' = [finish EXCEPT ![f] = "done"]
      BY <2>1, <2>5 DEF WriteBack, AgreeInv
    <3> QED BY <1>a, <2>1, <3>1 DEF HeldInv
  <2> QED BY <1>6, <2>2, <2>3, <2>4, <2>5
<1>7. CASE BeginTurn
  <2>1. ~clash /\ UNCHANGED <<brief, copy, finish>> BY <1>7, <1>c DEF BeginTurn, ChildFrame,
       finishVars
  <2>2. brief # Torn => HoldsNext(brief.amends) BY <1>7, <1>b, <2>1, BeginHeld DEF HeldInv
  <2>3. ASSUME NEW f \in Finishers, Open(f) PROVE HoldsNext(copy[f].amends)
    <3>1. Holds(copy[f].amends) /\ (brief = Torn \/ brief.amends = copy[f].amends)
      BY <2>1, <2>3 DEF HeldInv, AgreeInv
    <3> QED BY <1>7, <1>b, <3>1, BeginHeld
  <2> QED BY <2>1, <2>2, <2>3
<1>8. CASE Forward
  <2>1. ~clash /\ brief # Torn /\ UNCHANGED <<brief, copy, finish, sender, child>>
    <3>1. seen.reading /\ ~seen'.reading BY <1>8 DEF Forward, Typed, ChildTypes
    <3> QED BY <1>8, <1>c, <3>1 DEF Forward, ChildFrame, finishVars
  <2>2. HoldsNext(brief.amends)
    <3>1. Holds(brief.amends) BY <2>1 DEF HeldInv
    <3> QED BY <1>8, <1>n, <2>1, <3>1, ForwardHeld
  <2>3. \A f \in Finishers : Open(f) => copy[f] = brief BY <2>1 DEF AgreeInv
  <2> QED BY <2>1, <2>2, <2>3
<1>9. CASE Iterate
  <2>1. ~clash /\ UNCHANGED <<brief, copy, finish>> BY <1>9, <1>c DEF Iterate, ChildFrame,
       finishVars
  <2>2. \A a : Holds(a) => HoldsNext(a)
    BY <1>9 DEF Iterate, ChildFrame, Holds, HoldsNext
  <2> QED BY <1>0, <2>1, <2>2
<1>10. CASE Poll
  <2>1. ~clash /\ UNCHANGED <<brief, copy, finish>> BY <1>10, <1>c DEF Poll, ChildFrame, finishVars
  <2>2. \A a : Holds(a) => HoldsNext(a)
    BY <1>10 DEF Poll, ChildFrame, Holds, HoldsNext, Texts
  <2> QED BY <1>0, <2>1, <2>2
<1>11. CASE Die \/ (\E next \in {"between", "finished"} : EndTurn(next))
           \/ \E r \in Runs : LeaveReport(r)
  <2>1. ~clash /\ UNCHANGED <<brief, copy, finish, sender>> /\ child' # "turn"
    BY <1>11, <1>c DEF Die, EndTurn, LeaveReport, ChildFrame, finishVars
  <2> QED BY <1>0, <1>n, <2>1
<1>12. ASSUME NEW r \in Runs,
              \/ Acquire(r) \/ ReadState(r) \/ Settle(r)
              \/ ReadReport(r) \/ WriteReport(r) \/ Tell(r)
       PROVE  Goal
  <2>1. UNCHANGED <<brief, copy, finish, sender, childVars>>
    BY <1>12 DEF Acquire, ReadState, Settle, ReadReport, WriteReport, Tell, fileVars, finishVars
  <2>2. clash' = clash \/ clash' = (clash \/ Rewriting)
    BY <1>12 DEF Acquire, ReadState, Settle, ReadReport, WriteReport, Tell, historyVars
  <2> QED BY <1>0, <1>c, <1>h, <2>1, <2>2
<1>13. CASE UNCHANGED vars
  <2>1. ~clash /\ UNCHANGED <<brief, copy, finish, sender, childVars>>
    BY <1>13, <1>c DEF vars, fileVars, finishVars, historyVars
  <2> QED BY <1>0, <1>h, <2>1
<1> QED BY <1>1, <1>2, <1>3, <1>4, <1>5, <1>6, <1>7, <1>8, <1>9, <1>10, <1>11, <1>12, <1>13,
           BriefCases


-----------------------------------------------------------------------------
(***************************************************************************)
(* One run after the other.                                                *)
(***************************************************************************)
\* A step moves one run at most, and of a continuation's kind or on its way.
LEMMA RunsMove ==
  ASSUME Typed, RunsInv, OrderInv, [Next]_vars
  PROVE  \/ pc' = pc /\ early' = early
         \/ \E r \in Runs : Continue(r)
         \/ /\ early' = early
            /\ \E r \in Runs, p \in Places \ {"none"} :
                 /\ pc[r] \notin {"none", "over"} /\ pc' = [pc EXCEPT ![r] = p]
                 /\ r = 1 => p \notin {"merging", "writing"}
<1> DEFINE Moves == /\ early' = early
                    /\ \E r \in Runs, p \in Places \ {"none"} :
                         /\ pc[r] \notin {"none", "over"} /\ pc' = [pc EXCEPT ![r] = p]
                         /\ r = 1 => p \notin {"merging", "writing"}
<1>1. ASSUME NEW r \in Runs, NEW p \in Places \ {"none"}, early' = early,
             pc[r] \notin {"none", "over"}, pc' = [pc EXCEPT ![r] = p],
             r = 1 => p \notin {"merging", "writing"}
      PROVE  Moves
  BY <1>1
<1>2. ASSUME NEW r \in Runs, Acquire(r) PROVE Moves
  BY <1>1, <1>2 DEF Acquire, GoTo, historyVars, Places
<1>3. ASSUME NEW r \in Runs, WriteState(r) PROVE Moves
  <2>1. pc[r] \in {"starting", "ending"} BY <1>3, RunOne DEF WriteState, RunsInv
  <2> DEFINE p == IF pc[r] = "starting" THEN "running" ELSE IF r = 1 THEN "telling" ELSE "merging"
  <2>2. p \in Places \ {"none"} /\ (r = 1 => p \notin {"merging", "writing"}) BY <2>1 DEF Places
  <2>3. pc' = [pc EXCEPT ![r] = p] /\ early' = early BY <1>3 DEF WriteState, GoTo
  <2> HIDE DEF p
  <2> QED BY <1>1, <2>1, <2>2, <2>3
<1>4. ASSUME NEW r \in Runs, Collect(r) PROVE Moves
  <2>1. /\ early' = early /\ pc[r] = "running"
        /\ pc' = [pc EXCEPT ![r] = "finishing"] \/ pc' = [pc EXCEPT ![r] = "ending"]
    BY <1>4 DEF Collect, Ended, GoTo
  <2> QED BY <1>1, <2>1 DEF Places
<1>5. ASSUME NEW r \in Runs, Settle(r) PROVE Moves
  BY <1>1, <1>5 DEF Settle, Ended, GoTo, historyVars, Places
<1>6. ASSUME NEW r \in Runs, Stop(r) PROVE Moves
  BY <1>1, <1>6 DEF Stop, GoTo, Places
<1>7. ASSUME NEW r \in Runs, ReadReport(r) PROVE Moves
  BY <1>1, <1>7 DEF ReadReport, GoTo, historyVars, Places, OrderInv
<1>8. ASSUME NEW r \in Runs, WriteReport(r) PROVE Moves
  BY <1>1, <1>8 DEF WriteReport, GoTo, historyVars, Places
<1>9. ASSUME NEW r \in Runs, Tell(r) PROVE Moves
  BY <1>1, <1>9 DEF Tell, GoTo, historyVars, Places
<1>10. ASSUME NEW f \in Finishers, RecordOutcome(f) \/ ReadBack(f) \/ Truncate(f) \/ WriteBack(f)
       PROVE  pc' = pc /\ early' = early
  BY <1>10 DEF RecordOutcome, ReadBack, Truncate, WriteBack, FinishFrame, taskVars
<1>11. CASE Look \/ Amend \/ BeginTurn \/ Iterate \/ Die \/ Poll \/ Forward \/ UNCHANGED vars
  BY <1>11 DEF Look, Amend, BeginTurn, Iterate, Die, Poll, Forward, vars, taskVars, historyVars,
     ChildFrame
<1>12. CASE \E next \in {"between", "finished"} : EndTurn(next)
  BY <1>12 DEF EndTurn, ChildFrame, taskVars
<1>13. ASSUME NEW r \in Runs, ReadState(r) \/ LeaveReport(r) PROVE pc' = pc /\ early' = early
  BY <1>13 DEF ReadState, LeaveReport, ChildFrame, taskVars
<1> QED BY <1>2, <1>3, <1>4, <1>5, <1>6, <1>7, <1>8, <1>9, <1>10, <1>11, <1>12, <1>13,
           BriefCases

\* Runs follow one another.
LEMMA OrderStep ==
  ASSUME Typed, RunsInv, OrderInv, [Next]_vars
  PROVE  OrderInv'
<1> USE DEF OrderInv
<1>a. pc \in [Runs -> Places] /\ 1 \in Runs /\ Runs \subseteq Nat \ {0} /\ Runs = 1 .. MaxRuns
      /\ MaxRuns \in Nat
  BY RunOne, BriefAssumption DEF Typed, TaskTypes, Runs, BriefAssumption
<1>1. CASE pc' = pc /\ early' = early BY <1>1
<1>2. ASSUME NEW r \in Runs, Continue(r) PROVE OrderInv'
  <2>1. /\ pc[r] = "none" /\ r > 1 /\ pc[r - 1] # "none"
        /\ pc' = [pc EXCEPT ![r] = "queued"]
        /\ ~early' => ~early /\ \A q \in 1 .. r - 1 : pc[q] = "over"
    BY <1>2 DEF Continue, GoTo
  <2>2. /\ r \in Nat /\ r - 1 \in Runs
        /\ \A q \in Runs : q < r => q \in 1 .. r - 1 /\ (q = r - 1 \/ q < r - 1)
    BY <1>a, <2>1
  <2>3. \A q \in Runs : q < r => pc[q] # "none" BY <2>1, <2>2
  <2>4. \A q \in Runs : r < q => pc[q] = "none" BY <2>1
  <2> QED BY <1>a, <2>1, <2>2, <2>3, <2>4
<1>3. ASSUME NEW r \in Runs, NEW p \in Places \ {"none"}, early' = early,
             pc[r] \notin {"none", "over"}, pc' = [pc EXCEPT ![r] = p],
             r = 1 => p \notin {"merging", "writing"}
      PROVE  OrderInv'
  BY <1>a, <1>3
<1> QED BY <1>1, <1>2, <1>3, RunsMove

\* While a run is under way and no continuation came early, it is alone.
LEMMA Alone ==
  ASSUME Typed, OrderInv, SettledInv, ~early, NEW r \in Runs, pc[r] \notin {"none", "over"}
  PROVE  /\ \A q \in Runs : q # r => pc[q] \in {"none", "over"}
         /\ r = 1 => \A q \in Runs : q # 1 => pc[q] = "none"
         /\ r # 1 => pc[1] = "over" /\ \A f \in Finishers : finish[f] \in {"none", "done"}
<1>1. 1 \in Runs /\ Runs \subseteq Nat \ {0} BY RunOne
<1>2. \A q \in Runs : q # r => q < r \/ r < q BY <1>1
<1>3. \A q \in Runs : q < r => pc[q] = "over" BY DEF OrderInv
<1>4. \A q \in Runs : r < q => pc[q] = "none" BY DEF OrderInv
<1>5. r # 1 => 1 < r BY <1>1
<1>6. \A q \in Runs : ~(q < 1) BY <1>1
<1> QED BY <1>1, <1>2, <1>3, <1>4, <1>5, <1>6 DEF SettledInv

\* While a finisher is at work, only the first run has been.
LEMMA FirstAlone ==
  ASSUME Typed, SettledInv, ~early, NEW f \in Finishers, finish[f] \notin {"none", "done"}
  PROVE  \A q \in Runs : q # 1 => pc[q] = "none"
BY DEF SettledInv

\* What the first run left to its finishers is done before a second begins.
LEMMA SettledStep ==
  ASSUME Typed, RunsInv, OrderInv, SettledInv, [Next]_vars
  PROVE  SettledInv'
<1> USE DEF SettledInv
<1>a. /\ pc \in [Runs -> Places] /\ 1 \in Runs
      /\ finish \in [Finishers -> {"none", "begun", "recorded", "read", "cut", "done"}]
  BY RunOne DEF Typed, TaskTypes, FinishTypes
<1>1. ASSUME early' = early, finish' = finish, \A r \in Runs : pc[r] = "none" => pc'[r] = "none"
      PROVE  SettledInv'
  BY <1>1
<1>2. ASSUME NEW r \in Runs, Continue(r) PROVE SettledInv'
  <2>1. ~early' => \A f \in Finishers : finish[f] \in {"none", "done"} BY <1>2 DEF Continue
  <2>2. finish' = finish BY <1>2 DEF Continue, finishVars
  <2> QED BY <2>1, <2>2
<1>3. ASSUME \A r \in Runs : ~Continue(r)
      PROVE  early' = early /\ \A r \in Runs : pc[r] = "none" => pc'[r] = "none"
  BY <1>a, <1>3, RunsMove
<1>4. ASSUME NEW r \in Runs, Collect(r) \/ Stop(r), \A q \in Runs : ~Continue(q) PROVE SettledInv'
  <2>1. CASE finish' = finish BY <1>1, <1>3, <1>4, <2>1
  <2>2. CASE finish' # finish
    <3>1. r = 1 /\ pc[r] \notin {"none", "over"} BY <1>4, <2>2 DEF Collect, Stop, HasWorktree
    <3>2. ~early => \A q \in Runs : q # 1 => pc[q] = "none" BY <3>1, Alone
    <3> QED BY <1>3, <1>4, <3>2
  <2> QED BY <2>1, <2>2
<1>5. ASSUME NEW f \in Finishers, RecordOutcome(f) \/ ReadBack(f) \/ Truncate(f) \/ WriteBack(f),
             \A q \in Runs : ~Continue(q)
      PROVE  SettledInv'
  <2>1. finish[f] \notin {"none", "done"} BY <1>5 DEF RecordOutcome, ReadBack, Truncate, WriteBack
  <2>2. ~early => \A q \in Runs : q # 1 => pc[q] = "none" BY <2>1, FirstAlone
  <2> QED BY <1>3, <1>5, <2>2
<1>6. ASSUME \A r \in Runs : ~Continue(r) /\ ~Collect(r) /\ ~Stop(r),
             \A f \in Finishers : ~RecordOutcome(f) /\ ~ReadBack(f) /\ ~Truncate(f) /\ ~WriteBack(f)
      PROVE  finish' = finish
  <2>1. CASE Look \/ Amend \/ BeginTurn \/ Iterate \/ Die \/ Poll \/ Forward \/ UNCHANGED vars
    BY <2>1 DEF Look, Amend, BeginTurn, Iterate, Die, Poll, Forward, vars, finishVars, ChildFrame
  <2>2. CASE \E next \in {"between", "finished"} : EndTurn(next)
    BY <2>2 DEF EndTurn, ChildFrame, finishVars
  <2>3. ASSUME NEW r \in Runs,
               \/ Acquire(r) \/ ReadState(r) \/ WriteState(r) \/ Settle(r)
               \/ ReadReport(r) \/ WriteReport(r) \/ Tell(r) \/ LeaveReport(r)
        PROVE  finish' = finish
    BY <2>3 DEF Acquire, ReadState, WriteState, Settle, ReadReport, WriteReport, Tell,
       LeaveReport, ChildFrame, finishVars
  <2> QED BY <1>6, <2>1, <2>2, <2>3, BriefCases
<1> QED BY <1>1, <1>2, <1>3, <1>4, <1>5, <1>6

\* A run's end is the state the registry has.
LEMMA EndStep ==
  ASSUME Typed, RunsInv, OrderInv, SettledInv, EndInv, [Next]_vars
  PROVE  EndInv'
<1> USE DEF EndInv
<1>a. /\ pc \in [Runs -> Places] /\ end \in [Runs -> Terminal \cup {"none"}]
      /\ prev \in [Runs -> SUBSET Parts]
      /\ finish \in [Finishers -> {"none", "begun", "recorded", "read", "cut", "done"}]
      /\ 1 \in Runs /\ Runs \subseteq Nat \ {0}
  BY RunOne DEF Typed, TaskTypes, FinishTypes
<1>1. ASSUME UNCHANGED <<isolated, state, pc, end, prev, finish>>, early' = early PROVE EndInv'
  BY <1>1
<1>2. ASSUME NEW r \in Runs, Continue(r) PROVE EndInv'
  <2>1. /\ r > 1 /\ pc[r] = "none" /\ prev' = [prev EXCEPT ![r] = report]
        /\ pc' = [pc EXCEPT ![r] = "queued"]
        /\ UNCHANGED <<isolated, end, finish>>
        /\ ~early' => ~early /\ \A q \in 1 .. r - 1 : pc[q] = "over"
    BY <1>2 DEF Continue, GoTo, fileVars, finishVars
  <2>2. ASSUME ~early', NEW q \in Runs PROVE pc'[q] # "ending"
    <3>1. CASE q = r BY <1>a, <2>1, <3>1
    <3>2. CASE q < r
      <4>1. q \in 1 .. r - 1 BY <1>a, <3>2
      <4> QED BY <1>a, <2>1, <2>2, <3>2, <4>1
    <3>3. CASE r < q BY <1>a, <2>1, <3>3 DEF OrderInv
    <3> QED BY <1>a, <3>1, <3>2, <3>3
  <2>3. prev'[1] = prev[1] /\ pc'[1] = pc[1] BY <1>a, <2>1
  <2> QED BY <2>1, <2>2, <2>3
<1>3. ASSUME NEW r \in Runs, Acquire(r) PROVE EndInv'
  <2>1. /\ pc[r] = "queued" /\ pc' = [pc EXCEPT ![r] = "starting"]
        /\ UNCHANGED <<isolated, end, prev, finish, early>>
    BY <1>3 DEF Acquire, GoTo, fileVars, finishVars, historyVars
  <2>2. ~early => \A q \in Runs : pc'[q] # "ending" BY <1>a, <2>1, Alone
  <2> QED BY <1>a, <2>1, <2>2
<1>4. ASSUME NEW r \in Runs, WriteState(r) PROVE EndInv'
  <2>1. pc[r] \in {"starting", "ending"} BY <1>4, RunOne DEF WriteState, RunsInv
  <2> QED BY <1>a, <1>4, <2>1 DEF WriteState, GoTo
<1>5. ASSUME NEW r \in Runs, Collect(r) \/ Settle(r) \/ Stop(r) PROVE EndInv'
  <2>1. pc[r] \notin {"none", "over"} /\ early' = early /\ UNCHANGED <<prev, isolated>>
    BY <1>5 DEF Collect, Settle, Stop, fileVars, historyVars
  <2>2. CASE pc' = [pc EXCEPT ![r] = "finishing"]
    <3>1. UNCHANGED <<end, state>> BY <1>a, <1>5, <2>2 DEF Collect, Settle, Stop, Ended, GoTo
    <3>2. \A q \in Runs : pc'[q] = "ending" => pc[q] = "ending" BY <1>a, <2>2
    <3>3. finish' = finish \/ (finish' = [finish EXCEPT !["body"] = "begun"] /\ r = 1)
      BY <1>5, <2>2, <1>a DEF Collect, Settle, Stop, Ended, GoTo, HasWorktree, finishVars
    <3>4. r = 1 => pc'[1] = "finishing" BY <1>a, <2>2
    <3>5. r # 1 => pc'[1] = pc[1] BY <1>a, <2>2
    <3> QED BY <2>1, <3>1, <3>2, <3>3, <3>4, <3>5
  <2>3. CASE pc' = [pc EXCEPT ![r] = "ending"]
    <3>1. state' \in {"ended", "stopped"} /\ end' = [end EXCEPT ![r] = state']
      BY <1>a, <1>5, <2>3 DEF Collect, Settle, Stop, Ended, GoTo
    <3>2. ~early => \A q \in Runs : pc'[q] = "ending" => q = r BY <1>a, <2>1, <2>3, Alone
    <3>3. /\ finish'["body"] = finish["body"]
          /\ isolated /\ r = 1 /\ state' = "ended" => finish["body"] = "done"
      BY <1>a, <1>5, <2>3 DEF Collect, Settle, Stop, Ended, GoTo, HasWorktree, FinishedWith,
         Finishers, finishVars
    <3>4. r # 1 => pc'[1] = pc[1] /\ end'[1] = end[1] BY <1>a, <2>3, <3>1
    <3>5. end'[r] = state' BY <1>a, <3>1
    <3> QED BY <2>1, <3>2, <3>3, <3>4, <3>5
  <2> QED BY <1>5, <2>2, <2>3 DEF Collect, Settle, Stop, Ended, GoTo
<1>6. ASSUME NEW r \in Runs, ReadReport(r) \/ WriteReport(r) \/ Tell(r) PROVE EndInv'
  <2>1. /\ UNCHANGED <<isolated, state, end, finish, early>>
        /\ \A q \in Runs : pc'[q] = "ending" => pc[q] = "ending"
        /\ pc'[1] = pc[1] \/ pc'[1] = "over"
    BY <1>a, <1>6 DEF ReadReport, WriteReport, Tell, GoTo, fileVars, finishVars, historyVars,
       OrderInv
  <2>2. prev'[1] = prev[1]
    BY <1>a, <1>6 DEF ReadReport, WriteReport, Tell, GoTo, OrderInv
  <2> QED BY <2>1, <2>2
<1>7. ASSUME NEW f \in Finishers, RecordOutcome(f) \/ ReadBack(f) \/ Truncate(f) \/ WriteBack(f)
      PROVE  EndInv'
  <2>1. /\ UNCHANGED <<isolated, state, pc, end, prev, early>>
        /\ finish["body"] = "done" => finish'["body"] = "done"
    BY <1>a, <1>7 DEF RecordOutcome, ReadBack, Truncate, WriteBack, FinishFrame, taskVars, Finishers
  <2> QED BY <2>1
<1>8. CASE Look \/ Amend \/ BeginTurn \/ Iterate \/ Die \/ Poll \/ Forward \/ UNCHANGED vars
  BY <1>1, <1>8 DEF Look, Amend, BeginTurn, Iterate, Die, Poll, Forward, vars, fileVars, taskVars,
     finishVars,
     historyVars, ChildFrame
<1>9. CASE \E next \in {"between", "finished"} : EndTurn(next)
  BY <1>1, <1>9 DEF EndTurn, ChildFrame, taskVars, finishVars
<1>10. ASSUME NEW r \in Runs, ReadState(r) \/ LeaveReport(r) PROVE EndInv'
  BY <1>1, <1>10 DEF ReadState, LeaveReport, ChildFrame, taskVars, finishVars
<1> QED BY <1>2, <1>3, <1>4, <1>5, <1>6, <1>7, <1>8, <1>9, <1>10, BriefCases


-----------------------------------------------------------------------------
(***************************************************************************)
(* What the reports hold, and what the brief shows.                            *)
(***************************************************************************)
\* No write of the report loses a part of it.
LEMMA KeptStep ==
  ASSUME Typed, RunsInv, BegunInv, OrderInv, SettledInv, EndInv, KeptInv, [Next]_vars
  PROVE  KeptInv'
<1> USE DEF KeptInv, Before
<1>a. /\ pc \in [Runs -> Places] /\ prev \in [Runs -> SUBSET Parts]
      /\ report \in SUBSET Parts /\ written \in SUBSET Parts
      /\ 1 \in Runs /\ Runs \subseteq Nat \ {0}
  BY RunOne DEF Typed, TaskTypes, FileTypes
<1>1. ASSUME UNCHANGED <<report, written, pc, prev, child>>, early' = early PROVE KeptInv'
  BY <1>1
<1>2. ASSUME NEW r \in Runs, Continue(r) PROVE KeptInv'
  <2>1. /\ pc[r] = "none" /\ prev' = [prev EXCEPT ![r] = report]
        /\ pc' = [pc EXCEPT ![r] = "queued"]
        /\ UNCHANGED <<report, written, child>>
        /\ ~early' => ~early /\ \A q \in 1 .. r - 1 : pc[q] = "over"
    BY <1>2 DEF Continue, GoTo, fileVars, childVars
  <2> SUFFICES ASSUME ~early' PROVE KeptInv' OBVIOUS
  <2>2. ASSUME NEW q \in Runs PROVE pc[q] \in {"none", "over"}
    <3>1. CASE q < r
      <4>1. q \in 1 .. r - 1 BY <1>a, <3>1
      <4> QED BY <2>1, <4>1
    <3>2. CASE r < q BY <2>1, <3>2 DEF OrderInv
    <3> QED BY <1>a, <2>1, <3>1, <3>2
  <2>3. written \subseteq report BY <2>1, <2>2
  <2> QED BY <1>a, <2>1, <2>2, <2>3
<1>3. ASSUME NEW r \in Runs, Acquire(r) PROVE KeptInv'
  <2>1. /\ pc[r] = "queued" /\ pc' = [pc EXCEPT ![r] = "starting"]
        /\ UNCHANGED <<report, written, prev, early>>
    BY <1>3 DEF Acquire, GoTo, fileVars, historyVars
  <2>2. child' = child BY <1>3 DEF Acquire, childVars
  <2> QED BY <1>a, <2>1, <2>2
<1>4. ASSUME NEW r \in Runs, WriteState(r) PROVE KeptInv'
  <2>1. pc[r] \in {"starting", "ending"} /\ UNCHANGED <<report, written, prev, early>>
    BY <1>4, RunOne DEF WriteState, RunsInv
  <2>2. CASE pc[r] = "starting"
    <3>1. pc' = [pc EXCEPT ![r] = "running"] /\ child' = "fresh"
      BY <1>4, <2>2 DEF WriteState, GoTo
    <3>2. ~early => \A q \in Runs : q # r => pc[q] \in {"none", "over"} BY <2>1, Alone
    <3> QED BY <1>a, <2>1, <2>2, <3>1, <3>2
  <2>3. CASE pc[r] = "ending"
    <3>1. pc' = [pc EXCEPT ![r] = IF r = 1 THEN "telling" ELSE "merging"] /\ child' = child
      BY <1>4, <2>3 DEF WriteState, GoTo
    <3>2. ~early => /\ \A q \in Runs : q # r => pc[q] \in {"none", "over"}
                    /\ written \subseteq prev[r] \cup report
      BY <2>1, <2>3, Alone
    <3>3. r = 1 => prev[r] = {} BY DEF EndInv
    <3> QED BY <1>a, <2>1, <2>3, <3>1, <3>2, <3>3
  <2> QED BY <2>1, <2>2, <2>3
<1>5. ASSUME NEW r \in Runs, Collect(r) \/ Stop(r) PROVE KeptInv'
  <2>1. /\ pc[r] \in {"queued", "running", "finishing"}
        /\ pc' = [pc EXCEPT ![r] = "finishing"] \/ pc' = [pc EXCEPT ![r] = "ending"]
        /\ UNCHANGED <<prev, early>> /\ child' = "none"
        /\ report' = Ensured(r) /\ written' = written \cup report'
    BY <1>5 DEF Collect, Stop, Ended, GoTo, NoChild, Noted
  <2>2. report \subseteq report' BY <1>a, <2>1, EnsuredIs
  <2>3. ~early => /\ \A q \in Runs : q # r => pc[q] \in {"none", "over"}
                  /\ written \subseteq prev[r] \cup report
    BY <2>1, Alone
  <2>4. pc'[r] \in {"finishing", "ending"} /\ \A q \in Runs : q # r => pc'[q] = pc[q] BY <1>a, <2>1
  <2> QED BY <1>a, <2>1, <2>2, <2>3, <2>4
<1>6. ASSUME NEW r \in Runs, Settle(r) PROVE KeptInv'
  <2>1. /\ pc[r] = "finishing" /\ pc' = [pc EXCEPT ![r] = "ending"]
        /\ UNCHANGED <<report, written, prev, early>>
    BY <1>6 DEF Settle, Ended, GoTo, fileVars, historyVars
  <2>2. child' = child BY <1>6 DEF Settle, childVars
  <2> QED BY <1>a, <2>1, <2>2
<1>7. ASSUME NEW r \in Runs, ReadReport(r) PROVE KeptInv'
  <2>1. /\ pc[r] = "merging" /\ pc' = [pc EXCEPT ![r] = "writing"]
        /\ prev' = [prev EXCEPT ![r] = prev[r] \cup report]
        /\ UNCHANGED <<report, written, early>>
    BY <1>7 DEF ReadReport, Merged, GoTo, fileVars, historyVars
  <2>2. child' = child BY <1>7 DEF ReadReport, childVars
  <2> QED BY <1>a, <2>1, <2>2
<1>8. ASSUME NEW r \in Runs, WriteReport(r) PROVE KeptInv'
  <2>1. /\ pc[r] = "writing" /\ pc' = [pc EXCEPT ![r] = "telling"]
        /\ report' = prev[r] /\ prev' = [prev EXCEPT ![r] = {}]
        /\ UNCHANGED <<written, early>>
    BY <1>8 DEF WriteReport, GoTo, historyVars
  <2>2. child' = child BY <1>8 DEF WriteReport, childVars
  <2>3. ~early => /\ \A q \in Runs : q # r => pc[q] \in {"none", "over"}
                  /\ written \subseteq prev[r]
    BY <2>1, Alone
  <2> QED BY <1>a, <2>1, <2>2, <2>3
<1>9. ASSUME NEW r \in Runs, Tell(r) PROVE KeptInv'
  <2>1. /\ pc[r] = "telling" /\ pc' = [pc EXCEPT ![r] = "over"]
        /\ UNCHANGED <<report, written, prev, early>>
    BY <1>9 DEF Tell, GoTo, fileVars, historyVars
  <2>2. child' = child BY <1>9 DEF Tell, childVars
  <2> QED BY <1>a, <2>1, <2>2
<1>10. ASSUME NEW f \in Finishers, RecordOutcome(f) PROVE KeptInv'
  <2>1. /\ finish[f] = "begun" /\ report \subseteq report' /\ written' = written \cup report'
        /\ UNCHANGED <<pc, prev, child, early>>
    BY <1>10 DEF RecordOutcome, Noted, FinishFrame, taskVars, childVars
  <2>2. ~early => \A q \in Runs : q # 1 => pc[q] = "none" BY <2>1, FirstAlone
  <2>3. pc[1] \notin {"none", "queued", "starting", "running", "merging", "writing"}
    BY <2>1 DEF BegunInv, OrderInv, Finishers
  <2> QED BY <1>a, <2>1, <2>2, <2>3
<1>11. ASSUME NEW f \in Finishers, ReadBack(f) \/ Truncate(f) \/ WriteBack(f) PROVE KeptInv'
  <2>1. UNCHANGED <<report, written, pc, prev, child>> /\ early' = early
    BY <1>11 DEF ReadBack, Truncate, WriteBack, FinishFrame, taskVars, childVars
  <2> QED BY <1>1, <2>1
<1>12. CASE BeginTurn \/ Die \/ \E next \in {"between", "finished"} : EndTurn(next)
  <2>1. /\ child \in {"fresh", "turn", "between", "finished"}
        /\ UNCHANGED <<report, written, pc, prev, early>>
    BY <1>12 DEF BeginTurn, Die, EndTurn, ChildFrame, taskVars
  <2> QED BY <2>1
<1>13. ASSUME NEW r \in Runs, LeaveReport(r) PROVE KeptInv'
  <2>1. /\ pc[r] = "running" /\ child = "finished" /\ child' = "gone"
        /\ written' = written \cup report' /\ UNCHANGED <<pc, prev, early>>
    BY <1>13 DEF LeaveReport, Noted, ChildFrame, taskVars
  <2>2. ~early => /\ \A q \in Runs : q # r => pc[q] \in {"none", "over"}
                  /\ written \subseteq prev[r]
    BY <2>1, Alone
  <2> QED BY <1>a, <2>1, <2>2
<1>14. CASE Look \/ Amend \/ Poll \/ Forward \/ Iterate \/ UNCHANGED vars
  BY <1>1, <1>14 DEF Look, Amend, Poll, Forward, Iterate, vars, fileVars, taskVars, childVars,
     historyVars,
     ChildFrame
<1>15. ASSUME NEW r \in Runs, ReadState(r) PROVE KeptInv'
  BY <1>1, <1>15 DEF ReadState, childVars
<1> QED BY <1>2, <1>3, <1>4, <1>5, <1>6, <1>7, <1>8, <1>9, <1>10, <1>11, <1>12, <1>13, <1>14, <1>15,
           BriefCases

\* Once recorded, the state stays in the brief.
LEMMA ShownStep ==
  ASSUME Typed, RunsInv, BegunInv, RewriteInv, AgreeInv, OrderInv, SettledInv, EndInv, ShownInv,
         [Next]_vars
  PROVE  ShownInv'
<1> USE DEF ShownInv, Unsettled, Active, Open
<1>a. /\ pc \in [Runs -> Places]
      /\ lock \in Runs \cup {0} /\ \A r \in Runs : r # 0
      /\ finish \in [Finishers -> {"none", "begun", "recorded", "read", "cut", "done"}]
      /\ copy \in [Finishers -> Whole \cup {Torn}]
  BY RunOne DEF Typed, TaskTypes, FinishTypes, FileTypes
<1>1. ASSUME UNCHANGED <<brief, state, pc, finish, copy>>, ~early' => ~early, ~clash' => ~clash
      PROVE  ShownInv'
  BY <1>1
<1>2. ASSUME NEW r \in Runs, pc'[r] \in {"queued", "starting", "running", "finishing", "ending"}
      PROVE  ShownInv'
  BY <1>2
<1>3. CASE Amend
  <2>1. brief # Torn => brief'.state = brief.state BY <1>3, AmendIs
  <2>2. brief = Torn => brief' = Torn BY <1>3, AmendIs
  <2>3. UNCHANGED <<state, pc, finish, copy, early>> /\ (~clash' => ~clash)
    BY <1>3 DEF Amend, taskVars, finishVars
  <2> QED BY <2>1, <2>2, <2>3
<1>4. ASSUME NEW r \in Runs, Continue(r) \/ Acquire(r) \/ Collect(r) \/ Settle(r) \/ Stop(r)
      PROVE  ShownInv'
  <2>1. \E p \in {"queued", "starting", "finishing", "ending"} : pc' = [pc EXCEPT ![r] = p]
    BY <1>4 DEF Continue, Acquire, Collect, Settle, Stop, Ended, GoTo
  <2> QED BY <1>2, <1>a, <2>1
<1>5. ASSUME NEW r \in Runs, WriteState(r) PROVE ShownInv'
  <2>1. pc[r] \in {"starting", "ending"} BY <1>5, RunOne DEF WriteState, RunsInv
  <2>2. CASE pc[r] = "starting"
    <3>1. pc' = [pc EXCEPT ![r] = "running"] BY <1>5, <2>2 DEF WriteState, GoTo
    <3> QED BY <1>2, <1>a, <3>1
  <2>3. CASE pc[r] = "ending"
    <3> SUFFICES ASSUME ~early', ~clash'
                 PROVE  /\ brief' # Torn => brief'.state = state'
                        /\ \A f \in Finishers : Open(f)' => copy'[f].state = state'
      OBVIOUS
    <3>1. ~early /\ ~clash /\ ~Rewriting /\ UNCHANGED <<finish, copy, state>>
      BY <1>5 DEF WriteState
    <3>2. lock # 0 /\ held = brief /\ brief # Torn
      BY <1>5, <3>1, WriteStateIs DEF AgreeInv, RewriteInv, Rewriting
    <3>3. brief'.state = end[r] BY <1>5, <2>3, <3>2, WriteStateIs DEF NewState
    <3>4. end[r] = state BY <2>3, <3>1 DEF EndInv
    <3>5. \A f \in Finishers : ~Open(f)' BY <3>1 DEF Rewriting
    <3> QED BY <3>1, <3>3, <3>4, <3>5
  <2> QED BY <2>1, <2>2, <2>3
<1>6. ASSUME NEW r \in Runs, ReadReport(r) \/ WriteReport(r) \/ Tell(r) PROVE ShownInv'
  <2>1. /\ UNCHANGED <<brief, state, finish, copy, early, clash>>
        /\ pc[r] \notin {"queued", "starting", "running", "finishing", "ending"}
        /\ \E p : pc' = [pc EXCEPT ![r] = p]
    BY <1>6 DEF ReadReport, WriteReport, Tell, GoTo, fileVars, finishVars, historyVars
  <2>2. \A q \in Runs : Unsettled(q) => pc'[q] = pc[q] BY <1>a, <2>1
  <2> QED BY <2>1, <2>2
<1>7. ASSUME NEW f \in Finishers, RecordOutcome(f) PROVE ShownInv'
  <2>1. /\ UNCHANGED <<brief, state, pc, copy, early, clash>>
        /\ finish' = [finish EXCEPT ![f] = "recorded"]
    BY <1>7 DEF RecordOutcome, FinishFrame, taskVars
  <2>2. \A g \in Finishers : Open(g)' => Open(g) BY <1>a, <2>1
  <2> QED BY <2>1, <2>2
<1>8. ASSUME NEW f \in Finishers, ReadBack(f) PROVE ShownInv'
  <2>1. /\ UNCHANGED <<brief, state, pc, early>> /\ (~clash' => ~clash)
        /\ copy' = [copy EXCEPT ![f] = brief]
        /\ finish' = [finish EXCEPT ![f] = IF brief = Torn THEN "done" ELSE "read"]
    BY <1>8 DEF ReadBack, FinishFrame, taskVars
  <2> QED BY <1>a, <2>1
<1>9. ASSUME NEW f \in Finishers, Truncate(f) PROVE ShownInv'
  <2>1. /\ UNCHANGED <<state, pc, early, clash, copy>> /\ brief' = Torn
        /\ Open(f) /\ finish' = [finish EXCEPT ![f] = "cut"]
    BY <1>9 DEF Truncate, FinishFrame, taskVars
  <2> QED BY <1>a, <2>1
<1>10. ASSUME NEW f \in Finishers, WriteBack(f) PROVE ShownInv'
  <2>1. /\ UNCHANGED <<state, pc, early, clash>>
        /\ copy' = [copy EXCEPT ![f] = Torn]
        /\ Open(f) /\ finish' = [finish EXCEPT ![f] = "done"]
    BY <1>10 DEF WriteBack, FinishFrame, taskVars
  <2>2. ~clash => brief' = copy[f] BY <1>10 DEF WriteBack, AgreeInv
  <2> QED BY <1>a, <2>1, <2>2
<1>11. CASE Look \/ BeginTurn \/ Iterate \/ Die \/ Poll \/ Forward \/ UNCHANGED vars
  BY <1>1, <1>11 DEF Look, BeginTurn, Iterate, Die, Poll, Forward, vars, fileVars, taskVars,
     finishVars,
     historyVars, ChildFrame
<1>12. CASE \E next \in {"between", "finished"} : EndTurn(next)
  <2>1. UNCHANGED <<brief, state, pc, finish, copy, early>> /\ (~clash' => ~clash)
    BY <1>12 DEF EndTurn, ChildFrame, taskVars, finishVars
  <2> QED BY <1>1, <2>1
<1>13. ASSUME NEW r \in Runs, ReadState(r) \/ LeaveReport(r) PROVE ShownInv'
  BY <1>1, <1>13 DEF ReadState, LeaveReport, ChildFrame, taskVars, finishVars
<1> QED BY <1>3, <1>4, <1>5, <1>6, <1>7, <1>8, <1>9, <1>10, <1>11, <1>12, <1>13,
           BriefCases

\* No write of the first run's report loses the outcome.
LEMMA ToldStep ==
  ASSUME Typed, RunsInv, BegunInv, OrderInv, SettledInv, ToldInv, [Next]_vars
  PROVE  ToldInv'
<1> USE DEF ToldInv
<1>a. /\ pc \in [Runs -> Places] /\ 1 \in Runs /\ report \in SUBSET Parts
      /\ finish \in [Finishers -> {"none", "begun", "recorded", "read", "cut", "done"}]
      /\ "body" \in Finishers
  BY RunOne DEF Typed, TaskTypes, FinishTypes, FileTypes, Finishers
<1>1. ASSUME early' = early, report \subseteq report',
             finish'["body"] \notin {"none", "begun"} => finish["body"] \notin {"none", "begun"},
             pc'[1] \notin {"none", "over"} => pc[1] \notin {"none", "over"}
      PROVE  ToldInv'
  BY <1>1
<1>2. ASSUME NEW r \in Runs, Continue(r) PROVE ToldInv'
  <2>1. /\ r > 1 /\ pc' = [pc EXCEPT ![r] = "queued"] /\ UNCHANGED <<report, finish>>
        /\ ~early' => ~early
    BY <1>2 DEF Continue, GoTo, fileVars, finishVars
  <2>2. pc'[1] = pc[1] BY <1>a, <2>1
  <2> QED BY <2>1, <2>2
<1>3. ASSUME NEW r \in Runs, Acquire(r) \/ Settle(r) \/ ReadReport(r) \/ Tell(r) PROVE ToldInv'
  <2>1. /\ pc[r] \notin {"none", "over"} /\ \E p : pc' = [pc EXCEPT ![r] = p]
        /\ UNCHANGED <<report, finish, early>>
    BY <1>3 DEF Acquire, Settle, ReadReport, Tell, Ended, GoTo, fileVars, finishVars, historyVars
  <2> QED BY <1>1, <1>a, <2>1
<1>4. ASSUME NEW r \in Runs, WriteState(r) PROVE ToldInv'
  <2>1. /\ pc[r] \in {"starting", "ending"} /\ \E p : pc' = [pc EXCEPT ![r] = p]
        /\ UNCHANGED <<report, finish, early>>
    BY <1>4, RunOne DEF WriteState, RunsInv, GoTo
  <2> QED BY <1>1, <1>a, <2>1
<1>5. ASSUME NEW r \in Runs, WriteReport(r) PROVE ToldInv'
  <2>1. /\ pc[r] = "writing" /\ pc' = [pc EXCEPT ![r] = "telling"] /\ early' = early
    BY <1>5 DEF WriteReport, GoTo, historyVars
  <2>2. r # 1 BY <2>1 DEF OrderInv
  <2>3. ~early => pc[1] = "over" BY <2>1, <2>2, Alone
  <2> QED BY <1>a, <2>1, <2>2, <2>3
<1>6. ASSUME NEW r \in Runs, Collect(r) \/ Stop(r) PROVE ToldInv'
  <2>1. /\ pc[r] \notin {"none", "over"} /\ (\E p : pc' = [pc EXCEPT ![r] = p]) /\ early' = early
        /\ report' = Ensured(r)
    BY <1>6 DEF Collect, Stop, Ended, GoTo
  <2>2. finish'["body"] = finish["body"] \/ finish'["body"] = "begun"
    BY <1>a, <1>6 DEF Collect, Stop
  <2>3. report \subseteq report' BY <1>a, <2>1, EnsuredIs
  <2>4. pc'[1] \notin {"none", "over"} => pc[1] \notin {"none", "over"} BY <1>a, <2>1
  <2> QED BY <1>1, <2>1, <2>2, <2>3, <2>4
<1>7. ASSUME NEW r \in Runs, LeaveReport(r) PROVE ToldInv'
  <2>1. pc[r] = "running" /\ UNCHANGED <<pc, finish, early>>
    BY <1>7 DEF LeaveReport, ChildFrame, taskVars, finishVars
  <2>2. r = 1 => finish["body"] = "none" BY <2>1 DEF BegunInv
  <2>3. r # 1 /\ ~early => pc[1] = "over" BY <2>1, Alone
  <2> QED BY <2>1, <2>2, <2>3
<1>8. ASSUME NEW f \in Finishers, RecordOutcome(f) PROVE ToldInv'
  BY <1>a, <1>8 DEF RecordOutcome, FinishFrame
<1>9. ASSUME NEW f \in Finishers, ReadBack(f) \/ Truncate(f) \/ WriteBack(f) PROVE ToldInv'
  <2>1. /\ UNCHANGED <<report, pc, early>>
        /\ finish'["body"] = finish["body"] \/ finish["body"] \notin {"none", "begun"}
    BY <1>a, <1>9 DEF ReadBack, Truncate, WriteBack, FinishFrame, taskVars
  <2> QED BY <1>1, <2>1
<1>10. CASE Look \/ Amend \/ BeginTurn \/ Iterate \/ Die \/ Poll \/ Forward \/ UNCHANGED vars
  <2>1. UNCHANGED <<report, pc, finish, early>>
    BY <1>10 DEF Look, Amend, BeginTurn, Iterate, Die, Poll, Forward, vars, fileVars, taskVars,
       finishVars,
       historyVars, ChildFrame
  <2> QED BY <1>1, <2>1
<1>11. CASE \E next \in {"between", "finished"} : EndTurn(next)
  BY <1>1, <1>11 DEF EndTurn, ChildFrame, taskVars, finishVars
<1>12. ASSUME NEW r \in Runs, ReadState(r) PROVE ToldInv'
  BY <1>1, <1>12 DEF ReadState, finishVars
<1> QED BY <1>2, <1>3, <1>4, <1>5, <1>6, <1>7, <1>8, <1>9, <1>10, <1>11, <1>12, BriefCases

-----------------------------------------------------------------------------
(***************************************************************************)
(* The theorems.                                                           *)
(***************************************************************************)
\* The invariant is inductive.
LEMMA BriefIInvInit == Init => BriefIInv
<1> SUFFICES ASSUME Init PROVE BriefIInv OBVIOUS
<1>1. Typed /\ RunsInv /\ RewriteInv BY TypedInit, RunsInit
<1>2. /\ pc = [r \in Runs |-> IF r = 1 THEN "queued" ELSE "none"] /\ child = "none" /\ lock = 0
      /\ finish = [f \in Finishers |-> "none"] /\ brief.amends = <<>> /\ Torn.amends = <<>>
      /\ sender.at = "idle" /\ appended = {} /\ written = {} /\ orphan = {}
      /\ prev = [r \in Runs |-> {}] /\ held = Torn
      /\ 1 \in Runs /\ Runs \subseteq Nat \ {0} /\ DOMAIN <<>> = {}
  BY RunOne DEF Init, Torn
<1>3. BegunInv /\ StayInv /\ AgreeInv
  BY <1>2 DEF BegunInv, StayInv, AgreeInv, Open, Rewriting, Finishers
<1>4. HeldInv BY <1>2 DEF HeldInv, Holds, Open
<1>5. OrderInv /\ SettledInv /\ EndInv BY <1>2 DEF OrderInv, SettledInv, EndInv
<1>6. KeptInv BY <1>2 DEF KeptInv
<1>7. ShownInv BY <1>2 DEF ShownInv, Unsettled, Active
<1>8. ToldInv BY <1>2 DEF ToldInv, Finishers
<1> QED BY <1>1, <1>3, <1>4, <1>5, <1>6, <1>7, <1>8 DEF BriefIInv

LEMMA BriefIInvStep == BriefIInv /\ [Next]_vars => BriefIInv'
BY TypedStep, RunsStep, BegunStep, RewriteStep, StayStep, AgreeStep, HeldStep, OrderStep,
   SettledStep, EndStep, KeptStep, ShownStep, ToldStep DEF BriefIInv

LEMMA BriefInvariant == Spec => []BriefIInv
BY BriefIInvInit, BriefIInvStep, PTL DEF Spec

\* An amendment that was appended stays in the brief through every rewrite of
\* it, whoever makes it and whenever a run is stopped, unless a worktree's end
\* held a copy read before (tool/agent.rs:1269-1282).
THEOREM AmendmentsStayPut == Spec => []AmendmentsStay
<1>1. BriefIInv => AmendmentsStay BY DEF BriefIInv, StayInv, AmendmentsStay, InBrief
<1> QED BY <1>1, BriefInvariant, PTL

\* While a turn is on its watcher will come to every amendment that the prompt
\* did not hold, between the read for the prompt and the baseline as later
\* (mode/print.rs:496-499, mode/brief_watch.rs).
THEOREM TurnsMissNone == Spec => []NoneMissed
<1>1. BriefIInv => NoneMissed BY DEF BriefIInv, HeldInv, Holds, NoneMissed
<1> QED BY <1>1, BriefInvariant, PTL

\* However many runs an agent has had, at rest its report holds everything
\* that was ever written to it (spawn_continue_background's merge).
THEOREM ReportsAccumulate == Spec => []ReportsKept
<1>1. BriefIInv => ReportsKept BY DEF BriefIInv, KeptInv, ReportsKept, AtRest
<1> QED BY <1>1, BriefInvariant, PTL

\* What the files say of a run that is over is so: the brief its state, and
\* the report what became of its worktree.
THEOREM FilesTellTheRun == Spec => []RunsTold
<1>1. BriefIInv => TypeOK BY TypesImplyTypeOK DEF BriefIInv
<1>2. BriefIInv => BriefShowsState
  BY DEF BriefIInv, ShownInv, Unsettled, Active, RewriteInv, BriefShowsState, AtRest
<1>3. BriefIInv => OutcomeTold
  <2>1. BriefIInv /\ isolated /\ pc[1] = "telling" /\ end[1] = "ended" => finish["body"] = "done"
    BY DEF BriefIInv, EndInv
  <2> QED BY <2>1 DEF BriefIInv, ToldInv, OutcomeTold
<1> QED BY <1>1, <1>2, <1>3, BriefInvariant, PTL DEF RunsTold

-----------------------------------------------------------------------------
(***************************************************************************)
(* Worktrees.                                                              *)
(***************************************************************************)
Begun == {"status", "commit", "count", "merge", "abort"}
Cleaning == {"remove", "delete"}

\* A finish begins when the child is gone, and tells its outcome when it is
\* through with the merge.
StageInv ==
  /\ \A f \in Finishes : at[f] # "none" => worker[f[1]] = "gone"
  /\ \A f \in Finishes : at[f] \in Begun \cup {"none"} => outcome[f] = "none"

\* A child works in a worktree, on a branch; what is not committed is in one.
PlaceInv ==
  \A a \in Agents :
    /\ worker[a] = "up" => a \in trees /\ a \in branches
    /\ worker[a] = "none" => commits[a] = {}
    /\ edits[a] # {} => a \in trees /\ a \in branches

\* A finish that has committed leaves nothing uncommitted behind, for good.
EditInv ==
  \A f \in Finishes :
    at[f] \in {"count", "merge", "abort"} \cup Cleaning
      \/ outcome[f] \in {"merged", "removed", "conflict"}
      => edits[f[1]] = {}

\* What a finish is about to remove is in the main tree, or is not there.
CommitInv ==
  /\ \A f \in Finishes :
       /\ at[f] \in Cleaning \/ outcome[f] \in {"merged", "removed"} =>
            IF outcome[f] = "merged" THEN commits[f[1]] \subseteq main[f[1]] ELSE commits[f[1]] = {}
       /\ at[f] \in {"merge", "abort"} \/ outcome[f] = "conflict" => commits[f[1]] # {}
  /\ \A a \in Agents : a \in branches \/ commits[a] \subseteq main[a]

\* A branch with work on it goes only after a merge.
GoneInv ==
  \A a \in Agents : commits[a] # {} =>
    a \in trees \cap branches \/ \E g \in Finishes : g[1] = a /\ outcome[g] = "merged"

\* Nothing vanishes.
DoneInv == \A a \in Agents : done[a] \subseteq main[a] \cup edits[a] \cup commits[a] \cup stray[a]

WorktreeIInv ==
  /\ WorktreeTypeOK /\ NothingHalfMerged
  /\ StageInv /\ PlaceInv /\ EditInv /\ CommitInv /\ GoneInv /\ DoneInv

LEMMA FinishesAre ==
  /\ \A f \in Finishes : f[1] \in Agents /\ Agent(f) = f[1]
  /\ \A a \in Agents : /\ <<a, "body">> \in Finishes /\ <<a, "drop">> \in Finishes
                       /\ <<a, "body">>[1] = a /\ <<a, "drop">>[1] = a
BY DEF Finishes, Agent

LEMMA Apart == \A f \in Finishes : f # Nobody /\ f # User
<1> SUFFICES ASSUME NEW f \in Finishes PROVE f # Nobody /\ f # User OBVIOUS
<1>1. PICK a \in Agents, w \in {"body", "drop"} : f = <<a, w>> BY DEF Finishes
<1>2. Len(f) = 2 /\ Len(Nobody) = 1 /\ Len(User) = 1 BY <1>1 DEF Nobody, User
<1> QED BY <1>2

-----------------------------------------------------------------------------
\* The steps, by what they touch.
Works == \E a \in Agents : Create(a) \/ Detach(a) \/ Commit(a) \/ \E i \in Items : Edit(a, i)
Ends == \E a \in Agents : End(a) \/ StopRun(a)
Looks == \E f \in Finishes : Status(f) \/ Count(f) \/ MergeRefused(f)
Commits == \E f \in Finishes : AddAndCommit(f)
Merges == \E f \in Finishes : Merge(f)
Clashes == \E f \in Finishes : MergeConflicts(f) \/ Abort(f)
Cleans == \E f \in Finishes : Remove(f) \/ Delete(f)
Fails == \E f \in Finishes : CommandFails(f)

LEMMA WorktreeCases ==
  ASSUME WorktreeNext
  PROVE  \/ Works \/ Ends \/ UserStep \/ Looks \/ Commits \/ Merges \/ Clashes
         \/ Cleans \/ Fails \/ NanopiDies
BY DEF WorktreeNext, AgentStep, GitStep, Works, Ends, Looks, Commits, Merges, Clashes, Cleans,
   Fails

\* All stays typed, and a finish that is over has an outcome.
LEMMA NextTypeOK == ASSUME WorktreeIInv, WorktreeNext PROVE WorktreeTypeOK'
<1>1. CASE Works
  BY <1>1 DEF Works, Create, Detach, Commit, CommitEdits, Edit, WorktreeIInv, WorktreeTypeOK,
     repoVars,
     workVars
<1>2. CASE Ends
  <2>1. CASE \E a \in Agents : End(a)
    <3>1. PICK a \in Agents : End(a) BY <2>1
    <3>2. <<a, "body">> \in Finishes BY FinishesAre
    <3>3. at' = [at EXCEPT ![<<a, "body">>] = "status"] /\ UNCHANGED outcome
      BY <3>1 DEF End, Proceed
    <3> QED BY <3>1, <3>2, <3>3 DEF End, WorktreeIInv, WorktreeTypeOK, Outcomes, repoVars, workVars
  <2>2. CASE \E a \in Agents : StopRun(a)
    <3>1. PICK a \in Agents : StopRun(a) BY <2>2
    <3>2. <<a, "drop">> \in Finishes BY FinishesAre
    <3>3. at' = [at EXCEPT ![<<a, "drop">>] = "status"] /\ UNCHANGED outcome
      BY <3>1 DEF StopRun, Proceed
    <3> QED BY <3>1, <3>2, <3>3 DEF StopRun, WorktreeIInv, WorktreeTypeOK, Outcomes, repoVars,
         workVars
  <2> QED BY <1>2, <2>1, <2>2 DEF Ends
<1>3. CASE UserStep
  <2>1. merging' \in {<<"none">>, <<"user">>}
    BY <1>3 DEF UserStep, UserMerges, UserConcludes, Nobody, User
  <2> QED BY <1>3, <2>1 DEF UserStep, UserMerges, UserConcludes, WorktreeIInv, WorktreeTypeOK,
       Outcomes, workVars
<1>4. CASE Looks
  BY <1>4 DEF Looks, Status, Count, MergeRefused, Proceed, NextAfterStatus, NextAfterFailure,
     WorktreeIInv, WorktreeTypeOK, repoVars, workVars
<1>5. CASE Commits
  BY <1>5, FinishesAre DEF Commits, AddAndCommit, CommitEdits, Proceed, WorktreeIInv,
     WorktreeTypeOK, repoVars
<1>6. CASE Merges
  BY <1>6, FinishesAre DEF Merges, Merge, Proceed, WorktreeIInv, WorktreeTypeOK, Outcomes, workVars
<1>7. CASE Clashes
  <2>1. PICK f \in Finishes : MergeConflicts(f) \/ Abort(f) BY <1>7 DEF Clashes
  <2>2. merging' \in Finishes \cup {<<"none">>, <<"user">>}
    BY <2>1 DEF MergeConflicts, Abort, Cleared, Nobody
  <2>3. CASE MergeConflicts(f)
    BY <2>2, <2>3 DEF MergeConflicts, Proceed, Under, NextAfterFailure, WorktreeIInv,
       WorktreeTypeOK,
       Outcomes, workVars
  <2>4. CASE Abort(f)
    BY <2>2, <2>4 DEF Abort, Proceed, Under, WorktreeIInv, WorktreeTypeOK, Outcomes, workVars
  <2> QED BY <2>1, <2>3, <2>4
<1>8. CASE Cleans
  BY <1>8 DEF Cleans, Remove, Delete, Proceed, WorktreeIInv, WorktreeTypeOK, Outcomes, workVars
<1>9. CASE Fails
  BY <1>9 DEF Fails, CommandFails, Failed, Proceed, WorktreeIInv, WorktreeTypeOK, Outcomes,
     repoVars, workVars
<1>10. CASE NanopiDies
  BY <1>10 DEF NanopiDies, WorktreeIInv, WorktreeTypeOK, repoVars, workVars
<1> QED BY <1>1, <1>2, <1>3, <1>4, <1>5, <1>6, <1>7, <1>8, <1>9, <1>10, WorktreeCases

\* A merge in progress stays its finish's until the abort.
LEMMA NextNothingHalfMerged == ASSUME WorktreeIInv, WorktreeNext PROVE NothingHalfMerged'
<1>1. CASE Works
  BY <1>1 DEF Works, Create, Detach, Commit, Edit, WorktreeIInv, NothingHalfMerged, repoVars
<1>2. CASE Ends
  BY <1>2 DEF Ends, End, StopRun, Proceed, WorktreeIInv, NothingHalfMerged, WorktreeTypeOK,
     StageInv, repoVars
<1>3. CASE UserStep
  BY <1>3, Apart DEF UserStep, UserMerges, UserConcludes, NothingHalfMerged
<1>4. CASE Looks
  BY <1>4 DEF Looks, Status, Count, MergeRefused, Proceed, Under, WorktreeIInv, NothingHalfMerged,
     WorktreeTypeOK, repoVars
<1>5. CASE Commits
  BY <1>5 DEF Commits, AddAndCommit, Proceed, Under, WorktreeIInv, NothingHalfMerged, repoVars
<1>6. CASE Merges
  BY <1>6, Apart DEF Merges, Merge, NothingHalfMerged
<1>7. CASE Clashes
  BY <1>7, Apart DEF Clashes, MergeConflicts, Abort, Cleared, Proceed, NextAfterFailure,
     WorktreeIInv, NothingHalfMerged, WorktreeTypeOK
<1>8. CASE Cleans
  BY <1>8 DEF Cleans, Remove, Delete, Proceed, Under, WorktreeIInv, NothingHalfMerged,
     WorktreeTypeOK
<1>9. CASE Fails
  BY <1>9 DEF Fails, CommandFails, Proceed, Under, WorktreeIInv, NothingHalfMerged, repoVars
<1>10. CASE NanopiDies
  BY <1>10 DEF NanopiDies, WorktreeIInv, NothingHalfMerged, repoVars
<1> QED BY <1>1, <1>2, <1>3, <1>4, <1>5, <1>6, <1>7, <1>8, <1>9, <1>10, WorktreeCases

\* A finish starts once its child is gone, and has its outcome from the merge on.
LEMMA NextStageInv == ASSUME WorktreeIInv, WorktreeNext PROVE StageInv'
<1>1. CASE Works
  BY <1>1, FinishesAre DEF Works, Create, Detach, Commit, Edit, WorktreeIInv, StageInv,
     WorktreeTypeOK
<1>2. CASE Ends
  BY <1>2, FinishesAre, Apart DEF Ends, End, StopRun, Proceed, WorktreeIInv, StageInv,
     WorktreeTypeOK
<1>3. CASE UserStep
  BY <1>3 DEF UserStep, UserMerges, UserConcludes, WorktreeIInv, StageInv
<1>4. CASE Looks
  BY <1>4 DEF Looks, Status, Count, MergeRefused, Proceed, Under, WorktreeIInv, StageInv,
     WorktreeTypeOK, Begun
<1>5. CASE Commits
  BY <1>5 DEF Commits, AddAndCommit, Proceed, Under, WorktreeIInv, StageInv, Begun
<1>6. CASE Merges
  BY <1>6 DEF Merges, Merge, Proceed, Under, WorktreeIInv, StageInv, WorktreeTypeOK, Begun
<1>7. CASE Clashes
  BY <1>7 DEF Clashes, MergeConflicts, Abort, Proceed, Under, WorktreeIInv, StageInv,
     WorktreeTypeOK, Begun
<1>8. CASE Cleans
  BY <1>8 DEF Cleans, Remove, Delete, Proceed, Under, WorktreeIInv, StageInv, WorktreeTypeOK, Begun
<1>9. CASE Fails
  BY <1>9 DEF Fails, CommandFails, Failed, Proceed, Under, WorktreeIInv, StageInv, WorktreeTypeOK,
     Begun
<1>10. CASE NanopiDies
  BY <1>10, FinishesAre DEF NanopiDies, WorktreeIInv, StageInv, Begun
<1> QED BY <1>1, <1>2, <1>3, <1>4, <1>5, <1>6, <1>7, <1>8, <1>9, <1>10, WorktreeCases

\* Worktree and branch outlive the child and what is uncommitted.
LEMMA NextPlaceInv == ASSUME WorktreeIInv, WorktreeNext PROVE PlaceInv'
<1>1. CASE Works
  BY <1>1 DEF Works, Create, Detach, Commit, CommitEdits, Edit, WorktreeIInv, PlaceInv,
     WorktreeTypeOK,
     repoVars, workVars
<1>2. CASE Ends
  BY <1>2 DEF Ends, End, StopRun, WorktreeIInv, PlaceInv, WorktreeTypeOK, repoVars, workVars
<1>3. CASE UserStep
  BY <1>3 DEF UserStep, UserMerges, UserConcludes, WorktreeIInv, PlaceInv, workVars
<1>4. CASE Looks
  BY <1>4 DEF Looks, Status, Count, MergeRefused, WorktreeIInv, PlaceInv, repoVars, workVars
<1>5. CASE Commits
  BY <1>5, FinishesAre DEF Commits, AddAndCommit, CommitEdits, Under, WorktreeIInv, PlaceInv,
     WorktreeTypeOK, StageInv, repoVars
<1>6. CASE Merges
  BY <1>6 DEF Merges, Merge, WorktreeIInv, PlaceInv, workVars
<1>7. CASE Clashes
  BY <1>7 DEF Clashes, MergeConflicts, Abort, WorktreeIInv, PlaceInv, workVars
<1>8. CASE Cleans
  <2>1. CASE \E f \in Finishes : Remove(f)
    BY <2>1, FinishesAre DEF Remove, Proceed, Under, HasTree, Agent, WorktreeIInv, PlaceInv,
       StageInv, WorktreeTypeOK
  <2>2. CASE \E f \in Finishes : Delete(f)
    <3>1. PICK f \in Finishes : Delete(f) BY <2>2
    <3>2. f[1] \in Agents /\ worker[f[1]] = "gone" /\ edits[f[1]] = {}
      BY <3>1, FinishesAre DEF Delete, Under, WorktreeIInv, StageInv, EditInv, Cleaning
    <3> QED BY <3>1, <3>2 DEF Delete, Agent, WorktreeIInv, PlaceInv, WorktreeTypeOK, workVars
  <2> QED BY <1>8, <2>1, <2>2 DEF Cleans
<1>9. CASE Fails
  BY <1>9 DEF Fails, CommandFails, WorktreeIInv, PlaceInv, repoVars, workVars
<1>10. CASE NanopiDies
  BY <1>10 DEF NanopiDies, WorktreeIInv, PlaceInv, repoVars, workVars
<1> QED BY <1>1, <1>2, <1>3, <1>4, <1>5, <1>6, <1>7, <1>8, <1>9, <1>10, WorktreeCases

\* After the commit nothing is uncommitted: the child is gone.
LEMMA NextEditInv == ASSUME WorktreeIInv, WorktreeNext PROVE EditInv'
<1>1. CASE Works
  BY <1>1, FinishesAre DEF Works, Create, Detach, Commit, CommitEdits, Edit, WorktreeIInv, EditInv,
     WorktreeTypeOK, StageInv, Cleaning, workVars
<1>2. CASE Ends
  <2>1. PICK f \in Finishes : at[f] = "none" /\ at' = [at EXCEPT ![f] = "status"]
    BY <1>2, FinishesAre DEF Ends, End, StopRun, Proceed, WorktreeIInv, StageInv
  <2>2. outcome[f] = "none" BY <2>1 DEF WorktreeIInv, StageInv
  <2>3. UNCHANGED <<edits, outcome>> BY <1>2 DEF Ends, End, StopRun, workVars
  <2> QED BY <2>1, <2>2, <2>3 DEF WorktreeIInv, EditInv, WorktreeTypeOK, Cleaning
<1>3. CASE UserStep
  BY <1>3 DEF UserStep, UserMerges, UserConcludes, WorktreeIInv, EditInv, workVars
<1>4. CASE Looks
  BY <1>4, FinishesAre DEF Looks, Status, Count, MergeRefused, Proceed, Under, NextAfterStatus,
     WorktreeIInv, EditInv, WorktreeTypeOK, Cleaning, workVars
<1>5. CASE Commits
  BY <1>5, FinishesAre DEF Commits, AddAndCommit, CommitEdits, Proceed, WorktreeIInv, EditInv,
     WorktreeTypeOK
<1>6. CASE Merges
  BY <1>6 DEF Merges, Merge, Proceed, Under, WorktreeIInv, EditInv, workVars
<1>7. CASE Clashes
  BY <1>7 DEF Clashes, MergeConflicts, Abort, Proceed, Under, WorktreeIInv, EditInv,
     WorktreeTypeOK, workVars
<1>8. CASE Cleans
  BY <1>8, FinishesAre DEF Cleans, Remove, Delete, Proceed, Under, WorktreeIInv, EditInv,
     WorktreeTypeOK,
     Cleaning, workVars
<1>9. CASE Fails
  BY <1>9 DEF Fails, CommandFails, Failed, Proceed, WorktreeIInv, EditInv, Cleaning, workVars
<1>10. CASE NanopiDies
  BY <1>10 DEF NanopiDies, WorktreeIInv, EditInv, Cleaning, workVars
<1> QED BY <1>1, <1>2, <1>3, <1>4, <1>5, <1>6, <1>7, <1>8, <1>9, <1>10, WorktreeCases

\* No commit is added under a finish that has counted: nothing is left to commit.
LEMMA NextCommitInv == ASSUME WorktreeIInv, WorktreeNext PROVE CommitInv'
<1>1. CASE Works
  BY <1>1, FinishesAre DEF Works, Create, Detach, Commit, CommitEdits, Edit, WorktreeIInv,
     CommitInv, WorktreeTypeOK, EditInv, PlaceInv, repoVars, workVars
<1>2. CASE Ends
  BY <1>2, FinishesAre, Apart DEF Ends, End, StopRun, Proceed, WorktreeIInv, CommitInv,
     WorktreeTypeOK, EditInv,
     PlaceInv, Cleaning, Outcomes, Agent, repoVars, workVars
<1>3. CASE UserStep
  BY <1>3 DEF UserStep, UserMerges, UserConcludes, WorktreeIInv, CommitInv, workVars
<1>4. CASE Looks
  BY <1>4, FinishesAre DEF Looks, Status, Count, MergeRefused, Proceed, Under, NextAfterStatus,
     NextAfterFailure, WorktreeIInv, CommitInv, WorktreeTypeOK, Cleaning, repoVars, workVars
<1>5. CASE Commits
  BY <1>5, FinishesAre DEF Commits, AddAndCommit, CommitEdits, Proceed, WorktreeIInv, CommitInv,
     WorktreeTypeOK, EditInv, PlaceInv, Cleaning, repoVars
<1>6. CASE Merges
  BY <1>6, FinishesAre DEF Merges, Merge, Proceed, WorktreeIInv, CommitInv, WorktreeTypeOK, workVars
<1>7. CASE Clashes
  BY <1>7, FinishesAre DEF Clashes, MergeConflicts, Abort, Proceed, Under, NextAfterFailure,
     WorktreeIInv, CommitInv, WorktreeTypeOK, Cleaning, workVars
<1>8. CASE Cleans
  BY <1>8, FinishesAre DEF Cleans, Remove, Delete, Proceed, Under, WorktreeIInv, CommitInv,
     WorktreeTypeOK,
     Cleaning, workVars
<1>9. CASE Fails
  BY <1>9 DEF Fails, CommandFails, Failed, Proceed, WorktreeIInv, CommitInv, Cleaning, repoVars,
     workVars
<1>10. CASE NanopiDies
  BY <1>10 DEF NanopiDies, WorktreeIInv, CommitInv, Cleaning, repoVars, workVars
<1> QED BY <1>1, <1>2, <1>3, <1>4, <1>5, <1>6, <1>7, <1>8, <1>9, <1>10, WorktreeCases

\* Worktree and branch go together with a merge, or had no commits.
LEMMA NextGoneInv == ASSUME WorktreeIInv, WorktreeNext PROVE GoneInv'
<1>1. CASE Works
  BY <1>1 DEF Works, Create, Detach, Commit, CommitEdits, Edit, WorktreeIInv, GoneInv,
     WorktreeTypeOK,
     PlaceInv, repoVars, workVars
<1>2. CASE Ends
  BY <1>2 DEF Ends, End, StopRun, WorktreeIInv, GoneInv, repoVars, workVars
<1>3. CASE UserStep
  BY <1>3 DEF UserStep, UserMerges, UserConcludes, WorktreeIInv, GoneInv, workVars
<1>4. CASE Looks
  BY <1>4 DEF Looks, Status, Count, MergeRefused, WorktreeIInv, GoneInv, repoVars, workVars
<1>5. CASE Commits
  BY <1>5 DEF Commits, AddAndCommit, CommitEdits, WorktreeIInv, GoneInv, WorktreeTypeOK, PlaceInv,
     repoVars
<1>6. CASE Merges
  BY <1>6 DEF Merges, Merge, WorktreeIInv, GoneInv, workVars
<1>7. CASE Clashes
  BY <1>7 DEF Clashes, MergeConflicts, Abort, Under, WorktreeIInv, GoneInv, WorktreeTypeOK,
     StageInv,
     Begun, workVars
<1>8. CASE Cleans
  BY <1>8, FinishesAre DEF Cleans, Remove, Delete, Under, WorktreeIInv, GoneInv, WorktreeTypeOK,
     CommitInv,
     Cleaning, workVars
<1>9. CASE Fails
  BY <1>9 DEF Fails, CommandFails, Failed, WorktreeIInv, GoneInv, repoVars, workVars
<1>10. CASE NanopiDies
  BY <1>10 DEF NanopiDies, WorktreeIInv, GoneInv, repoVars, workVars
<1> QED BY <1>1, <1>2, <1>3, <1>4, <1>5, <1>6, <1>7, <1>8, <1>9, <1>10, WorktreeCases

\* Work moves, and none of it vanishes.
LEMMA NextDoneInv == ASSUME WorktreeIInv, WorktreeNext PROVE DoneInv'
<1>1. CASE Works
  BY <1>1 DEF Works, Create, Detach, Commit, CommitEdits, Edit, WorktreeIInv, DoneInv,
     WorktreeTypeOK,
     repoVars, workVars
<1>2. CASE Ends
  BY <1>2 DEF Ends, End, StopRun, WorktreeIInv, DoneInv, repoVars, workVars
<1>3. CASE UserStep
  BY <1>3 DEF UserStep, UserMerges, UserConcludes, WorktreeIInv, DoneInv, workVars
<1>4. CASE Looks
  BY <1>4 DEF Looks, Status, Count, MergeRefused, WorktreeIInv, DoneInv, repoVars, workVars
<1>5. CASE Commits
  BY <1>5 DEF Commits, AddAndCommit, CommitEdits, WorktreeIInv, DoneInv, WorktreeTypeOK, repoVars
<1>6. CASE Merges
  BY <1>6 DEF Merges, Merge, WorktreeIInv, DoneInv, workVars
<1>7. CASE Clashes
  BY <1>7 DEF Clashes, MergeConflicts, Abort, WorktreeIInv, DoneInv, workVars
<1>8. CASE Cleans
  BY <1>8, FinishesAre DEF Cleans, Remove, Delete, Under, WorktreeIInv, DoneInv, WorktreeTypeOK,
     EditInv,
     Cleaning, workVars
<1>9. CASE Fails
  BY <1>9 DEF Fails, CommandFails, WorktreeIInv, DoneInv, repoVars, workVars
<1>10. CASE NanopiDies
  BY <1>10 DEF NanopiDies, WorktreeIInv, DoneInv, repoVars, workVars
<1> QED BY <1>1, <1>2, <1>3, <1>4, <1>5, <1>6, <1>7, <1>8, <1>9, <1>10, WorktreeCases

-----------------------------------------------------------------------------
\* Nothing is begun.
LEMMA InitInv == ASSUME WorktreeInit PROVE WorktreeIInv
<1> \A f \in Finishes : at[f] = "none" /\ outcome[f] = "none" BY DEF WorktreeInit
<1>1. WorktreeTypeOK BY DEF WorktreeInit, WorktreeTypeOK, Outcomes, Nobody
<1>2. NothingHalfMerged BY Apart DEF WorktreeInit, NothingHalfMerged
<1>3. StageInv /\ EditInv BY DEF StageInv, EditInv, Cleaning
<1>4. PlaceInv BY DEF WorktreeInit, PlaceInv
<1>5. CommitInv /\ GoneInv BY DEF WorktreeInit, CommitInv, GoneInv, Cleaning
<1>6. DoneInv BY DEF WorktreeInit, DoneInv
<1> QED BY <1>1, <1>2, <1>3, <1>4, <1>5, <1>6 DEF WorktreeIInv

LEMMA NextInv == ASSUME WorktreeIInv, [WorktreeNext]_worktreeVars PROVE WorktreeIInv'
<1>1. CASE WorktreeNext
  BY <1>1, NextTypeOK, NextNothingHalfMerged, NextStageInv, NextPlaceInv, NextEditInv,
     NextCommitInv, NextGoneInv, NextDoneInv DEF WorktreeIInv
<1>2. CASE UNCHANGED worktreeVars
  <2> UNCHANGED <<worker, trees, branches, edits, commits, stray, done, main, merging, at, outcome>>
      /\ UNCHANGED detached
    BY <1>2 DEF worktreeVars, repoVars, workVars
  <2>1. WorktreeTypeOK' BY DEF WorktreeIInv, WorktreeTypeOK
  <2>2. NothingHalfMerged' /\ StageInv' BY DEF WorktreeIInv, NothingHalfMerged, StageInv
  <2>3. PlaceInv' /\ EditInv' BY DEF WorktreeIInv, PlaceInv, EditInv
  <2>4. CommitInv' BY DEF WorktreeIInv, CommitInv
  <2>5. GoneInv' /\ DoneInv' BY DEF WorktreeIInv, GoneInv, DoneInv
  <2> QED BY <2>1, <2>2, <2>3, <2>4, <2>5 DEF WorktreeIInv
<1> QED BY <1>1, <1>2

LEMMA Invariance == WorktreeSpec => []WorktreeIInv
BY InitInv, NextInv, PTL DEF WorktreeSpec

-----------------------------------------------------------------------------
\* The state is well formed, and the main tree is in the middle of a finish's
\* merge only while that finish is at its abort, or dead: however many finishes
\* merge at once, and whatever the user merges meanwhile.
THEOREM MainIsSound == WorktreeSpec => []MainSound
<1>1. ASSUME WorktreeIInv PROVE MainSound BY <1>1 DEF WorktreeIInv, MainSound
<1> QED BY <1>1, Invariance, PTL

\* "partial work is never discarded" (tool/agent.rs:1721): for any agents and
\* any work, an item an agent made is in its worktree, on its branch, in the
\* main tree, or was committed off the branch by the agent's own doing.
THEOREM WorkIsKept == WorktreeSpec => []WorkKept
<1>1. ASSUME WorktreeIInv PROVE WorkKept
  <2> SUFFICES ASSUME NEW a \in Agents PROVE done[a] \subseteq Safe(a) \cup stray[a]
    BY DEF WorkKept
  <2>1. done[a] \subseteq main[a] \cup edits[a] \cup commits[a] \cup stray[a]
    BY <1>1 DEF WorktreeIInv, DoneInv
  <2>2. a \in trees \/ edits[a] = {} BY <1>1 DEF WorktreeIInv, PlaceInv
  <2>3. a \in branches \/ commits[a] \subseteq main[a] BY <1>1 DEF WorktreeIInv, CommitInv
  <2> QED BY <2>1, <2>2, <2>3 DEF Safe
<1> QED BY <1>1, Invariance, PTL

\* What the report says of a worktree is so, for any number of finishes:
\* "merged" is in the main tree, "removed" had nothing on its branch, and a
\* conflict leaves branch and worktree, unless the agent's other finish merged.
THEOREM OutcomesAreTrue == WorktreeSpec => []OutcomeTrue
<1>1. ASSUME WorktreeIInv PROVE OutcomeTrue
  <2> SUFFICES ASSUME NEW f \in Finishes
               PROVE  /\ outcome[f] = "merged" => commits[f[1]] \subseteq main[f[1]]
                      /\ outcome[f] = "removed" => commits[f[1]] = {} /\ edits[f[1]] = {}
                      /\ outcome[f] = "conflict" =>
                           \/ f[1] \in trees \cap branches
                           \/ \E g \in Finishes : g[1] = f[1] /\ outcome[g] = "merged"
    BY DEF OutcomeTrue, Agent
  <2>1. f[1] \in Agents BY FinishesAre
  <2>2. outcome[f] \in {"merged", "removed"} =>
          IF outcome[f] = "merged" THEN commits[f[1]] \subseteq main[f[1]] ELSE commits[f[1]] = {}
    BY <1>1 DEF WorktreeIInv, CommitInv
  <2>3. outcome[f] = "removed" => edits[f[1]] = {} BY <1>1 DEF WorktreeIInv, EditInv
  <2>4. outcome[f] = "conflict" => commits[f[1]] # {} BY <1>1 DEF WorktreeIInv, CommitInv
  <2> QED BY <1>1, <2>1, <2>2, <2>3, <2>4 DEF WorktreeIInv, GoneInv
<1> QED BY <1>1, Invariance, PTL
=============================================================================
