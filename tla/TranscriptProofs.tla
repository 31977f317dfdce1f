-------------------------- MODULE TranscriptProofs --------------------------
(***************************************************************************)
(* Theorems about Transcript, for any calls, keys, numbers of turns,       *)
(* compactions and crashes: what the session file says of the conversation *)
(* and the calls, and the order the calls of a batch run in.               *)
(*                                                                         *)
(* Replay, Repair and the layout of what they return are recursive; their  *)
(* lemmas go from one step of the recursion to the next with LeastNat, as  *)
(* an induction theorem with an operator parameter cannot be used here.    *)
(***************************************************************************)
EXTENDS Transcript, SequenceTheorems, FiniteSetTheorems, WellFoundedInduction,
        NaturalsInduction, TLAPS

-----------------------------------------------------------------------------
(***************************************************************************)
(* Recursive functions.                                                    *)
(***************************************************************************)

\* A non-empty set of naturals has a least element.
LEMMA LeastNat ==
  ASSUME NEW T \in SUBSET Nat, T # {}
  PROVE  \E m \in T : \A n \in T : m <= n
<1>1. IsWellFoundedOn(OpToRel(<, Nat), Nat)
  BY NatLessThanWellFounded
<1>2. PICK m \in T : \A n \in T : <<n, m>> \notin OpToRel(<, Nat)
  BY <1>1, WFMin
<1>3. \A n \in T : ~(n < m)
  BY <1>2 DEF OpToRel
<1>4. QED
  BY <1>3

\* Induction, for the sets that the provers can name.
LEMMA NatInduct ==
  ASSUME NEW S, 0 \in S, \A n \in Nat : n \in S => n + 1 \in S
  PROVE  Nat \subseteq S
<1> SUFFICES ASSUME Nat \ S # {} PROVE FALSE
  OBVIOUS
<1>1. PICK m \in Nat \ S : \A n \in Nat \ S : m <= n
  BY LeastNat
<1>2. m - 1 \in Nat
  BY <1>1
<1>3. QED
  BY <1>1, <1>2

\* The recursive function Replay takes its value from.
IsReplay(f, lines, n) ==
  f = [i \in 0 .. n |-> IF i = 0 THEN <<>> ELSE Replay1(f[i - 1], lines, i)]

\* Such a function exists for every file.
LEMMA ReplayExists ==
  ASSUME NEW lines, NEW n \in Nat
  PROVE  \E f : IsReplay(f, lines, n)
<1> DEFINE S == {k \in Nat : \E f : IsReplay(f, lines, k)}
<1>1. 0 \in S
  <2>1. IsReplay([i \in 0 .. 0 |-> <<>>], lines, 0)
    BY DEF IsReplay
  <2>2. QED
    BY <2>1
<1>2. ASSUME NEW k \in Nat, k \in S PROVE k + 1 \in S
  <2>1. PICK f : IsReplay(f, lines, k)
    BY <1>2
  <2> DEFINE g == [i \in 0 .. k + 1 |-> IF i = k + 1 THEN Replay1(f[k], lines, k + 1) ELSE f[i]]
  <2>2. \A i \in 0 .. k : g[i] = f[i]
    OBVIOUS
  <2>3. \A i \in 0 .. k : f[i] = IF i = 0 THEN <<>> ELSE Replay1(f[i - 1], lines, i)
    BY <2>1 DEF IsReplay
  <2>4. \A i \in 0 .. k + 1 : g[i] = IF i = 0 THEN <<>> ELSE Replay1(g[i - 1], lines, i)
    <3> SUFFICES ASSUME NEW i \in 0 .. k + 1
                 PROVE  g[i] = IF i = 0 THEN <<>> ELSE Replay1(g[i - 1], lines, i)
      OBVIOUS
    <3>1. CASE i = k + 1
      <4>1. g[i] = Replay1(f[k], lines, i) /\ g[i - 1] = f[k]
        BY <3>1
      <4>2. QED
        BY <3>1, <4>1
    <3>2. CASE i \in 0 .. k
      <4>1. i # 0 => i - 1 \in 0 .. k
        BY <3>2
      <4> HIDE DEF g
      <4>2. QED
        BY <2>2, <2>3, <3>2, <4>1
    <3>3. QED
      BY <3>1, <3>2
  <2>5. DOMAIN g = 0 .. k + 1 /\ g = [i \in 0 .. k + 1 |-> g[i]]
    OBVIOUS
  <2> HIDE DEF g
  <2>6. IsReplay(g, lines, k + 1)
    BY <2>4, <2>5 DEF IsReplay
  <2>7. QED
    BY <2>6
<1> HIDE DEF S
<1>3. Nat \subseteq S
  BY <1>1, <1>2, NatInduct
<1>4. QED
  BY <1>3 DEF S

\* So Replay may be reasoned about line by line.
LEMMA ReplayIs ==
  ASSUME NEW T, NEW lines \in Seq(T)
  PROVE  \E f : IsReplay(f, lines, Len(lines)) /\ Replay(lines) = f[Len(lines)]
<1> DEFINE f == CHOOSE g : IsReplay(g, lines, Len(lines))
<1>1. Len(lines) \in Nat
  OBVIOUS
<1>2. \E g : IsReplay(g, lines, Len(lines))
  BY <1>1, ReplayExists
<1>3. IsReplay(f, lines, Len(lines))
  BY <1>2
<1>4. Replay(lines) = f[Len(lines)]
  BY DEF Replay, IsReplay
<1>5. QED
  BY <1>3, <1>4

\* Two replays agree as far as their lines do.
LEMMA ReplaysAgree ==
  ASSUME NEW T, NEW s \in Seq(T), NEW t \in Seq(T), NEW n \in Nat, NEW m \in Nat,
         NEW l \in Nat, l <= n, l <= m, l <= Len(s), l <= Len(t),
         \A i \in 1 .. l : s[i] = t[i],
         NEW f, NEW g, IsReplay(f, s, n), IsReplay(g, t, m)
  PROVE  f[l] = g[l]
<1> DEFINE S == {k \in Nat : k <= l => f[k] = g[k]}
<1>1. \A k \in 0 .. l : /\ f[k] = IF k = 0 THEN <<>> ELSE Replay1(f[k - 1], s, k)
                        /\ g[k] = IF k = 0 THEN <<>> ELSE Replay1(g[k - 1], t, k)
  BY DEF IsReplay
<1>2. 0 \in S
  BY <1>1
<1>3. ASSUME NEW k \in Nat, k \in S PROVE k + 1 \in S
  <2> SUFFICES ASSUME k + 1 <= l PROVE f[k + 1] = g[k + 1]
    OBVIOUS
  <2>1. f[k] = g[k] /\ k + 1 \in 1 .. l
    BY <1>3
  <2>2. f[k + 1] = Replay1(f[k], s, k + 1) /\ g[k + 1] = Replay1(g[k], t, k + 1)
    BY <1>1, <2>1
  <2>3. s[k + 1] = t[k + 1] /\ (k > 0 => s[k] = t[k])
    BY <2>1
  <2>4. Replay1(f[k], s, k + 1) = Replay1(f[k], t, k + 1)
    BY <2>3 DEF Replay1, Joins
  <2>5. QED
    BY <2>1, <2>2, <2>4
<1> HIDE DEF S
<1>4. Nat \subseteq S
  BY <1>2, <1>3, NatInduct
<1>5. QED
  BY <1>4 DEF S

\* An empty file replays to nothing.
LEMMA ReplayNothing == Replay(<<>>) = <<>>
<1>1. <<>> \in Seq({}) /\ Len(<<>>) = 0
  OBVIOUS
<1>2. PICK f : IsReplay(f, <<>>, 0) /\ Replay(<<>>) = f[0]
  BY <1>1, ReplayIs
<1>3. QED
  BY <1>2 DEF IsReplay

\* One more line is replayed over what the lines before it gave.
LEMMA ReplayAppend ==
  ASSUME NEW T, NEW lines \in Seq(T), NEW e \in T
  PROVE  Replay(Append(lines, e)) = Replay1(Replay(lines), Append(lines, e), Len(lines) + 1)
<1> DEFINE more == Append(lines, e)
           n == Len(lines)
<1>1. more \in Seq(T) /\ Len(more) = n + 1 /\ \A i \in 1 .. n : more[i] = lines[i]
  OBVIOUS
<1>2. n \in Nat
  OBVIOUS
<1> HIDE DEF more
<1>3. PICK f : IsReplay(f, lines, n) /\ Replay(lines) = f[n]
  BY ReplayIs
<1>4. PICK g : IsReplay(g, more, n + 1) /\ Replay(more) = g[n + 1]
  BY ReplayIs, <1>1
<1>5. f[n] = g[n]
  <2> HIDE DEF n
  <2>1. n <= Len(lines) /\ n <= Len(more) /\ n <= n + 1 /\ n + 1 \in Nat
    BY <1>1, <1>2 DEF n
  <2>2. QED
    BY <1>1, <1>2, <1>3, <1>4, <2>1, ReplaysAgree
<1>6. g[n + 1] = Replay1(g[n], more, n + 1)
  BY <1>2, <1>4 DEF IsReplay
<1>7. QED
  BY <1>3, <1>4, <1>5, <1>6 DEF more

-----------------------------------------------------------------------------
IsFlat(f, ss, n) == f = [i \in 1 .. n |-> IF i = 1 THEN ss[i] ELSE f[i - 1] \o ss[i]]

\* The same for FlattenSeq, which Repair is written with.
LEMMA FlatExists ==
  ASSUME NEW ss, NEW n \in Nat
  PROVE  \E f : IsFlat(f, ss, n)
<1> DEFINE S == {k \in Nat : \E f : IsFlat(f, ss, k)}
<1>1. 0 \in S
  <2>1. IsFlat([i \in 1 .. 0 |-> <<>>], ss, 0)
    BY DEF IsFlat
  <2>2. QED
    BY <2>1
<1>2. ASSUME NEW k \in Nat, k \in S PROVE k + 1 \in S
  <2>1. PICK f : IsFlat(f, ss, k)
    BY <1>2
  <2> DEFINE last == IF k = 0 THEN ss[1] ELSE f[k] \o ss[k + 1]
             g == [i \in 1 .. k + 1 |-> IF i = k + 1 THEN last ELSE f[i]]
  <2>2. (\A i \in 1 .. k : g[i] = f[i]) /\ g[k + 1] = last
    <3> HIDE DEF last
    <3>1. k + 1 \in 1 .. k + 1 /\ \A i \in 1 .. k : i \in 1 .. k + 1 /\ i # k + 1
      OBVIOUS
    <3>2. QED
      BY <3>1
  <2>3. \A i \in 1 .. k : f[i] = IF i = 1 THEN ss[i] ELSE f[i - 1] \o ss[i]
    BY <2>1 DEF IsFlat
  <2>4. DOMAIN g = 1 .. k + 1 /\ g = [i \in 1 .. k + 1 |-> g[i]]
    OBVIOUS
  <2> HIDE DEF g
  <2>5. \A i \in 1 .. k + 1 : g[i] = IF i = 1 THEN ss[i] ELSE g[i - 1] \o ss[i]
    <3> SUFFICES ASSUME NEW i \in 1 .. k + 1
                 PROVE  g[i] = IF i = 1 THEN ss[i] ELSE g[i - 1] \o ss[i]
      OBVIOUS
    <3>1. CASE i = k + 1
      <4>1. k # 0 => g[i - 1] = f[k]
        BY <2>2, <3>1
      <4>2. QED
        BY <2>2, <3>1, <4>1
    <3>2. CASE i \in 1 .. k
      <4>1. i # 1 => i - 1 \in 1 .. k
        BY <3>2
      <4>2. QED
        BY <2>2, <2>3, <3>2, <4>1
    <3>3. QED
      BY <3>1, <3>2
  <2>6. IsFlat(g, ss, k + 1)
    BY <2>4, <2>5 DEF IsFlat
  <2>7. QED
    BY <2>6
<1> HIDE DEF S
<1>3. Nat \subseteq S
  BY <1>1, <1>2, NatInduct
<1>4. QED
  BY <1>3 DEF S

\* The first n blocks lie in flat one behind the other: before[i] elements
\* come before the i-th.
IsLayout(before, flat, ss, n) ==
  /\ before \in [1 .. n + 1 -> Nat]
  /\ before[1] = 0 /\ before[n + 1] = Len(flat)
  /\ \A i \in 1 .. n : /\ before[i + 1] = before[i] + Len(ss[i])
                       /\ \A k \in 1 .. Len(ss[i]) : flat[before[i] + k] = ss[i][k]
  /\ \A i, h \in 1 .. n + 1 : i < h => before[i] <= before[h]
  /\ \A i, h \in 1 .. n : i < h => before[i + 1] <= before[h]
  /\ \A j \in 1 .. Len(flat) : \E i \in 1 .. n : \E k \in 1 .. Len(ss[i]) : j = before[i] + k

\* Arithmetic of the layout, apart from everything else.
LEMMA WithinRange ==
  ASSUME NEW p \in Nat, NEW l \in Nat, NEW q \in Nat, NEW k \in 1 .. l, p + l <= q
  PROVE  p + k \in 1 .. q
OBVIOUS

\* One more sequence is laid out behind the others.
LEMMA LayoutExtended ==
  ASSUME NEW T, NEW ss \in Seq(Seq(T)), NEW n \in Nat, n + 1 <= Len(ss),
         NEW flat \in Seq(T), NEW before, IsLayout(before, flat, ss, n)
  PROVE  \E b : IsLayout(b, flat \o ss[n + 1], ss, n + 1)
<1> DEFINE more == flat \o ss[n + 1]
           b == [i \in 1 .. n + 2 |-> IF i = n + 2 THEN Len(more) ELSE before[i]]
<1>1. ss[n + 1] \in Seq(T)
  OBVIOUS
<1>2. /\ more \in Seq(T)
      /\ Len(more) = Len(flat) + Len(ss[n + 1])
      /\ \A j \in 1 .. Len(flat) : more[j] = flat[j]
      /\ \A k \in 1 .. Len(ss[n + 1]) : more[Len(flat) + k] = ss[n + 1][k]
  BY <1>1, ConcatProperties
<1>3. Len(more) \in Nat /\ Len(flat) \in Nat /\ \A i \in 1 .. n + 1 : Len(ss[i]) \in Nat
  BY <1>1, <1>2
<1> HIDE DEF more
<1>4. \A i \in 1 .. n + 1 : b[i] = before[i] /\ before[i] \in Nat
  BY DEF IsLayout
<1>5. b[n + 2] = Len(more) /\ b \in [1 .. n + 2 -> Nat]
  <2>1. n + 2 \in 1 .. n + 2 /\ \A i \in 1 .. n + 2 : i # n + 2 => i \in 1 .. n + 1
    OBVIOUS
  <2>2. b[n + 2] = Len(more) /\ DOMAIN b = 1 .. n + 2 /\ b = [i \in DOMAIN b |-> b[i]]
    BY <2>1
  <2> HIDE DEF b
  <2>3. \A i \in 1 .. n + 2 : b[i] \in Nat
    BY <1>3, <1>4, <2>1, <2>2
  <2>4. QED
    BY <2>2, <2>3
<1> HIDE DEF b
<1>6. b[1] = 0
  <2>1. 1 \in 1 .. n + 1
    OBVIOUS
  <2>2. before[1] = 0
    BY DEF IsLayout
  <2>3. QED
    BY <1>4, <2>1, <2>2
<1>7. \A i \in 1 .. n + 1 : b[i + 1] = b[i] + Len(ss[i])
  <2>1. \A i \in 1 .. n : b[i + 1] = b[i] + Len(ss[i])
    BY <1>4 DEF IsLayout
  <2>2. b[n + 2] = b[n + 1] + Len(ss[n + 1])
    BY <1>2, <1>4, <1>5 DEF IsLayout
  <2>3. \A i \in 1 .. n + 1 : i \in 1 .. n \/ (i = n + 1 /\ i + 1 = n + 2)
    OBVIOUS
  <2>4. QED
    BY <2>1, <2>2, <2>3
<1>8. \A i \in 1 .. n : before[i] + Len(ss[i]) <= Len(flat)
  <2> SUFFICES ASSUME NEW i \in 1 .. n PROVE before[i + 1] <= before[n + 1]
    BY <1>3, <1>4 DEF IsLayout
  <2>1. i + 1 = n + 1 \/ i + 1 < n + 1
    OBVIOUS
  <2>2. QED
    BY <1>4, <2>1 DEF IsLayout
<1>9. ASSUME NEW i \in 1 .. n + 1, NEW k \in 1 .. Len(ss[i]) PROVE more[b[i] + k] = ss[i][k]
  <2>1. CASE i \in 1 .. n
    <3>1. before[i] + k \in 1 .. Len(flat)
      <4>1. before[i] \in Nat /\ Len(ss[i]) \in Nat /\ before[i] + Len(ss[i]) <= Len(flat)
        BY <1>3, <1>4, <1>8, <2>1
      <4>2. QED
        BY <1>3, <4>1, WithinRange
    <3>2. QED
      BY <1>2, <1>4, <2>1, <3>1 DEF IsLayout
  <2>2. CASE i = n + 1
    BY <1>2, <1>4, <2>2 DEF IsLayout
  <2>3. QED
    BY <2>1, <2>2
<1>10. \A i, h \in 1 .. n + 2 : i < h => b[i] <= b[h]
  <2> SUFFICES ASSUME NEW i \in 1 .. n + 2, NEW h \in 1 .. n + 2, i < h PROVE b[i] <= b[h]
    OBVIOUS
  <2>1. CASE h \in 1 .. n + 1
    <3>1. i \in 1 .. n + 1
      BY <2>1
    <3>2. QED
      BY <1>4, <2>1, <3>1 DEF IsLayout
  <2>2. CASE h = n + 2
    <3>1. i \in 1 .. n + 1 /\ (i = n + 1 \/ i < n + 1)
      BY <2>2
    <3>2. before[i] <= before[n + 1]
      BY <1>4, <3>1 DEF IsLayout
    <3>3. before[n + 1] = Len(flat)
      BY DEF IsLayout
    <3>4. Len(flat) <= Len(more)
      BY <1>2, <1>3
    <3>5. QED
      BY <1>3, <1>4, <1>5, <2>2, <3>1, <3>2, <3>3, <3>4
  <2>3. QED
    BY <2>1, <2>2
<1>11. \A i, h \in 1 .. n + 1 : i < h => b[i + 1] <= b[h]
  <2> SUFFICES ASSUME NEW i \in 1 .. n + 1, NEW h \in 1 .. n + 1, i < h PROVE b[i + 1] <= b[h]
    OBVIOUS
  <2>1. i + 1 \in 1 .. n + 2 /\ h \in 1 .. n + 2 /\ (i + 1 < h \/ i + 1 = h)
    OBVIOUS
  <2>2. QED
    BY <1>5, <1>10, <2>1
<1>12. ASSUME NEW j \in 1 .. Len(more)
       PROVE  \E i \in 1 .. n + 1 : \E k \in 1 .. Len(ss[i]) : j = b[i] + k
  <2>1. CASE j \in 1 .. Len(flat)
    <3>1. PICK i \in 1 .. n : \E k \in 1 .. Len(ss[i]) : j = before[i] + k
      BY <2>1 DEF IsLayout
    <3>2. i \in 1 .. n + 1 /\ b[i] = before[i]
      BY <1>4
    <3>3. QED
      BY <3>1, <3>2
  <2>2. CASE j > Len(flat)
    <3>1. j - Len(flat) \in 1 .. Len(ss[n + 1]) /\ j = Len(flat) + (j - Len(flat))
      BY <1>2, <1>3, <2>2
    <3>2. b[n + 1] = Len(flat) /\ n + 1 \in 1 .. n + 1
      BY <1>4 DEF IsLayout
    <3>3. QED
      BY <3>1, <3>2
  <2>3. QED
    BY <1>3, <2>1, <2>2
<1>13. IsLayout(b, more, ss, n + 1)
  BY <1>5, <1>6, <1>7, <1>9, <1>10, <1>11, <1>12 DEF IsLayout
<1>14. QED
  BY <1>13 DEF more

\* No block reaches beyond the end.
LEMMA LayoutBounds ==
  ASSUME NEW flat, NEW ss, NEW n \in Nat, Len(flat) \in Nat,
         NEW before, IsLayout(before, flat, ss, n), NEW i \in 1 .. n
  PROVE  before[i] \in Nat /\ before[i + 1] \in Nat /\ before[i + 1] <= Len(flat)
<1>1. i \in 1 .. n + 1 /\ i + 1 \in 1 .. n + 1 /\ n + 1 \in 1 .. n + 1
      /\ (i + 1 = n + 1 \/ i + 1 < n + 1)
  OBVIOUS
<1>2. before \in [1 .. n + 1 -> Nat] /\ before[n + 1] = Len(flat)
      /\ \A k, h \in 1 .. n + 1 : k < h => before[k] <= before[h]
  BY DEF IsLayout
<1>3. QED
  BY <1>1, <1>2

\* A flattened sequence is its blocks one behind the other.
LEMMA FlattenLayout ==
  ASSUME NEW T, NEW ss \in Seq(Seq(T))
  PROVE  /\ FlattenSeq(ss) \in Seq(T)
         /\ \E before : IsLayout(before, FlattenSeq(ss), ss, Len(ss))
<1> DEFINE n == Len(ss)
<1>1. n \in Nat
  OBVIOUS
<1>2. IsLayout([i \in 1 .. 1 |-> 0], <<>>, ss, 0)
  <2>1. [i \in 1 .. 1 |-> 0] \in [1 .. 0 + 1 -> Nat]
    OBVIOUS
  <2>2. QED
    BY <2>1 DEF IsLayout
<1>3. CASE n = 0
  <2>1. FlattenSeq(ss) = ss /\ ss = <<>>
    BY <1>3 DEF FlattenSeq
  <2>2. QED
    BY <1>2, <1>3, <2>1
<1>4. CASE n # 0
  <2> DEFINE f == CHOOSE g : IsFlat(g, ss, n)
             S == {k \in Nat : k + 1 <= n => /\ f[k + 1] \in Seq(T)
                                             /\ \E b : IsLayout(b, f[k + 1], ss, k + 1)}
  <2>1. IsFlat(f, ss, n)
    BY <1>1, FlatExists
  <2>2. FlattenSeq(ss) = f[n]
    BY <1>4 DEF FlattenSeq, IsFlat
  <2>3. f[1] = ss[1] /\ \A i \in 2 .. n : f[i] = f[i - 1] \o ss[i]
    <3> HIDE DEF f
    <3>1. \A i \in 1 .. n : f[i] = IF i = 1 THEN ss[i] ELSE f[i - 1] \o ss[i]
      BY <2>1, Zenon DEF IsFlat
    <3>2. 1 \in 1 .. n /\ \A i \in 2 .. n : i \in 1 .. n /\ i # 1
      BY <1>1, <1>4
    <3>3. QED
      BY <3>1, <3>2
  <2> HIDE DEF f
  <2>4. 0 \in S
    <3>1. ss[1] \in Seq(T) /\ <<>> \in Seq(T) /\ <<>> \o ss[1] = ss[1]
      BY <1>1, <1>4, ConcatEmptySeq
    <3>2. \E b : IsLayout(b, <<>> \o ss[0 + 1], ss, 0 + 1)
      <4>1. 0 \in Nat /\ 0 + 1 <= Len(ss)
        BY <1>1, <1>4
      <4>2. QED
        BY <1>2, <3>1, <4>1, LayoutExtended
    <3>3. 0 + 1 = 1
      OBVIOUS
    <3>4. QED
      BY <2>3, <3>1, <3>2, <3>3
  <2>5. ASSUME NEW k \in Nat, k \in S PROVE k + 1 \in S
    <3> SUFFICES ASSUME k + 2 <= n
                 PROVE  /\ f[k + 2] \in Seq(T)
                        /\ \E b : IsLayout(b, f[k + 2], ss, k + 2)
      OBVIOUS
    <3>1. f[k + 1] \in Seq(T) /\ \E b : IsLayout(b, f[k + 1], ss, k + 1)
      BY <1>1, <2>5
    <3>2. f[k + 2] = f[k + 1] \o ss[k + 2] /\ ss[k + 2] \in Seq(T)
      <4>1. k + 2 \in 2 .. n /\ (k + 2) - 1 = k + 1 /\ k + 2 \in 1 .. Len(ss)
        BY <1>1
      <4>2. f[k + 2] = f[(k + 2) - 1] \o ss[k + 2]
        BY <2>3, <4>1, Zenon
      <4>3. ss[k + 2] \in Seq(T)
        BY <4>1, ElementOfSeq
      <4>4. QED
        BY <4>1, <4>2, <4>3, Zenon
    <3>3. \E b : IsLayout(b, f[k + 1] \o ss[(k + 1) + 1], ss, (k + 1) + 1)
      BY <3>1, LayoutExtended
    <3>4. (k + 1) + 1 = k + 2
      OBVIOUS
    <3>5. QED
      BY <3>1, <3>2, <3>3, <3>4, ConcatProperties
  <2> HIDE DEF S
  <2>6. Nat \subseteq S
    BY <2>4, <2>5, NatInduct
  <2>7. n - 1 \in S /\ (n - 1) + 1 = n
    BY <1>1, <1>4, <2>6
  <2>8. QED
    BY <2>2, <2>7 DEF S
<1>5. QED
  BY <1>3, <1>4

-----------------------------------------------------------------------------
(***************************************************************************)
(* What a replayed conversation keeps of the lines of its file.            *)
(***************************************************************************)
HasAnswer(lines, c) ==
  \E k \in DOMAIN lines : lines[k].kind \in {"result", "cancelled"} /\ lines[k].id = c

\* No compaction from the k-th line on.
Recent(lines, k) == \A l \in k .. Len(lines) : lines[l].kind # "compaction"

EndsIn(s, kinds) == Len(s) > 0 /\ s[Len(s)].kind \in kinds

\* A message that stands for a line, or for none by design.
OnFile(lines, m) ==
  \/ m.kind = "summary"
  \/ m.kind = "assistant" /\ m.id = 0
  \/ \E k \in DOMAIN lines : KindOf(lines[k]) = m.kind /\ lines[k].id = m.id

NoneMadeUp(msgs) == \A i \in DOMAIN msgs : msgs[i].kind # "unknown"

ToolsHaveLines(lines, msgs) ==
  \A i \in DOMAIN msgs : msgs[i].kind = "tool" =>
    HasAnswer(lines, msgs[i].id) /\ msgs[i].calls = <<>>

\* An answer on file comes after its call: dropping a prefix never drops the
\* answer and keeps the call.
AnswersFollow(lines, msgs) ==
  \A i \in DOMAIN msgs : \A c \in ToSet(msgs[i].calls) : HasAnswer(lines, c) =>
    \E j \in DOMAIN msgs : i < j /\ msgs[j].kind = "tool" /\ msgs[j].id = c

CallsShown(lines, msgs) ==
  \A k \in DOMAIN lines : Recent(lines, k) /\ lines[k].kind = "call" =>
    \E i \in DOMAIN msgs : lines[k].id \in ToSet(msgs[i].calls)

LinesHeld(lines, msgs) ==
  \A k \in DOMAIN lines : Recent(lines, k) /\ lines[k].kind # "call" => Holds(msgs, lines[k])

AllOnFile(lines, msgs) == \A i \in DOMAIN msgs : OnFile(lines, msgs[i])

Alternating(msgs) ==
  \A i \in 1 .. Len(msgs) - 1 : ~(msgs[i].kind = "assistant" /\ msgs[i + 1].kind = "assistant")

\* The assistant message a call joins is the last one.
EndsAlike(lines, msgs) ==
  /\ EndsIn(lines, {"assistant", "call"}) => EndsIn(msgs, {"assistant"})
  /\ EndsIn(lines, {"user", "result", "cancelled"}) => ~EndsIn(msgs, {"assistant"})

Faithful(lines, msgs) ==
  /\ msgs \in Seq(Message)
  /\ NoneMadeUp(msgs)
  /\ ToolsHaveLines(lines, msgs)
  /\ AnswersFollow(lines, msgs)
  /\ CallsShown(lines, msgs)
  /\ LinesHeld(lines, msgs)
  /\ AllOnFile(lines, msgs)
  /\ Alternating(msgs)
  /\ EndsAlike(lines, msgs)

\* One more element.
Longer(t, s, x) ==
  /\ Len(s) \in Nat /\ Len(t) = Len(s) + 1
  /\ DOMAIN s = 1 .. Len(s) /\ DOMAIN t = 1 .. Len(t)
  /\ \A i \in 1 .. Len(s) : t[i] = s[i]
  /\ t[Len(t)] = x

\* Append makes a sequence longer.
LEMMA AppendLonger ==
  ASSUME NEW T, NEW s \in Seq(T), NEW x \in T
  PROVE  Append(s, x) \in Seq(T) /\ Longer(Append(s, x), s, x)
BY AppendProperties DEF Longer

\* What one more line changes in the file.
LEMMA MoreLines ==
  ASSUME NEW lines \in Seq(Entry), NEW e \in Entry, NEW more, Longer(more, lines, e)
  PROVE  /\ \A c : HasAnswer(more, c) <=>
              HasAnswer(lines, c) \/ (e.kind \in {"result", "cancelled"} /\ e.id = c)
         /\ \A k \in 1 .. Len(more) : Recent(more, k) <=>
              e.kind # "compaction" /\ (k <= Len(lines) => Recent(lines, k))
         /\ \A m : OnFile(lines, m) => OnFile(more, m)
<1>1. \A c : HasAnswer(more, c) <=>
        HasAnswer(lines, c) \/ (e.kind \in {"result", "cancelled"} /\ e.id = c)
  BY DEF HasAnswer, Longer
<1>2. ASSUME NEW k \in 1 .. Len(more)
      PROVE  Recent(more, k) <=> e.kind # "compaction" /\ (k <= Len(lines) => Recent(lines, k))
  <2>1. \A l \in k .. Len(more) : l = Len(more) \/ l \in k .. Len(lines)
    BY DEF Longer
  <2>2. Len(more) \in k .. Len(more)
    BY DEF Longer
  <2>3. \A l \in k .. Len(lines) : l \in k .. Len(more) /\ l \in 1 .. Len(lines)
    BY DEF Longer
  <2>4. more[Len(more)] = e /\ \A l \in k .. Len(lines) : more[l] = lines[l]
    BY <2>3 DEF Longer
  <2>5. k \in Nat /\ Len(lines) \in Nat /\ (~(k <= Len(lines)) => k .. Len(lines) = {})
    BY DEF Longer
  <2>6. QED
    BY <2>1, <2>2, <2>3, <2>4, <2>5 DEF Recent
<1>3. \A m : OnFile(lines, m) => OnFile(more, m)
  <2>1. \A k \in DOMAIN lines : k \in DOMAIN more /\ more[k] = lines[k]
    BY DEF Longer
  <2>2. QED
    BY <2>1 DEF OnFile
<1>4. QED
  BY <1>1, <1>2, <1>3

\* A line that adds a message of its own.
LEMMA FaithfulAppend ==
  ASSUME NEW lines \in Seq(Entry), NEW msgs, Faithful(lines, msgs),
         NEW e \in Entry, NEW m \in Message,
         NEW more \in Seq(Entry), NEW next \in Seq(Message),
         Longer(more, lines, e), Longer(next, msgs, m),
         e.kind # "compaction", m.kind # "unknown",
         m.kind = "tool" => e.kind \in {"result", "cancelled"},
         e.kind = "call" => /\ m.kind = "assistant" /\ m.id = 0 /\ m.calls = <<e.id>>
                            /\ ~HasAnswer(lines, e.id),
         e.kind # "call" => m.kind = KindOf(e) /\ m.id = e.id /\ m.calls = <<>>,
         m.kind = "assistant" => ~EndsIn(msgs, {"assistant"})
  PROVE  Faithful(more, next)
<1> DEFINE n == Len(next)
<1>1. /\ \A i \in DOMAIN msgs : i \in DOMAIN next /\ next[i] = msgs[i] /\ i < n
      /\ n \in DOMAIN next /\ next[n] = m
      /\ \A i \in DOMAIN next : i = n \/ i \in DOMAIN msgs
  BY DEF Longer
<1>2. /\ \A k \in DOMAIN lines : k \in DOMAIN more /\ more[k] = lines[k]
      /\ Len(more) \in DOMAIN more /\ more[Len(more)] = e
      /\ \A k \in DOMAIN more : k = Len(more) \/ k \in DOMAIN lines
      /\ \A k \in DOMAIN lines : Recent(more, k) => Recent(lines, k)
  BY MoreLines DEF Longer
<1>3. \A c : HasAnswer(more, c) <=>
        HasAnswer(lines, c) \/ (e.kind \in {"result", "cancelled"} /\ e.id = c)
  BY MoreLines
<1> HIDE DEF n
<1>4. NoneMadeUp(next)
  BY <1>1 DEF Faithful, NoneMadeUp
<1>5. ToolsHaveLines(more, next)
  BY <1>1, <1>3 DEF Faithful, ToolsHaveLines, KindOf
<1>6. AnswersFollow(more, next)
  <2> SUFFICES ASSUME NEW i \in DOMAIN next, NEW c \in ToSet(next[i].calls), HasAnswer(more, c)
               PROVE  \E j \in DOMAIN next : i < j /\ next[j].kind = "tool" /\ next[j].id = c
    BY DEF AnswersFollow
  <2>1. CASE i \in DOMAIN msgs
    <3>1. CASE HasAnswer(lines, c)
      <4>1. \E j \in DOMAIN msgs : i < j /\ msgs[j].kind = "tool" /\ msgs[j].id = c
        BY <1>1, <2>1, <3>1 DEF Faithful, AnswersFollow
      <4>2. QED
        BY <1>1, <4>1
    <3>2. CASE e.kind \in {"result", "cancelled"} /\ e.id = c
      BY <1>1, <2>1, <3>2 DEF KindOf
    <3>3. QED
      BY <1>3, <3>1, <3>2
  <2>2. CASE i = n
    <3>1. e.kind = "call" /\ c = e.id
      BY <1>1, <2>2 DEF ToSet
    <3>2. QED
      BY <1>3, <3>1
  <2>3. QED
    BY <1>1, <2>1, <2>2
<1>7. CallsShown(more, next)
  <2> SUFFICES ASSUME NEW k \in DOMAIN more, Recent(more, k), more[k].kind = "call"
               PROVE  \E i \in DOMAIN next : more[k].id \in ToSet(next[i].calls)
    BY DEF CallsShown
  <2>1. CASE k \in DOMAIN lines
    <3>1. \E i \in DOMAIN msgs : lines[k].id \in ToSet(msgs[i].calls)
      BY <1>2, <2>1 DEF Faithful, CallsShown
    <3>2. QED
      BY <1>1, <1>2, <2>1, <3>1
  <2>2. CASE k = Len(more)
    BY <1>1, <1>2, <2>2 DEF ToSet
  <2>3. QED
    BY <1>2, <2>1, <2>2
<1>8. LinesHeld(more, next)
  <2> SUFFICES ASSUME NEW k \in DOMAIN more, Recent(more, k), more[k].kind # "call"
               PROVE  Holds(next, more[k])
    BY DEF LinesHeld
  <2>1. CASE k \in DOMAIN lines
    <3>1. Holds(msgs, lines[k])
      BY <1>2, <2>1 DEF Faithful, LinesHeld
    <3>2. QED
      BY <1>1, <1>2, <2>1, <3>1 DEF Holds
  <2>2. CASE k = Len(more)
    BY <1>1, <1>2, <2>2 DEF Holds
  <2>3. QED
    BY <1>2, <2>1, <2>2
<1>9. AllOnFile(more, next)
  <2>1. \A i \in DOMAIN msgs : OnFile(more, next[i])
    BY <1>1, MoreLines DEF Faithful, AllOnFile
  <2>2. OnFile(more, next[n])
    BY <1>1, <1>2 DEF OnFile
  <2>3. QED
    BY <1>1, <2>1, <2>2 DEF AllOnFile
<1>10. Alternating(next)
  <2> SUFFICES ASSUME NEW i \in 1 .. n - 1, next[i].kind = "assistant",
                      next[i + 1].kind = "assistant"
               PROVE  FALSE
    BY DEF Alternating, n
  <2>1. n = Len(msgs) + 1 /\ Len(msgs) \in Nat /\ DOMAIN msgs = 1 .. Len(msgs)
    BY DEF Longer, n
  <2>2. CASE i = Len(msgs)
    BY <1>1, <2>1, <2>2 DEF EndsIn
  <2>3. CASE i \in 1 .. Len(msgs) - 1
    <3>1. i \in DOMAIN msgs /\ i + 1 \in DOMAIN msgs
      BY <2>1, <2>3
    <3>2. QED
      BY <1>1, <2>3, <3>1 DEF Faithful, Alternating
  <2>4. i \in 1 .. Len(msgs)
    BY <2>1
  <2>5. Len(msgs) \in Nat
    BY <2>1
  <2>6. i = Len(msgs) \/ i \in 1 .. Len(msgs) - 1
    BY <2>4, <2>5
  <2>7. QED
    BY <2>2, <2>3, <2>6
<1>11. EndsAlike(more, next)
  BY <1>1, <1>2 DEF EndsAlike, EndsIn, Longer, KindOf, n
<1>12. QED
  BY <1>4, <1>5, <1>6, <1>7, <1>8, <1>9, <1>10, <1>11 DEF Faithful

\* A call that joins the open assistant message.
LEMMA FaithfulJoin ==
  ASSUME NEW lines \in Seq(Entry), NEW msgs, Faithful(lines, msgs),
         NEW e \in Entry, e.kind = "call", e.id \in CallIds, ~HasAnswer(lines, e.id),
         EndsIn(lines, {"assistant", "call"}),
         NEW more \in Seq(Entry), Longer(more, lines, e)
  PROVE  Faithful(more, [msgs EXCEPT ![Len(msgs)].calls = Append(@, e.id)])
<1> DEFINE n == Len(msgs)
           next == [msgs EXCEPT ![n].calls = Append(@, e.id)]
<1>1. /\ msgs \in Seq(Message) /\ n \in Nat /\ n > 0 /\ DOMAIN msgs = 1 .. n
      /\ n \in DOMAIN msgs /\ msgs[n].kind = "assistant"
      /\ \A i \in DOMAIN msgs : msgs[i] \in Message
  BY DEF Faithful, EndsAlike, EndsIn
<1>2. /\ DOMAIN next = DOMAIN msgs
      /\ \A i \in DOMAIN msgs : i # n => next[i] = msgs[i]
      /\ next[n] = [msgs[n] EXCEPT !.calls = Append(@, e.id)]
  BY <1>1
<1>3. msgs[n].calls \in Seq(CallIds)
  BY <1>1 DEF Message
<1>4. Longer(Append(msgs[n].calls, e.id), msgs[n].calls, e.id)
      /\ Append(msgs[n].calls, e.id) \in Seq(CallIds)
  BY <1>3, AppendLonger
<1>5. next[n] \in Message /\ next[n].kind = msgs[n].kind /\ next[n].id = msgs[n].id
      /\ next[n].calls = Append(msgs[n].calls, e.id)
  BY <1>1, <1>2, <1>4 DEF Message
<1>6. ToSet(next[n].calls) = ToSet(msgs[n].calls) \cup {e.id}
  BY <1>4, <1>5 DEF Longer, ToSet
<1>7. next \in Seq(Message) /\ Len(next) = n
  <2>1. next = [i \in 1 .. n |-> next[i]] /\ \A i \in 1 .. n : next[i] \in Message
    BY <1>1, <1>2, <1>5
  <2> HIDE DEF next
  <2>2. QED
    BY <1>1, <2>1, IsASeq
<1> HIDE DEF next, n
<1>8. \A i \in DOMAIN next : /\ i \in DOMAIN msgs
                             /\ next[i].kind = msgs[i].kind /\ next[i].id = msgs[i].id
                             /\ i # n => next[i] = msgs[i]
  BY <1>2, <1>5
<1>9. /\ \A k \in DOMAIN lines : k \in DOMAIN more /\ more[k] = lines[k]
      /\ Len(more) \in DOMAIN more /\ more[Len(more)] = e
      /\ \A k \in DOMAIN more : k = Len(more) \/ k \in DOMAIN lines
      /\ \A k \in DOMAIN lines : Recent(more, k) => Recent(lines, k)
      /\ \A c : HasAnswer(more, c) <=> HasAnswer(lines, c)
      /\ \A m : OnFile(lines, m) => OnFile(more, m)
  BY MoreLines DEF Longer
<1>10. NoneMadeUp(next) /\ ToolsHaveLines(more, next)
  <2>1. NoneMadeUp(next)
    BY <1>8 DEF Faithful, NoneMadeUp
  <2>2. ASSUME NEW i \in DOMAIN next, next[i].kind = "tool"
        PROVE  i # n
    BY <1>1, <1>8, <2>2
  <2>3. ToolsHaveLines(more, next)
    BY <1>8, <1>9, <2>2 DEF Faithful, ToolsHaveLines
  <2>4. QED
    BY <2>1, <2>3
<1>11. AnswersFollow(more, next)
  <2> SUFFICES ASSUME NEW i \in DOMAIN next, NEW c \in ToSet(next[i].calls), HasAnswer(more, c)
               PROVE  \E j \in DOMAIN next : i < j /\ next[j].kind = "tool" /\ next[j].id = c
    BY DEF AnswersFollow
  <2>1. HasAnswer(lines, c) /\ c # e.id
    BY <1>9
  <2>2. i \in DOMAIN msgs /\ c \in ToSet(msgs[i].calls)
    BY <1>6, <1>8, <2>1
  <2>3. \E j \in DOMAIN msgs : i < j /\ msgs[j].kind = "tool" /\ msgs[j].id = c
    BY <2>1, <2>2 DEF Faithful, AnswersFollow
  <2>4. QED
    BY <1>2, <1>8, <2>3
<1>12. CallsShown(more, next)
  <2> SUFFICES ASSUME NEW k \in DOMAIN more, Recent(more, k), more[k].kind = "call"
               PROVE  \E i \in DOMAIN next : more[k].id \in ToSet(next[i].calls)
    BY DEF CallsShown
  <2>1. CASE k \in DOMAIN lines
    <3>1. \E i \in DOMAIN msgs : lines[k].id \in ToSet(msgs[i].calls)
      BY <1>9, <2>1 DEF Faithful, CallsShown
    <3>2. QED
      BY <1>2, <1>6, <1>8, <1>9, <2>1, <3>1
  <2>2. CASE k = Len(more)
    BY <1>1, <1>2, <1>6, <1>9, <2>2
  <2>3. QED
    BY <1>9, <2>1, <2>2
<1>13. LinesHeld(more, next)
  <2> SUFFICES ASSUME NEW k \in DOMAIN more, Recent(more, k), more[k].kind # "call"
               PROVE  Holds(next, more[k])
    BY DEF LinesHeld
  <2>1. k \in DOMAIN lines
    BY <1>9
  <2>2. Holds(msgs, lines[k])
    BY <1>9, <2>1 DEF Faithful, LinesHeld
  <2>3. QED
    BY <1>2, <1>8, <1>9, <2>1, <2>2 DEF Holds
<1>14. AllOnFile(more, next)
  <2> SUFFICES ASSUME NEW i \in DOMAIN next PROVE OnFile(more, next[i])
    BY DEF AllOnFile
  <2>1. OnFile(more, msgs[i])
    BY <1>8, <1>9 DEF Faithful, AllOnFile
  <2>2. QED
    BY <1>8, <2>1 DEF OnFile
<1>15. Alternating(next)
  BY <1>1, <1>2, <1>7, <1>8 DEF Faithful, Alternating
<1>16. EndsAlike(more, next)
  BY <1>1, <1>2, <1>7, <1>8, <1>9 DEF EndsAlike, EndsIn
<1>17. QED
  BY <1>7, <1>10, <1>11, <1>12, <1>13, <1>14, <1>15, <1>16 DEF Faithful, next, n

\* Concatenation, element by element.
LEMMA ConcatIs ==
  ASSUME NEW T, NEW s \in Seq(T), NEW t \in Seq(T)
  PROVE  /\ s \o t \in Seq(T)
         /\ Len(s \o t) = Len(s) + Len(t) /\ Len(s) \in Nat /\ Len(t) \in Nat
         /\ \A i \in 1 .. Len(s) : (s \o t)[i] = s[i]
         /\ \A i \in 1 .. Len(t) : (s \o t)[Len(s) + i] = t[i]
BY ConcatProperties

\* s with its first n elements given up for x.
Shortened(t, s, n, x) ==
  /\ Len(s) \in Nat /\ Len(t) \in Nat /\ n \in Nat
  /\ DOMAIN s = 1 .. Len(s) /\ DOMAIN t = 1 .. Len(t)
  /\ Len(t) > 0 /\ t[1] = x
  /\ \A i \in 2 .. Len(t) : (n + i) - 1 \in 1 .. Len(s) /\ t[i] = s[(n + i) - 1]
  /\ \A j \in n + 1 .. Len(s) : (j - n) + 1 \in 2 .. Len(t) /\ t[(j - n) + 1] = s[j]
  /\ Len(t) > 1 => (n + Len(t)) - 1 = Len(s)

\* Compaction gives up a prefix for one summary.
LEMMA SummarizedShortens ==
  ASSUME NEW msgs \in Seq(Message), NEW n \in Nat
  PROVE  /\ Summarized(msgs, n) \in Seq(Message)
         /\ Shortened(Summarized(msgs, n), msgs, n, Says("summary", 0))
<1> DEFINE head == <<Says("summary", 0)>>
           tail == SubSeq(msgs, n + 1, Len(msgs))
           t == head \o tail
<1>1. head \in Seq(Message) /\ Len(head) = 1 /\ head[1] = Says("summary", 0)
  BY DEF Says, Message
<1>2. /\ tail \in Seq(Message) /\ Len(tail) = IF n + 1 <= Len(msgs) THEN Len(msgs) - n ELSE 0
      /\ \A i \in 1 .. Len(tail) : tail[i] = msgs[n + i]
  <2>1. CASE n + 1 <= Len(msgs)
    <3>1. /\ n + 1 \in 1 .. Len(msgs) /\ Len(msgs) \in n .. Len(msgs)
          /\ (Len(msgs) - (n + 1)) + 1 = Len(msgs) - n
      BY <2>1
    <3>2. QED
      BY <2>1, <3>1, SubSeqProperties
  <2>2. CASE ~(n + 1 <= Len(msgs))
    <3>1. tail = <<>>
      BY <2>2, SubSeqEmpty
    <3>2. QED
      BY <2>2, <3>1
  <2>3. QED
    BY <2>1, <2>2
<1> HIDE DEF head, tail
<1>3. /\ t \in Seq(Message) /\ Len(t) = 1 + Len(tail)
      /\ t[1] = Says("summary", 0)
      /\ \A i \in 1 .. Len(tail) : t[1 + i] = tail[i]
  <2>1. 1 \in 1 .. Len(head)
    BY <1>1
  <2>2. QED
    <3>1. /\ t \in Seq(Message) /\ Len(t) = Len(head) + Len(tail)
          /\ \A i \in 1 .. Len(head) : t[i] = head[i]
          /\ \A i \in 1 .. Len(tail) : t[Len(head) + i] = tail[i]
      <4>1. head \in Seq(Message) /\ tail \in Seq(Message)
        BY <1>1, <1>2
      <4>2. QED
        BY <4>1, ConcatIs
    <3>2. QED
      BY <1>1, <2>1, <3>1
<1>4. Summarized(msgs, n) = t
  BY DEF Summarized, head, tail
<1> HIDE DEF t
<1>5. Len(msgs) \in Nat /\ Len(tail) \in Nat
  BY <1>2, LenProperties
<1>a. /\ Len(t) \in Nat /\ Len(t) = 1 + Len(tail)
      /\ n < Len(msgs) => Len(tail) = Len(msgs) - n
      /\ ~(n < Len(msgs)) => Len(tail) = 0
  <2>1. n + 1 <= Len(msgs) <=> n < Len(msgs)
    BY <1>5
  <2>2. QED
    BY <1>2, <1>3, <1>5, <2>1
<1>6. ASSUME NEW i \in 2 .. Len(t)
      PROVE  (n + i) - 1 \in 1 .. Len(msgs) /\ t[i] = msgs[(n + i) - 1]
  <2>1. i - 1 \in 1 .. Len(tail) /\ 1 + (i - 1) = i /\ n + (i - 1) = (n + i) - 1
    BY <1>3, <1>5
  <2>2. tail[i - 1] = msgs[n + (i - 1)] /\ t[1 + (i - 1)] = tail[i - 1]
    BY <1>2, <1>3, <2>1, Zenon
  <2>3. (n + i) - 1 \in 1 .. Len(msgs)
    BY <1>5, <1>a
  <2>4. QED
    BY <2>1, <2>2, <2>3, Zenon
<1>7. ASSUME NEW j \in n + 1 .. Len(msgs)
      PROVE  (j - n) + 1 \in 2 .. Len(t) /\ t[(j - n) + 1] = msgs[j]
  <2>1. j - n \in 1 .. Len(tail) /\ 1 + (j - n) = (j - n) + 1 /\ n + (j - n) = j
    BY <1>2, <1>5
  <2>2. tail[j - n] = msgs[n + (j - n)] /\ t[1 + (j - n)] = tail[j - n]
    BY <1>2, <1>3, <2>1, Zenon
  <2>3. (j - n) + 1 \in 2 .. Len(t)
    BY <1>5, <1>a
  <2>4. QED
    BY <2>1, <2>2, <2>3, Zenon
<1>8. Len(t) > 1 => (n + Len(t)) - 1 = Len(msgs)
  BY <1>2, <1>3, <1>5
<1>9. DOMAIN msgs = 1 .. Len(msgs) /\ DOMAIN t = 1 .. Len(t)
  BY <1>3, LenProperties
<1>10. Len(t) > 0
  BY <1>5, <1>a
<1>11. QED
  BY <1>3, <1>4, <1>5, <1>6, <1>7, <1>8, <1>9, <1>10, <1>a, Zenon DEF Shortened

\* A compaction: what it drops is a prefix, and no line is recent any more.
LEMMA FaithfulSummary ==
  ASSUME NEW lines \in Seq(Entry), NEW msgs, Faithful(lines, msgs),
         NEW e \in Entry, e.kind = "compaction",
         NEW more \in Seq(Entry), Longer(more, lines, e),
         NEW next \in Seq(Message), Shortened(next, msgs, e.id, Says("summary", 0))
  PROVE  Faithful(more, next)
<1> DEFINE n == e.id
<1>1. /\ n \in Nat /\ 1 \in DOMAIN next /\ next[1] = Says("summary", 0)
      /\ \A i \in DOMAIN next : i = 1 \/ i \in 2 .. Len(next)
      /\ \A i \in 2 .. Len(next) : /\ (n + i) - 1 \in DOMAIN msgs
                                   /\ next[i] = msgs[(n + i) - 1]
      /\ \A j \in DOMAIN msgs : j > n => /\ (j - n) + 1 \in DOMAIN next
                                         /\ next[(j - n) + 1] = msgs[j]
  BY DEF Shortened, Entry
<1>2. Says("summary", 0).kind = "summary" /\ Says("summary", 0).calls = <<>>
  BY DEF Says
<1>3. /\ \A c : HasAnswer(more, c) <=> HasAnswer(lines, c)
      /\ \A k \in DOMAIN more : ~Recent(more, k)
      /\ \A m : OnFile(lines, m) => OnFile(more, m)
  <2>1. /\ \A c : HasAnswer(more, c) <=>
              HasAnswer(lines, c) \/ (e.kind \in {"result", "cancelled"} /\ e.id = c)
        /\ \A k \in 1 .. Len(more) : Recent(more, k) <=>
              e.kind # "compaction" /\ (k <= Len(lines) => Recent(lines, k))
        /\ \A m : OnFile(lines, m) => OnFile(more, m)
    BY MoreLines, Zenon
  <2>2. DOMAIN more = 1 .. Len(more)
    BY DEF Longer
  <2>3. e.kind = "compaction" /\ e.kind \notin {"result", "cancelled"}
    OBVIOUS
  <2>4. QED
    BY <2>1, <2>2, <2>3, Zenon
<1>4. NoneMadeUp(next) /\ ToolsHaveLines(more, next)
  BY <1>1, <1>2, <1>3 DEF Faithful, NoneMadeUp, ToolsHaveLines
<1>5. AnswersFollow(more, next)
  <2> SUFFICES ASSUME NEW i \in DOMAIN next, NEW c \in ToSet(next[i].calls), HasAnswer(more, c)
               PROVE  \E j \in DOMAIN next : i < j /\ next[j].kind = "tool" /\ next[j].id = c
    BY DEF AnswersFollow
  <2>1. i \in 2 .. Len(next)
    BY <1>1, <1>2 DEF ToSet
  <2>2. PICK j \in DOMAIN msgs : (n + i) - 1 < j /\ msgs[j].kind = "tool" /\ msgs[j].id = c
    <3> DEFINE k == (n + i) - 1
    <3>1. k \in DOMAIN msgs /\ next[i] = msgs[k]
      BY <1>1, <2>1, Zenon
    <3>2. HasAnswer(lines, c)
      BY <1>3
    <3> HIDE DEF k
    <3>3. \E j \in DOMAIN msgs : k < j /\ msgs[j].kind = "tool" /\ msgs[j].id = c
      BY <3>1, <3>2 DEF Faithful, AnswersFollow
    <3>4. QED
      BY <3>3 DEF k
  <2>3. Len(msgs) \in Nat /\ Len(next) \in Nat /\ DOMAIN msgs = 1 .. Len(msgs)
    BY DEF Shortened
  <2>4. j \in Nat /\ i \in Nat
    BY <2>1, <2>2, <2>3
  <2> HIDE DEF n
  <2>5. j > n /\ i < (j - n) + 1
    BY <1>1, <2>1, <2>2, <2>4
  <2>6. QED
    BY <1>1, <2>2, <2>5
<1>6. CallsShown(more, next) /\ LinesHeld(more, next)
  BY <1>3 DEF CallsShown, LinesHeld
<1>7. AllOnFile(more, next)
  <2> SUFFICES ASSUME NEW i \in DOMAIN next PROVE OnFile(more, next[i])
    BY DEF AllOnFile
  <2>1. CASE i = 1
    BY <1>1, <1>2, <2>1 DEF OnFile
  <2>2. CASE i \in 2 .. Len(next)
    BY <1>1, <1>3, <2>2 DEF Faithful, AllOnFile
  <2>3. QED
    BY <1>1, <2>1, <2>2
<1>8. Alternating(next)
  <2> SUFFICES ASSUME NEW i \in 1 .. Len(next) - 1, next[i].kind = "assistant",
                      next[i + 1].kind = "assistant"
               PROVE  FALSE
    BY DEF Alternating
  <2>1. Len(msgs) \in Nat /\ Len(next) \in Nat /\ (Len(next) > 1 => (n + Len(next)) - 1 = Len(msgs))
    BY DEF Shortened
  <2> HIDE DEF n
  <2>2. i # 1
    BY <1>1, <1>2
  <2>3. i \in 2 .. Len(next) /\ i + 1 \in 2 .. Len(next) /\ (n + (i + 1)) - 1 = ((n + i) - 1) + 1
    BY <1>1, <2>1, <2>2
  <2>4. msgs[(n + i) - 1].kind = "assistant" /\ msgs[((n + i) - 1) + 1].kind = "assistant"
    BY <1>1, <2>3
  <2>5. (n + i) - 1 \in 1 .. Len(msgs) - 1
    BY <1>1, <2>1, <2>3
  <2>6. QED
    BY <2>4, <2>5 DEF Faithful, Alternating
<1>9. EndsAlike(more, next)
  BY DEF EndsAlike, EndsIn, Longer
<1>10. QED
  BY <1>4, <1>5, <1>6, <1>7, <1>8, <1>9 DEF Faithful

\* What the next line does to a replay.
LEMMA ReplayLine ==
  ASSUME NEW lines \in Seq(Entry), NEW e \in Entry
  PROVE  LET msgs == Replay(lines)
             next == Replay(Append(lines, e))
         IN  /\ e.kind \in {"user", "assistant"} => next = Append(msgs, Says(e.kind, e.id))
             /\ e.kind \in {"result", "cancelled"} => next = Append(msgs, Says("tool", e.id))
             /\ e.kind = "compaction" => next = Summarized(msgs, e.id)
             /\ e.kind = "call" /\ EndsIn(lines, {"assistant", "call"}) =>
                  next = [msgs EXCEPT ![Len(msgs)].calls = Append(@, e.id)]
             /\ e.kind = "call" /\ ~EndsIn(lines, {"assistant", "call"}) =>
                  next = Append(msgs, [kind |-> "assistant", id |-> 0, calls |-> <<e.id>>])
<1> DEFINE msgs == Replay(lines)
           more == Append(lines, e)
           n == Len(lines) + 1
<1>1. Longer(more, lines, e) /\ Len(more) = n
  BY AppendLonger DEF Longer
<1>2. Replay(more) = Replay1(msgs, more, n)
  BY ReplayAppend
<1>3. more[n] = e
  BY <1>1 DEF Longer
<1>4. Joins(more, n) <=> EndsIn(lines, {"assistant", "call"})
  <2>1. Len(lines) \in Nat /\ n - 1 = Len(lines) /\ (n > 1 <=> Len(lines) > 0)
    OBVIOUS
  <2>2. Len(lines) > 0 => more[Len(lines)] = lines[Len(lines)]
    <3>1. Len(lines) > 0 => Len(lines) \in 1 .. Len(lines)
      BY <2>1
    <3>2. QED
      BY <1>1, <3>1 DEF Longer
  <2>3. QED
    BY <2>1, <2>2 DEF Joins, EndsIn
<1> HIDE DEF more, n, msgs
<1>5. QED
  BY <1>2, <1>3, <1>4 DEF Replay1, more, msgs

\* A replay stays faithful as its file grows the way the code lets it grow.
LEMMA FaithfulLine ==
  ASSUME NEW lines \in Seq(Entry), Faithful(lines, Replay(lines)), NEW e \in Entry,
         e.kind = "call" => /\ e.id \in CallIds /\ ~HasAnswer(lines, e.id)
                            /\ EndsIn(lines, {"user", "assistant", "call", "result", "cancelled"}),
         e.kind = "assistant" => EndsIn(lines, {"user", "result", "cancelled"})
  PROVE  Faithful(Append(lines, e), Replay(Append(lines, e)))
<1> DEFINE msgs == Replay(lines)
           more == Append(lines, e)
<1> SUFFICES Faithful(more, Replay(more))
  OBVIOUS
<1>1. more \in Seq(Entry) /\ Longer(more, lines, e)
  BY AppendLonger
<1>2. msgs \in Seq(Message)
  BY DEF Faithful
<1>3. e.id \in Nat /\ CallIds \subseteq Nat
      /\ e.kind \in {"user", "assistant", "call", "result", "cancelled", "compaction"}
  BY DEF Entry, CallIds
<1> HIDE DEF more
<1>4. ASSUME NEW m \in Message, Replay(more) = Append(msgs, m),
             e.kind # "compaction", m.kind # "unknown",
             m.kind = "tool" => e.kind \in {"result", "cancelled"},
             e.kind = "call" => /\ m.kind = "assistant" /\ m.id = 0 /\ m.calls = <<e.id>>
                                /\ ~HasAnswer(lines, e.id),
             e.kind # "call" => m.kind = KindOf(e) /\ m.id = e.id /\ m.calls = <<>>,
             m.kind = "assistant" => ~EndsIn(msgs, {"assistant"})
      PROVE  Faithful(more, Replay(more))
  <2>1. Append(msgs, m) \in Seq(Message) /\ Longer(Append(msgs, m), msgs, m)
    BY <1>2, AppendLonger
  <2>2. QED
    BY <1>1, <1>4, <2>1, FaithfulAppend
<1>5. CASE e.kind \in {"user", "assistant"}
  <2> DEFINE m == Says(e.kind, e.id)
  <2>1. m \in Message /\ m.kind = e.kind /\ m.id = e.id /\ m.calls = <<>>
    BY <1>3, <1>5 DEF Says, Message
  <2>2. Replay(more) = Append(msgs, m)
    BY <1>5, ReplayLine DEF more
  <2>3. m.kind = "assistant" => ~EndsIn(msgs, {"assistant"})
    BY <2>1 DEF Faithful, EndsAlike
  <2> HIDE DEF m
  <2>4. QED
    <3>1. m.kind = KindOf(e) /\ e.kind # "call" /\ e.kind # "compaction" /\ m.kind # "unknown"
          /\ m.kind # "tool"
      BY <1>5, <2>1 DEF KindOf
    <3>2. QED
      BY <1>4, <2>1, <2>2, <2>3, <3>1, Zenon
<1>6. CASE e.kind \in {"result", "cancelled"}
  <2> DEFINE m == Says("tool", e.id)
  <2>1. m \in Message /\ m.kind = "tool" /\ m.id = e.id /\ m.calls = <<>>
    BY <1>3 DEF Says, Message
  <2>2. Replay(more) = Append(msgs, m)
    BY <1>6, ReplayLine DEF more
  <2> HIDE DEF m
  <2>3. QED
    <3>1. m.kind = KindOf(e) /\ e.kind # "call" /\ e.kind # "compaction" /\ m.kind # "unknown"
          /\ m.kind # "assistant"
      BY <1>6, <2>1 DEF KindOf
    <3>2. QED
      BY <1>4, <1>6, <2>1, <2>2, <3>1, Zenon
<1>7. CASE e.kind = "compaction"
  <2>1. Replay(more) = Summarized(msgs, e.id)
    BY <1>7, ReplayLine DEF more
  <2>2. QED
    <3>1. Summarized(msgs, e.id) \in Seq(Message)
          /\ Shortened(Summarized(msgs, e.id), msgs, e.id, Says("summary", 0))
      BY <1>2, <1>3, SummarizedShortens
    <3>2. QED
      BY <1>1, <1>7, <2>1, <3>1, FaithfulSummary, Zenon
<1>8. CASE e.kind = "call" /\ EndsIn(lines, {"assistant", "call"})
  <2> DEFINE next == [msgs EXCEPT ![Len(msgs)].calls = Append(@, e.id)]
  <2>1. Replay(more) = next
    BY <1>8, ReplayLine DEF more
  <2>2. Faithful(more, next)
    BY <1>1, <1>8, FaithfulJoin
  <2> HIDE DEF next
  <2>3. QED
    BY <2>1, <2>2
<1>9. CASE e.kind = "call" /\ ~EndsIn(lines, {"assistant", "call"})
  <2> DEFINE m == [kind |-> "assistant", id |-> 0, calls |-> <<e.id>>]
  <2>1. m \in Message /\ m.kind = "assistant" /\ m.id = 0 /\ m.calls = <<e.id>>
    BY <1>9 DEF Message
  <2>2. Replay(more) = Append(msgs, m)
    BY <1>9, ReplayLine DEF more
  <2>3. EndsIn(lines, {"user", "result", "cancelled"})
    BY <1>9 DEF EndsIn
  <2>4. ~EndsIn(msgs, {"assistant"})
    BY <2>3 DEF Faithful, EndsAlike
  <2> HIDE DEF m
  <2>5. QED
    <3>1. e.kind # "compaction" /\ m.kind # "unknown" /\ m.kind # "tool"
      BY <1>9, <2>1
    <3>2. QED
      BY <1>4, <1>9, <2>1, <2>2, <2>4, <3>1, Zenon
<1>10. QED
  BY <1>3, <1>5, <1>6, <1>7, <1>8, <1>9

-----------------------------------------------------------------------------
(***************************************************************************)
(* What a repair adds.                                                     *)
(***************************************************************************)

\* The made-up results of one message: one for each call without an answer.
LEMMA UnknownsAre ==
  ASSUME NEW msgs \in Seq(Message), NEW i \in DOMAIN msgs
  PROVE  /\ Unknowns(msgs, i) \in Seq(Message)
         /\ \A k \in DOMAIN Unknowns(msgs, i) :
              /\ Unknowns(msgs, i)[k].kind = "unknown"
              /\ Unknowns(msgs, i)[k].calls = <<>>
              /\ Unknowns(msgs, i)[k].id \notin Answered(msgs)
         /\ \A c \in ToSet(msgs[i].calls) \ Answered(msgs) :
              \E k \in DOMAIN Unknowns(msgs, i) : Unknowns(msgs, i)[k].id = c
<1> DEFINE calls == msgs[i].calls
           Made(c) == IF c \in Answered(msgs) THEN <<>> ELSE <<Says("unknown", c)>>
           ss == [k \in DOMAIN calls |-> Made(calls[k])]
           u == FlattenSeq(ss)
<1>1. u = Unknowns(msgs, i)
  BY DEF Unknowns
<1>2. calls \in Seq(CallIds)
  <2>1. msgs[i] \in Message
    BY ElementOfSeq
  <2>2. QED
    BY <2>1 DEF Message
<1>3. \A c \in CallIds : Says("unknown", c) \in Message
  BY DEF Says, Message, CallIds
<1>4. \A c \in CallIds : /\ Made(c) \in Seq(Message)
                         /\ c \in Answered(msgs) => Len(Made(c)) = 0
                         /\ c \notin Answered(msgs) => /\ Len(Made(c)) = 1
                                                       /\ Made(c)[1] = Says("unknown", c)
  BY <1>3
<1>5. DOMAIN calls = 1 .. Len(calls) /\ Len(calls) \in Nat
      /\ \A k \in DOMAIN calls : calls[k] \in CallIds
  BY <1>2
<1> HIDE DEF Made
<1>6. ss \in Seq(Seq(Message)) /\ Len(ss) = Len(calls)
      /\ \A k \in 1 .. Len(calls) : ss[k] = Made(calls[k])
  BY <1>4, <1>5, IsASeq
<1> HIDE DEF ss, calls
<1>7. u \in Seq(Message) /\ \E before : IsLayout(before, u, ss, Len(ss))
  BY <1>6, FlattenLayout
<1> HIDE DEF u
<1>8. PICK before : IsLayout(before, u, ss, Len(ss))
  BY <1>7
<1>9. ASSUME NEW k \in DOMAIN u
      PROVE  u[k].kind = "unknown" /\ u[k].calls = <<>> /\ u[k].id \notin Answered(msgs)
  <2>1. k \in 1 .. Len(u)
    BY <1>7
  <2>2. PICK h \in 1 .. Len(ss) : \E l \in 1 .. Len(ss[h]) : k = before[h] + l
    BY <1>8, <2>1, Zenon DEF IsLayout
  <2>3. PICK l \in 1 .. Len(ss[h]) : k = before[h] + l
    BY <2>2
  <2>4. u[k] = ss[h][l]
    BY <1>8, <2>3 DEF IsLayout
  <2>5. h \in 1 .. Len(calls) /\ calls[h] \in CallIds /\ ss[h] = Made(calls[h])
    BY <1>5, <1>6
  <2>6. calls[h] \notin Answered(msgs) /\ l = 1
    <3>1. calls[h] \in Answered(msgs) => Len(ss[h]) = 0
      BY <1>4, <2>5
    <3>2. calls[h] \notin Answered(msgs) => Len(ss[h]) = 1
      BY <1>4, <2>5
    <3>3. Len(ss[h]) # 0
      OBVIOUS
    <3>4. Len(ss[h]) = 1 => l = 1
      OBVIOUS
    <3>5. QED
      BY <3>1, <3>2, <3>3, <3>4, Zenon
  <2>7. u[k] = Says("unknown", calls[h])
    BY <1>4, <2>4, <2>5, <2>6
  <2>8. QED
    BY <2>6, <2>7 DEF Says
<1>10. ASSUME NEW c \in ToSet(calls) \ Answered(msgs)
       PROVE  \E k \in DOMAIN u : u[k].id = c
  <2>1. PICK h \in 1 .. Len(calls) : calls[h] = c
    BY <1>5 DEF ToSet
  <2>2. Len(ss[h]) = 1 /\ ss[h][1] = Says("unknown", c)
    BY <1>4, <1>5, <1>6, <2>1
  <2>3. 1 \in 1 .. Len(ss[h]) /\ h \in 1 .. Len(ss)
    BY <1>6, <2>2
  <2>4. u[before[h] + 1] = Says("unknown", c) /\ before[h + 1] = before[h] + 1
    BY <1>8, <2>2, <2>3 DEF IsLayout
  <2>5. before[h] + 1 \in 1 .. Len(u)
    <3>1. Len(ss) \in Nat /\ Len(u) \in Nat
      BY <1>6, <1>5, <1>7
    <3>2. before[h] \in Nat /\ before[h + 1] \in Nat /\ before[h + 1] <= Len(u)
      BY <1>8, <2>3, <3>1, LayoutBounds
    <3>3. QED
      BY <2>4, <3>1, <3>2
  <2>6. before[h] + 1 \in DOMAIN u /\ u[before[h] + 1].id = c
    BY <1>7, <2>4, <2>5 DEF Says
  <2>7. QED
    BY <2>6
<1>11. QED
  BY <1>1, <1>7, <1>9, <1>10 DEF calls

\* Where the messages stand after a repair, and what stands between them.
IsRepaired(whole, msgs, pos) ==
  /\ whole \in Seq(Message)
  /\ pos \in [DOMAIN msgs -> DOMAIN whole]
  /\ \A i \in DOMAIN msgs : whole[pos[i]] = msgs[i]
  /\ \A i, h \in DOMAIN msgs : i < h => pos[i] < pos[h]
  /\ \A j \in DOMAIN whole :
       \/ \E i \in DOMAIN msgs : j = pos[i]
       \/ /\ whole[j].kind = "unknown" /\ whole[j].calls = <<>>
          /\ whole[j].id \notin Answered(msgs)
  /\ \A i \in DOMAIN msgs : \A c \in ToSet(msgs[i].calls) \ Answered(msgs) :
       \E j \in DOMAIN whole : /\ pos[i] < j /\ whole[j].id = c
                               /\ \A l \in pos[i] + 1 .. j : whole[l].kind = "unknown"
  /\ \A i, h \in DOMAIN msgs : pos[h] = pos[i] + 1 => h = i + 1

\* Repair (repair_orphaned_tool_calls) keeps every message in its order and adds
\* markers only right behind assistant messages, for calls without an answer.
LEMMA RepairIs ==
  ASSUME NEW msgs \in Seq(Message)
  PROVE  \E pos : IsRepaired(Repair(msgs), msgs, pos)
<1> DEFINE n == Len(msgs)
           ss == [i \in DOMAIN msgs |-> <<msgs[i]>> \o Unknowns(msgs, i)]
           whole == FlattenSeq(ss)
<1>1. whole = Repair(msgs)
  BY DEF Repair
<1>2. n \in Nat /\ DOMAIN msgs = 1 .. n /\ \A i \in 1 .. n : msgs[i] \in Message
  OBVIOUS
<1>3. ASSUME NEW i \in 1 .. n
      PROVE  /\ ss[i] \in Seq(Message) /\ Unknowns(msgs, i) \in Seq(Message)
             /\ Len(ss[i]) = 1 + Len(Unknowns(msgs, i))
             /\ ss[i][1] = msgs[i]
             /\ \A k \in 1 .. Len(Unknowns(msgs, i)) : ss[i][1 + k] = Unknowns(msgs, i)[k]
  <2>1. Unknowns(msgs, i) \in Seq(Message)
    BY <1>2, UnknownsAre
  <2>2. <<msgs[i]>> \in Seq(Message) /\ Len(<<msgs[i]>>) = 1 /\ <<msgs[i]>>[1] = msgs[i]
    BY <1>2
  <2>3. ss[i] = <<msgs[i]>> \o Unknowns(msgs, i)
    BY <1>2
  <2> DEFINE u == Unknowns(msgs, i)
             first == <<msgs[i]>>
  <2> HIDE DEF u, first, ss
  <2>4. /\ first \o u \in Seq(Message) /\ Len(first \o u) = Len(first) + Len(u)
        /\ \A k \in 1 .. Len(first) : (first \o u)[k] = first[k]
        /\ \A k \in 1 .. Len(u) : (first \o u)[Len(first) + k] = u[k]
    BY <2>1, <2>2, ConcatIs DEF u, first
  <2>5. Len(first) = 1 /\ first[1] = msgs[i] /\ ss[i] = first \o u
    BY <2>2, <2>3 DEF first, u
  <2>6. QED
    BY <2>1, <2>4, <2>5 DEF u
<1>4. ss \in Seq(Seq(Message)) /\ Len(ss) = n
  <2>1. ss = [i \in 1 .. n |-> ss[i]]
    BY <1>2
  <2> HIDE DEF ss
  <2>2. QED
    BY <1>2, <1>3, <2>1, IsASeq
<1> HIDE DEF ss
<1>5. whole \in Seq(Message) /\ \E before : IsLayout(before, whole, ss, n)
  BY <1>4, FlattenLayout
<1> HIDE DEF whole
<1>6. PICK before : IsLayout(before, whole, ss, n)
  BY <1>5
<1>7. Len(whole) \in Nat /\ DOMAIN whole = 1 .. Len(whole)
  BY <1>5
<1> DEFINE u(i) == Unknowns(msgs, i)
           pos == [i \in 1 .. n |-> before[i] + 1]
<1>8. ASSUME NEW i \in 1 .. n
      PROVE  /\ Len(u(i)) \in Nat /\ before[i] \in Nat /\ before[i + 1] \in Nat
             /\ before[i + 1] = (before[i] + 1) + Len(u(i))
             /\ before[i + 1] <= Len(whole)
             /\ whole[before[i] + 1] = msgs[i]
             /\ \A k \in 1 .. Len(u(i)) : whole[(before[i] + 1) + k] = u(i)[k]
  <2>1. Len(u(i)) \in Nat /\ Len(ss[i]) = 1 + Len(u(i))
    BY <1>3
  <2>2. before[i] \in Nat /\ before[i + 1] \in Nat /\ before[i + 1] <= Len(whole)
    BY <1>2, <1>6, <1>7, LayoutBounds
  <2>3. before[i + 1] = before[i] + Len(ss[i])
        /\ \A k \in 1 .. Len(ss[i]) : whole[before[i] + k] = ss[i][k]
    BY <1>6 DEF IsLayout
  <2> HIDE DEF u
  <2>4. 1 \in 1 .. Len(ss[i]) /\ \A k \in 1 .. Len(u(i)) : 1 + k \in 1 .. Len(ss[i])
    BY <2>1
  <2>5. whole[before[i] + 1] = msgs[i]
    BY <1>3, <2>3, <2>4
  <2>6. ASSUME NEW k \in 1 .. Len(u(i)) PROVE whole[(before[i] + 1) + k] = u(i)[k]
    <3>1. whole[before[i] + (1 + k)] = ss[i][1 + k] /\ ss[i][1 + k] = u(i)[k]
      BY <1>3, <2>3, <2>4 DEF u
    <3>2. before[i] + (1 + k) = (before[i] + 1) + k
      BY <2>2
    <3>3. QED
      BY <3>1, <3>2
  <2>7. before[i + 1] = (before[i] + 1) + Len(u(i))
    <3>1. before[i + 1] = before[i] + (1 + Len(u(i)))
      BY <2>1, <2>3
    <3>2. QED
      BY <2>1, <2>2, <3>1
  <2>8. QED
    BY <2>1, <2>2, <2>5, <2>6, <2>7, Zenon
<1>9. \A i \in 1 .. n : pos[i] = before[i] + 1
  OBVIOUS
<1>10. pos \in [1 .. n -> 1 .. Len(whole)]
  <2> SUFFICES ASSUME NEW i \in 1 .. n PROVE before[i] + 1 \in 1 .. Len(whole)
    OBVIOUS
  <2>1. Len(u(i)) \in Nat /\ before[i] \in Nat /\ before[i + 1] = (before[i] + 1) + Len(u(i))
        /\ before[i + 1] <= Len(whole)
    BY <1>8
  <2>2. QED
    BY <1>7, <2>1
<1> HIDE DEF u, pos
<1>11. ASSUME NEW i \in 1 .. n, NEW h \in 1 .. n, i < h
       PROVE  before[i + 1] + 1 <= pos[h] /\ pos[i] < pos[h]
  <2>1. before[i + 1] <= before[h]
    BY <1>6, <1>11 DEF IsLayout
  <2>2. Len(u(i)) \in Nat /\ before[i] \in Nat /\ before[i + 1] = (before[i] + 1) + Len(u(i))
        /\ before[h] \in Nat
    BY <1>8
  <2>3. pos[h] = before[h] + 1 /\ pos[i] = before[i] + 1
    BY <1>9
  <2>4. QED
    BY <2>1, <2>2, <2>3
<1>12. ASSUME NEW j \in 1 .. Len(whole)
       PROVE  \/ \E i \in 1 .. n : j = pos[i]
              \/ /\ whole[j].kind = "unknown" /\ whole[j].calls = <<>>
                 /\ whole[j].id \notin Answered(msgs)
  <2>1. PICK i \in 1 .. n : \E k \in 1 .. Len(ss[i]) : j = before[i] + k
    BY <1>6, Zenon DEF IsLayout
  <2>2. PICK k \in 1 .. Len(ss[i]) : j = before[i] + k
    BY <2>1
  <2>3. CASE k = 1
    BY <1>9, <2>2, <2>3
  <2>4. CASE k # 1
    <3>1. Len(ss[i]) = 1 + Len(u(i)) /\ Len(u(i)) \in Nat /\ before[i] \in Nat
      BY <1>3, <1>8 DEF u
    <3>2. k - 1 \in 1 .. Len(u(i)) /\ j = (before[i] + 1) + (k - 1)
      BY <2>2, <2>4, <3>1
    <3>3. whole[j] = u(i)[k - 1]
      BY <1>8, <3>2
    <3>4. u(i) \in Seq(Message)
      BY <1>3 DEF u
    <3>5. k - 1 \in DOMAIN u(i)
      BY <3>2, <3>4
    <3>6. i \in DOMAIN msgs
      BY <1>2
    <3>7. QED
      BY <3>3, <3>5, <3>6, UnknownsAre DEF u
  <2>5. QED
    BY <2>3, <2>4
<1>13. ASSUME NEW i \in 1 .. n, NEW c \in ToSet(msgs[i].calls) \ Answered(msgs)
       PROVE  \E j \in 1 .. Len(whole) : /\ pos[i] < j /\ whole[j].id = c
                                         /\ \A l \in pos[i] + 1 .. j : whole[l].kind = "unknown"
  <2>1. i \in DOMAIN msgs /\ u(i) \in Seq(Message) /\ DOMAIN u(i) = 1 .. Len(u(i))
    BY <1>2, <1>3 DEF u
  <2>2. PICK k \in 1 .. Len(u(i)) : u(i)[k].id = c
    <3>1. \E k \in DOMAIN u(i) : u(i)[k].id = c
      BY <2>1, UnknownsAre, Zenon DEF u
    <3>2. QED
      BY <2>1, <3>1, Zenon
  <2>3. /\ Len(u(i)) \in Nat /\ before[i] \in Nat /\ before[i + 1] = (before[i] + 1) + Len(u(i))
        /\ before[i + 1] <= Len(whole) /\ pos[i] = before[i] + 1 /\ k \in Nat /\ k > 0
        /\ k <= Len(u(i))
    BY <1>8, <1>9, <2>2
  <2>4. pos[i] + k \in 1 .. Len(whole) /\ pos[i] < pos[i] + k
    BY <1>7, <2>3
  <2>5. whole[pos[i] + k].id = c
    BY <1>8, <2>2, <2>3
  <2>6. ASSUME NEW l \in pos[i] + 1 .. pos[i] + k PROVE whole[l].kind = "unknown"
    <3>1. l - pos[i] \in 1 .. Len(u(i)) /\ l = pos[i] + (l - pos[i])
      <4>1. pos[i] \in Nat
        BY <2>3
      <4>2. l \in Nat /\ l >= pos[i] + 1 /\ l <= pos[i] + k
        BY <2>3, <4>1
      <4>3. \A a, b, m, x \in Nat : a + 1 <= x /\ x <= a + b /\ b <= m =>
              x - a \in 1 .. m /\ x = a + (x - a)
        OBVIOUS
      <4>4. pos[i] + 1 <= l
        BY <4>1, <4>2
      <4>5. QED
        <5>1. k \in Nat /\ k <= Len(u(i)) /\ Len(u(i)) \in Nat /\ l \in Nat /\ l <= pos[i] + k
          BY <2>3, <4>2
        <5>2. QED
          BY <4>1, <4>3, <4>4, <5>1, Zenon
    <3>2. whole[l] = u(i)[l - pos[i]]
      <4>1. \A h \in 1 .. Len(u(i)) : whole[pos[i] + h] = u(i)[h]
        BY <1>8, <1>9, Zenon
      <4>2. whole[pos[i] + (l - pos[i])] = u(i)[l - pos[i]]
        BY <3>1, <4>1, Zenon
      <4>3. QED
        BY <3>1, <4>2, Zenon
    <3>3. QED
      BY <2>1, <3>1, <3>2, UnknownsAre DEF u
  <2>7. QED
    BY <2>4, <2>5, <2>6
<1>14. ASSUME NEW i \in 1 .. n, NEW h \in 1 .. n, pos[h] = pos[i] + 1 PROVE h = i + 1
  <2>1. pos[i] \in Nat /\ pos[h] \in Nat
    BY <1>7, <1>10
  <2>2. i < h
    <3>1. ~(h < i) /\ h # i
      BY <1>11, <1>14, <2>1
    <3>2. QED
      BY <3>1
  <2>3. CASE h # i + 1
    <3>1. i + 1 \in 1 .. n /\ i + 1 < h
      BY <1>2, <2>2, <2>3
    <3>2. pos[i] < pos[i + 1] /\ pos[i + 1] < pos[h] /\ pos[i + 1] \in Nat
      BY <1>7, <1>10, <1>11, <3>1
    <3>3. QED
      BY <1>14, <2>1, <3>2
  <2>4. QED
    BY <2>3
<1>15. IsRepaired(whole, msgs, pos)
  <2>1. \A i \in 1 .. n : whole[pos[i]] = msgs[i]
    BY <1>8, <1>9
  <2>2. \A i, h \in 1 .. n : i < h => pos[i] < pos[h]
    BY <1>11
  <2>3. \A i \in 1 .. n : \A c \in ToSet(msgs[i].calls) \ Answered(msgs) :
          \E j \in 1 .. Len(whole) : /\ pos[i] < j /\ whole[j].id = c
                                     /\ \A l \in pos[i] + 1 .. j : whole[l].kind = "unknown"
    BY <1>13, Zenon
  <2>4. \A i, h \in 1 .. n : pos[h] = pos[i] + 1 => h = i + 1
    BY <1>14
  <2>5. \A j \in 1 .. Len(whole) :
          \/ \E i \in 1 .. n : j = pos[i]
          \/ /\ whole[j].kind = "unknown" /\ whole[j].calls = <<>>
             /\ whole[j].id \notin Answered(msgs)
    BY <1>12
  <2>6. DOMAIN msgs = 1 .. n /\ DOMAIN whole = 1 .. Len(whole)
    BY <1>2, <1>7
  <2> HIDE DEF n
  <2>7. pos \in [DOMAIN msgs -> DOMAIN whole]
    BY <1>10, <2>6
  <2>8. \A i \in DOMAIN msgs : \A c \in ToSet(msgs[i].calls) \ Answered(msgs) :
          \E j \in DOMAIN whole : /\ pos[i] < j /\ whole[j].id = c
                                  /\ \A l \in pos[i] + 1 .. j : whole[l].kind = "unknown"
    BY <2>3, <2>6
  <2>9. \A j \in DOMAIN whole :
          \/ \E i \in DOMAIN msgs : j = pos[i]
          \/ /\ whole[j].kind = "unknown" /\ whole[j].calls = <<>>
             /\ whole[j].id \notin Answered(msgs)
    BY <2>5, <2>6
  <2>10. /\ \A i \in DOMAIN msgs : whole[pos[i]] = msgs[i]
         /\ \A i, h \in DOMAIN msgs : i < h => pos[i] < pos[h]
         /\ \A i, h \in DOMAIN msgs : pos[h] = pos[i] + 1 => h = i + 1
    BY <2>1, <2>2, <2>4, <2>6
  <2>11. QED
    BY <1>5, <2>7, <2>8, <2>9, <2>10, Zenon DEF IsRepaired
<1>16. QED
  BY <1>1, <1>15

-----------------------------------------------------------------------------
(***************************************************************************)
(* What a resumed conversation shows of the file.                          *)
(***************************************************************************)
FileInv == Faithful(log, Replay(log))

\* A call of a repaired conversation: answered by a result on file, or by
\* one made up behind it where the file has none.
LEMMA AnswerShown ==
  ASSUME NEW lines, NEW msgs, Faithful(lines, msgs), NEW whole, NEW pos,
         IsRepaired(whole, msgs, pos), NEW i \in DOMAIN msgs, NEW c \in ToSet(msgs[i].calls)
  PROVE  \/ /\ Says("unknown", c) \notin ToSet(whole)
            /\ \E j \in DOMAIN whole : pos[i] < j /\ whole[j] = Says("tool", c)
         \/ /\ ~HasAnswer(lines, c)
            /\ \E j \in AnswersTo(whole, pos[i], c) : pos[i] < j /\ whole[j].kind = "unknown"
<1>1. /\ whole \in Seq(Message) /\ msgs \in Seq(Message)
      /\ pos \in [DOMAIN msgs -> DOMAIN whole]
  BY DEF Faithful, IsRepaired
<1>2. CASE HasAnswer(lines, c)
  <2>1. PICK j \in DOMAIN msgs : i < j /\ msgs[j].kind = "tool" /\ msgs[j].id = c
    BY <1>2 DEF Faithful, AnswersFollow
  <2>2. msgs[j] \in Message /\ msgs[j].calls = <<>>
    BY <1>1, <2>1 DEF Faithful, ToolsHaveLines
  <2>3. msgs[j] = Says("tool", c)
    BY <2>1, <2>2 DEF Message, Says
  <2>4. pos[i] < pos[j] /\ whole[pos[j]] = Says("tool", c) /\ pos[j] \in DOMAIN whole
    BY <1>1, <2>1, <2>3 DEF IsRepaired
  <2>5. c \in Answered(msgs)
    BY <2>1 DEF Answered
  <2>6. ASSUME NEW k \in DOMAIN whole, whole[k] = Says("unknown", c) PROVE FALSE
    <3>1. ~\E h \in DOMAIN msgs : k = pos[h]
      BY <2>6 DEF IsRepaired, Faithful, NoneMadeUp, Says
    <3>2. whole[k].id \notin Answered(msgs)
      BY <3>1 DEF IsRepaired
    <3>3. QED
      BY <2>5, <2>6, <3>2 DEF Says
  <2>7. Says("unknown", c) \notin ToSet(whole)
    BY <2>6 DEF ToSet
  <2>8. QED
    BY <2>4, <2>7
<1>3. CASE ~HasAnswer(lines, c)
  <2>1. c \notin Answered(msgs)
    BY <1>3 DEF Faithful, NoneMadeUp, ToolsHaveLines, Answered
  <2>2. PICK j \in DOMAIN whole : /\ pos[i] < j /\ whole[j].id = c
                                  /\ \A l \in pos[i] + 1 .. j : whole[l].kind = "unknown"
    BY <2>1 DEF IsRepaired
  <2>3. pos[i] \in Nat /\ j \in Nat /\ j <= Len(whole) /\ Len(whole) \in Nat
    <3>1. DOMAIN whole = 1 .. Len(whole) /\ Len(whole) \in Nat /\ pos[i] \in DOMAIN whole
      BY <1>1
    <3>2. QED
      BY <3>1
  <2>4. j \in pos[i] + 1 .. Len(whole) /\ j \in pos[i] + 1 .. j
    BY <2>2, <2>3
  <2>5. \A k \in pos[i] + 1 .. j : IsAnswer(whole[k])
    BY <2>2 DEF IsAnswer
  <2>6. j \in AnswersTo(whole, pos[i], c) /\ whole[j].kind = "unknown"
    BY <2>2, <2>4, <2>5 DEF AnswersTo, AnswersAfter
  <2>7. QED
    BY <1>3, <2>2, <2>6
<1>4. QED
  BY <1>2, <1>3

\* After a repair every call has an answer.
LEMMA LoadAnswers ==
  ASSUME FileInv
  PROVE  EveryCallAnswered
<1> DEFINE msgs == Replay(log)
           whole == Load(log)
<1>1. Faithful(log, msgs) /\ msgs \in Seq(Message)
  BY DEF FileInv, Faithful
<1>2. PICK pos : IsRepaired(whole, msgs, pos)
  BY <1>1, RepairIs DEF Load
<1> HIDE DEF whole, msgs
<1> SUFFICES ASSUME NEW k \in DOMAIN whole, NEW c \in ToSet(whole[k].calls)
             PROVE  \/ Says("unknown", c) \notin ToSet(whole) /\ Says("tool", c) \in ToSet(whole)
                    \/ /\ \E j \in AnswersTo(whole, k, c) : whole[j].kind = "unknown"
                       /\ ~Logged("result", c) /\ ~Logged("cancelled", c)
  BY DEF EveryCallAnswered, whole
<1>3. PICK i \in DOMAIN msgs : k = pos[i]
  BY <1>2 DEF IsRepaired, ToSet
<1>4. c \in ToSet(msgs[i].calls)
  BY <1>2, <1>3 DEF IsRepaired
<1>5. ~HasAnswer(log, c) => ~Logged("result", c) /\ ~Logged("cancelled", c)
  BY DEF HasAnswer, Logged, Line
<1>6. QED
  BY <1>1, <1>2, <1>3, <1>4, <1>5, AnswerShown DEF ToSet

\* A repair never puts two assistant messages next to each other.
LEMMA LoadAlternates ==
  ASSUME FileInv
  PROVE  OneAssistantPerTurn
<1> DEFINE msgs == Replay(log)
           whole == Load(log)
<1>1. Faithful(log, msgs) /\ msgs \in Seq(Message)
  BY DEF FileInv, Faithful
<1>2. PICK pos : IsRepaired(whole, msgs, pos)
  BY <1>1, RepairIs DEF Load
<1> HIDE DEF whole, msgs
<1> SUFFICES ASSUME NEW k \in 1 .. Len(whole) - 1, whole[k].kind = "assistant",
                    whole[k + 1].kind = "assistant"
             PROVE  FALSE
  BY DEF OneAssistantPerTurn, whole
<1>3. k \in DOMAIN whole /\ k + 1 \in DOMAIN whole
  <2>1. DOMAIN whole = 1 .. Len(whole) /\ Len(whole) \in Nat
    BY <1>2 DEF IsRepaired
  <2>2. QED
    BY <2>1
<1>4. PICK i \in DOMAIN msgs : k = pos[i]
  BY <1>2, <1>3 DEF IsRepaired
<1>5. PICK h \in DOMAIN msgs : k + 1 = pos[h]
  BY <1>2, <1>3 DEF IsRepaired
<1>6. h = i + 1
  BY <1>2, <1>4, <1>5 DEF IsRepaired
<1>7. msgs[i].kind = "assistant" /\ msgs[i + 1].kind = "assistant"
  BY <1>2, <1>4, <1>5, <1>6 DEF IsRepaired
<1>8. i \in 1 .. Len(msgs) - 1
  <2>1. DOMAIN msgs = 1 .. Len(msgs) /\ Len(msgs) \in Nat
    BY <1>1
  <2>2. QED
    BY <1>6, <2>1
<1>9. QED
  BY <1>1, <1>7, <1>8 DEF Faithful, Alternating

\* Since the last compaction.
LEMMA LastCompactionIs ==
  ASSUME log \in Seq(Entry)
  PROVE  /\ LastCompaction \in 0 .. Len(log)
         /\ \A k \in DOMAIN log : k > LastCompaction <=> Recent(log, k)
<1> DEFINE S == {0} \cup {i \in DOMAIN log : log[i].kind = "compaction"}
           T == {Len(log) - x : x \in S}
<1>1. Len(log) \in Nat /\ DOMAIN log = 1 .. Len(log)
  OBVIOUS
<1>2. 0 \in S /\ S \in SUBSET (0 .. Len(log))
  BY <1>1
<1>3. \E m \in S : \A x \in S : m >= x
  <2>1. T \in SUBSET Nat /\ T # {}
    BY <1>1, <1>2
  <2>2. PICK t \in T : \A x \in T : t <= x
    BY <2>1, LeastNat
  <2>3. PICK m \in S : t = Len(log) - m
    BY <2>2
  <2>4. ASSUME NEW x \in S PROVE m >= x
    <3>1. Len(log) - m <= Len(log) - x
      BY <2>2, <2>3
    <3>2. m \in Nat /\ x \in Nat
      BY <1>1, <1>2
    <3> HIDE DEF S, T
    <3>3. QED
      BY <1>1, <3>1, <3>2
  <2>5. QED
    BY <2>4
<1>4. LastCompaction \in S /\ \A x \in S : LastCompaction >= x
  BY <1>3 DEF LastCompaction, Max
<1>5. ASSUME NEW k \in DOMAIN log PROVE k > LastCompaction <=> Recent(log, k)
  <2>1. LastCompaction \in Nat /\ LastCompaction <= Len(log)
    BY <1>1, <1>2, <1>4
  <2>2. CASE k > LastCompaction
    <3>1. ASSUME NEW l \in k .. Len(log), log[l].kind = "compaction" PROVE FALSE
      <4>1. l \in S
        BY <1>1, <3>1
      <4>2. LastCompaction >= l
        BY <1>4, <4>1
      <4>3. QED
        BY <1>1, <2>1, <2>2, <4>2
    <3>2. QED
      BY <2>2, <3>1 DEF Recent
  <2>3. CASE ~(k > LastCompaction)
    <3>1. LastCompaction \in k .. Len(log) /\ LastCompaction # 0
      BY <1>1, <2>1, <2>3
    <3>2. log[LastCompaction].kind = "compaction"
      BY <1>4, <3>1
    <3>3. QED
      BY <2>3, <3>1, <3>2 DEF Recent
  <2>4. QED
    BY <2>2, <2>3
<1>6. QED
  BY <1>2, <1>4, <1>5

\* A call with its line in the file is shown, answered, or summarized.
LEMMA LoadShowsEffects ==
  ASSUME FileInv, log \in Seq(Entry), \A c \in ran : Logged("call", c)
  PROVE  EffectsAreKnown
<1> DEFINE msgs == Replay(log)
           whole == Load(log)
<1>1. Faithful(log, msgs) /\ msgs \in Seq(Message)
  BY DEF FileInv, Faithful
<1>2. PICK pos : IsRepaired(whole, msgs, pos)
  BY <1>1, RepairIs DEF Load
<1> HIDE DEF whole, msgs
<1> SUFFICES ASSUME NEW c \in ran, \A k \in 1 .. LastCompaction : log[k] # Line("call", c)
             PROVE  \E i, j \in DOMAIN whole :
                      c \in ToSet(whole[i].calls) /\ i < j /\ IsAnswer(whole[j]) /\ whole[j].id = c
  BY Zenon DEF EffectsAreKnown, whole
<1>3. PICK k \in DOMAIN log : log[k] = Line("call", c)
  BY DEF Logged
<1>4. Recent(log, k)
  <2>1. DOMAIN log = 1 .. Len(log) /\ Len(log) \in Nat
    OBVIOUS
  <2>2. LastCompaction \in Nat
    BY <2>1, LastCompactionIs
  <2>3. k > LastCompaction
    BY <1>3, <2>1, <2>2
  <2>4. QED
    BY <2>3, LastCompactionIs
<1>5. PICK i \in DOMAIN msgs : c \in ToSet(msgs[i].calls)
  BY <1>1, <1>3, <1>4 DEF Faithful, CallsShown, Line
<1>6. pos[i] \in DOMAIN whole /\ c \in ToSet(whole[pos[i]].calls)
  BY <1>2, <1>5 DEF IsRepaired
<1>7. \E j \in DOMAIN whole : pos[i] < j /\ IsAnswer(whole[j]) /\ whole[j].id = c
  <2>1. CASE \E j \in DOMAIN whole : pos[i] < j /\ whole[j] = Says("tool", c)
    BY <2>1 DEF IsAnswer, Says
  <2>2. ASSUME NEW j \in AnswersTo(whole, pos[i], c), pos[i] < j
        PROVE  j \in DOMAIN whole /\ IsAnswer(whole[j]) /\ whole[j].id = c
    <3>1. whole \in Seq(Message) /\ DOMAIN whole = 1 .. Len(whole) /\ Len(whole) \in Nat
      BY <1>2 DEF IsRepaired
    <3>2. j \in pos[i] + 1 .. Len(whole) /\ \A l \in pos[i] + 1 .. j : IsAnswer(whole[l])
      BY <2>2 DEF AnswersTo, AnswersAfter
    <3>3. pos[i] \in Nat
      BY <1>6, <3>1
    <3>4. j \in 1 .. Len(whole) /\ j \in pos[i] + 1 .. j
      BY <3>1, <3>2, <3>3
    <3>5. QED
      BY <2>2, <3>1, <3>2, <3>4 DEF AnswersTo
  <2>3. QED
    BY <1>1, <1>2, <1>5, <2>1, <2>2, AnswerShown
<1>8. QED
  BY <1>6, <1>7

\* A repaired conversation holds what the replay held.
LEMMA LoadHolds ==
  ASSUME FileInv, log \in Seq(Entry)
  PROVE  /\ Load(log) \in Seq(Message)
         /\ \A i \in DOMAIN Load(log) :
              Load(log)[i].kind = "unknown" \/ OnFile(log, Load(log)[i])
         /\ \A k \in DOMAIN log : Recent(log, k) /\ log[k].kind # "call" =>
              Holds(Load(log), log[k])
<1> DEFINE msgs == Replay(log)
           whole == Load(log)
<1>1. Faithful(log, msgs) /\ msgs \in Seq(Message)
  BY DEF FileInv, Faithful
<1>2. PICK pos : IsRepaired(whole, msgs, pos)
  BY <1>1, RepairIs DEF Load
<1> HIDE DEF whole, msgs
<1>3. whole \in Seq(Message)
  BY <1>2 DEF IsRepaired
<1>4. ASSUME NEW k \in DOMAIN whole PROVE whole[k].kind = "unknown" \/ OnFile(log, whole[k])
  BY <1>1, <1>2 DEF IsRepaired, Faithful, AllOnFile
<1>5. ASSUME NEW k \in DOMAIN log, Recent(log, k), log[k].kind # "call" PROVE Holds(whole, log[k])
  <2>1. PICK i \in DOMAIN msgs : msgs[i].kind = KindOf(log[k]) /\ msgs[i].id = log[k].id
    BY <1>1, <1>5 DEF Faithful, LinesHeld, Holds
  <2>2. pos[i] \in DOMAIN whole /\ whole[pos[i]] = msgs[i]
    BY <1>2 DEF IsRepaired
  <2>3. QED
    BY <2>1, <2>2 DEF Holds
<1>6. QED
  BY <1>3, <1>4, <1>5 DEF whole

-----------------------------------------------------------------------------
(***************************************************************************)
(* The inductive invariant: FileInv and the parts below.                   *)
(***************************************************************************)

\* What the file holds of the calls, and where a call of the batch stands.
CallInv ==
  /\ \A c : Logged("call", c) \/ Logged("result", c) \/ Logged("cancelled", c) =>
       c \in 1 .. issued
  /\ \A c \in ToSet(batch) : c <= issued
  /\ \A c \in CallIds : pc[c] # "waiting" => c \in ToSet(batch)
  /\ \A c \in ToSet(batch) : pc[c] = "waiting" => ~Logged("call", c) /\ ~Logged("result", c)
  /\ \A c \in ToSet(batch) : pc[c] \in {"logged", "running"} =>
       Logged("call", c) /\ ~Logged("result", c)
  /\ \A c \in ToSet(batch) : pc[c] \in {"ending", "done"} => Logged("result", c)
  /\ \A c \in ToSet(batch) : Logged("cancelled", c) => at = "marking" /\ c \notin ToSet(completed)
  /\ \A c \in ran : Logged("call", c)

\* On the way to the next request.
BeforeReply == {"top", "starting", "streaming", "ending"}

\* An assistant message is open on file only where a call may join it.
TurnInv ==
  /\ at \in BeforeReply => EndsIn(log, {"user", "result", "cancelled"})
  /\ at \in {"batch", "marking"} =>
       EndsIn(log, {"user", "result", "cancelled", "assistant", "call"})
  /\ at = "batch" /\ EndsIn(log, {"assistant", "call"}) =>
       \E c \in ToSet(batch) : pc[c] \in {"waiting", "logged", "running"}
  /\ at = "marking" /\ EndsIn(log, {"assistant", "call"}) => Unmarked # {}

\* The conversation and its file say the same.
CtxInv ==
  /\ \A i \in DOMAIN ctx : ctx[i].kind = "unknown" \/ OnFile(log, ctx[i])
  /\ at # "down" => \A k \in DOMAIN log : Recent(log, k) /\ log[k].kind # "call" =>
       Holds(ctx, log[k])
       \/ (log[k].kind \in {"result", "cancelled"} /\ log[k].id \in ToSet(batch))

\* The calls of a message that never were run.
Unasked(i) ==
  /\ AnswersAfter(ctx, i) = {}
  /\ \A c \in ToSet(ctx[i].calls) :
       ~Logged("call", c) /\ ~Logged("result", c) /\ ~Logged("cancelled", c)

AnsweredOnce(msgs, i) == \A c \in ToSet(msgs[i].calls) : \E j : AnswersTo(msgs, i, c) = {j}

\* Every message but the one whose batch is at work has its answers.
Paired ==
  /\ at # "down"
  /\ NoStrayAnswer(ctx)
  /\ batch # <<>> => EndsIn(ctx, {"assistant"}) /\ ctx[Len(ctx)].calls = batch
  /\ \A i \in DOMAIN ctx : \A c \in ToSet(ctx[i].calls) : c <= issued
  /\ \A i \in DOMAIN ctx : batch = <<>> \/ i # Len(ctx) =>
       /\ ToSet(ctx[i].calls) \cap ToSet(batch) = {}
       /\ AnsweredOnce(ctx, i) \/ Unasked(i)

PairInv == crashes = 0 => Paired

\* Of two calls that may not overlap, the later in the order collected has
\* not begun before the earlier is done.
CollectedOrder ==
  at = "batch" => \A i, j \in DOMAIN batch :
    /\ i < j
    /\ serial \/ (Key[batch[i]] # NoKey /\ Key[batch[i]] = Key[batch[j]])
    /\ pc[batch[j]] # "waiting"
    => pc[batch[i]] = "done"

\* Collected in the order of their ids, unless a HashMap handed them over.
Sorted == ~Hashed => \A i, j \in DOMAIN batch : i < j => batch[i] < batch[j]

OrderInv == CollectedOrder /\ Sorted

\* No compaction that keeps said[i] counts as many messages as j.
NonAnswers == {"user", "assistant", "summary"}

Reaches(said, i, j) == \A n \in 1 .. i - 1 : said[n + 1].kind \in NonAnswers => n < j

\* What was said is in msgs, and far enough from its beginning to stay there
\* when as many messages are given up as precede it.
Kept(msgs, said) ==
  \A i \in DOMAIN said : OwnLine(said[i]) =>
    \E j \in DOMAIN msgs : /\ msgs[j].kind = said[i].kind /\ msgs[j].id = said[i].id
                           /\ Reaches(said, i, j)

AnsweredCalls == {c \in ToSet(batch) : HasAnswer(log, c)}

\* The answer at work has no message in the replay so far.
NotShown == ctx[Len(ctx)].id = 0 /\ NoneBegun

KeptBatch(msgs) ==
  /\ Len(ctx) + Cardinality(AnsweredCalls) <= Len(msgs) + (IF NotShown THEN 1 ELSE 0)
  /\ \A c \in AnsweredCalls :
       \E j \in DOMAIN msgs : j >= Len(ctx) /\ msgs[j].kind = "tool" /\ msgs[j].id = c
  /\ NotShown => ~EndsIn(log, {"assistant", "call"})

\* The replay is never the shorter one, but for results that are still to be
\* pushed: so `replaced_count` reaches no further in it than in the context.
KeptInv ==
  ~unfiled =>
    /\ Kept(Replay(log), ctx)
    /\ batch = <<>> => Len(ctx) <= Len(Replay(log))
    /\ batch # <<>> => KeptBatch(Replay(log))

-----------------------------------------------------------------------------
\* The elements after an Append.
LEMMA ToSetAppend ==
  ASSUME NEW T, NEW s \in Seq(T), NEW x \in T
  PROVE  ToSet(Append(s, x)) = ToSet(s) \cup {x}
<1>1. Append(s, x) \in Seq(T) /\ Longer(Append(s, x), s, x)
  BY AppendLonger
<1> DEFINE t == Append(s, x)
<1> HIDE DEF t
<1>2. \A i \in DOMAIN s : i \in DOMAIN t /\ t[i] = s[i]
  BY <1>1 DEF Longer, t
<1>3. Len(t) \in DOMAIN t /\ t[Len(t)] = x /\ \A i \in DOMAIN t : i = Len(t) \/ i \in DOMAIN s
  BY <1>1 DEF Longer, t
<1>4. QED
  BY <1>2, <1>3 DEF ToSet, t

\* A new element keeps a sequence free of repetitions.
LEMMA InjectiveAppend ==
  ASSUME NEW T, NEW s \in Seq(T), NEW x \in T, IsInjective(s), x \notin ToSet(s)
  PROVE  IsInjective(Append(s, x))
<1>1. Append(s, x) \in Seq(T) /\ Longer(Append(s, x), s, x)
  BY AppendLonger
<1> DEFINE t == Append(s, x)
<1> HIDE DEF t
<1>2. \A i \in DOMAIN t : (i = Len(t) /\ t[i] = x) \/ (i \in DOMAIN s /\ t[i] = s[i])
  BY <1>1 DEF Longer, t
<1>3. \A i \in DOMAIN s : s[i] # x
  BY DEF ToSet
<1>4. QED
  BY <1>2, <1>3 DEF IsInjective, t

\* The calls of an answer, in whichever order the parser hands them over.
LEMMA CollectedAre ==
  ASSUME TypeOK, NEW n \in Nat, NEW calls \in Collected(n)
  PROVE  /\ Len(calls) = n /\ DOMAIN calls = 1 .. n
         /\ calls \in Seq(issued + 1 .. issued + n)
         /\ IsInjective(calls)
         /\ ~Hashed => \A i, j \in DOMAIN calls : i < j => calls[i] < calls[j]
<1>1. issued \in Nat
  BY TranscriptAssumption DEF TypeOK
<1>2. CASE Hashed
  <2> DEFINE S == issued + 1 .. issued + n
  <2>1. Cardinality(S) = n
    <3>1. issued + 1 \in Int /\ issued + n \in Int
      BY <1>1
    <3>2. Cardinality(S) = IF issued + 1 > issued + n THEN 0 ELSE (issued + n) - (issued + 1) + 1
      BY <3>1, FS_Interval
    <3>3. QED
      BY <1>1, <3>2
  <2>2. calls \in SetToSeqs(S)
    BY <1>2 DEF Collected
  <2> HIDE DEF S
  <2>3. calls \in [1 .. n -> S] /\ \A i, j \in 1 .. n : i # j => calls[i] # calls[j]
    BY <2>1, <2>2 DEF SetToSeqs
  <2>4. calls = [i \in 1 .. n |-> calls[i]]
    BY <2>3
  <2>5. calls \in Seq(S) /\ Len(calls) = n
    BY <2>3
  <2>6. QED
    BY <1>2, <2>3, <2>5 DEF IsInjective, S
<1>3. CASE ~Hashed
  <2>1. calls = [i \in 1 .. n |-> issued + i]
    BY <1>3 DEF Collected
  <2>2. \A i \in 1 .. n : calls[i] = issued + i /\ issued + i \in issued + 1 .. issued + n
    BY <1>1, <2>1
  <2> DEFINE S == issued + 1 .. issued + n
  <2>3. DOMAIN calls = 1 .. n /\ calls \in [1 .. n -> S]
    BY <2>1, <2>2
  <2>4. calls \in Seq(S) /\ Len(calls) = n
    <3> HIDE DEF S
    <3>1. QED
      BY <2>3
  <2>5. QED
    BY <1>1, <2>2, <2>3, <2>4 DEF IsInjective
<1>4. QED
  BY <1>2, <1>3

\* A file grows by one line, or by none.
LEMMA LinesGrow ==
  ASSUME log \in Seq(Entry), NEW e \in Entry, log' = Append(log, e)
  PROVE  /\ log' \in Seq(Entry) /\ Longer(log', log, e)
         /\ \A kind, id : Logged(kind, id)' <=> Logged(kind, id) \/ e = Line(kind, id)
         /\ \A kinds : EndsIn(log', kinds) <=> e.kind \in kinds
<1>1. log' \in Seq(Entry) /\ Longer(log', log, e)
  BY AppendLonger
<1>2. /\ \A i \in DOMAIN log : i \in DOMAIN log' /\ log'[i] = log[i]
      /\ Len(log') \in DOMAIN log' /\ log'[Len(log')] = e
      /\ \A i \in DOMAIN log' : i = Len(log') \/ i \in DOMAIN log
      /\ Len(log') > 0
  BY <1>1 DEF Longer
<1>3. \A kind, id : Logged(kind, id)' <=> Logged(kind, id) \/ e = Line(kind, id)
  BY <1>2 DEF Logged
<1>4. \A kinds : EndsIn(log', kinds) <=> e.kind \in kinds
  BY <1>2 DEF EndsIn
<1>5. QED
  BY <1>1, <1>3, <1>4

\* No batch: every call waits to be asked for.
LEMMA NoBatchIdle ==
  ASSUME TypeOK, CallInv, at \notin {"batch", "marking"}
  PROVE  batch = <<>> /\ completed = <<>> /\ pc = [c \in CallIds |-> "waiting"]
<1>1. batch = <<>> /\ ToSet(batch) = {}
  BY DEF TypeOK, ToSet
<1>2. ToSet(completed) = {}
  BY <1>1 DEF TypeOK
<1>3. completed = <<>>
  <2>1. completed \in Seq(CallIds)
    BY DEF TypeOK
  <2>2. DOMAIN completed = {}
    BY <1>2 DEF ToSet
  <2>3. QED
    BY <2>1, <2>2
<1>4. \A c \in CallIds : pc[c] = "waiting"
  BY <1>1 DEF CallInv
<1>5. pc = [c \in CallIds |-> "waiting"]
  BY <1>4 DEF TypeOK
<1>6. QED
  BY <1>1, <1>3, <1>5

\* The steps of run_turn that neither say nor write anything: hooks return,
\* and the turn starts, goes on or ends.
Walks == StartTurn \/ Refuse \/ TopCancelled \/ Request \/ TurnStartHooks \/ NoAnswer
         \/ TurnEndHooks \/ MessageEndHooks

LEMMA WalkIs ==
  ASSUME Walks
  PROVE  /\ at \notin {"batch", "marking", "down"}
         /\ at' \in {"idle", "folding", "opening", "top", "starting", "streaming", "closing",
                    "tailing"}
         /\ at' \in BeforeReply => at \in BeforeReply
         /\ cancel' \in {cancel, FALSE}
         /\ UNCHANGED <<log, ctx, issued, crashes, batch, serial, pc, completed, ran, unfiled>>
BY DEF Walks, StartTurn, Refuse, TopCancelled, Request, TurnStartHooks, NoAnswer, TurnEndHooks,
       MessageEndHooks, BeforeReply, batchVars

\* Every step keeps the types.
LEMMA TypeStep ==
  ASSUME TypeOK, CallInv, FileInv, [Next]_vars
  PROVE  TypeOK'
<1> USE DEF batchVars
<1>1. log \in Seq(Entry) /\ ctx \in Seq(Message) /\ Len(log) \in Nat /\ issued \in Nat
  BY TranscriptAssumption DEF TypeOK
<1>2. \A kind, id : Line(kind, id).kind = kind /\ Line(kind, id).id = id
  BY DEF Line
<1>3. \A id \in Nat : /\ Line("user", id) \in Entry /\ Line("assistant", id) \in Entry
                      /\ Line("call", id) \in Entry /\ Line("result", id) \in Entry
                      /\ Line("cancelled", id) \in Entry /\ Line("compaction", id) \in Entry
                      /\ Says("user", id) \in Message /\ Says("assistant", id) \in Message
                      /\ Says("tool", id) \in Message /\ Says("summary", id) \in Message
  BY DEF Line, Says, Entry, Message
<1>4. CallIds \subseteq Nat
  BY DEF CallIds
<1>5. \A i \in DOMAIN batch : batch[i] \in CallIds /\ batch[i] \in Nat /\ batch[i] \in ToSet(batch)
  <2>1. \A i \in DOMAIN batch : batch[i] \in CallIds
    BY DEF TypeOK
  <2>2. QED
    BY <1>4, <2>1 DEF ToSet
<1>e. <<>> \in Seq(CallIds) /\ <<>> \in Seq(Message) /\ ToSet(<<>>) = {} /\ IsInjective(<<>>)
  BY DEF ToSet, IsInjective
<1>6. CASE Submit
  <2>1. log' \in Seq(Entry) /\ ctx' \in Seq(Message)
    BY <1>1, <1>3, <1>6 DEF Submit
  <2>2. at' \in {"top", "idle"} /\ at = "opening"
        /\ UNCHANGED <<cancel, issued, crashes, batch, serial, pc, completed, ran, unfiled>>
    BY <1>6 DEF Submit
  <2>3. QED
    BY <2>1, <2>2 DEF TypeOK
<1>7. CASE Esc
  BY <1>7 DEF TypeOK, Esc
<1>8. CASE Walks
  BY <1>8, WalkIs DEF TypeOK
<1>9. CASE Steer
  BY <1>1, <1>3, <1>9 DEF TypeOK, Steer, SteerLine
<1>12. CASE StreamAborted
  BY <1>1, <1>3, <1>12 DEF TypeOK, StreamAborted
<1>13. ASSUME NEW n \in Cuts, Compact(n) PROVE TypeOK'
  <2>1. n \in Nat
    BY <1>1 DEF Cuts
  <2>2. Summarized(ctx, n) \in Seq(Message)
    BY <1>1, <2>1, SummarizedShortens
  <2>3. QED
    BY <1>1, <1>3, <1>13, <2>1, <2>2 DEF TypeOK, Compact, CompactionLine, Summarizing
<1>14. ASSUME NEW text \in BOOLEAN, NEW n \in 0 .. MaxBatch, NEW finish,
              NEW calls \in Collected(n), NEW oneByOne \in {FALSE, n > 1},
              Reply(text, calls, finish, oneByOne)
       PROVE  TypeOK'
  <2>1. n \in Nat
    BY TranscriptAssumption
  <2>2. Len(calls) = n /\ IsInjective(calls) /\ calls \in Seq(issued + 1 .. issued + n)
    BY <2>1, CollectedAre
  <2>3. at = "streaming" /\ issued + n <= MaxCalls
    BY <1>14, <2>2 DEF Reply
  <2>4. issued + 1 .. issued + n \subseteq CallIds
    BY <1>1, <2>1, <2>3, TranscriptAssumption DEF CallIds
  <2>5. calls \in Seq(CallIds)
    BY <2>2, <2>4, SeqMonotonic
  <2>6. completed = <<>> /\ batch = <<>> /\ pc = [c \in CallIds |-> "waiting"]
    BY <2>3, NoBatchIdle
  <2> DEFINE line == IF text THEN <<Line("assistant", Len(log) + 1)>> ELSE <<>>
             m == [kind |-> "assistant", id |-> IF text THEN Len(log) + 1 ELSE 0,
                   calls |-> calls]
  <2>7. log' = log \o line /\ ctx' = Append(ctx, m)
    BY <1>14 DEF Reply
  <2>8. line \in Seq(Entry) /\ m \in Message
    <3>1. Line("assistant", Len(log) + 1) \in Entry
      BY <1>1, <1>3
    <3>2. line \in Seq(Entry)
      BY <3>1
    <3>3. m \in Message
      BY <1>1, <2>5 DEF Message
    <3>4. QED
      BY <3>2, <3>3
  <2>9. log' \in Seq(Entry) /\ ctx' \in Seq(Message)
    <3> HIDE DEF line, m
    <3>1. QED
      BY <1>1, <2>7, <2>8, ConcatIs
  <2>10. /\ cancel' = cancel /\ crashes' = crashes /\ pc' = pc /\ completed' = completed
         /\ ran' = ran /\ issued' = issued + n /\ unfiled' \in BOOLEAN
    BY <1>14, <2>2 DEF Reply, TypeOK
  <2>11. issued' \in 0 .. MaxCalls
    BY <1>1, <2>1, <2>3, <2>10, TranscriptAssumption
  <2>12. ToSet(completed') = {c \in ToSet(batch') : pc'[c] = "done"}
    <3>1. batch' = calls \/ batch' = batch
      BY <1>14 DEF Reply
    <3>2. \A c \in ToSet(batch') : c \in CallIds
      BY <2>5, <2>6, <3>1 DEF ToSet
    <3>3. ToSet(completed') = {}
      BY <2>6, <2>10 DEF ToSet
    <3>4. QED
      BY <2>6, <2>10, <3>2, <3>3
  <2>13. \/ at' = "batch" /\ batch' = calls /\ calls # <<>> /\ serial' \in BOOLEAN
         \/ at' \in {"idle", "closing"} /\ batch' = <<>> /\ serial' = serial
    <3>2. oneByOne \in BOOLEAN
      <4>1. (n > 1) \in BOOLEAN
        OBVIOUS
      <4>2. QED
        BY <4>1, Zenon
    <3>3. QED
      BY <1>14, <2>2, <2>6, <3>2 DEF Reply, Runs
  <2>14. batch' \in Seq(CallIds) /\ IsInjective(batch')
    BY <1>e, <2>2, <2>5, <2>13
  <2>15. (batch' # <<>>) <=> (at' \in {"batch", "marking"})
    BY <2>13
  <2> HIDE DEF line, m
  <2>16. QED
    BY <2>9, <2>10, <2>11, <2>12, <2>13, <2>14, <2>15 DEF TypeOK
<1>15. ASSUME NEW i \in DOMAIN batch, Begin(i) PROVE TypeOK'
  <2>1. log' \in Seq(Entry) /\ pc[batch[i]] = "waiting"
    BY <1>1, <1>3, <1>5, <1>15 DEF Begin, CallLine
  <2>2. /\ pc' = [pc EXCEPT ![batch[i]] = "logged"]
        /\ UNCHANGED <<ctx, at, cancel, issued, crashes, batch, serial, completed, ran, unfiled>>
    BY <1>15 DEF Begin
  <2>3. \A c \in CallIds : pc'[c] = "done" <=> pc[c] = "done"
    BY <1>5, <2>1, <2>2 DEF TypeOK
  <2>4. \A c \in ToSet(batch) : c \in CallIds
    BY <1>5 DEF ToSet
  <2>5. QED
    BY <2>1, <2>2, <2>3, <2>4 DEF TypeOK
<1>16. ASSUME NEW i \in DOMAIN batch, Block(i) PROVE TypeOK'
  <2>1. log' \in Seq(Entry) /\ pc[batch[i]] = "waiting"
    BY <1>1, <1>3, <1>5, <1>16 DEF Block
  <2>2. /\ pc' = [pc EXCEPT ![batch[i]] = "ending"]
        /\ UNCHANGED <<ctx, at, cancel, issued, crashes, batch, serial, completed, ran, unfiled>>
    BY <1>16 DEF Block
  <2>3. \A c \in CallIds : pc'[c] = "done" <=> pc[c] = "done"
    BY <1>5, <2>1, <2>2 DEF TypeOK
  <2>4. \A c \in ToSet(batch) : c \in CallIds
    BY <1>5 DEF ToSet
  <2>5. QED
    BY <2>1, <2>2, <2>3, <2>4 DEF TypeOK
<1>17. ASSUME NEW i \in DOMAIN batch, Mark(i) PROVE TypeOK'
  BY <1>1, <1>3, <1>5, <1>17 DEF TypeOK, Mark
<1>18. ASSUME NEW c \in CallIds, Execute(c) PROVE TypeOK'
  <2>1. /\ pc[c] = "logged" /\ pc' = [pc EXCEPT ![c] = "running"] /\ ran' = ran \cup {c}
        /\ UNCHANGED <<log, ctx, at, cancel, issued, crashes, batch, serial, completed,
                       unfiled>>
    BY <1>18 DEF Execute
  <2>2. \A d \in CallIds : pc'[d] = "done" <=> pc[d] = "done"
    BY <2>1 DEF TypeOK
  <2>3. \A d \in ToSet(batch) : d \in CallIds
    BY <1>5 DEF ToSet
  <2>4. QED
    BY <2>1, <2>2, <2>3 DEF TypeOK
<1>19. ASSUME NEW c \in CallIds, Finish(c) PROVE TypeOK'
  <2>1. /\ pc[c] = "running" /\ pc' = [pc EXCEPT ![c] = "ending"] /\ log' \in Seq(Entry)
        /\ UNCHANGED <<ctx, at, cancel, issued, crashes, batch, serial, completed, ran, unfiled>>
    BY <1>1, <1>3, <1>4, <1>19 DEF Finish
  <2>2. \A d \in CallIds : pc'[d] = "done" <=> pc[d] = "done"
    BY <2>1 DEF TypeOK
  <2>3. \A d \in ToSet(batch) : d \in CallIds
    BY <1>5 DEF ToSet
  <2>4. QED
    BY <2>1, <2>2, <2>3 DEF TypeOK
<1>20. ASSUME NEW c \in CallIds, Complete(c) PROVE TypeOK'
  <2>1. /\ pc[c] = "ending" /\ pc' = [pc EXCEPT ![c] = "done"]
        /\ completed' = Append(completed, c)
        /\ UNCHANGED <<log, ctx, at, cancel, issued, crashes, batch, serial, ran, unfiled>>
    BY <1>20 DEF Complete
  <2>2. c \in ToSet(batch) /\ c \notin ToSet(completed) /\ completed \in Seq(CallIds)
        /\ IsInjective(completed)
    BY <2>1 DEF TypeOK, CallInv
  <2>3. ToSet(completed') = ToSet(completed) \cup {c} /\ IsInjective(completed')
        /\ completed' \in Seq(CallIds)
    BY <2>1, <2>2, ToSetAppend, InjectiveAppend
  <2>4. ToSet(completed') = {d \in ToSet(batch') : pc'[d] = "done"}
    <3>1. \A d \in CallIds : pc'[d] = "done" <=> pc[d] = "done" \/ d = c
      BY <2>1 DEF TypeOK
    <3>2. \A d \in ToSet(batch) : d \in CallIds
      BY <1>5 DEF ToSet
    <3>3. ToSet(completed) = {d \in ToSet(batch) : pc[d] = "done"}
      BY DEF TypeOK
    <3>4. batch' = batch
      BY <2>1
    <3>5. QED
      BY <2>2, <2>3, <3>1, <3>2, <3>3, <3>4
  <2>5. pc' \in [CallIds -> {"waiting", "logged", "running", "ending", "done"}]
    BY <2>1 DEF TypeOK
  <2>6. QED
    BY <2>1, <2>3, <2>4, <2>5 DEF TypeOK
<1>21. CASE BatchCancelled
  BY <1>21 DEF TypeOK, BatchCancelled
<1>22. CASE Settle
  <2>1. Outcomes \in Seq(CallIds)
    BY DEF TypeOK, Outcomes
  <2> DEFINE answers == [i \in DOMAIN Outcomes |-> Says("tool", Outcomes[i])]
  <2>2. answers \in Seq(Message)
    <3>1. \A i \in DOMAIN Outcomes : Says("tool", Outcomes[i]) \in Message
      <4>1. \A i \in DOMAIN Outcomes : Outcomes[i] \in CallIds
        BY <2>1, ElementOfSeq, LenProperties
      <4>2. QED
        BY <1>3, <1>4, <4>1
    <3>2. DOMAIN Outcomes = 1 .. Len(Outcomes) /\ Len(Outcomes) \in Nat
      BY <2>1
    <3>3. QED
      BY <3>1, <3>2, IsASeq
  <2>3. ctx' \in Seq(Message)
    <3>1. ctx' = ctx \o answers
      BY <1>22 DEF Settle
    <3> HIDE DEF answers
    <3>2. QED
      BY <1>1, <2>2, <3>1, ConcatIs
  <2>4. /\ at' \in {"ending", "idle"} /\ batch' = <<>> /\ serial' = FALSE
        /\ pc' = [c \in CallIds |-> "waiting"] /\ completed' = <<>>
        /\ UNCHANGED <<log, cancel, issued, crashes, ran>> /\ unfiled' \in BOOLEAN
    BY <1>22 DEF Settle, NoBatch, TypeOK
  <2>5. QED
    BY <1>e, <2>3, <2>4 DEF TypeOK
<1>23. CASE Crash
  <2>1. /\ at' = "down" /\ batch' = <<>> /\ serial' = FALSE /\ ctx' = <<>> /\ cancel' = FALSE
        /\ pc' = [c \in CallIds |-> "waiting"] /\ completed' = <<>>
        /\ crashes < MaxCrashes /\ crashes' = crashes + 1
        /\ UNCHANGED <<log, issued, ran, unfiled>>
    BY <1>23 DEF Crash, NoBatch
  <2>2. crashes' \in 0 .. MaxCrashes
    BY <2>1, TranscriptAssumption DEF TypeOK
  <2>3. QED
    BY <1>e, <2>1, <2>2 DEF TypeOK
<1>24. CASE Resume
  <2>1. Load(log) \in Seq(Message)
    BY <1>1, LoadHolds
  <2>2. QED
    BY <1>24, <2>1 DEF TypeOK, Resume
<1>25. CASE UNCHANGED vars
  BY <1>25 DEF TypeOK, vars
<1>26. QED
  BY <1>6, <1>7, <1>8, <1>9, <1>12, <1>13, <1>14, <1>15, <1>16, <1>17, <1>18,
     <1>19, <1>20, <1>21, <1>22, <1>23, <1>24, <1>25 DEF Next, Walks

\* A call has an answer in the file, with a result or a cancellation.
LEMMA AnswerLogged ==
  ASSUME log \in Seq(Entry), NEW c
  PROVE  HasAnswer(log, c) <=> Logged("result", c) \/ Logged("cancelled", c)
<1>1. \A k \in DOMAIN log : \A kind : log[k].kind = kind /\ log[k].id = c <=> log[k] = Line(kind, c)
  <2>1. \A e \in Entry : e = Line(e.kind, e.id)
    BY DEF Entry, Line
  <2>2. \A kind : Line(kind, c).kind = kind /\ Line(kind, c).id = c
    BY DEF Line
  <2>3. \A k \in DOMAIN log : log[k] \in Entry
    OBVIOUS
  <2>4. QED
    BY <2>1, <2>2, <2>3
<1>2. QED
  BY <1>1 DEF HasAnswer, Logged

\* What a step may write, and where in the file.
LEMMA LogStep ==
  ASSUME TypeOK, CallInv, TurnInv, [Next]_vars
  PROVE  \/ log' = log
         \/ \E e \in Entry :
              /\ log' = Append(log, e)
              /\ e.kind = "call" =>
                   /\ e.id \in CallIds /\ ~HasAnswer(log, e.id)
                   /\ EndsIn(log, {"user", "assistant", "call", "result", "cancelled"})
              /\ e.kind = "assistant" => EndsIn(log, {"user", "result", "cancelled"})
<1> USE DEF batchVars
<1> DEFINE Writes(kind, id) == log' = Append(log, Line(kind, id))
           Kinds == {"user", "assistant", "call", "result", "cancelled", "compaction"}
<1>1. log \in Seq(Entry) /\ Len(log) + 1 \in Nat /\ CallIds \subseteq Nat
  BY DEF TypeOK, CallIds
<1>2. \A kind \in Kinds, id \in Nat : Line(kind, id) \in Entry /\ Line(kind, id).kind = kind
                                      /\ Line(kind, id).id = id
  BY DEF Line, Entry
<1>3. \A i \in DOMAIN batch : batch[i] \in CallIds /\ batch[i] \in Nat /\ batch[i] \in ToSet(batch)
  <2>1. \A i \in DOMAIN batch : batch[i] \in CallIds
    BY DEF TypeOK
  <2>2. QED
    BY <1>1, <2>1 DEF ToSet
<1>4. ASSUME NEW kind \in {"user", "result", "cancelled", "compaction"}, NEW id \in Nat,
             Writes(kind, id)
      PROVE  \E e \in Entry : log' = Append(log, e) /\ e.kind \notin {"call", "assistant"}
  BY <1>2, <1>4
<1>5. ASSUME NEW id \in Nat, Writes("assistant", id), at = "streaming"
      PROVE  \E e \in Entry : /\ log' = Append(log, e) /\ e.kind = "assistant"
                              /\ EndsIn(log, {"user", "result", "cancelled"})
  BY <1>2, <1>5 DEF TurnInv, BeforeReply
<1>6. ASSUME NEW c \in CallIds, Writes("call", c), at = "batch", pc[c] = "waiting",
             c \in ToSet(batch)
      PROVE  \E e \in Entry :
               /\ log' = Append(log, e) /\ e.kind = "call"
               /\ e.id \in CallIds /\ ~HasAnswer(log, e.id)
               /\ EndsIn(log, {"user", "assistant", "call", "result", "cancelled"})
  <2>1. ~HasAnswer(log, c)
    BY <1>1, <1>6, AnswerLogged DEF CallInv
  <2>2. EndsIn(log, {"user", "assistant", "call", "result", "cancelled"})
    BY <1>6 DEF TurnInv, EndsIn
  <2>3. Line("call", c) \in Entry /\ Line("call", c).kind = "call" /\ Line("call", c).id = c
    BY <1>1, <1>2
  <2>4. QED
    BY <1>6, <2>1, <2>2, <2>3
<1> HIDE DEF Writes
<1>7. CASE Submit \/ Steer
  <2>1. Writes("user", Len(log) + 1)
    BY <1>7 DEF Submit, Steer, SteerLine, Writes
  <2>2. QED
    BY <1>1, <1>4, <2>1 DEF Writes
<1>8. CASE StreamAborted
  <2>1. Writes("assistant", Len(log) + 1) /\ at = "streaming"
    BY <1>8 DEF StreamAborted, Writes
  <2>2. QED
    BY <1>1, <1>5, <2>1 DEF Writes
<1>9. ASSUME NEW n \in Cuts, Compact(n)
      PROVE  \E e \in Entry : log' = Append(log, e) /\ e.kind \notin {"call", "assistant"}
  <2>1. Writes("compaction", n)
    BY <1>9 DEF Compact, CompactionLine, Writes
  <2>2. n \in Nat
    BY DEF Cuts, TypeOK
  <2>3. QED
    BY <1>4, <2>1, <2>2 DEF Writes
<1>10. ASSUME NEW text \in BOOLEAN, NEW calls, NEW finish, NEW oneByOne,
              Reply(text, calls, finish, oneByOne)
       PROVE  log' = log \/ (Writes("assistant", Len(log) + 1) /\ at = "streaming")
  <2>1. log' = log \o (IF text THEN <<Line("assistant", Len(log) + 1)>> ELSE <<>>)
        /\ at = "streaming"
    BY <1>10 DEF Reply
  <2>2. CASE text
    <3>1. log' = log \o <<Line("assistant", Len(log) + 1)>>
      BY <2>1, <2>2
    <3>2. Line("assistant", Len(log) + 1) \in Entry
      BY <1>1, <1>2
    <3>3. QED
      BY <1>1, <2>1, <3>1, <3>2, AppendIsConcat DEF Writes
  <2>3. CASE ~text
    BY <1>1, <2>1, <2>3, ConcatEmptySeq
  <2>4. QED
    BY <2>2, <2>3
<1>11. ASSUME NEW i \in DOMAIN batch, Begin(i)
       PROVE  Writes("call", batch[i]) /\ at = "batch" /\ pc[batch[i]] = "waiting"
  BY <1>11 DEF Begin, CallLine, Writes
<1>12. ASSUME NEW i \in DOMAIN batch, Block(i) \/ Mark(i)
       PROVE  Writes("result", batch[i]) \/ Writes("cancelled", batch[i])
  BY <1>12 DEF Block, Mark, Writes
<1>13. ASSUME NEW c \in CallIds, Execute(c) \/ Finish(c) \/ Complete(c)
       PROVE  log' = log \/ Writes("result", c)
  BY <1>13 DEF Execute, Finish, Complete, Writes
<1>14. CASE Walks \/ Esc \/ BatchCancelled \/ Settle \/ Crash \/ Resume \/ UNCHANGED vars
  BY <1>14, WalkIs DEF Esc, BatchCancelled, Settle, Crash, Resume, vars
<1>15. CASE \E n \in Cuts : Compact(n)
  BY <1>9, <1>15
<1>16. CASE \E text \in BOOLEAN, n \in 0 .. MaxBatch, finish \in {"tool_calls", "stop", "none"} :
              \E calls \in Collected(n), oneByOne \in {FALSE, n > 1} :
                Reply(text, calls, finish, oneByOne)
  <2>1. log' = log \/ (Writes("assistant", Len(log) + 1) /\ at = "streaming")
    BY <1>10, <1>16
  <2>2. QED
    BY <1>1, <1>5, <2>1
<1>17. CASE \E i \in DOMAIN batch : Begin(i) \/ Block(i) \/ Mark(i)
  <2>1. PICK i \in DOMAIN batch : Begin(i) \/ Block(i) \/ Mark(i)
    BY <1>17
  <2>2. CASE Begin(i)
    BY <1>3, <1>6, <1>11, <2>2
  <2>3. CASE Block(i) \/ Mark(i)
    BY <1>3, <1>4, <1>12, <2>3
  <2>4. QED
    BY <2>1, <2>2, <2>3
<1>18. CASE \E c \in CallIds : Execute(c) \/ Finish(c) \/ Complete(c)
  BY <1>1, <1>4, <1>13, <1>18
<1>19. QED
  BY <1>7, <1>8, <1>14, <1>15, <1>16, <1>17, <1>18 DEF Next, Walks

\* Every step keeps the replayed file faithful to its lines.
LEMMA FileStep ==
  ASSUME TypeOK, FileInv, CallInv, TurnInv, [Next]_vars
  PROVE  FileInv'
<1>1. CASE log' = log
  BY <1>1 DEF FileInv
<1>2. ASSUME NEW e \in Entry, log' = Append(log, e),
             e.kind = "call" =>
               /\ e.id \in CallIds /\ ~HasAnswer(log, e.id)
               /\ EndsIn(log, {"user", "assistant", "call", "result", "cancelled"}),
             e.kind = "assistant" => EndsIn(log, {"user", "result", "cancelled"})
      PROVE  FileInv'
  <2>1. Faithful(Append(log, e), Replay(Append(log, e)))
    BY <1>2, FaithfulLine DEF TypeOK, FileInv
  <2>2. QED
    BY <1>2, <2>1, Zenon DEF FileInv
<1>3. QED
  BY <1>1, <1>2, LogStep

\* Every step keeps the calls in step with their lines.
LEMMA CallStep ==
  ASSUME TypeOK, CallInv, [Next]_vars
  PROVE  CallInv'
<1> USE DEF batchVars
<1> DEFINE Kinds == {"call", "result", "cancelled"}
           Same == \A kind \in Kinds : \A id : Logged(kind, id)' <=> Logged(kind, id)
           Adds(k, c) == \A kind \in Kinds : \A id :
                           Logged(kind, id)' <=> Logged(kind, id) \/ (kind = k /\ id = c)
<1>1. log \in Seq(Entry) /\ issued \in Nat /\ CallIds \subseteq Nat
      /\ pc \in [CallIds -> {"waiting", "logged", "running", "ending", "done"}]
      /\ \A c \in ToSet(batch) : c \in CallIds
  BY TranscriptAssumption DEF TypeOK, CallIds, ToSet
<1>2. \A i \in DOMAIN batch : batch[i] \in CallIds /\ batch[i] \in ToSet(batch)
  BY <1>1 DEF ToSet
<1>3. ASSUME log' = log PROVE Same
  BY <1>3 DEF Logged
<1>4. ASSUME NEW kind \in {"user", "assistant", "compaction"}, NEW id \in Nat,
             log' = Append(log, Line(kind, id))
      PROVE  Same
  <2>1. Line(kind, id) \in Entry /\ \A k \in Kinds : \A i : Line(kind, id) # Line(k, i)
    BY DEF Line, Entry
  <2>2. QED
    BY <1>1, <1>4, <2>1, LinesGrow
<1>5. ASSUME NEW k \in Kinds, NEW c \in CallIds, log' = Append(log, Line(k, c)) PROVE Adds(k, c)
  <2>1. Line(k, c) \in Entry
    BY <1>1 DEF Line, Entry
  <2>2. \A kind, id : Line(k, c) = Line(kind, id) <=> kind = k /\ id = c
    BY DEF Line
  <2>3. \A kind, id : Logged(kind, id)' <=> Logged(kind, id) \/ Line(k, c) = Line(kind, id)
    BY <1>1, <1>5, <2>1, LinesGrow
  <2>4. QED
    BY <2>2, <2>3
<1> HIDE DEF Same, Adds
\* Steps outside a batch.
<1>6. ASSUME Same, at \notin {"batch", "marking"}, ToSet(batch') = {}, issued' \in Nat,
             issued <= issued', ran' = ran, pc' = pc
      PROVE  CallInv'
  <2>1. ToSet(batch) = {}
    BY <1>6, NoBatchIdle DEF ToSet
  <2>2. \A c \in CallIds : pc'[c] = "waiting"
    BY <1>6, <2>1 DEF CallInv
  <2>3. \A c : c \in 1 .. issued => c \in 1 .. issued'
    BY <1>1, <1>6
  <2>4. QED
    BY <1>6, <2>2, <2>3 DEF CallInv, Same
<1>7. ASSUME batch' = batch, at \notin {"batch", "marking"} PROVE ToSet(batch') = {}
  BY <1>7, NoBatchIdle DEF ToSet
<1>8. CASE Submit \/ Steer \/ StreamAborted
  <2>1. /\ at \notin {"batch", "marking"}
        /\ UNCHANGED <<issued, batch, pc, ran>>
        /\ \/ log' = Append(log, Line("user", Len(log) + 1))
           \/ log' = Append(log, Line("assistant", Len(log) + 1))
    BY <1>8 DEF Submit, Steer, SteerLine, StreamAborted
  <2>2. Same
    <3>1. Len(log) + 1 \in Nat
      BY <1>1
    <3>2. QED
      BY <1>4, <2>1, <3>1
  <2>3. QED
    BY <1>1, <1>6, <1>7, <2>1, <2>2
<1>9. ASSUME NEW n \in Cuts, Compact(n) PROVE CallInv'
  <2>1. /\ at \notin {"batch", "marking"} /\ UNCHANGED <<issued, batch, pc, ran>>
        /\ log' = Append(log, Line("compaction", n)) /\ n \in Nat
    BY <1>9 DEF Compact, CompactionLine, Summarizing, Cuts, TypeOK
  <2>2. Same
    BY <1>4, <2>1
  <2>3. QED
    BY <1>1, <1>6, <1>7, <2>1, <2>2
<1>10. CASE Walks \/ Resume
  <2>1. /\ at \notin {"batch", "marking"} /\ UNCHANGED <<log, issued, batch, pc, ran>>
    BY <1>10, WalkIs DEF Resume
  <2>2. QED
    BY <1>1, <1>3, <1>6, <1>7, <2>1
<1>11. CASE Esc \/ UNCHANGED vars
  BY <1>3, <1>11 DEF Esc, vars, Same, CallInv
<1>12. ASSUME NEW text \in BOOLEAN, NEW n \in 0 .. MaxBatch, NEW finish,
              NEW calls \in Collected(n), NEW oneByOne, Reply(text, calls, finish, oneByOne)
       PROVE  CallInv'
  <2>1. n \in Nat
    BY TranscriptAssumption
  <2>2. Len(calls) = n /\ calls \in Seq(issued + 1 .. issued + n)
    BY <2>1, CollectedAre
  <2>3. /\ at = "streaming" /\ issued' = issued + n /\ ran' = ran /\ pc' = pc
        /\ completed' = completed
        /\ log' = log \o (IF text THEN <<Line("assistant", Len(log) + 1)>> ELSE <<>>)
        /\ batch' = calls \/ batch' = batch
    BY <1>12, <2>2 DEF Reply
  <2>4. Same
    <3>1. CASE text
      <4>1. Len(log) + 1 \in Nat /\ Line("assistant", Len(log) + 1) \in Entry
        BY <1>1 DEF Line, Entry
      <4>2. log' = Append(log, Line("assistant", Len(log) + 1))
        BY <1>1, <2>3, <3>1, <4>1, AppendIsConcat
      <4>3. QED
        BY <1>4, <4>1, <4>2
    <3>2. CASE ~text
      <4>1. log' = log
        BY <1>1, <2>3, <3>2, ConcatEmptySeq
      <4>2. QED
        BY <1>3, <4>1
    <3>3. QED
      BY <3>1, <3>2
  <2>5. issued' \in Nat /\ issued <= issued' /\ at \notin {"batch", "marking"}
    BY <1>1, <2>1, <2>3
  <2>6. CASE batch' = batch
    BY <1>6, <1>7, <2>3, <2>4, <2>5, <2>6
  <2>7. CASE batch' = calls
    <3>1. \A c \in ToSet(calls) : c \in Nat /\ c > issued /\ c <= issued'
      <4>1. \A i \in DOMAIN calls : calls[i] \in issued + 1 .. issued + n
        BY <2>2, ElementOfSeq, LenProperties
      <4>2. \A c \in issued + 1 .. issued + n : c \in Nat /\ c > issued /\ c <= issued + n
        BY <1>1, <2>1
      <4>3. QED
        BY <2>3, <4>1, <4>2 DEF ToSet
    <3>2. \A c \in CallIds : pc'[c] = "waiting"
      <4>1. pc = [c \in CallIds |-> "waiting"]
        BY <2>3, NoBatchIdle
      <4>2. QED
        BY <2>3, <4>1
    <3>3. \A c : Logged("call", c) \/ Logged("result", c) \/ Logged("cancelled", c) =>
            c \in 1 .. issued /\ c \in 1 .. issued'
      BY <1>1, <2>5 DEF CallInv
    <3>4. \A c \in ToSet(calls) :
            ~Logged("call", c)' /\ ~Logged("result", c)' /\ ~Logged("cancelled", c)'
      <4>1. \A c \in 1 .. issued : ~(c > issued)
        BY <1>1
      <4>2. QED
        BY <2>4, <3>1, <3>3, <4>1 DEF Same
    <3>5. \A c \in ToSet(calls) : c \in CallIds
      <4>1. issued + n <= MaxCalls
        BY <1>12, <2>2 DEF Reply
      <4>2. QED
        BY <1>1, <2>1, <2>3, <3>1, <4>1, TranscriptAssumption DEF CallIds
    <3>6. QED
      BY <2>3, <2>4, <2>7, <3>1, <3>2, <3>3, <3>4, <3>5 DEF CallInv, Same
  <2>8. QED
    BY <2>3, <2>6, <2>7
\* Steps of a batch.
<1>13. ASSUME NEW i \in DOMAIN batch, Begin(i) PROVE CallInv'
  <2> DEFINE c == batch[i]
  <2>1. /\ at = "batch" /\ pc[c] = "waiting" /\ c \in CallIds /\ c \in ToSet(batch)
        /\ log' = Append(log, Line("call", c)) /\ pc' = [pc EXCEPT ![c] = "logged"]
        /\ UNCHANGED <<at, issued, batch, completed, ran>>
    BY <1>2, <1>13 DEF Begin, CallLine
  <2> HIDE DEF c
  <2>2. Adds("call", c)
    BY <1>5, <2>1
  <2>3. c \in 1 .. issued
    BY <1>1, <2>1 DEF CallInv, CallIds
  <2>4. \A d \in CallIds : pc'[d] = IF d = c THEN "logged" ELSE pc[d]
    BY <1>1, <2>1
  <2>5. QED
    BY <1>1, <2>1, <2>2, <2>3, <2>4 DEF CallInv, Adds
<1>14. ASSUME NEW i \in DOMAIN batch, Block(i) PROVE CallInv'
  <2> DEFINE c == batch[i]
  <2>1. /\ at = "batch" /\ pc[c] = "waiting" /\ c \in CallIds /\ c \in ToSet(batch)
        /\ log' = Append(log, Line("result", c)) /\ pc' = [pc EXCEPT ![c] = "ending"]
        /\ UNCHANGED <<at, issued, batch, completed, ran>>
    BY <1>2, <1>14 DEF Block
  <2> HIDE DEF c
  <2>2. Adds("result", c)
    BY <1>5, <2>1
  <2>3. c \in 1 .. issued
    BY <1>1, <2>1 DEF CallInv, CallIds
  <2>4. \A d \in CallIds : pc'[d] = IF d = c THEN "ending" ELSE pc[d]
    BY <1>1, <2>1
  <2>5. QED
    BY <1>1, <2>1, <2>2, <2>3, <2>4 DEF CallInv, Adds
<1>15. ASSUME NEW i \in DOMAIN batch, Mark(i) PROVE CallInv'
  <2> DEFINE c == batch[i]
  <2>1. /\ at = "marking" /\ c \in CallIds /\ c \in ToSet(batch) /\ c \notin ToSet(completed)
        /\ log' = Append(log, Line("cancelled", c))
        /\ UNCHANGED <<at, issued, batch, pc, completed, ran>>
    BY <1>2, <1>15 DEF Mark, Unmarked, ToMark
  <2> HIDE DEF c
  <2>2. Adds("cancelled", c)
    BY <1>5, <2>1
  <2>3. c \in 1 .. issued
    BY <1>1, <2>1 DEF CallInv, CallIds
  <2>4. QED
    BY <1>1, <2>1, <2>2, <2>3 DEF CallInv, Adds
<1>16. ASSUME NEW c \in CallIds, Execute(c) PROVE CallInv'
  <2>1. /\ pc[c] = "logged" /\ pc' = [pc EXCEPT ![c] = "running"] /\ ran' = ran \cup {c}
        /\ UNCHANGED <<log, at, issued, batch, completed>>
    BY <1>16 DEF Execute
  <2>2. Same
    BY <1>3, <2>1
  <2>3. \A d \in CallIds : pc'[d] = IF d = c THEN "running" ELSE pc[d]
    BY <1>1, <2>1
  <2>4. c \in ToSet(batch)
    BY <2>1 DEF CallInv
  <2>5. QED
    BY <1>1, <2>1, <2>2, <2>3, <2>4 DEF CallInv, Same
<1>17. ASSUME NEW c \in CallIds, Finish(c) PROVE CallInv'
  <2>1. /\ at = "batch" /\ pc[c] = "running" /\ pc' = [pc EXCEPT ![c] = "ending"]
        /\ log' = Append(log, Line("result", c))
        /\ UNCHANGED <<at, issued, batch, completed, ran>>
    BY <1>17 DEF Finish
  <2>2. Adds("result", c)
    BY <1>5, <2>1
  <2>3. \A d \in CallIds : pc'[d] = IF d = c THEN "ending" ELSE pc[d]
    BY <1>1, <2>1
  <2>4. c \in ToSet(batch)
    BY <2>1 DEF CallInv
  <2>5. c \in 1 .. issued
    BY <1>1, <2>4 DEF CallInv, CallIds
  <2>6. QED
    BY <1>1, <2>1, <2>2, <2>3, <2>4, <2>5 DEF CallInv, Adds
<1>18. ASSUME NEW c \in CallIds, Complete(c) PROVE CallInv'
  <2>1. /\ at = "batch" /\ pc[c] = "ending" /\ pc' = [pc EXCEPT ![c] = "done"]
        /\ UNCHANGED <<log, at, issued, batch, ran>>
    BY <1>18 DEF Complete
  <2>2. Same
    BY <1>3, <2>1
  <2>3. \A d \in CallIds : pc'[d] = IF d = c THEN "done" ELSE pc[d]
    BY <1>1, <2>1
  <2>4. c \in ToSet(batch)
    BY <2>1 DEF CallInv
  <2>5. QED
    BY <1>1, <2>1, <2>2, <2>3, <2>4 DEF CallInv, Same
<1>19. CASE BatchCancelled
  <2>1. at = "batch" /\ UNCHANGED <<log, issued, batch, pc, completed, ran>>
    BY <1>19 DEF BatchCancelled
  <2>2. Same
    BY <1>3, <2>1
  <2>3. QED
    BY <2>1, <2>2 DEF CallInv, Same
<1>20. CASE Settle \/ Crash
  <2>1. batch' = <<>> /\ pc' = [c \in CallIds |-> "waiting"] /\ UNCHANGED <<log, issued, ran>>
    BY <1>20 DEF Settle, Crash, NoBatch
  <2>2. Same
    BY <1>3, <2>1
  <2>3. ToSet(batch') = {} /\ \A c \in CallIds : pc'[c] = "waiting"
    BY <2>1 DEF ToSet
  <2>4. QED
    BY <2>1, <2>2, <2>3 DEF CallInv, Same
<1>21. QED
  BY <1>8, <1>9, <1>10, <1>11, <1>12, <1>13, <1>14, <1>15, <1>16, <1>17, <1>18, <1>19, <1>20
  DEF Next, Walks

\* The sequences of a well-typed state.
LEMMA TypeFacts ==
  ASSUME TypeOK
  PROVE  /\ log \in Seq(Entry) /\ CallIds \subseteq Nat /\ Len(log) + 1 \in Nat
         /\ pc \in [CallIds -> {"waiting", "logged", "running", "ending", "done"}]
         /\ \A c \in ToSet(batch) : c \in CallIds
         /\ \A i \in DOMAIN batch : batch[i] \in CallIds /\ batch[i] \in ToSet(batch)
<1>1. log \in Seq(Entry) /\ batch \in Seq(CallIds)
      /\ pc \in [CallIds -> {"waiting", "logged", "running", "ending", "done"}]
  BY DEF TypeOK
<1>2. CallIds \subseteq Nat /\ Len(log) + 1 \in Nat
  BY <1>1 DEF CallIds
<1>3. \A i \in DOMAIN batch : batch[i] \in CallIds
  BY <1>1
<1>4. QED
  BY <1>1, <1>2, <1>3 DEF ToSet

\* Every step keeps the end of the file in step with the turn.
LEMMA TurnStep ==
  ASSUME TypeOK, CallInv, TurnInv, [Next]_vars, TypeOK'
  PROVE  TurnInv'
<1> USE DEF batchVars
<1> DEFINE Answers == {"user", "result", "cancelled"}
           Open == {"assistant", "call"}
<1>1. log \in Seq(Entry) /\ CallIds \subseteq Nat /\ Len(log) + 1 \in Nat
      /\ pc \in [CallIds -> {"waiting", "logged", "running", "ending", "done"}]
      /\ \A c \in ToSet(batch) : c \in CallIds
  BY TypeFacts
<1>2. \A i \in DOMAIN batch : batch[i] \in CallIds /\ batch[i] \in ToSet(batch)
  BY TypeFacts
<1>3. ASSUME NEW kind \in {"user", "assistant", "call", "result", "cancelled", "compaction"},
             NEW id \in Nat, log' = Append(log, Line(kind, id))
      PROVE  \A kinds : EndsIn(log', kinds) <=> kind \in kinds
  <2>1. Line(kind, id) \in Entry /\ Line(kind, id).kind = kind
    BY DEF Line, Entry
  <2>2. QED
    BY <1>1, <1>3, <2>1, LinesGrow
<1>4. EndsIn(log, Answers \cup Open) <=> EndsIn(log, Answers) \/ EndsIn(log, Open)
  BY DEF EndsIn
<1>5. CASE Submit \/ Steer
  <2>1. log' = Append(log, Line("user", Len(log) + 1)) /\ at' \in {"top", "idle"}
    BY <1>5 DEF Submit, Steer, SteerLine
  <2>2. QED
    BY <1>1, <1>3, <2>1 DEF TurnInv
<1>6. CASE StreamAborted \/ Crash \/ Resume
  <2>1. at' \in {"idle", "down"}
    BY <1>6 DEF StreamAborted, Crash, Resume
  <2>2. QED
    BY <2>1 DEF TurnInv, BeforeReply
<1>7. ASSUME NEW n \in Cuts, Compact(n) PROVE TurnInv'
  BY <1>7 DEF TurnInv, Compact, BeforeReply
<1>8. CASE Esc \/ UNCHANGED vars
  <2>1. UNCHANGED <<log, at, batch, pc, completed>>
    BY <1>8 DEF Esc, vars
  <2>2. Unmarked' = Unmarked
    BY <2>1 DEF Unmarked, ToMark, Logged
  <2>3. QED
    BY <2>1, <2>2 DEF TurnInv
<1>9. CASE Walks
  BY <1>9, WalkIs DEF TurnInv
<1>10. ASSUME NEW text \in BOOLEAN, NEW n \in 0 .. MaxBatch, NEW finish,
              NEW calls \in Collected(n), NEW oneByOne, Reply(text, calls, finish, oneByOne)
       PROVE  TurnInv'
  <2>1. /\ at = "streaming" /\ pc' = pc
        /\ log' = log \o (IF text THEN <<Line("assistant", Len(log) + 1)>> ELSE <<>>)
        /\ \/ at' = "batch" /\ batch' = calls /\ Len(calls) > 0
           \/ at' \in {"idle", "closing"}
    <3>1. Len(calls) \in Nat /\ (Len(calls) = 0 => calls = <<>>)
      <4>1. n \in Nat
        BY TranscriptAssumption
      <4>2. Len(calls) = n /\ calls \in Seq(issued + 1 .. issued + n)
        BY <4>1, CollectedAre
      <4>3. QED
        BY <4>1, <4>2
    <3>2. QED
      BY <1>10, <3>1 DEF Reply, Runs
  <2>2. CASE at' \in {"idle", "closing"}
    BY <2>2 DEF TurnInv, BeforeReply
  <2>3. CASE at' = "batch" /\ batch' = calls /\ Len(calls) > 0
    <3>1. \E c \in ToSet(batch') : pc'[c] \in {"waiting", "logged", "running"}
      <4>1. batch' \in Seq(CallIds)
        BY DEF TypeOK
      <4>2. 1 \in DOMAIN batch' /\ batch'[1] \in CallIds
        BY <2>3, <4>1
      <4>3. pc'[batch'[1]] = "waiting"
        BY <2>1, <4>2, NoBatchIdle
      <4>4. QED
        BY <4>2, <4>3 DEF ToSet
    <3>2. EndsIn(log', Answers \cup Open)
      <4>1. CASE text
        <5>1. Line("assistant", Len(log) + 1) \in Entry
          BY <1>1 DEF Line, Entry
        <5>2. log' = Append(log, Line("assistant", Len(log) + 1))
          BY <1>1, <2>1, <4>1, <5>1, AppendIsConcat
        <5>3. QED
          BY <1>1, <1>3, <5>2
      <4>2. CASE ~text
        <5>1. log' = log
          BY <1>1, <2>1, <4>2, ConcatEmptySeq
        <5>2. EndsIn(log, Answers)
          BY <2>1 DEF TurnInv, BeforeReply
        <5>3. QED
          BY <1>4, <5>1, <5>2
      <4>3. QED
        BY <4>1, <4>2
    <3>3. QED
      BY <2>3, <3>1, <3>2, <1>4 DEF TurnInv, BeforeReply
  <2>4. QED
    BY <2>1, <2>2, <2>3
<1>11. ASSUME NEW i \in DOMAIN batch, Begin(i) PROVE TurnInv'
  <2>1. /\ at = "batch" /\ at' = at /\ batch' = batch
        /\ log' = Append(log, Line("call", batch[i]))
        /\ pc'[batch[i]] = "logged"
    BY <1>1, <1>2, <1>11 DEF Begin, CallLine
  <2>2. \A kinds : EndsIn(log', kinds) <=> "call" \in kinds
    BY <1>1, <1>2, <1>3, <2>1
  <2>3. QED
    BY <1>2, <2>1, <2>2 DEF TurnInv, BeforeReply
<1>12. ASSUME NEW i \in DOMAIN batch, Block(i) \/ Mark(i) PROVE TurnInv'
  <2>1. /\ at \in {"batch", "marking"} /\ at' = at
        /\ \/ log' = Append(log, Line("result", batch[i]))
           \/ log' = Append(log, Line("cancelled", batch[i]))
    BY <1>12 DEF Block, Mark
  <2>2. EndsIn(log', Answers) /\ ~EndsIn(log', Open)
    BY <1>1, <1>2, <1>3, <2>1
  <2>3. EndsIn(log', {"user", "result", "cancelled", "assistant", "call"})
    BY <2>2 DEF EndsIn
  <2>4. QED
    BY <2>1, <2>2, <2>3 DEF TurnInv
<1>13. ASSUME NEW c \in CallIds, Execute(c) PROVE TurnInv'
  <2>1. /\ pc[c] = "logged" /\ pc' = [pc EXCEPT ![c] = "running"]
        /\ UNCHANGED <<log, at, batch, completed>>
    BY <1>13 DEF Execute
  <2>2. Unmarked' = Unmarked
    BY <2>1 DEF Unmarked, ToMark, Logged
  <2>3. \A d \in CallIds : pc[d] \in {"waiting", "logged", "running"} =>
          pc'[d] \in {"waiting", "logged", "running"}
    BY <1>1, <2>1
  <2>4. QED
    BY <1>1, <2>1, <2>2, <2>3 DEF TurnInv
<1>14. ASSUME NEW c \in CallIds, Finish(c) PROVE TurnInv'
  <2>1. at = "batch" /\ at' = at /\ log' = Append(log, Line("result", c))
    BY <1>14 DEF Finish
  <2>2. EndsIn(log', Answers) /\ ~EndsIn(log', Open)
    BY <1>1, <1>3, <2>1
  <2>3. EndsIn(log', {"user", "result", "cancelled", "assistant", "call"})
    BY <2>2 DEF EndsIn
  <2>4. QED
    BY <2>1, <2>2, <2>3 DEF TurnInv
<1>15. ASSUME NEW c \in CallIds, Complete(c) PROVE TurnInv'
  <2>1. /\ at = "batch" /\ pc[c] = "ending" /\ pc' = [pc EXCEPT ![c] = "done"]
        /\ UNCHANGED <<log, at, batch>>
    BY <1>15 DEF Complete
  <2>2. \A d \in CallIds : pc[d] \in {"waiting", "logged", "running"} =>
          pc'[d] \in {"waiting", "logged", "running"}
    BY <1>1, <2>1
  <2>3. QED
    BY <1>1, <2>1, <2>2 DEF TurnInv
<1>16. CASE BatchCancelled
  <2>1. at = "batch" /\ at' = "marking" /\ UNCHANGED <<log, batch, pc, completed>>
    BY <1>16 DEF BatchCancelled
  <2>2. Unmarked' = Unmarked
    BY <2>1 DEF Unmarked, ToMark, Logged
  <2>3. ASSUME EndsIn(log, Open) PROVE Unmarked # {}
    <3>1. PICK c \in ToSet(batch) : pc[c] \in {"waiting", "logged", "running"}
      BY <2>1, <2>3 DEF TurnInv
    <3>2. c \notin ToSet(completed)
      BY <3>1 DEF TypeOK
    <3>3. ~Logged("cancelled", c)
      BY <2>1, <3>1 DEF CallInv
    <3>4. QED
      BY <3>1, <3>2, <3>3 DEF Unmarked, ToMark
  <2>4. QED
    BY <2>1, <2>2, <2>3 DEF TurnInv, BeforeReply
<1>17. CASE Settle
  <2>1. /\ at' \in {"ending", "idle"} /\ log' = log
        /\ (at = "batch" /\ AllDone) \/ (at = "marking" /\ Unmarked = {})
    BY <1>17 DEF Settle
  <2>2. ~EndsIn(log, Open)
    BY <2>1 DEF TurnInv, AllDone
  <2>3. EndsIn(log, Answers)
    <3>1. EndsIn(log, {"user", "result", "cancelled", "assistant", "call"})
      BY <2>1 DEF TurnInv
    <3>2. QED
      BY <2>2, <3>1 DEF EndsIn
  <2>4. QED
    BY <2>1, <2>3 DEF TurnInv
<1>18. QED
  BY <1>5, <1>6, <1>7, <1>8, <1>9, <1>10, <1>11, <1>12, <1>13, <1>14, <1>15, <1>16, <1>17
  DEF Next, Walks

\* Every step keeps calls that may not overlap in order.
LEMMA OrderStep ==
  ASSUME TypeOK, CallInv, OrderInv, [Next]_vars
  PROVE  OrderInv'
<1> USE DEF batchVars
<1> DEFINE Clash(i, j) == serial \/ (Key[batch[i]] # NoKey /\ Key[batch[i]] = Key[batch[j]])
<1>1. /\ batch \in Seq(CallIds) /\ IsInjective(batch) /\ DOMAIN batch \subseteq Nat
      /\ pc \in [CallIds -> {"waiting", "logged", "running", "ending", "done"}]
      /\ \A i \in DOMAIN batch : batch[i] \in CallIds
  BY TypeFacts DEF TypeOK
<1>2. at = "batch" => \A i, j \in DOMAIN batch :
        i < j /\ Clash(i, j) /\ pc[batch[j]] # "waiting" => pc[batch[i]] = "done"
  BY DEF OrderInv, CollectedOrder
<1>a. batch' = batch => Sorted'
  BY DEF OrderInv, Sorted
\* A call that moves on had begun, or waited for what it must wait for.
<1>3. ASSUME UNCHANGED <<batch, serial, at>>,
             NEW c \in CallIds, NEW to \in {"logged", "running", "ending", "done"},
             pc' = [pc EXCEPT ![c] = to], pc[c] # "done",
             pc[c] = "waiting" => \A i, j \in DOMAIN batch :
               i < j /\ batch[j] = c /\ Clash(i, j) => pc[batch[i]] = "done"
      PROVE  OrderInv'
  <2>1. \A d \in CallIds : pc'[d] = IF d = c THEN to ELSE pc[d]
    BY <1>1, <1>3
  <2>2. ASSUME at = "batch", NEW i \in DOMAIN batch, NEW j \in DOMAIN batch, i < j, Clash(i, j),
               pc'[batch[j]] # "waiting"
        PROVE  pc'[batch[i]] = "done"
    <3>1. pc[batch[i]] = "done"
      <4>1. CASE batch[j] = c
        BY <1>2, <1>3, <2>2, <4>1
      <4>2. CASE batch[j] # c
        BY <1>1, <1>2, <2>1, <2>2, <4>2
      <4>3. QED
        BY <4>1, <4>2
    <3>2. batch[i] # c
      BY <1>3, <3>1
    <3>3. QED
      BY <1>1, <2>1, <3>1, <3>2
  <2>3. QED
    BY <1>3, <1>a, <2>2 DEF OrderInv, CollectedOrder
<1> HIDE DEF Clash
<1>4. ASSUME batch' = <<>> PROVE OrderInv'
  BY <1>4 DEF OrderInv, CollectedOrder, Sorted
<1>5. ASSUME batch' = batch, at' # "batch" PROVE OrderInv'
  BY <1>5, <1>a DEF OrderInv, CollectedOrder
<1>6. CASE Submit \/ Steer \/ StreamAborted \/ Walks \/ BatchCancelled \/ Resume
  BY <1>5, <1>6, WalkIs DEF Submit, Steer, StreamAborted, BatchCancelled, Resume
<1>7. CASE Settle \/ Crash
  BY <1>4, <1>7 DEF Settle, Crash, NoBatch
<1>8. CASE Esc \/ UNCHANGED vars
  BY <1>8 DEF Esc, vars, OrderInv, CollectedOrder, Sorted
<1>9. ASSUME NEW n \in Cuts, Compact(n) PROVE OrderInv'
  BY <1>5, <1>9 DEF Compact
<1>10. ASSUME NEW text \in BOOLEAN, NEW n \in 0 .. MaxBatch, NEW finish,
              NEW calls \in Collected(n), NEW oneByOne, Reply(text, calls, finish, oneByOne)
       PROVE  OrderInv'
  <2>1. n \in Nat
    BY TranscriptAssumption
  <2>2. Len(calls) = n /\ calls \in Seq(issued + 1 .. issued + n)
        /\ (~Hashed => \A i, j \in DOMAIN calls : i < j => calls[i] < calls[j])
    BY <2>1, CollectedAre
  <2>3. /\ at = "streaming" /\ issued + n <= MaxCalls /\ pc' = pc
        /\ batch' = calls \/ (batch' = batch /\ at' \in {"idle", "closing"})
    BY <1>10, <2>2 DEF Reply
  <2>4. CASE batch' = calls
    <3>1. ASSUME NEW i \in DOMAIN calls PROVE pc'[calls[i]] = "waiting"
      <4>1. issued + 1 .. issued + n \subseteq CallIds
        BY <2>1, <2>3, TranscriptAssumption DEF TypeOK, CallIds
      <4>2. calls[i] \in CallIds
        BY <2>2, <4>1, ElementOfSeq, LenProperties
      <4>3. QED
        BY <2>3, <4>2, NoBatchIdle
    <3>2. QED
      BY <2>2, <2>4, <3>1 DEF OrderInv, CollectedOrder, Sorted
  <2>5. CASE batch' = batch /\ at' \in {"idle", "closing"}
    BY <1>5, <2>5
  <2>6. QED
    BY <2>3, <2>4, <2>5
<1>11. ASSUME NEW i \in DOMAIN batch, Begin(i) \/ Block(i) PROVE OrderInv'
  <2>1. /\ pc[batch[i]] = "waiting" /\ \A c \in WaitsFor(i) : pc[c] = "done"
        /\ UNCHANGED <<batch, serial, at>>
        /\ \/ pc' = [pc EXCEPT ![batch[i]] = "logged"]
           \/ pc' = [pc EXCEPT ![batch[i]] = "ending"]
    BY <1>11 DEF Begin, Block
  <2>2. ASSUME NEW h \in DOMAIN batch, NEW j \in DOMAIN batch, h < j, batch[j] = batch[i],
               Clash(h, j)
        PROVE  pc[batch[h]] = "done"
    <3>1. j = i
      BY <1>1, <2>2 DEF IsInjective
    <3>2. h \in 1 .. i - 1
      <4>1. DOMAIN batch = 1 .. Len(batch) /\ Len(batch) \in Nat
        BY <1>1
      <4>2. QED
        BY <2>2, <3>1, <4>1
    <3>3. batch[h] \in WaitsFor(i)
      BY <2>2, <3>1, <3>2 DEF WaitsFor, Clash
    <3>4. QED
      BY <2>1, <3>3
  <2>3. batch[i] \in CallIds /\ pc[batch[i]] # "done"
    BY <1>1, <2>1
  <2>4. QED
    BY <1>3, <2>1, <2>2, <2>3
<1>12. ASSUME NEW i \in DOMAIN batch, Mark(i) PROVE OrderInv'
  BY <1>5, <1>12 DEF Mark
<1>13. ASSUME NEW c \in CallIds, Execute(c) \/ Finish(c) \/ Complete(c) PROVE OrderInv'
  <2>1. /\ pc[c] \in {"logged", "running", "ending"} /\ UNCHANGED <<batch, serial, at>>
        /\ \E to \in {"logged", "running", "ending", "done"} : pc' = [pc EXCEPT ![c] = to]
    BY <1>13 DEF Execute, Finish, Complete
  <2>2. QED
    BY <1>3, <2>1
<1>14. QED
  BY <1>6, <1>7, <1>8, <1>9, <1>10, <1>11, <1>12, <1>13 DEF Next, Walks

-----------------------------------------------------------------------------
\* The elements of a sequence, by their places.
LEMMA ToSetIn ==
  ASSUME NEW T, NEW s \in Seq(T)
  PROVE  /\ DOMAIN s = 1 .. Len(s) /\ Len(s) \in Nat
         /\ \A i \in DOMAIN s : s[i] \in T /\ s[i] \in ToSet(s)
         /\ \A x \in ToSet(s) : x \in T /\ \E i \in DOMAIN s : s[i] = x
<1>1. DOMAIN s = 1 .. Len(s) /\ Len(s) \in Nat /\ \A i \in DOMAIN s : s[i] \in T
  OBVIOUS
<1>2. QED
  BY <1>1 DEF ToSet

\* When the results are pushed, there is one for each call of the batch, and
\* each is on file.
LEMMA OutcomesAre ==
  ASSUME TypeOK, CallInv, Settle
  PROVE  /\ Outcomes \in Seq(CallIds) /\ IsInjective(Outcomes)
         /\ ToSet(Outcomes) = ToSet(batch)
         /\ \A c \in ToSet(batch) : Logged("result", c) \/ Logged("cancelled", c)
<1>1. Outcomes \in Seq(CallIds) /\ IsInjective(Outcomes)
  BY DEF TypeOK, Outcomes
<1>2. (at = "batch" /\ AllDone) \/ (at = "marking" /\ Unmarked = {})
  BY DEF Settle
<1>3. ToSet(completed) = {c \in ToSet(batch) : pc[c] = "done"}
  BY DEF TypeOK
<1>4. ToSet(Outcomes) = ToSet(batch)
  BY <1>2, <1>3 DEF Outcomes, AllDone
<1>5. \A c \in ToSet(batch) : pc[c] = "done" => Logged("result", c)
  BY DEF CallInv
<1>6. ASSUME NEW c \in ToSet(batch) PROVE Logged("result", c) \/ Logged("cancelled", c)
  BY <1>2, <1>3, <1>5 DEF AllDone, Unmarked, ToMark
<1>7. QED
  BY <1>1, <1>4, <1>6

\* What the end of a batch appends.
LEMMA SettledIs ==
  ASSUME TypeOK, CallInv, Settle
  PROVE  /\ Len(ctx) \in Nat /\ Len(Outcomes) \in Nat /\ DOMAIN Outcomes = 1 .. Len(Outcomes)
         /\ DOMAIN ctx = 1 .. Len(ctx) /\ DOMAIN ctx' = 1 .. Len(ctx')
         /\ Len(ctx') = Len(ctx) + Len(Outcomes)
         /\ \A i \in 1 .. Len(ctx) : ctx'[i] = ctx[i]
         /\ \A i \in 1 .. Len(Outcomes) : ctx'[Len(ctx) + i] = Says("tool", Outcomes[i])
<1> DEFINE answers == [i \in DOMAIN Outcomes |-> Says("tool", Outcomes[i])]
<1>1. ctx' = ctx \o answers /\ ctx \in Seq(Message)
  BY DEF Settle, TypeOK
<1>2. DOMAIN Outcomes = 1 .. Len(Outcomes) /\ Len(Outcomes) \in Nat
      /\ \A i \in DOMAIN Outcomes : Outcomes[i] \in CallIds
  BY OutcomesAre, ToSetIn
<1>3. answers \in Seq(Message) /\ Len(answers) = Len(Outcomes)
      /\ \A i \in 1 .. Len(Outcomes) : answers[i] = Says("tool", Outcomes[i])
  <2>1. \A id \in Nat : Says("tool", id) \in Message
    BY DEF Says, Message
  <2>2. \A i \in 1 .. Len(Outcomes) : Says("tool", Outcomes[i]) \in Message
    BY <1>2, <2>1, TypeFacts
  <2>3. QED
    BY <1>2, <2>2, IsASeq
<1> HIDE DEF answers
<1>4. /\ ctx' \in Seq(Message) /\ Len(ctx') = Len(ctx) + Len(Outcomes) /\ Len(ctx) \in Nat
      /\ \A i \in 1 .. Len(ctx) : ctx'[i] = ctx[i]
      /\ \A i \in 1 .. Len(Outcomes) : ctx'[Len(ctx) + i] = Says("tool", Outcomes[i])
  <2>1. /\ ctx \o answers \in Seq(Message) /\ Len(ctx \o answers) = Len(ctx) + Len(answers)
        /\ Len(ctx) \in Nat
        /\ \A i \in 1 .. Len(ctx) : (ctx \o answers)[i] = ctx[i]
        /\ \A i \in 1 .. Len(answers) : (ctx \o answers)[Len(ctx) + i] = answers[i]
    <3>1. ctx \in Seq(Message) /\ answers \in Seq(Message)
      BY <1>1, <1>3
    <3>2. QED
      BY <3>1, ConcatIs
  <2>2. QED
    BY <1>1, <1>3, <2>1
<1>5. QED
  BY <1>1, <1>2, <1>4

\* Two conversations and their lines, the second with one message more.
LEMMA HoldsMore ==
  ASSUME NEW s \in Seq(Message), NEW m \in Message, NEW line, Holds(s, line)
  PROVE  Holds(Append(s, m), line)
<1>1. Append(s, m) \in Seq(Message) /\ Longer(Append(s, m), s, m)
  BY AppendLonger
<1> DEFINE t == Append(s, m)
<1> HIDE DEF t
<1>2. \A i \in DOMAIN s : i \in DOMAIN t /\ t[i] = s[i]
  BY <1>1 DEF Longer, t
<1>3. QED
  BY <1>2 DEF Holds, t

\* Every step keeps the running conversation in step with the file.
LEMMA CtxStep ==
  ASSUME TypeOK, FileInv, CallInv, CtxInv, [Next]_vars
  PROVE  CtxInv'
<1> USE DEF batchVars
<1>1. log \in Seq(Entry) /\ ctx \in Seq(Message) /\ CallIds \subseteq Nat /\ Len(log) + 1 \in Nat
      /\ \A i \in DOMAIN batch : batch[i] \in CallIds /\ batch[i] \in ToSet(batch)
  BY TypeFacts DEF TypeOK
<1>2. \A kind \in {"user", "assistant", "call", "result", "cancelled", "compaction"}, id \in Nat :
        Line(kind, id) \in Entry /\ Line(kind, id).kind = kind /\ Line(kind, id).id = id
  BY DEF Line, Entry
<1>3. at \notin {"batch", "marking"} => ToSet(batch) = {}
  BY NoBatchIdle DEF ToSet
<1>4. ASSUME NEW e \in Entry, log' = Append(log, e)
      PROVE  /\ \A k \in DOMAIN log : k \in DOMAIN log' /\ log'[k] = log[k]
                                      /\ (Recent(log', k) => Recent(log, k))
             /\ Len(log') \in DOMAIN log' /\ log'[Len(log')] = e
             /\ \A k \in DOMAIN log' : k = Len(log') \/ k \in DOMAIN log
             /\ \A m : OnFile(log, m) => OnFile(log', m)
  <2>1. Longer(log', log, e)
    BY <1>1, <1>4, LinesGrow
  <2>2. QED
    BY <1>1, <2>1, MoreLines DEF Longer
\* Nothing said, nothing written.
<1>5. ASSUME UNCHANGED <<log, ctx, batch>>, at' # "down" => at # "down" PROVE CtxInv'
  BY <1>5 DEF CtxInv
<1>6. CASE Walks \/ Esc \/ BatchCancelled \/ UNCHANGED vars
  BY <1>5, <1>6, WalkIs DEF Esc, BatchCancelled, vars
\* A message and its line.
<1>7. ASSUME NEW e \in Entry, log' = Append(log, e), e.kind \in {"user", "assistant"},
             NEW m \in Message, ctx' = Append(ctx, m), m.kind = e.kind, m.id = e.id,
             at \in {"opening", "top", "streaming"}
      PROVE  CtxInv'
  <2>1. Longer(ctx', ctx, m)
    BY <1>1, <1>7, AppendLonger
  <2>2. KindOf(e) = e.kind
    BY <1>7 DEF KindOf
  <2>3. ASSUME NEW i \in DOMAIN ctx' PROVE ctx'[i].kind = "unknown" \/ OnFile(log', ctx'[i])
    <3>1. CASE i \in DOMAIN ctx
      BY <1>4, <1>7, <2>1, <3>1 DEF Longer, CtxInv
    <3>2. CASE i = Len(ctx')
      BY <1>4, <1>7, <2>1, <2>2, <3>2 DEF OnFile, Longer
    <3>3. QED
      BY <2>1, <3>1, <3>2 DEF Longer
  <2>4. ASSUME NEW k \in DOMAIN log', Recent(log', k), log'[k].kind # "call"
        PROVE  Holds(ctx', log'[k])
    <3>1. CASE k \in DOMAIN log
      <4>1. Holds(ctx, log[k])
        BY <1>3, <1>4, <1>7, <2>4, <3>1 DEF CtxInv
      <4>2. QED
        BY <1>1, <1>4, <1>7, <3>1, <4>1, HoldsMore
    <3>2. CASE k = Len(log')
      <4>1. Len(ctx') \in DOMAIN ctx' /\ ctx'[Len(ctx')] = m
        BY <2>1 DEF Longer
      <4>2. QED
        BY <1>4, <1>7, <2>2, <3>2, <4>1 DEF Holds
    <3>3. QED
      BY <1>4, <1>7, <3>1, <3>2
  <2>5. QED
    BY <2>3, <2>4 DEF CtxInv
<1>8. CASE Submit \/ Steer
  <2>1. /\ log' = Append(log, Line("user", Len(log) + 1))
        /\ ctx' = Append(ctx, Says("user", Len(log) + 1)) /\ at \in {"opening", "top", "streaming"}
    BY <1>8 DEF Submit, Steer, SteerLine
  <2>2. Says("user", Len(log) + 1) \in Message /\ Says("user", Len(log) + 1).kind = "user"
        /\ Says("user", Len(log) + 1).id = Len(log) + 1
    BY <1>1 DEF Says, Message
  <2>3. QED
    BY <1>1, <1>2, <1>7, <2>1, <2>2
<1>9. CASE StreamAborted
  <2>1. /\ log' = Append(log, Line("assistant", Len(log) + 1))
        /\ ctx' = Append(ctx, Says("assistant", Len(log) + 1))
        /\ at \in {"opening", "top", "streaming"}
    BY <1>9 DEF StreamAborted
  <2>2. /\ Says("assistant", Len(log) + 1) \in Message
        /\ Says("assistant", Len(log) + 1).kind = "assistant"
        /\ Says("assistant", Len(log) + 1).id = Len(log) + 1
    BY <1>1 DEF Says, Message
  <2>3. QED
    BY <1>1, <1>2, <1>7, <2>1, <2>2
<1>10. ASSUME NEW text \in BOOLEAN, NEW n \in 0 .. MaxBatch, NEW finish,
              NEW calls \in Collected(n), NEW oneByOne, Reply(text, calls, finish, oneByOne)
       PROVE  CtxInv'
  <2> DEFINE m == [kind |-> "assistant", id |-> IF text THEN Len(log) + 1 ELSE 0,
                   calls |-> calls]
  <2>1. /\ at = "streaming" /\ ctx' = Append(ctx, m)
        /\ log' = log \o (IF text THEN <<Line("assistant", Len(log) + 1)>> ELSE <<>>)
    BY <1>10 DEF Reply
  <2>2. calls \in Seq(CallIds)
    <3>1. n \in Nat
      BY TranscriptAssumption
    <3>2. calls \in Seq(issued + 1 .. issued + n) /\ Len(calls) = n
      BY <3>1, CollectedAre
    <3>3. issued + n <= MaxCalls
      BY <1>10, <3>2 DEF Reply
    <3>4. issued + 1 .. issued + n \subseteq CallIds
      BY <3>1, <3>3, TranscriptAssumption DEF TypeOK, CallIds
    <3>5. QED
      BY <3>2, <3>4, SeqMonotonic
  <2>3. m \in Message /\ m.kind = "assistant" /\ m.id = (IF text THEN Len(log) + 1 ELSE 0)
    BY <1>1, <2>2 DEF Message
  <2> HIDE DEF m
  <2>4. CASE text
    <3>1. Line("assistant", Len(log) + 1) \in Entry
      BY <1>1, <1>2
    <3>2. log' = Append(log, Line("assistant", Len(log) + 1))
      BY <1>1, <2>1, <2>4, <3>1, AppendIsConcat
    <3>3. QED
      BY <1>1, <1>2, <1>7, <2>1, <2>3, <2>4, <3>2
  <2>5. CASE ~text
    <3>1. log' = log
      BY <1>1, <2>1, <2>5, ConcatEmptySeq
    <3>2. Longer(ctx', ctx, m)
      BY <1>1, <2>1, <2>3, AppendLonger
    <3>3. ASSUME NEW i \in DOMAIN ctx' PROVE ctx'[i].kind = "unknown" \/ OnFile(log, ctx'[i])
      <4>1. CASE i \in DOMAIN ctx
        BY <3>2, <4>1 DEF Longer, CtxInv
      <4>2. CASE i = Len(ctx')
        BY <2>3, <2>5, <3>2, <4>2 DEF OnFile, Longer
      <4>3. QED
        BY <3>2, <4>1, <4>2 DEF Longer
    <3>4. ASSUME NEW k \in DOMAIN log, Recent(log, k), log[k].kind # "call"
          PROVE  Holds(ctx', log[k])
      <4>1. Holds(ctx, log[k])
        BY <1>3, <2>1, <3>4 DEF CtxInv
      <4>2. QED
        BY <1>1, <2>1, <2>3, <4>1, HoldsMore
    <3>5. QED
      BY <3>1, <3>3, <3>4 DEF CtxInv
  <2>6. QED
    BY <2>4, <2>5
\* A line of a call of the batch.
<1>11. ASSUME NEW kind \in {"call", "result", "cancelled"}, NEW c \in ToSet(batch), c \in Nat,
              log' = Append(log, Line(kind, c)), UNCHANGED <<ctx, batch>>, at # "down"
       PROVE  CtxInv'
  <2>1. Line(kind, c) \in Entry
    BY <1>2, <1>11
  <2>2. ASSUME NEW i \in DOMAIN ctx PROVE ctx[i].kind = "unknown" \/ OnFile(log', ctx[i])
    BY <1>4, <1>11, <2>1 DEF CtxInv
  <2>3. ASSUME NEW k \in DOMAIN log', Recent(log', k), log'[k].kind # "call"
        PROVE  Holds(ctx, log'[k])
               \/ (log'[k].kind \in {"result", "cancelled"} /\ log'[k].id \in ToSet(batch))
    <3>1. CASE k \in DOMAIN log
      BY <1>4, <1>11, <2>1, <2>3, <3>1 DEF CtxInv
    <3>2. CASE k = Len(log')
      BY <1>2, <1>4, <1>11, <2>1, <2>3, <3>2
    <3>3. QED
      BY <1>4, <1>11, <2>1, <3>1, <3>2
  <2>4. QED
    BY <1>11, <2>2, <2>3 DEF CtxInv
<1>12. ASSUME NEW i \in DOMAIN batch, Begin(i) \/ Block(i) \/ Mark(i) PROVE CtxInv'
  <2>1. /\ at \in {"batch", "marking"} /\ UNCHANGED <<ctx, batch>>
        /\ \E kind \in {"call", "result", "cancelled"} : log' = Append(log, Line(kind, batch[i]))
    BY <1>12 DEF Begin, Block, Mark, CallLine
  <2>2. QED
    BY <1>1, <1>11, <2>1
<1>13. ASSUME NEW c \in CallIds, Execute(c) \/ Complete(c) PROVE CtxInv'
  BY <1>5, <1>13 DEF Execute, Complete
<1>14. ASSUME NEW c \in CallIds, Finish(c) PROVE CtxInv'
  <2>1. /\ at = "batch" /\ pc[c] = "running" /\ UNCHANGED <<ctx, batch>>
        /\ log' = Append(log, Line("result", c))
    BY <1>14 DEF Finish
  <2>2. c \in ToSet(batch) /\ c \in Nat
    BY <1>1, <2>1 DEF CallInv
  <2>3. QED
    BY <1>11, <2>1, <2>2
<1>15. ASSUME NEW n \in Cuts, Compact(n) PROVE CtxInv'
  <2>1. n \in Nat /\ ctx' = Summarized(ctx, n) /\ log' = Append(log, Line("compaction", n))
    BY <1>1, <1>15 DEF Compact, CompactionLine, Cuts
  <2>2. Shortened(ctx', ctx, n, Says("summary", 0))
    BY <1>1, <2>1, SummarizedShortens
  <2>3. Line("compaction", n) \in Entry /\ Line("compaction", n).kind = "compaction"
    BY <1>2, <2>1
  <2>4. \A k \in DOMAIN log' : ~Recent(log', k)
    <3>1. Longer(log', log, Line("compaction", n))
      BY <1>1, <2>1, <2>3, LinesGrow
    <3>2. QED
      BY <1>1, <2>3, <3>1, MoreLines DEF Longer
  <2>5. ASSUME NEW i \in DOMAIN ctx' PROVE ctx'[i].kind = "unknown" \/ OnFile(log', ctx'[i])
    <3>1. CASE i = 1
      BY <2>2, <3>1 DEF Shortened, OnFile, Says
    <3>2. CASE i \in 2 .. Len(ctx')
      <4>1. (n + i) - 1 \in DOMAIN ctx /\ ctx'[i] = ctx[(n + i) - 1]
        BY <2>2, <3>2 DEF Shortened
      <4>2. QED
        BY <1>4, <2>1, <2>3, <4>1 DEF CtxInv
    <3>3. QED
      BY <2>2, <3>1, <3>2 DEF Shortened
  <2>6. QED
    BY <2>4, <2>5 DEF CtxInv
<1>16. CASE Settle
  <2>1. log' = log
    BY <1>16 DEF Settle
  <2>2. Outcomes \in Seq(CallIds) /\ ToSet(Outcomes) = ToSet(batch)
        /\ \A c \in ToSet(batch) : Logged("result", c) \/ Logged("cancelled", c)
    BY <1>16, OutcomesAre
  <2>3. DOMAIN Outcomes = 1 .. Len(Outcomes) /\ Len(Outcomes) \in Nat
        /\ (\A i \in DOMAIN Outcomes : Outcomes[i] \in CallIds /\ Outcomes[i] \in ToSet(Outcomes))
        /\ \A c \in ToSet(Outcomes) : \E i \in DOMAIN Outcomes : Outcomes[i] = c
    BY <2>2, ToSetIn
  <2>5. /\ Len(ctx') = Len(ctx) + Len(Outcomes) /\ Len(ctx) \in Nat
        /\ \A i \in 1 .. Len(ctx) : ctx'[i] = ctx[i]
        /\ \A i \in 1 .. Len(Outcomes) : ctx'[Len(ctx) + i] = Says("tool", Outcomes[i])
    BY <1>16, SettledIs
  <2>6. DOMAIN ctx = 1 .. Len(ctx) /\ DOMAIN ctx' = 1 .. Len(ctx')
    BY <1>16, SettledIs
  <2>7. ASSUME NEW i \in DOMAIN ctx' PROVE ctx'[i].kind = "unknown" \/ OnFile(log, ctx'[i])
    <3>1. CASE i \in 1 .. Len(ctx)
      BY <2>5, <2>6, <3>1 DEF CtxInv
    <3>2. CASE i - Len(ctx) \in 1 .. Len(Outcomes)
      <4>1. ctx'[i] = Says("tool", Outcomes[i - Len(ctx)])
        <5>1. Len(ctx) + (i - Len(ctx)) = i
          BY <2>5, <2>6
        <5>2. QED
          BY <2>5, <3>2, <5>1
      <4>2. Outcomes[i - Len(ctx)] \in ToSet(batch)
        BY <2>2, <2>3, <3>2
      <4>3. PICK k \in DOMAIN log : \/ log[k] = Line("result", Outcomes[i - Len(ctx)])
                                    \/ log[k] = Line("cancelled", Outcomes[i - Len(ctx)])
        BY <2>2, <4>2 DEF Logged
      <4>4. QED
        BY <4>1, <4>3 DEF OnFile, KindOf, Says, Line
    <3>3. QED
      BY <2>3, <2>5, <2>6, <3>1, <3>2
  <2>8. ASSUME NEW k \in DOMAIN log, Recent(log, k), log[k].kind # "call" PROVE Holds(ctx', log[k])
    <3>1. CASE Holds(ctx, log[k])
      <4>1. PICK i \in DOMAIN ctx : ctx[i].kind = KindOf(log[k]) /\ ctx[i].id = log[k].id
        BY <3>1 DEF Holds
      <4>2. i \in DOMAIN ctx' /\ ctx'[i] = ctx[i]
        BY <2>3, <2>5, <2>6
      <4>3. QED
        BY <4>1, <4>2 DEF Holds
    <3>2. CASE log[k].kind \in {"result", "cancelled"} /\ log[k].id \in ToSet(batch)
      <4>1. PICK i \in DOMAIN Outcomes : Outcomes[i] = log[k].id
        BY <2>2, <2>3, <3>2
      <4>2. Len(ctx) + i \in DOMAIN ctx' /\ ctx'[Len(ctx) + i] = Says("tool", log[k].id)
        BY <2>3, <2>5, <2>6, <4>1
      <4>3. KindOf(log[k]) = "tool"
        BY <3>2 DEF KindOf
      <4>4. QED
        BY <4>2, <4>3 DEF Holds, Says
    <3>3. at # "down"
      BY <1>16 DEF Settle
    <3>4. QED
      BY <2>8, <3>1, <3>2, <3>3 DEF CtxInv
  <2>9. QED
    BY <2>1, <2>7, <2>8 DEF CtxInv
<1>17. CASE Crash
  BY <1>17 DEF Crash, CtxInv
<1>18. CASE Resume
  <2>1. ctx' = Load(log) /\ log' = log
    BY <1>18 DEF Resume
  <2>2. QED
    BY <1>1, <2>1, LoadHolds DEF CtxInv
<1>19. QED
  BY <1>6, <1>8, <1>9, <1>10, <1>12, <1>13, <1>14, <1>15, <1>16, <1>17, <1>18 DEF Next, Walks

-----------------------------------------------------------------------------
\* A message that is no answer ends every run of answers before it.
LEMMA AnswersEnd ==
  ASSUME NEW s \in Seq(Message), NEW m \in Message, ~IsAnswer(m), NoStrayAnswer(s),
         NEW t \in Seq(Message), Longer(t, s, m)
  PROVE  /\ NoStrayAnswer(t)
         /\ \A i \in DOMAIN s : AnswersAfter(t, i) = AnswersAfter(s, i)
         /\ AnswersAfter(t, Len(t)) = {}
<1> DEFINE n == Len(s)
<1>1. n \in Nat /\ Len(t) = n + 1 /\ DOMAIN s = 1 .. n /\ DOMAIN t = 1 .. n + 1
      /\ (\A i \in 1 .. n : t[i] = s[i]) /\ t[n + 1] = m
  BY DEF Longer
<1> HIDE DEF n
<1>2. ASSUME NEW i \in 1 .. n PROVE AnswersAfter(t, i) = AnswersAfter(s, i)
  <2>1. ASSUME NEW j \in AnswersAfter(t, i) PROVE j \in AnswersAfter(s, i)
    <3>1. j \in i + 1 .. n + 1 /\ \A k \in i + 1 .. j : IsAnswer(t[k])
      BY <1>1 DEF AnswersAfter
    <3>2. j # n + 1
      <4>1. j = n + 1 => n + 1 \in i + 1 .. j
        BY <1>1, <3>1
      <4>2. QED
        BY <1>1, <3>1, <4>1
    <3>3. j \in i + 1 .. n /\ \A k \in i + 1 .. j : k \in 1 .. n
      BY <1>1, <3>1, <3>2
    <3>4. \A k \in i + 1 .. j : IsAnswer(s[k])
      BY <1>1, <3>1, <3>3
    <3>5. QED
      BY <3>3, <3>4 DEF AnswersAfter, n
  <2>2. ASSUME NEW j \in AnswersAfter(s, i) PROVE j \in AnswersAfter(t, i)
    <3>1. j \in i + 1 .. n /\ \A k \in i + 1 .. j : IsAnswer(s[k])
      BY DEF AnswersAfter, n
    <3>2. j \in i + 1 .. n + 1 /\ \A k \in i + 1 .. j : k \in 1 .. n
      BY <1>1, <3>1
    <3>3. \A k \in i + 1 .. j : IsAnswer(t[k])
      BY <1>1, <3>1, <3>2
    <3>4. QED
      BY <1>1, <3>2, <3>3 DEF AnswersAfter
  <2>3. QED
    BY <2>1, <2>2
<1>3. AnswersAfter(t, Len(t)) = {}
  <2>1. (n + 1) + 1 .. n + 1 = {}
    BY <1>1
  <2>2. QED
    BY <1>1, <2>1 DEF AnswersAfter
<1>4. NoStrayAnswer(t)
  <2> SUFFICES ASSUME NEW j \in DOMAIN t, IsAnswer(t[j])
               PROVE  \E i \in 1 .. j - 1 : j \in AnswersAfter(t, i)
                                            /\ t[j].id \in ToSet(t[i].calls)
    BY DEF NoStrayAnswer
  <2>1. j \in 1 .. n /\ t[j] = s[j]
    <3>1. j # n + 1
      BY <1>1
    <3>2. QED
      BY <1>1, <3>1
  <2>2. PICK i \in 1 .. j - 1 : j \in AnswersAfter(s, i) /\ s[j].id \in ToSet(s[i].calls)
    BY <1>1, <2>1 DEF NoStrayAnswer
  <2>3. i \in 1 .. n
    BY <1>1, <2>1
  <2>4. QED
    BY <1>1, <1>2, <2>1, <2>2, <2>3
<1>5. QED
  BY <1>1, <1>2, <1>3, <1>4

\* A message answered once stays so while nothing more answers it.
LEMMA StillAnswered ==
  ASSUME NEW s, NEW t, NEW i, Len(s) \in Nat, i \in 1 .. Len(s), Len(s) <= Len(t),
         \A k \in 1 .. Len(s) : t[k] = s[k], AnswersAfter(t, i) = AnswersAfter(s, i)
  PROVE  AnsweredOnce(s, i) => AnsweredOnce(t, i)
<1>1. \A j \in AnswersAfter(s, i) : j \in 1 .. Len(s)
  BY DEF AnswersAfter
<1>2. \A c : AnswersTo(t, i, c) = AnswersTo(s, i, c)
  BY <1>1 DEF AnswersTo
<1>3. QED
  BY <1>2 DEF AnsweredOnce

\* The results of a batch, pushed behind the message that asked for it.
LEMMA AnswersPushed ==
  ASSUME NEW s \in Seq(Message), EndsIn(s, {"assistant"}), NoStrayAnswer(s),
         NEW o \in Seq(CallIds), IsInjective(o), ToSet(o) = ToSet(s[Len(s)].calls),
         NEW t, DOMAIN t = 1 .. Len(t), Len(t) = Len(s) + Len(o),
         \A i \in 1 .. Len(s) : t[i] = s[i],
         \A i \in 1 .. Len(o) : t[Len(s) + i] = Says("tool", o[i])
  PROVE  /\ NoStrayAnswer(t)
         /\ AnsweredOnce(t, Len(s))
         /\ \A i \in 1 .. Len(s) - 1 : AnswersAfter(t, i) = AnswersAfter(s, i)
<1> DEFINE n == Len(s)
           p == Len(o)
<1>1. n \in Nat /\ p \in Nat /\ n > 0 /\ DOMAIN s = 1 .. n /\ DOMAIN o = 1 .. p
      /\ s[n].kind = "assistant" /\ ~IsAnswer(s[n])
  BY DEF EndsIn, IsAnswer
<1>2. \A i \in 1 .. p : IsAnswer(t[n + i]) /\ t[n + i].id = o[i]
  <2>1. \A c : IsAnswer(Says("tool", c)) /\ Says("tool", c).id = c
    BY DEF IsAnswer, Says
  <2>2. \A i \in 1 .. p : t[n + i] = Says("tool", o[i])
    OBVIOUS
  <2> HIDE DEF n, p
  <2>3. QED
    BY <2>1, <2>2
<1> HIDE DEF n, p
<1>3. ASSUME NEW j \in n + 1 .. n + p PROVE j - n \in 1 .. p /\ n + (j - n) = j
  BY <1>1, <1>3
<1>4. \A j \in n + 1 .. n + p : IsAnswer(t[j]) /\ t[j].id = o[j - n]
  <2> SUFFICES ASSUME NEW j \in n + 1 .. n + p PROVE IsAnswer(t[j]) /\ t[j].id = o[j - n]
    OBVIOUS
  <2>1. IsAnswer(t[n + (j - n)]) /\ t[n + (j - n)].id = o[j - n]
    BY <1>2, <1>3, Zenon
  <2>2. QED
    BY <1>3, <2>1, Zenon
<1>5. AnswersAfter(t, n) = n + 1 .. n + p
  <2>1. \A j \in n + 1 .. n + p : \A k \in n + 1 .. j : k \in n + 1 .. n + p
    BY <1>1
  <2>2. Len(t) = n + p
    BY DEF n, p
  <2>3. QED
    BY <1>4, <2>1, <2>2 DEF AnswersAfter
<1>6. AnsweredOnce(t, n)
  <2> SUFFICES ASSUME NEW c \in ToSet(t[n].calls) PROVE \E j : AnswersTo(t, n, c) = {j}
    BY DEF AnsweredOnce
  <2>1. t[n] = s[n] /\ c \in ToSet(o)
    BY <1>1 DEF n
  <2>2. PICK i \in 1 .. p : o[i] = c
    BY <1>1, <2>1 DEF ToSet
  <2>3. n + i \in n + 1 .. n + p /\ t[n + i].id = c
    BY <1>1, <1>2, <2>2
  <2>4. ASSUME NEW j \in n + 1 .. n + p, t[j].id = c PROVE j = n + i
    <3>1. o[j - n] = c /\ j - n \in DOMAIN o /\ i \in DOMAIN o
      BY <1>1, <1>3, <1>4, <2>4
    <3>2. j - n = i
      BY <2>2, <3>1 DEF IsInjective
    <3>3. QED
      BY <1>3, <3>2
  <2>5. AnswersTo(t, n, c) = {n + i}
    BY <1>5, <2>3, <2>4 DEF AnswersTo
  <2>6. QED
    BY <2>5
<1>7. ASSUME NEW i \in 1 .. n - 1 PROVE AnswersAfter(t, i) = AnswersAfter(s, i)
  <2>1. ASSUME NEW j \in AnswersAfter(t, i) PROVE j \in AnswersAfter(s, i)
    <3>1. j \in i + 1 .. n + p /\ \A k \in i + 1 .. j : IsAnswer(t[k])
      BY DEF AnswersAfter, n, p
    <3>2. j < n
      <4>1. ~(j < n) => n \in i + 1 .. j
        BY <1>1, <3>1
      <4>2. ~IsAnswer(t[n])
        BY <1>1 DEF n
      <4>3. QED
        BY <3>1, <4>1, <4>2
    <3>3. j \in i + 1 .. n /\ \A k \in i + 1 .. j : k \in 1 .. n
      BY <1>1, <3>1, <3>2
    <3>4. \A k \in i + 1 .. j : IsAnswer(s[k])
      BY <3>1, <3>3 DEF n
    <3>5. QED
      BY <3>3, <3>4 DEF AnswersAfter, n
  <2>2. ASSUME NEW j \in AnswersAfter(s, i) PROVE j \in AnswersAfter(t, i)
    <3>1. j \in i + 1 .. n /\ \A k \in i + 1 .. j : IsAnswer(s[k])
      BY DEF AnswersAfter, n
    <3>2. j \in i + 1 .. n + p /\ \A k \in i + 1 .. j : k \in 1 .. n
      BY <1>1, <3>1
    <3>3. \A k \in i + 1 .. j : IsAnswer(t[k])
      BY <3>1, <3>2 DEF n
    <3>4. QED
      BY <3>2, <3>3 DEF AnswersAfter, n, p
  <2>3. QED
    BY <2>1, <2>2
<1>8. NoStrayAnswer(t)
  <2> SUFFICES ASSUME NEW j \in DOMAIN t, IsAnswer(t[j])
               PROVE  \E i \in 1 .. j - 1 : j \in AnswersAfter(t, i)
                                            /\ t[j].id \in ToSet(t[i].calls)
    BY DEF NoStrayAnswer
  <2>1. j \in 1 .. n + p
    BY DEF n, p
  <2>2. CASE j \in 1 .. n
    <3>1. t[j] = s[j] /\ j # n
      BY <1>1, <2>2 DEF n
    <3>2. PICK i \in 1 .. j - 1 : j \in AnswersAfter(s, i) /\ s[j].id \in ToSet(s[i].calls)
      BY <1>1, <2>2, <3>1 DEF NoStrayAnswer
    <3>3. i \in 1 .. n - 1 /\ i \in 1 .. n
      BY <1>1, <2>2
    <3>4. t[i] = s[i]
      BY <3>3 DEF n
    <3>5. QED
      BY <1>7, <3>1, <3>2, <3>3, <3>4
  <2>3. CASE j \in n + 1 .. n + p
    <3>1. j \in AnswersAfter(t, n) /\ n \in 1 .. j - 1
      BY <1>1, <1>5, <2>3
    <3>2. t[j].id \in ToSet(o)
      BY <1>1, <1>3, <1>4, <2>3 DEF ToSet
    <3>3. t[n] = s[n]
      BY <1>1 DEF n
    <3>4. QED
      BY <3>1, <3>2, <3>3 DEF n
  <2>4. QED
    BY <1>1, <2>1, <2>2, <2>3
<1>9. QED
  BY <1>6, <1>7, <1>8 DEF n

\* A compaction that keeps everything from a message on that is no answer.
LEMMA AnswersKept ==
  ASSUME NEW s \in Seq(Message), NEW n \in 1 .. Len(s) - 1, ~IsAnswer(s[n + 1]),
         NoStrayAnswer(s), NEW t \in Seq(Message), Shortened(t, s, n, Says("summary", 0))
  PROVE  /\ NoStrayAnswer(t)
         /\ t[1].calls = <<>> /\ ~IsAnswer(t[1])
         /\ \A i \in 2 .. Len(t) :
              /\ (n + i) - 1 \in DOMAIN s /\ t[i] = s[(n + i) - 1]
              /\ AnsweredOnce(s, (n + i) - 1) => AnsweredOnce(t, i)
              /\ AnswersAfter(s, (n + i) - 1) = {} => AnswersAfter(t, i) = {}
<1> DEFINE l == Len(s)
           p == Len(t)
<1>1. /\ l \in Nat /\ p \in Nat /\ n \in Nat /\ n > 0 /\ n < l /\ p > 0
      /\ p > 1 => (n + p) - 1 = l
      /\ DOMAIN s = 1 .. l /\ DOMAIN t = 1 .. p
  BY DEF Shortened
<1>2. t[1].calls = <<>> /\ ~IsAnswer(t[1])
  BY DEF Shortened, Says, IsAnswer
<1>3. \A i \in 2 .. p : (n + i) - 1 \in 1 .. l /\ t[i] = s[(n + i) - 1]
  BY DEF Shortened
<1> HIDE DEF l, p
\* Positions 2 .. p of t are n + 1 .. l of s.
<1>4. ASSUME NEW i \in 2 .. p, NEW j \in Nat
      PROVE  j \in AnswersAfter(t, i) <=> (n + j) - 1 \in AnswersAfter(s, (n + i) - 1)
  <2>1. j \in i + 1 .. p <=> (n + j) - 1 \in ((n + i) - 1) + 1 .. l
    <3>1. i \in Nat /\ i >= 2 /\ i <= p /\ (n + p) - 1 = l
      BY <1>1, <1>4
    <3>2. QED
      BY <1>1, <3>1
  <2>2. ASSUME j \in i + 1 .. p, NEW k \in i + 1 .. j
        PROVE  k \in 2 .. p /\ (n + k) - 1 \in ((n + i) - 1) + 1 .. (n + j) - 1
    BY <1>1, <2>2
  <2>3. ASSUME j \in i + 1 .. p, NEW k \in ((n + i) - 1) + 1 .. (n + j) - 1
        PROVE  (k - n) + 1 \in i + 1 .. j /\ (n + ((k - n) + 1)) - 1 = k /\ (k - n) + 1 \in 2 .. p
    BY <1>1, <2>3
  <2>4. ASSUME j \in i + 1 .. p
        PROVE  (\A k \in i + 1 .. j : IsAnswer(t[k]))
               <=> (\A k \in ((n + i) - 1) + 1 .. (n + j) - 1 : IsAnswer(s[k]))
    <3>1. ASSUME \A k \in ((n + i) - 1) + 1 .. (n + j) - 1 : IsAnswer(s[k]), NEW k \in i + 1 .. j
          PROVE  IsAnswer(t[k])
      <4>1. k \in 2 .. p /\ (n + k) - 1 \in ((n + i) - 1) + 1 .. (n + j) - 1
        BY <2>2, <2>4
      <4>2. QED
        BY <1>3, <3>1, <4>1
    <3>2. ASSUME \A k \in i + 1 .. j : IsAnswer(t[k]), NEW k \in ((n + i) - 1) + 1 .. (n + j) - 1
          PROVE  IsAnswer(s[k])
      <4>1. (k - n) + 1 \in i + 1 .. j /\ (n + ((k - n) + 1)) - 1 = k /\ (k - n) + 1 \in 2 .. p
        BY <2>3, <2>4
      <4>2. IsAnswer(t[(k - n) + 1]) /\ t[(k - n) + 1] = s[(n + ((k - n) + 1)) - 1]
        BY <1>3, <3>2, <4>1, Zenon
      <4>3. QED
        BY <4>1, <4>2, Zenon
    <3>3. QED
      BY <3>1, <3>2
  <2>5. QED
    BY <2>1, <2>4 DEF AnswersAfter, l, p
<1>5. \A i \in 2 .. p : \A j \in AnswersAfter(t, i) : j \in Nat /\ j \in 2 .. p
  <2> SUFFICES ASSUME NEW i \in 2 .. p, NEW j \in i + 1 .. p PROVE j \in Nat /\ j \in 2 .. p
    BY DEF AnswersAfter, p
  <2>1. QED
    BY <1>1
<1>6. \A i \in 2 .. p : \A j \in AnswersAfter(s, (n + i) - 1) :
        /\ (j - n) + 1 \in Nat /\ (n + ((j - n) + 1)) - 1 = j
        /\ (j - n) + 1 \in AnswersAfter(t, i) /\ (j - n) + 1 \in 2 .. p
  <2> SUFFICES ASSUME NEW i \in 2 .. p, NEW j \in AnswersAfter(s, (n + i) - 1)
               PROVE  /\ (j - n) + 1 \in Nat /\ (n + ((j - n) + 1)) - 1 = j
                      /\ (j - n) + 1 \in AnswersAfter(t, i) /\ (j - n) + 1 \in 2 .. p
    OBVIOUS
  <2>1. j \in ((n + i) - 1) + 1 .. l
    BY DEF AnswersAfter, l
  <2>2. (j - n) + 1 \in Nat /\ (n + ((j - n) + 1)) - 1 = j
    BY <1>1, <2>1
  <2>3. (j - n) + 1 \in AnswersAfter(t, i)
    BY <1>4, <2>2
  <2>4. QED
    BY <1>5, <2>2, <2>3
<1>7. ASSUME NEW i \in 2 .. p, AnsweredOnce(s, (n + i) - 1) PROVE AnsweredOnce(t, i)
  <2> SUFFICES ASSUME NEW c \in ToSet(t[i].calls) PROVE \E j : AnswersTo(t, i, c) = {j}
    BY DEF AnsweredOnce
  <2>1. PICK j : AnswersTo(s, (n + i) - 1, c) = {j}
    BY <1>3, <1>7 DEF AnsweredOnce
  <2>2. j \in AnswersAfter(s, (n + i) - 1) /\ s[j].id = c
    BY <2>1 DEF AnswersTo
  <2>3. /\ (n + ((j - n) + 1)) - 1 = j
        /\ (j - n) + 1 \in AnswersAfter(t, i) /\ (j - n) + 1 \in 2 .. p
    BY <1>6, <2>2
  <2>4. t[(j - n) + 1].id = c
    BY <1>3, <2>2, <2>3
  <2>5. ASSUME NEW k \in AnswersAfter(t, i), t[k].id = c PROVE k = (j - n) + 1
    <3>1. k \in Nat /\ k \in 2 .. p
      BY <1>5
    <3>2. (n + k) - 1 \in AnswersAfter(s, (n + i) - 1) /\ s[(n + k) - 1].id = c
      BY <1>3, <1>4, <2>5, <3>1
    <3>3. (n + k) - 1 = j
      BY <2>1, <3>2 DEF AnswersTo
    <3>4. QED
      BY <1>1, <3>1, <3>3
  <2>6. AnswersTo(t, i, c) = {(j - n) + 1}
    BY <2>3, <2>4, <2>5 DEF AnswersTo
  <2>7. QED
    BY <2>6
<1>8. ASSUME NEW i \in 2 .. p, AnswersAfter(s, (n + i) - 1) = {} PROVE AnswersAfter(t, i) = {}
  BY <1>4, <1>5, <1>8
<1>9. NoStrayAnswer(t)
  <2> SUFFICES ASSUME NEW j \in 1 .. p, IsAnswer(t[j])
               PROVE  \E i \in 1 .. j - 1 : j \in AnswersAfter(t, i)
                                            /\ t[j].id \in ToSet(t[i].calls)
    BY <1>1 DEF NoStrayAnswer
  <2>1. j # 1
    BY <1>2
  <2>2. j \in 2 .. p /\ j \in Nat
    BY <1>1, <2>1
  <2>3. (n + j) - 1 \in 1 .. l /\ t[j] = s[(n + j) - 1]
    BY <1>3, <2>2
  <2>4. PICK h \in 1 .. ((n + j) - 1) - 1 : (n + j) - 1 \in AnswersAfter(s, h)
                                           /\ s[(n + j) - 1].id \in ToSet(s[h].calls)
    BY <1>1, <2>3 DEF NoStrayAnswer
  <2>5. h >= n + 1
    <3>1. ~(h >= n + 1) => n + 1 \in h + 1 .. (n + j) - 1
      BY <1>1, <2>2
    <3>2. \A k \in h + 1 .. (n + j) - 1 : IsAnswer(s[k])
      BY <2>4 DEF AnswersAfter
    <3>3. QED
      BY <3>1, <3>2
  <2>6. /\ (h - n) + 1 \in 2 .. p /\ (n + ((h - n) + 1)) - 1 = h
        /\ (h - n) + 1 \in 1 .. j - 1
    BY <1>1, <2>2, <2>5
  <2>7. j \in AnswersAfter(t, (h - n) + 1)
    BY <1>4, <2>2, <2>4, <2>6
  <2>8. t[(h - n) + 1] = s[h]
    <3>1. t[(h - n) + 1] = s[(n + ((h - n) + 1)) - 1]
      BY <1>3, <2>6, Zenon
    <3>2. QED
      BY <2>6, <3>1, Zenon
  <2>9. QED
    BY <2>3, <2>4, <2>6, <2>7, <2>8
<1>10. QED
  BY <1>1, <1>2, <1>3, <1>7, <1>8, <1>9 DEF p

\* Lines of other kinds log no call and no answer.
LEMMA SameCalls ==
  ASSUME log \in Seq(Entry),
         \/ log' = log
         \/ \E kind \in {"user", "assistant", "compaction"}, id \in Nat :
              log' = Append(log, Line(kind, id))
  PROVE  \A kind \in {"call", "result", "cancelled"} : \A id :
           Logged(kind, id)' <=> Logged(kind, id)
<1>1. CASE log' = log
  BY <1>1 DEF Logged
<1>2. ASSUME NEW kind \in {"user", "assistant", "compaction"}, NEW id \in Nat,
             log' = Append(log, Line(kind, id))
      PROVE  \A k \in {"call", "result", "cancelled"} : \A i : Logged(k, i)' <=> Logged(k, i)
  <2>1. Line(kind, id) \in Entry
        /\ \A k \in {"call", "result", "cancelled"} : \A i : Line(kind, id) # Line(k, i)
    BY DEF Line, Entry
  <2>2. QED
    BY <1>2, <2>1, LinesGrow
<1>3. QED
  BY <1>1, <1>2

\* What an answer of the model writes and says.
LEMMA ReplyIs ==
  ASSUME TypeOK, NEW text \in BOOLEAN, NEW n \in 0 .. MaxBatch, NEW finish,
         NEW calls \in Collected(n), NEW oneByOne, Reply(text, calls, finish, oneByOne)
  PROVE  /\ \/ log' = log
            \/ log' = Append(log, Line("assistant", Len(log) + 1))
         /\ \E m \in Message : /\ ctx' = Append(ctx, m) /\ m.kind = "assistant"
                               /\ m.calls = calls
         /\ issued' = issued + n /\ n \in Nat
         /\ \A c \in ToSet(calls) : c \in Nat /\ c > issued /\ c <= issued'
<1>1. n \in Nat /\ issued \in Nat /\ log \in Seq(Entry)
  BY TranscriptAssumption DEF TypeOK
<1>2. calls \in Seq(issued + 1 .. issued + n) /\ Len(calls) = n
  BY <1>1, CollectedAre
<1>3. /\ issued' = issued + n /\ issued + n <= MaxCalls
      /\ log' = log \o (IF text THEN <<Line("assistant", Len(log) + 1)>> ELSE <<>>)
  BY <1>2 DEF Reply
<1>4. log' = log \/ log' = Append(log, Line("assistant", Len(log) + 1))
  <2>1. CASE text
    <3>1. Line("assistant", Len(log) + 1) \in Entry
      BY <1>1 DEF Line, Entry
    <3>2. QED
      BY <1>1, <1>3, <2>1, <3>1, AppendIsConcat
  <2>2. CASE ~text
    BY <1>1, <1>3, <2>2, ConcatEmptySeq
  <2>3. QED
    BY <2>1, <2>2
<1>5. calls \in Seq(CallIds)
  <2>1. issued + 1 .. issued + n \subseteq CallIds
    BY <1>1, <1>3, TranscriptAssumption DEF CallIds
  <2>2. QED
    BY <1>2, <2>1, SeqMonotonic
<1>6. \A c \in ToSet(calls) : c \in Nat /\ c > issued /\ c <= issued'
  <2>1. \A c \in issued + 1 .. issued + n : c \in Nat /\ c > issued /\ c <= issued + n
    BY <1>1
  <2>2. \A c \in ToSet(calls) : c \in issued + 1 .. issued + n
    BY <1>2, ToSetIn
  <2>3. QED
    BY <1>3, <2>1, <2>2
<1>7. \E m \in Message : ctx' = Append(ctx, m) /\ m.kind = "assistant" /\ m.calls = calls
  <2> DEFINE m == [kind |-> "assistant", id |-> IF text THEN Len(log) + 1 ELSE 0,
                   calls |-> calls]
  <2>1. m \in Message /\ m.kind = "assistant" /\ m.calls = calls
    BY <1>1, <1>5 DEF Message
  <2>2. ctx' = Append(ctx, m)
    BY DEF Reply
  <2> HIDE DEF m
  <2>3. QED
    BY <2>1, <2>2
<1>8. QED
  BY <1>1, <1>3, <1>4, <1>6, <1>7

\* Every step keeps answers behind the message that asked for them.
LEMMA PairStep ==
  ASSUME TypeOK, CallInv, PairInv, [Next]_vars
  PROVE  PairInv'
<1> USE DEF batchVars
<1> SUFFICES ASSUME crashes' = 0 PROVE Paired'
  BY DEF PairInv
<1>1. log \in Seq(Entry) /\ ctx \in Seq(Message) /\ Len(log) + 1 \in Nat /\ crashes \in Nat
      /\ issued \in Nat /\ CallIds \subseteq Nat
      /\ \A i \in DOMAIN batch : batch[i] \in CallIds /\ batch[i] \in ToSet(batch)
  BY TypeFacts, TranscriptAssumption DEF TypeOK
<1>2. DOMAIN ctx = 1 .. Len(ctx) /\ Len(ctx) \in Nat
  BY <1>1
<1>3. ASSUME crashes' = crashes PROVE Paired
  BY <1>3 DEF PairInv
<1>4. at \notin {"batch", "marking"} => batch = <<>> /\ ToSet(batch) = {}
  BY NoBatchIdle DEF ToSet
<1> DEFINE Same == \A kind \in {"call", "result", "cancelled"} : \A id :
                     Logged(kind, id)' <=> Logged(kind, id)
\* Nothing said.
<1>5. ASSUME crashes' = crashes, UNCHANGED <<ctx, batch, issued>>, at' # "down", Same
      PROVE  Paired'
  BY <1>3, <1>5 DEF Paired, Unasked
<1>6. ASSUME log' = log PROVE Same
  BY <1>1, <1>6, SameCalls
<1>7. CASE Walks \/ Esc \/ BatchCancelled \/ UNCHANGED vars
  <2>1. /\ crashes' = crashes /\ UNCHANGED <<ctx, batch, issued, log>>
        /\ at' # at => at' # "down"
    BY <1>7, WalkIs DEF Esc, BatchCancelled, vars
  <2>2. at # "down"
    BY <1>3, <2>1 DEF Paired
  <2>3. QED
    BY <1>5, <1>6, <2>1, <2>2
<1>8. ASSUME NEW c \in CallIds, Execute(c) \/ Complete(c) PROVE Paired'
  <2>1. crashes' = crashes /\ UNCHANGED <<ctx, batch, issued, log, at>>
    BY <1>8 DEF Execute, Complete
  <2>2. at # "down"
    BY <1>3, <2>1 DEF Paired
  <2>3. QED
    BY <1>5, <1>6, <2>1, <2>2
\* A message that is no answer, its calls new.
<1>9. ASSUME NEW m \in Message, ctx' = Append(ctx, m), ~IsAnswer(m), Same,
             crashes' = crashes, at \in {"opening", "top", "streaming"}, at' # "down",
             issued' \in Nat, issued <= issued',
             \A c \in ToSet(m.calls) : c \in Nat /\ c > issued /\ c <= issued',
             batch' = batch \/ (m.kind = "assistant" /\ batch' = m.calls)
      PROVE  Paired'
  <2> DEFINE n == Len(ctx)
  <2>1. ctx' \in Seq(Message) /\ Longer(ctx', ctx, m)
    BY <1>1, <1>9, AppendLonger
  <2>2. Paired /\ batch = <<>> /\ ToSet(batch) = {}
    BY <1>3, <1>4, <1>9
  <2>3. /\ NoStrayAnswer(ctx')
        /\ \A i \in DOMAIN ctx : AnswersAfter(ctx', i) = AnswersAfter(ctx, i)
        /\ AnswersAfter(ctx', Len(ctx')) = {}
    BY <1>1, <1>9, <2>1, <2>2, AnswersEnd DEF Paired
  <2>4. /\ \A i \in DOMAIN ctx : ctx'[i] = ctx[i] /\ i # Len(ctx')
        /\ Len(ctx') \in DOMAIN ctx' /\ ctx'[Len(ctx')] = m /\ Len(ctx') > 0
        /\ \A i \in DOMAIN ctx' : i \in DOMAIN ctx \/ i = Len(ctx')
    BY <2>1 DEF Longer
  <2>5. \A c \in ToSet(batch') : c > issued /\ c \in Nat
    BY <1>9, <2>2
  <2>6. batch' # <<>> => EndsIn(ctx', {"assistant"}) /\ ctx'[Len(ctx')].calls = batch'
    BY <1>9, <2>2, <2>4 DEF EndsIn
  <2>7. \A i \in DOMAIN ctx' : \A c \in ToSet(ctx'[i].calls) : c <= issued'
    <3>1. ASSUME NEW i \in DOMAIN ctx, NEW c \in ToSet(ctx[i].calls)
          PROVE  c \in Nat /\ c <= issued /\ c <= issued'
      <4>1. ctx[i] \in Message
        BY <1>1
      <4>2. ctx[i].calls \in Seq(CallIds)
        BY <4>1 DEF Message
      <4>3. c \in CallIds
        BY <4>2, ToSetIn
      <4>4. c <= issued
        BY <2>2 DEF Paired
      <4>5. c \in Nat /\ issued \in Nat /\ issued' \in Nat /\ issued <= issued'
        BY <1>1, <1>9, <4>3
      <4>6. QED
        BY <4>4, <4>5
    <3>2. QED
      BY <1>9, <2>4, <3>1
  <2>8. ASSUME NEW i \in DOMAIN ctx', batch' = <<>> \/ i # Len(ctx')
        PROVE  /\ ToSet(ctx'[i].calls) \cap ToSet(batch') = {}
               /\ AnsweredOnce(ctx', i) \/ Unasked(i)'
    <3>1. CASE i \in DOMAIN ctx
      <4>1. ToSet(ctx'[i].calls) \cap ToSet(batch') = {}
        <5>1. \A c \in ToSet(ctx[i].calls) : c <= issued
          BY <2>2, <3>1 DEF Paired
        <5>2. issued \in Nat
          BY <1>1
        <5>3. \A c \in ToSet(batch') : ~(c <= issued)
          BY <2>5, <5>2
        <5>4. ctx'[i] = ctx[i]
          BY <2>4, <3>1
        <5>5. QED
          BY <5>1, <5>3, <5>4
      <4>2. AnsweredOnce(ctx, i) \/ Unasked(i)
        BY <2>2, <3>1 DEF Paired
      <4>3. AnsweredOnce(ctx, i) => AnsweredOnce(ctx', i)
        <5>1. /\ Len(ctx) <= Len(ctx') /\ i \in 1 .. Len(ctx)
              /\ AnswersAfter(ctx', i) = AnswersAfter(ctx, i)
              /\ \A k \in 1 .. Len(ctx) : ctx'[k] = ctx[k]
          BY <1>2, <2>1, <2>3, <3>1 DEF Longer
        <5>2. QED
          BY <1>2, <5>1, StillAnswered
      <4>4. Unasked(i) => Unasked(i)'
        BY <1>9, <2>3, <2>4, <3>1 DEF Unasked
      <4>5. QED
        BY <4>1, <4>2, <4>3, <4>4
    <3>2. CASE i = Len(ctx')
      <4>1. ToSet(batch') = {}
        BY <2>8, <3>2 DEF ToSet
      <4>2. \A c \in ToSet(m.calls) :
              ~Logged("call", c) /\ ~Logged("result", c) /\ ~Logged("cancelled", c)
        <5>1. \A c \in 1 .. issued : ~(c > issued)
          BY <1>1
        <5>2. QED
          BY <1>9, <5>1 DEF CallInv
      <4>3. Unasked(i)'
        BY <1>9, <2>3, <2>4, <3>2, <4>2 DEF Unasked
      <4>4. QED
        BY <4>1, <4>3
    <3>3. QED
      BY <2>4, <3>1, <3>2
  <2>9. QED
    BY <1>9, <2>3, <2>6, <2>7, <2>8 DEF Paired
<1> HIDE DEF Same
<1>10. CASE Submit \/ Steer \/ StreamAborted
  <2>1. /\ \/ ctx' = Append(ctx, Says("user", Len(log) + 1))
           \/ ctx' = Append(ctx, Says("assistant", Len(log) + 1))
        /\ \/ log' = Append(log, Line("user", Len(log) + 1))
           \/ log' = Append(log, Line("assistant", Len(log) + 1))
        /\ UNCHANGED <<crashes, issued, batch>>
        /\ at \in {"opening", "top", "streaming"} /\ at' # "down"
    BY <1>3, <1>10 DEF Submit, Steer, SteerLine, StreamAborted, Paired
  <2>2. \A kind \in {"user", "assistant"} :
          /\ Says(kind, Len(log) + 1) \in Message
          /\ ~IsAnswer(Says(kind, Len(log) + 1)) /\ ToSet(Says(kind, Len(log) + 1).calls) = {}
    BY <1>1 DEF Says, Message, IsAnswer, ToSet
  <2>3. Same
    BY <1>1, <2>1, SameCalls DEF Same
  <2>4. issued' \in Nat /\ issued <= issued'
    BY <1>1, <2>1
  <2>5. QED
    BY <1>9, <2>1, <2>2, <2>3, <2>4
<1>11. ASSUME NEW text \in BOOLEAN, NEW n \in 0 .. MaxBatch, NEW finish,
              NEW calls \in Collected(n), NEW oneByOne, Reply(text, calls, finish, oneByOne)
       PROVE  Paired'
  <2>1. /\ at = "streaming" /\ at' # "down" /\ crashes' = crashes
        /\ batch' = batch \/ batch' = calls
    BY <1>11 DEF Reply
  <2>2. PICK m \in Message : ctx' = Append(ctx, m) /\ m.kind = "assistant" /\ m.calls = calls
    BY <1>11, ReplyIs
  <2>3. /\ issued' = issued + n /\ n \in Nat
        /\ \A c \in ToSet(calls) : c \in Nat /\ c > issued /\ c <= issued'
        /\ log' = log \/ log' = Append(log, Line("assistant", Len(log) + 1))
    BY <1>11, ReplyIs
  <2>4. Same
    BY <1>1, <2>3, SameCalls DEF Same
  <2>5. issued' \in Nat /\ issued <= issued' /\ ~IsAnswer(m)
    BY <1>1, <2>2, <2>3 DEF IsAnswer
  <2>6. QED
    BY <1>9, <2>1, <2>2, <2>3, <2>4, <2>5
\* A line of a call of the batch.
<1>12. ASSUME NEW k \in {"call", "result", "cancelled"}, NEW c \in ToSet(batch), c \in Nat,
              log' = Append(log, Line(k, c)), UNCHANGED <<ctx, batch, issued, crashes, at>>
       PROVE  Paired'
  <2>1. Paired
    BY <1>3, <1>12
  <2>2. \A kind, id : Logged(kind, id)' <=> Logged(kind, id) \/ Line(k, c) = Line(kind, id)
    <3>1. Line(k, c) \in Entry
      BY <1>12 DEF Line, Entry
    <3>2. QED
      BY <1>1, <1>12, <3>1, LinesGrow
  <2>3. \A kind, id : Line(k, c) = Line(kind, id) => id = c
    BY DEF Line
  <2>4. ASSUME NEW i \in DOMAIN ctx, batch = <<>> \/ i # Len(ctx), Unasked(i) PROVE Unasked(i)'
    <3>1. c \notin ToSet(ctx[i].calls)
      BY <2>1, <2>4 DEF Paired
    <3>2. QED
      BY <1>12, <2>2, <2>3, <2>4, <3>1 DEF Unasked
  <2>5. QED
    BY <1>12, <2>1, <2>4 DEF Paired
<1>13. ASSUME NEW i \in DOMAIN batch, Begin(i) \/ Block(i) \/ Mark(i) PROVE Paired'
  <2>1. /\ UNCHANGED <<ctx, batch, issued, crashes, at>>
        /\ \E kind \in {"call", "result", "cancelled"} : log' = Append(log, Line(kind, batch[i]))
    BY <1>13 DEF Begin, Block, Mark, CallLine
  <2>2. QED
    BY <1>1, <1>12, <2>1
<1>14. ASSUME NEW c \in CallIds, Finish(c) PROVE Paired'
  <2>1. /\ pc[c] = "running" /\ UNCHANGED <<ctx, batch, issued, crashes, at>>
        /\ log' = Append(log, Line("result", c))
    BY <1>14 DEF Finish
  <2>2. c \in ToSet(batch) /\ c \in Nat
    BY <1>1, <2>1 DEF CallInv
  <2>3. QED
    BY <1>12, <2>1, <2>2
<1>15. ASSUME NEW n \in Cuts, Compact(n) PROVE Paired'
  <2>1. /\ at \notin {"batch", "marking"} /\ at' # "down" /\ UNCHANGED <<issued, crashes, batch>>
        /\ ctx' = Summarized(ctx, n) /\ log' = Append(log, Line("compaction", n))
        /\ n \in Nat /\ n \in 1 .. Len(ctx) - 1
        /\ ctx[n + 1].kind \in {"user", "assistant", "summary"}
    BY <1>1, <1>15 DEF Compact, CompactionLine, Summarizing, Cuts
  <2>2. Paired /\ batch = <<>> /\ ToSet(batch) = {}
    BY <1>3, <1>4, <2>1
  <2>3. Same
    BY <1>1, <2>1, SameCalls DEF Same
  <2>4. ctx' \in Seq(Message) /\ Shortened(ctx', ctx, n, Says("summary", 0))
    BY <1>1, <2>1, SummarizedShortens
  <2>5. ~IsAnswer(ctx[n + 1]) /\ NoStrayAnswer(ctx)
    BY <2>1, <2>2 DEF IsAnswer, Paired
  <2>6. /\ NoStrayAnswer(ctx')
        /\ ctx'[1].calls = <<>>
        /\ \A i \in 2 .. Len(ctx') :
             /\ (n + i) - 1 \in DOMAIN ctx /\ ctx'[i] = ctx[(n + i) - 1]
             /\ AnsweredOnce(ctx, (n + i) - 1) => AnsweredOnce(ctx', i)
             /\ AnswersAfter(ctx, (n + i) - 1) = {} => AnswersAfter(ctx', i) = {}
    <3>1. ctx \in Seq(Message) /\ n \in 1 .. Len(ctx) - 1
      BY <1>1, <2>1
    <3>2. QED
      BY <2>4, <2>5, <3>1, AnswersKept
  <2>7. \A i \in DOMAIN ctx' : i = 1 \/ i \in 2 .. Len(ctx')
    BY <2>4 DEF Shortened
  <2>8. \A i \in DOMAIN ctx' : \A c \in ToSet(ctx'[i].calls) : c <= issued
    BY <2>2, <2>6, <2>7 DEF Paired, ToSet
  <2>9. ASSUME NEW i \in DOMAIN ctx' PROVE AnsweredOnce(ctx', i) \/ Unasked(i)'
    <3>1. CASE i = 1
      BY <2>6, <3>1 DEF AnsweredOnce, ToSet
    <3>2. CASE i \in 2 .. Len(ctx')
      <4>1. AnsweredOnce(ctx, (n + i) - 1) \/ Unasked((n + i) - 1)
        BY <2>2, <2>6, <3>2 DEF Paired
      <4>2. Unasked((n + i) - 1) => Unasked(i)'
        BY <2>3, <2>6, <3>2 DEF Unasked, Same
      <4>3. QED
        BY <2>6, <3>2, <4>1, <4>2
    <3>3. QED
      BY <2>7, <3>1, <3>2
  <2>10. at' # "down" /\ batch' = <<>> /\ ToSet(batch') = {} /\ issued' = issued
    BY <2>1, <2>2
  <2>11. QED
    BY <2>6, <2>8, <2>9, <2>10 DEF Paired
<1>16. CASE Settle
  <2>1. /\ at \in {"batch", "marking"} /\ at' # "down" /\ UNCHANGED <<log, issued, crashes>>
        /\ batch' = <<>>
    BY <1>16 DEF Settle, NoBatch
  <2>2. Paired /\ batch # <<>> /\ ToSet(batch') = {} /\ Same
    BY <1>1, <1>3, <2>1, SameCalls DEF TypeOK, ToSet, Same
  <2>3. Outcomes \in Seq(CallIds) /\ IsInjective(Outcomes) /\ ToSet(Outcomes) = ToSet(batch)
    BY <1>16, OutcomesAre
  <2>4. /\ Len(Outcomes) \in Nat /\ DOMAIN ctx' = 1 .. Len(ctx')
        /\ Len(ctx') = Len(ctx) + Len(Outcomes)
        /\ \A i \in 1 .. Len(ctx) : ctx'[i] = ctx[i]
        /\ \A i \in 1 .. Len(Outcomes) : ctx'[Len(ctx) + i] = Says("tool", Outcomes[i])
    BY <1>16, SettledIs
  <2>5. EndsIn(ctx, {"assistant"}) /\ ctx[Len(ctx)].calls = batch /\ NoStrayAnswer(ctx)
    BY <2>2 DEF Paired
  <2>6. /\ NoStrayAnswer(ctx')
        /\ AnsweredOnce(ctx', Len(ctx))
        /\ \A i \in 1 .. Len(ctx) - 1 : AnswersAfter(ctx', i) = AnswersAfter(ctx, i)
    BY <1>1, <2>3, <2>4, <2>5, AnswersPushed
  <2>7. ASSUME NEW i \in DOMAIN ctx', i \notin 1 .. Len(ctx) PROVE ctx'[i].calls = <<>>
    <3>1. i - Len(ctx) \in 1 .. Len(Outcomes) /\ Len(ctx) + (i - Len(ctx)) = i
      BY <1>2, <2>4, <2>7
    <3>2. ctx'[Len(ctx) + (i - Len(ctx))] = Says("tool", Outcomes[i - Len(ctx)])
      BY <2>4, <3>1, Zenon
    <3>3. QED
      BY <3>1, <3>2 DEF Says
  <2>8. \A i \in DOMAIN ctx' : \A c \in ToSet(ctx'[i].calls) : c <= issued
    <3>1. ASSUME NEW i \in DOMAIN ctx', NEW c \in ToSet(ctx'[i].calls) PROVE c <= issued
      <4>1. i \in 1 .. Len(ctx)
        BY <2>7 DEF ToSet
      <4>2. QED
        BY <1>2, <2>2, <2>4, <4>1 DEF Paired
    <3>2. QED
      BY <3>1
  <2>9. ASSUME NEW i \in DOMAIN ctx' PROVE AnsweredOnce(ctx', i) \/ Unasked(i)'
    <3>1. CASE i \notin 1 .. Len(ctx)
      BY <2>7, <3>1 DEF AnsweredOnce, ToSet
    <3>2. CASE i = Len(ctx)
      BY <2>6, <3>2
    <3>3. CASE i \in 1 .. Len(ctx) /\ i # Len(ctx)
      <4>1. i \in DOMAIN ctx /\ i \in 1 .. Len(ctx) - 1
        BY <1>2, <3>3
      <4>2. AnsweredOnce(ctx, i) \/ Unasked(i)
        BY <2>2, <3>3, <4>1 DEF Paired
      <4>3. Len(ctx) <= Len(ctx')
        BY <1>2, <2>4
      <4>4. AnsweredOnce(ctx, i) => AnsweredOnce(ctx', i)
        BY <1>2, <2>4, <2>6, <3>3, <4>1, <4>3, StillAnswered
      <4>5. Unasked(i) => Unasked(i)'
        BY <2>2, <2>4, <2>6, <3>3, <4>1 DEF Unasked, Same
      <4>6. QED
        BY <4>2, <4>4, <4>5
    <3>4. QED
      BY <3>1, <3>2, <3>3
  <2>10. QED
    BY <2>1, <2>2, <2>6, <2>8, <2>9 DEF Paired
<1>17. CASE Crash
  BY <1>1, <1>17 DEF Crash
<1>18. CASE Resume
  <2>1. at = "down" /\ crashes' = crashes
    BY <1>18 DEF Resume
  <2>2. QED
    BY <1>3, <2>1 DEF Paired
<1>19. QED
  BY <1>7, <1>8, <1>10, <1>11, <1>13, <1>14, <1>15, <1>16, <1>17, <1>18 DEF Next, Walks

-----------------------------------------------------------------------------
\* A replay that grows keeps what it kept.
LEMMA KeptReplayed ==
  ASSUME NEW msgs, NEW said, Kept(msgs, said), NEW next,
         \A j \in DOMAIN msgs : j \in DOMAIN next /\ next[j].kind = msgs[j].kind
                                                  /\ next[j].id = msgs[j].id
  PROVE  Kept(next, said)
BY DEF Kept

\* A message more is said.
LEMMA KeptSaid ==
  ASSUME NEW msgs, NEW said, Kept(msgs, said), NEW m, NEW next, Longer(next, said, m),
         OwnLine(m) => \E j \in DOMAIN msgs : /\ msgs[j].kind = m.kind /\ msgs[j].id = m.id
                                              /\ j >= Len(next) /\ j \in Nat
  PROVE  Kept(msgs, next)
<1> SUFFICES ASSUME NEW i \in DOMAIN next, OwnLine(next[i])
             PROVE  \E j \in DOMAIN msgs : /\ msgs[j].kind = next[i].kind
                                           /\ msgs[j].id = next[i].id /\ Reaches(next, i, j)
  BY DEF Kept
<1>1. /\ Len(said) \in Nat /\ DOMAIN said = 1 .. Len(said) /\ DOMAIN next = 1 .. Len(next)
      /\ Len(next) = Len(said) + 1 /\ next[Len(next)] = m
      /\ \A k \in 1 .. Len(said) : next[k] = said[k]
  BY DEF Longer
<1>2. CASE i = Len(next)
  <2>1. PICK j \in DOMAIN msgs : /\ msgs[j].kind = m.kind /\ msgs[j].id = m.id
                                 /\ j >= Len(next) /\ j \in Nat
    BY <1>1, <1>2
  <2>2. Reaches(next, i, j)
    BY <1>1, <1>2, <2>1 DEF Reaches
  <2>3. QED
    BY <1>1, <1>2, <2>1, <2>2
<1>3. CASE i # Len(next)
  <2>1. i \in DOMAIN said /\ next[i] = said[i]
    BY <1>1, <1>3
  <2>2. PICK j \in DOMAIN msgs : /\ msgs[j].kind = said[i].kind /\ msgs[j].id = said[i].id
                                 /\ Reaches(said, i, j)
    BY <2>1 DEF Kept
  <2>3. \A n \in 1 .. i - 1 : next[n + 1] = said[n + 1]
    BY <1>1, <2>1
  <2>4. Reaches(next, i, j)
    BY <2>2, <2>3 DEF Reaches
  <2>5. QED
    BY <2>1, <2>2, <2>4
<1>4. QED
  BY <1>2, <1>3

\* As many messages are given up on both sides, where a compaction may cut.
LEMMA KeptSummary ==
  ASSUME NEW msgs, NEW said, Kept(msgs, said), Len(said) <= Len(msgs),
         NEW n \in 1 .. Len(said) - 1, said[n + 1].kind \in NonAnswers,
         NEW next, NEW tail,
         Shortened(next, msgs, n, Says("summary", 0)), Shortened(tail, said, n, Says("summary", 0))
  PROVE  Kept(next, tail) /\ Len(tail) <= Len(next)
<1>1. /\ Len(said) \in Nat /\ DOMAIN said = 1 .. Len(said) /\ Len(tail) \in Nat
      /\ DOMAIN tail = 1 .. Len(tail) /\ tail[1] = Says("summary", 0) /\ n \in Nat
      /\ Len(msgs) \in Nat /\ DOMAIN msgs = 1 .. Len(msgs)
      /\ DOMAIN next = 1 .. Len(next) /\ Len(next) \in Nat
  BY DEF Shortened
<1>2. \A i \in 2 .. Len(tail) : (n + i) - 1 \in 1 .. Len(said) /\ tail[i] = said[(n + i) - 1]
  BY DEF Shortened
<1>3. \A j \in n + 1 .. Len(msgs) : (j - n) + 1 \in 2 .. Len(next) /\ next[(j - n) + 1] = msgs[j]
  BY DEF Shortened
<1>4. Len(tail) <= Len(next)
  <2>1. Len(msgs) \in n + 1 .. Len(msgs)
    BY <1>1
  <2>2. (Len(msgs) - n) + 1 \in 2 .. Len(next)
    BY <1>3, <2>1
  <2>3. (n + Len(tail)) - 1 = Len(said) \/ Len(tail) <= 1
    BY <1>1 DEF Shortened
  <2>4. QED
    BY <1>1, <2>2, <2>3
<1>5. ASSUME NEW i \in DOMAIN tail, OwnLine(tail[i])
      PROVE  \E j \in DOMAIN next : /\ next[j].kind = tail[i].kind /\ next[j].id = tail[i].id
                                    /\ Reaches(tail, i, j)
  <2>1. i \in 2 .. Len(tail)
    <3>1. ~OwnLine(Says("summary", 0))
      BY DEF OwnLine, Says
    <3>2. i # 1
      BY <1>1, <1>5, <3>1
    <3>3. QED
      BY <1>1, <3>2
  <2> DEFINE h == (n + i) - 1
  <2>2. h \in 1 .. Len(said) /\ tail[i] = said[h] /\ n \in 1 .. h - 1
    BY <1>1, <1>2, <2>1
  <2>3. PICK j \in DOMAIN msgs : /\ msgs[j].kind = said[h].kind /\ msgs[j].id = said[h].id
                                 /\ Reaches(said, h, j)
    BY <1>1, <1>5, <2>2 DEF Kept
  <2>4. j \in Nat /\ j \in n + 1 .. Len(msgs)
    <3>1. n < j
      BY <2>2, <2>3 DEF Reaches
    <3>2. QED
      BY <1>1, <3>1
  <2>5. (j - n) + 1 \in DOMAIN next /\ next[(j - n) + 1] = msgs[j]
    BY <1>1, <1>3, <2>4
  <2>6. ASSUME NEW p \in 1 .. i - 1, tail[p + 1].kind \in NonAnswers
        PROVE  p < (j - n) + 1
    <3> DEFINE q == (n + p) - 1
    <3>1. p + 1 \in 2 .. Len(tail) /\ (n + (p + 1)) - 1 = q + 1
      BY <1>1, <2>1, <2>6
    <3>2. tail[p + 1] = said[q + 1]
      BY <1>2, <3>1
    <3>3. q \in 1 .. h - 1
      BY <1>1, <2>1, <2>6
    <3>4. q < j
      BY <2>3, <2>6, <3>2, <3>3 DEF Reaches
    <3>5. QED
      BY <1>1, <2>4, <2>6, <3>4
  <2>7. Reaches(tail, i, (j - n) + 1)
    BY <2>6 DEF Reaches
  <2> HIDE DEF h
  <2>8. QED
    BY <2>2, <2>3, <2>5, <2>7
<1>6. QED
  BY <1>4, <1>5 DEF Kept

\* What a line does to the length of the replay: messages stay where they are.
LEMMA ReplayGrows ==
  ASSUME NEW lines \in Seq(Entry), NEW e \in Entry, Faithful(lines, Replay(lines)),
         Replay(Append(lines, e)) \in Seq(Message), e.kind # "compaction"
  PROVE  LET msgs == Replay(lines)
             next == Replay(Append(lines, e))
         IN  /\ Len(msgs) \in Nat /\ Len(next) \in Nat
             /\ DOMAIN msgs = 1 .. Len(msgs) /\ DOMAIN next = 1 .. Len(next)
             /\ \A j \in DOMAIN msgs : /\ j \in DOMAIN next /\ next[j].kind = msgs[j].kind
                                       /\ next[j].id = msgs[j].id
             /\ Len(msgs) <= Len(next)
             /\ e.kind # "call" \/ ~EndsIn(lines, {"assistant", "call"}) =>
                  Len(next) = Len(msgs) + 1
             /\ e.kind # "call" => /\ next[Len(next)].kind = KindOf(e)
                                   /\ next[Len(next)].id = e.id
<1> DEFINE msgs == Replay(lines)
           next == Replay(Append(lines, e))
           text == Says(e.kind, e.id)
           answer == Says("tool", e.id)
           call == [kind |-> "assistant", id |-> 0, calls |-> <<e.id>>]
           joined == [msgs EXCEPT ![Len(msgs)].calls = Append(@, e.id)]
<1>1. msgs \in Seq(Message) /\ next \in Seq(Message)
  BY DEF Faithful
<1>2. /\ e.kind \in {"user", "assistant"} => next = Append(msgs, text)
      /\ e.kind \in {"result", "cancelled"} => next = Append(msgs, answer)
      /\ e.kind = "call" /\ EndsIn(lines, {"assistant", "call"}) => next = joined
      /\ e.kind = "call" /\ ~EndsIn(lines, {"assistant", "call"}) => next = Append(msgs, call)
  BY ReplayLine
<1>3. e.kind \in {"user", "assistant", "call", "result", "cancelled"}
  BY DEF Entry
<1>4. /\ text.kind = e.kind /\ text.id = e.id /\ answer.kind = "tool" /\ answer.id = e.id
  BY DEF Says
<1>5. /\ e.kind \in {"user", "assistant"} => KindOf(e) = e.kind
      /\ e.kind \in {"result", "cancelled"} => KindOf(e) = "tool"
  BY DEF KindOf
<1> HIDE DEF next, text, answer, call, msgs
<1>6. ASSUME NEW m, next = Append(msgs, m)
      PROVE  /\ Len(next) = Len(msgs) + 1 /\ next[Len(next)] = m
             /\ \A j \in DOMAIN msgs : j \in DOMAIN next /\ next[j] = msgs[j]
  BY <1>1, <1>6
<1>7. Len(msgs) \in Nat /\ Len(next) \in Nat /\ DOMAIN msgs = 1 .. Len(msgs)
      /\ DOMAIN next = 1 .. Len(next)
  BY <1>1
<1>8. CASE e.kind # "call" \/ ~EndsIn(lines, {"assistant", "call"})
  <2>1. \E m : /\ next = Append(msgs, m)
               /\ e.kind # "call" => m.kind = KindOf(e) /\ m.id = e.id
    BY <1>2, <1>3, <1>4, <1>5, <1>8
  <2>2. PICK m : /\ next = Append(msgs, m)
                 /\ e.kind # "call" => m.kind = KindOf(e) /\ m.id = e.id
    BY <2>1
  <2>3. QED
    BY <1>6, <1>7, <1>8, <2>2 DEF msgs, next
<1>9. CASE e.kind = "call" /\ EndsIn(lines, {"assistant", "call"})
  <2>1. next = joined
    BY <1>2, <1>9
  <2>2. Len(msgs) > 0
    BY <1>9 DEF Faithful, EndsAlike, EndsIn, msgs
  <2>3. DOMAIN next = DOMAIN msgs /\ Len(next) = Len(msgs)
    BY <1>1, <2>1
  <2>4. ASSUME NEW j \in DOMAIN msgs PROVE next[j].kind = msgs[j].kind /\ next[j].id = msgs[j].id
    <3>1. msgs[j] \in Message
      BY <1>1
    <3>2. CASE j = Len(msgs)
      <4>1. next[j] = [msgs[j] EXCEPT !.calls = Append(@, e.id)]
        BY <2>1, <3>2
      <4>2. QED
        BY <3>1, <4>1 DEF Message
    <3>3. CASE j # Len(msgs)
      BY <2>1, <3>3
    <3>4. QED
      BY <3>2, <3>3
  <2>5. Len(msgs) <= Len(next) /\ \A j \in DOMAIN msgs : j \in DOMAIN next
    BY <1>7, <2>3
  <2>6. QED
    BY <1>7, <1>9, <2>4, <2>5, Zenon DEF msgs, next
<1>10. QED
  BY <1>8, <1>9

\* The calls of a batch are finitely many.
LEMMA AnsweredFinite ==
  ASSUME TypeOK
  PROVE  /\ IsFiniteSet(ToSet(batch)) /\ IsFiniteSet(AnsweredCalls)
         /\ Cardinality(AnsweredCalls) \in Nat
<1>1. IsFiniteSet(CallIds)
  <2>1. 1 \in Int /\ MaxCalls \in Int
    BY TranscriptAssumption
  <2>2. QED
    BY <2>1, FS_Interval DEF CallIds
<1>2. ToSet(batch) \in SUBSET CallIds /\ AnsweredCalls \in SUBSET CallIds
  BY TypeFacts DEF AnsweredCalls
<1>3. QED
  BY <1>1, <1>2, FS_Subset, FS_CardinalityType

\* When the results are pushed they are no more than the calls answered on file.
LEMMA OutcomesCounted ==
  ASSUME TypeOK, CallInv, Settle
  PROVE  Len(Outcomes) <= Cardinality(AnsweredCalls) /\ ToSet(batch) = AnsweredCalls
<1>1. /\ Outcomes \in Seq(CallIds) /\ IsInjective(Outcomes) /\ ToSet(Outcomes) = ToSet(batch)
      /\ \A c \in ToSet(batch) : Logged("result", c) \/ Logged("cancelled", c)
  BY OutcomesAre
<1>2. ToSet(batch) = AnsweredCalls
  <2>1. log \in Seq(Entry)
    BY DEF TypeOK
  <2>2. \A c \in ToSet(batch) : HasAnswer(log, c)
    BY <1>1, <2>1, AnswerLogged
  <2>3. QED
    BY <2>2 DEF AnsweredCalls
<1>3. Outcomes \in Injection(1 .. Len(Outcomes), AnsweredCalls) /\ Len(Outcomes) \in Nat
  <2>1. /\ DOMAIN Outcomes = 1 .. Len(Outcomes) /\ Len(Outcomes) \in Nat
        /\ \A i \in DOMAIN Outcomes : Outcomes[i] \in AnsweredCalls
    BY <1>1, <1>2, ToSetIn
  <2>2. Outcomes \in [1 .. Len(Outcomes) -> AnsweredCalls]
    <3>1. Outcomes = [i \in DOMAIN Outcomes |-> Outcomes[i]]
      BY <1>1
    <3>2. QED
      BY <2>1, <3>1
  <2>3. QED
    BY <1>1, <2>1, <2>2 DEF Injection
<1>4. Cardinality(1 .. Len(Outcomes)) = Len(Outcomes)
  <2>1. 1 \in Int /\ Len(Outcomes) \in Int
    BY <1>3
  <2>2. Cardinality(1 .. Len(Outcomes)) =
          IF 1 > Len(Outcomes) THEN 0 ELSE Len(Outcomes) - 1 + 1
    BY <2>1, FS_Interval
  <2>3. QED
    BY <1>3, <2>2
<1>5. Cardinality(1 .. Len(Outcomes)) <= Cardinality(AnsweredCalls)
  BY <1>3, AnsweredFinite, FS_Injection
<1>6. QED
  BY <1>2, <1>4, <1>5

\* A line of a call of the batch at work.
LEMMA KeptLine ==
  ASSUME TypeOK, FileInv, FileInv', KeptInv, ~unfiled, batch # <<>>,
         NEW k \in {"call", "result", "cancelled"}, NEW c \in ToSet(batch),
         log' = Append(log, Line(k, c)), UNCHANGED <<ctx, batch, unfiled>>
  PROVE  KeptInv'
<1> DEFINE e == Line(k, c)
           msgs == Replay(log)
           next == Replay(log')
           joins == EndsIn(log, {"assistant", "call"})
<1>1. log \in Seq(Entry) /\ ctx \in Seq(Message) /\ Len(ctx) \in Nat /\ c \in CallIds /\ c \in Nat
  BY TypeFacts DEF TypeOK
<1>2. e \in Entry /\ e.kind = k /\ e.id = c /\ e.kind # "compaction"
  BY <1>1 DEF Line, Entry
<1>3. /\ Faithful(log, msgs) /\ next \in Seq(Message) /\ log' = Append(log, e)
  BY DEF FileInv, Faithful
<1> HIDE DEF e
<1>4. /\ Len(msgs) \in Nat /\ Len(next) \in Nat
      /\ DOMAIN msgs = 1 .. Len(msgs) /\ DOMAIN next = 1 .. Len(next)
      /\ \A j \in DOMAIN msgs : /\ j \in DOMAIN next /\ next[j].kind = msgs[j].kind
                                /\ next[j].id = msgs[j].id
      /\ Len(msgs) <= Len(next)
      /\ e.kind # "call" \/ ~joins => Len(next) = Len(msgs) + 1
      /\ e.kind # "call" => next[Len(next)].kind = KindOf(e) /\ next[Len(next)].id = e.id
  <2>1. log \in Seq(Entry) /\ e \in Entry /\ Faithful(log, Replay(log)) /\ e.kind # "compaction"
        /\ Replay(Append(log, e)) \in Seq(Message) /\ log' = Append(log, e)
    BY <1>1, <1>2, <1>3
  <2>2. QED
    BY <2>1, ReplayGrows
<1> HIDE DEF msgs, next
<1>5. Kept(msgs, ctx) /\ KeptBatch(msgs)
  BY DEF KeptInv, msgs
<1>6. Kept(next, ctx)
  BY <1>4, <1>5, KeptReplayed
<1>7. \A kind, id : Logged(kind, id)' <=> Logged(kind, id) \/ (kind = k /\ id = c)
  <2>1. \A kind, id : Line(k, c) = Line(kind, id) <=> kind = k /\ id = c
    BY DEF Line
  <2>2. QED
    BY <1>1, <1>2, <1>3, <2>1, LinesGrow DEF e
<1>8. log' \in Seq(Entry) /\ Longer(log', log, e) /\ (EndsIn(log', {"assistant", "call"}) <=> k = "call")
  BY <1>1, <1>2, <1>3, LinesGrow
<1>9. \A d : HasAnswer(log', d) <=> HasAnswer(log, d) \/ (k # "call" /\ d = c)
  BY <1>1, <1>2, <1>8, MoreLines
<1>10. /\ k = "call" => AnsweredCalls' = AnsweredCalls /\ ~NotShown'
       /\ k # "call" => AnsweredCalls' = AnsweredCalls \cup {c} /\ (NotShown' <=> NotShown)
  BY <1>7, <1>9 DEF AnsweredCalls, NotShown, NoneBegun
<1>11. /\ Cardinality(AnsweredCalls) \in Nat /\ Cardinality(AnsweredCalls') \in Nat
       /\ Cardinality(AnsweredCalls') <= Cardinality(AnsweredCalls) + 1
       /\ k = "call" => Cardinality(AnsweredCalls') = Cardinality(AnsweredCalls)
  <2>1. IsFiniteSet(AnsweredCalls) /\ Cardinality(AnsweredCalls) \in Nat
    BY AnsweredFinite
  <2>2. /\ IsFiniteSet(AnsweredCalls \cup {c})
        /\ Cardinality(AnsweredCalls \cup {c}) =
             IF c \in AnsweredCalls THEN Cardinality(AnsweredCalls)
                                    ELSE Cardinality(AnsweredCalls) + 1
    BY <2>1, FS_AddElement
  <2>3. CASE k = "call"
    BY <1>10, <2>1, <2>3
  <2>4. CASE k # "call"
    <3>1. AnsweredCalls' = AnsweredCalls \cup {c}
      BY <1>10, <2>4
    <3>2. \/ Cardinality(AnsweredCalls') = Cardinality(AnsweredCalls)
          \/ Cardinality(AnsweredCalls') = Cardinality(AnsweredCalls) + 1
      BY <2>2, <3>1
    <3>3. QED
      BY <2>1, <2>4, <3>2
  <2>5. QED
    BY <2>3, <2>4
<1>12. Len(ctx) + Cardinality(AnsweredCalls) <= Len(msgs) + (IF NotShown THEN 1 ELSE 0)
       /\ (NotShown => ~joins)
  BY <1>5 DEF KeptBatch
<1>a. /\ Len(msgs) \in Nat /\ Len(next) \in Nat /\ Len(msgs) <= Len(next)
      /\ Len(ctx) \in Nat /\ Cardinality(AnsweredCalls) \in Nat
  BY <1>1, <1>4, <1>11
<1>13. Len(ctx) + Cardinality(AnsweredCalls') <= Len(next) + (IF NotShown' THEN 1 ELSE 0)
  <2>1. CASE k = "call" /\ NotShown
    BY <1>1, <1>2, <1>4, <1>10, <1>11, <1>12, <2>1
  <2>2. CASE k = "call" /\ ~NotShown
    <3>1. Len(ctx) + Cardinality(AnsweredCalls) <= Len(msgs) + 0
      <4>1. (IF NotShown THEN 1 ELSE 0) = 0
        BY <2>2
      <4>2. QED
        BY <1>12, <4>1
    <3>2. (IF NotShown' THEN 1 ELSE 0) = 0 /\ AnsweredCalls' = AnsweredCalls
      BY <1>10, <2>2
    <3>3. Len(ctx) + Cardinality(AnsweredCalls) <= Len(next) + 0
      BY <1>a, <3>1
    <3>4. QED
      BY <3>2, <3>3
  <2>3. CASE k # "call"
    BY <1>1, <1>2, <1>4, <1>10, <1>11, <1>12, <2>3
  <2>4. QED
    BY <2>1, <2>2, <2>3
<1>14. ASSUME NEW d \in AnsweredCalls'
       PROVE  \E j \in DOMAIN next : j >= Len(ctx) /\ next[j].kind = "tool" /\ next[j].id = d
  <2>1. CASE d \in AnsweredCalls
    <3>1. PICK j \in DOMAIN msgs : j >= Len(ctx) /\ msgs[j].kind = "tool" /\ msgs[j].id = d
      BY <1>5, <2>1 DEF KeptBatch
    <3>2. QED
      BY <1>4, <3>1
  <2>2. CASE d = c /\ k # "call"
    <3>1. next[Len(next)].kind = "tool" /\ next[Len(next)].id = d
      BY <1>2, <1>4, <2>2 DEF KindOf
    <3>2. Len(next) \in DOMAIN next /\ Len(next) >= Len(ctx)
      BY <1>1, <1>2, <1>4, <1>11, <1>12, <2>2
    <3>3. QED
      BY <3>1, <3>2
  <2>3. QED
    BY <1>10, <1>14, <2>1, <2>2
<1>15. NotShown' => ~EndsIn(log', {"assistant", "call"})
  BY <1>8, <1>10
<1>16. KeptBatch(msgs)'
  BY <1>13, <1>14, <1>15 DEF KeptBatch, msgs, next
<1>17. QED
  BY <1>6, <1>16 DEF KeptInv, msgs, next

\* Every step but the ones that say so keeps the replay from falling behind.
LEMMA KeptStep ==
  ASSUME TypeOK, FileInv, CallInv, TurnInv, KeptInv, [Next]_vars, TypeOK', FileInv', CallInv'
  PROVE  KeptInv'
<1> USE DEF batchVars
<1> DEFINE msgs == Replay(log)
           next == Replay(log')
<1>1. log \in Seq(Entry) /\ ctx \in Seq(Message) /\ Len(log) + 1 \in Nat /\ Len(log) \in Nat
      /\ CallIds \subseteq Nat /\ DOMAIN ctx = 1 .. Len(ctx) /\ Len(ctx) \in Nat
      /\ \A i \in DOMAIN batch : batch[i] \in CallIds /\ batch[i] \in ToSet(batch)
  BY TypeFacts DEF TypeOK
<1>2. /\ Faithful(log, msgs) /\ next \in Seq(Message)
      /\ Len(msgs) \in Nat /\ DOMAIN msgs = 1 .. Len(msgs)
  BY DEF FileInv, Faithful
<1>3. at \notin {"batch", "marking"} => batch = <<>>
  BY NoBatchIdle
<1>4. batch # <<>> <=> at \in {"batch", "marking"}
  BY DEF TypeOK
<1> HIDE DEF msgs, next
<1>5. ASSUME UNCHANGED <<log, ctx, batch, unfiled>> PROVE KeptInv'
  BY <1>5 DEF KeptInv, KeptBatch, AnsweredCalls, NotShown, NoneBegun, Logged
<1>6. CASE Walks \/ Esc \/ BatchCancelled \/ UNCHANGED vars
  BY <1>5, <1>6, WalkIs DEF Esc, BatchCancelled, vars
<1>7. ASSUME NEW c \in CallIds, Execute(c) \/ Complete(c) PROVE KeptInv'
  BY <1>5, <1>7 DEF Execute, Complete
\* A message and its line.
<1>8. ASSUME ~unfiled, batch = <<>>,
             NEW e \in Entry, log' = Append(log, e), e.kind \in {"user", "assistant"},
             NEW m \in Message, ctx' = Append(ctx, m), m.kind = e.kind, m.id = e.id
      PROVE  Kept(next, ctx') /\ Len(ctx') <= Len(next)
  <2>1. Longer(ctx', ctx, m)
    BY <1>1, <1>8, AppendLonger
  <2>2. /\ Len(next) \in Nat /\ DOMAIN next = 1 .. Len(next)
        /\ \A j \in DOMAIN msgs : /\ j \in DOMAIN next /\ next[j].kind = msgs[j].kind
                                  /\ next[j].id = msgs[j].id
        /\ Len(next) = Len(msgs) + 1
        /\ next[Len(next)].kind = KindOf(e) /\ next[Len(next)].id = e.id
    <3>1. e.kind # "compaction" /\ e.kind # "call"
      BY <1>8
    <3>2. QED
      BY <1>1, <1>2, <1>8, <3>1, ReplayGrows, Zenon DEF msgs, next
  <2>3. KindOf(e) = e.kind
    BY <1>8 DEF KindOf
  <2>4. Kept(msgs, ctx) /\ Len(ctx) <= Len(msgs)
    BY <1>8 DEF KeptInv, msgs
  <2>5. Kept(next, ctx)
    BY <2>2, <2>4, KeptReplayed
  <2>6. Len(ctx') <= Len(next) /\ Len(next) \in DOMAIN next
    BY <1>1, <1>2, <2>1, <2>2, <2>4 DEF Longer
  <2>7. \E j \in DOMAIN next : next[j].kind = m.kind /\ next[j].id = m.id /\ j >= Len(ctx') /\ j \in Nat
    <3>1. Len(next) >= Len(ctx')
      BY <2>1, <2>2, <2>6 DEF Longer
    <3>2. QED
      BY <1>8, <2>2, <2>3, <2>6, <3>1
  <2>8. QED
    BY <2>1, <2>5, <2>6, <2>7, KeptSaid
<1>9. CASE Submit \/ Steer \/ StreamAborted
  <2>1. /\ batch = <<>> /\ batch' = <<>> /\ unfiled' = unfiled
        /\ \E kind \in {"user", "assistant"} :
             /\ log' = Append(log, Line(kind, Len(log) + 1))
             /\ ctx' = Append(ctx, Says(kind, Len(log) + 1))
    BY <1>3, <1>9 DEF Submit, Steer, SteerLine, StreamAborted
  <2>2. PICK kind \in {"user", "assistant"} : /\ log' = Append(log, Line(kind, Len(log) + 1))
                                              /\ ctx' = Append(ctx, Says(kind, Len(log) + 1))
    BY <2>1
  <2>3. /\ Line(kind, Len(log) + 1) \in Entry /\ Says(kind, Len(log) + 1) \in Message
        /\ Line(kind, Len(log) + 1).kind = kind /\ Line(kind, Len(log) + 1).id = Len(log) + 1
        /\ Says(kind, Len(log) + 1).kind = kind /\ Says(kind, Len(log) + 1).id = Len(log) + 1
    BY <1>1 DEF Line, Entry, Says, Message
  <2>4. ~unfiled => Kept(next, ctx') /\ Len(ctx') <= Len(next)
    BY <1>8, <2>1, <2>2, <2>3
  <2>5. QED
    BY <2>1, <2>4 DEF KeptInv, next
<1>10. ASSUME NEW text \in BOOLEAN, NEW n \in 0 .. MaxBatch, NEW finish,
              NEW calls \in Collected(n), NEW oneByOne, Reply(text, calls, finish, oneByOne)
       PROVE  KeptInv'
  <2> DEFINE m == [kind |-> "assistant", id |-> IF text THEN Len(log) + 1 ELSE 0,
                   calls |-> calls]
  <2>1. /\ at = "streaming" /\ ctx' = Append(ctx, m) /\ pc' = pc
        /\ log' = log \o (IF text THEN <<Line("assistant", Len(log) + 1)>> ELSE <<>>)
        /\ unfiled' = (unfiled \/ (~text /\ ~Runs(calls, finish)))
        /\ batch' = batch \/ (batch' = calls /\ at' = "batch")
        /\ ~Runs(calls, finish) => batch' = batch
        /\ Runs(calls, finish) => at' = "batch"
    BY <1>10 DEF Reply
  <2>2. batch = <<>>
    BY <1>3, <2>1
  <2>3. m \in Message /\ m.kind = "assistant" /\ m.id = (IF text THEN Len(log) + 1 ELSE 0)
    <3>1. PICK said \in Message : ctx' = Append(ctx, said) /\ said.calls = calls
      BY <1>10, ReplyIs
    <3>2. calls \in Seq(CallIds)
      BY <3>1 DEF Message
    <3>3. QED
      BY <1>1, <3>2 DEF Message
  <2> HIDE DEF m
  <2>4. Longer(ctx', ctx, m)
    BY <1>1, <2>1, <2>3, AppendLonger
  <2>5. batch' # <<>> => AnsweredCalls' = {} /\ NoneBegun'
    <3>1. ASSUME batch' # <<>>, NEW c \in ToSet(batch')
          PROVE  ~HasAnswer(log', c) /\ ~Logged("call", c)'
      <4>1. at' = "batch" /\ c \in CallIds
        BY <2>1, <2>2, <3>1, TypeFacts DEF TypeOK, ToSet
      <4>2. pc'[c] = "waiting"
        BY <2>1, <4>1, NoBatchIdle
      <4>3. ~Logged("call", c)' /\ ~Logged("result", c)' /\ ~Logged("cancelled", c)'
        BY <3>1, <4>1, <4>2 DEF CallInv
      <4>4. log' \in Seq(Entry)
        BY DEF TypeOK
      <4>5. ASSUME NEW k \in DOMAIN log', log'[k].kind \in {"result", "cancelled"}, log'[k].id = c
            PROVE  FALSE
        <5>1. log'[k] \in Entry
          BY <4>4
        <5>2. log'[k] = Line("result", c) \/ log'[k] = Line("cancelled", c)
          BY <4>5, <5>1 DEF Entry, Line
        <5>3. QED
          BY <4>3, <5>2 DEF Logged
      <4>6. QED
        BY <4>3, <4>5 DEF HasAnswer
    <3>2. QED
      BY <3>1 DEF AnsweredCalls, NoneBegun
  <2>6. Cardinality({}) = 0
    BY FS_EmptySet
  <2>7. CASE text
    <3>1. Line("assistant", Len(log) + 1) \in Entry
          /\ Line("assistant", Len(log) + 1).kind = "assistant"
          /\ Line("assistant", Len(log) + 1).id = Len(log) + 1
      BY <1>1 DEF Line, Entry
    <3>2. log' = Append(log, Line("assistant", Len(log) + 1))
      BY <1>1, <2>1, <2>7, <3>1, AppendIsConcat
    <3>3. ~unfiled => Kept(next, ctx') /\ Len(ctx') <= Len(next)
      BY <1>8, <2>1, <2>2, <2>3, <2>7, <3>1, <3>2
    <3>4. ~NotShown' /\ Len(ctx') \in Nat
      <4>1. ctx'[Len(ctx')] = m /\ Len(ctx') \in Nat
        BY <2>4 DEF Longer
      <4>2. m.id # 0
        BY <1>1, <2>3, <2>7
      <4>3. QED
        BY <4>1, <4>2 DEF NotShown
    <3>5. ~unfiled /\ batch' # <<>> => KeptBatch(msgs)'
      <4>1. ASSUME ~unfiled, batch' # <<>>
            PROVE  Len(ctx') + Cardinality(AnsweredCalls') <= Len(next) + 0
        <5>1. Len(next) \in Nat
          BY <1>2
        <5>2. QED
          BY <2>5, <2>6, <3>3, <3>4, <4>1, <5>1
      <4>2. QED
        BY <2>5, <3>4, <4>1 DEF KeptBatch, msgs, next
    <3>6. QED
      BY <2>1, <2>7, <3>3, <3>5 DEF KeptInv, msgs, next
  <2>8. CASE ~text /\ ~Runs(calls, finish)
    BY <2>1, <2>8 DEF KeptInv
  <2>9. CASE ~text /\ Runs(calls, finish)
    <3>1. log' = log /\ unfiled' = unfiled /\ batch' # <<>>
      <4>1. batch' # <<>>
        BY <2>1, <2>9 DEF TypeOK
      <4>2. log' = log \o <<>> /\ unfiled' = unfiled
        BY <2>1, <2>9 DEF TypeOK
      <4>3. QED
        BY <1>1, <4>1, <4>2, ConcatEmptySeq
    <3> SUFFICES ASSUME ~unfiled PROVE Kept(msgs, ctx') /\ KeptBatch(msgs)'
      BY <3>1 DEF KeptInv, msgs
    <3>2. Kept(msgs, ctx) /\ Len(ctx) <= Len(msgs)
      BY <2>2 DEF KeptInv, msgs
    <3>3. ~OwnLine(m)
      BY <2>3, <2>9 DEF OwnLine
    <3>4. Kept(msgs, ctx')
      BY <2>4, <3>2, <3>3, KeptSaid
    <3>5. Len(ctx') = Len(ctx) + 1 /\ ctx'[Len(ctx')] = m
      BY <2>4 DEF Longer
    <3>6. NotShown'
      BY <2>3, <2>5, <2>9, <3>1, <3>5 DEF NotShown
    <3>7. ~EndsIn(log, {"assistant", "call"})
      BY <2>1 DEF TurnInv, BeforeReply, EndsIn
    <3>8. Len(ctx') + Cardinality(AnsweredCalls') <= Len(msgs) + 1
      <4>1. Cardinality(AnsweredCalls') = 0
        BY <2>5, <2>6, <3>1
      <4>2. QED
        BY <1>1, <1>2, <3>2, <3>5, <4>1
    <3>9. QED
      BY <2>5, <3>1, <3>4, <3>6, <3>7, <3>8 DEF KeptBatch, msgs
  <2>10. QED
    BY <2>7, <2>8, <2>9
<1>11. ASSUME NEW n \in Cuts, Compact(n) PROVE KeptInv'
  <2>1. /\ n \in 1 .. Len(ctx) - 1 /\ ctx[n + 1].kind \in NonAnswers /\ n \in Nat
        /\ ctx' = Summarized(ctx, n) /\ log' = Append(log, Line("compaction", n))
        /\ batch = <<>> /\ batch' = batch /\ unfiled' = unfiled
    BY <1>1, <1>3, <1>11 DEF Compact, CompactionLine, Summarizing, Cuts, NonAnswers
  <2>2. Line("compaction", n) \in Entry /\ Line("compaction", n).kind = "compaction"
        /\ Line("compaction", n).id = n
    BY <2>1 DEF Line, Entry
  <2>3. next = Summarized(msgs, n)
    BY <1>1, <2>1, <2>2, ReplayLine DEF msgs, next
  <2>4. Shortened(ctx', ctx, n, Says("summary", 0))
    BY <1>1, <2>1, SummarizedShortens
  <2>5. Shortened(next, msgs, n, Says("summary", 0))
    <3>1. msgs \in Seq(Message)
      BY <1>2 DEF Faithful
    <3>2. QED
      BY <2>1, <2>3, <3>1, SummarizedShortens
  <2>6. ~unfiled => Kept(next, ctx') /\ Len(ctx') <= Len(next)
    <3> SUFFICES ASSUME ~unfiled PROVE Kept(next, ctx') /\ Len(ctx') <= Len(next)
      OBVIOUS
    <3>1. Kept(msgs, ctx) /\ Len(ctx) <= Len(msgs)
      BY <2>1 DEF KeptInv, msgs
    <3>2. QED
      BY <2>1, <2>4, <2>5, <3>1, KeptSummary
  <2>7. QED
    BY <2>1, <2>6 DEF KeptInv, next
<1>12. ASSUME NEW i \in DOMAIN batch, Begin(i) \/ Block(i) \/ Mark(i) PROVE KeptInv'
  <2>1. /\ at \in {"batch", "marking"} /\ UNCHANGED <<ctx, batch, unfiled>>
        /\ \E k \in {"call", "result", "cancelled"} : log' = Append(log, Line(k, batch[i]))
    BY <1>12 DEF Begin, Block, Mark, CallLine
  <2>2. batch # <<>> /\ batch[i] \in ToSet(batch)
    BY <1>1, <1>4, <2>1
  <2>3. unfiled => KeptInv'
    BY <2>1 DEF KeptInv
  <2>4. QED
    BY <2>1, <2>2, <2>3, KeptLine
<1>13. ASSUME NEW c \in CallIds, Finish(c) PROVE KeptInv'
  <2>1. /\ at = "batch" /\ pc[c] = "running" /\ UNCHANGED <<ctx, batch, unfiled>>
        /\ log' = Append(log, Line("result", c))
    BY <1>13 DEF Finish
  <2>2. c \in ToSet(batch) /\ batch # <<>>
    BY <1>4, <2>1 DEF CallInv
  <2>3. unfiled => KeptInv'
    BY <2>1 DEF KeptInv
  <2>4. QED
    BY <2>1, <2>2, <2>3, KeptLine
<1>14. CASE Settle
  <2>1. /\ at \in {"batch", "marking"} /\ log' = log /\ batch' = <<>>
        /\ unfiled' = (unfiled \/ NotShown)
    BY <1>14 DEF Settle, NoBatch, NotShown
  <2> SUFFICES ASSUME ~unfiled, ~NotShown PROVE Kept(msgs, ctx') /\ Len(ctx') <= Len(msgs)
    BY <2>1 DEF KeptInv, msgs
  <2>2. Kept(msgs, ctx) /\ KeptBatch(msgs)
    BY <1>4, <2>1 DEF KeptInv, msgs
  <2>3. /\ Len(Outcomes) \in Nat /\ DOMAIN Outcomes = 1 .. Len(Outcomes)
        /\ DOMAIN ctx' = 1 .. Len(ctx') /\ Len(ctx') = Len(ctx) + Len(Outcomes)
        /\ \A i \in 1 .. Len(ctx) : ctx'[i] = ctx[i]
        /\ \A i \in 1 .. Len(Outcomes) : ctx'[Len(ctx) + i] = Says("tool", Outcomes[i])
    BY <1>14, SettledIs
  <2>4. Len(Outcomes) <= Cardinality(AnsweredCalls) /\ ToSet(batch) = AnsweredCalls
        /\ Cardinality(AnsweredCalls) \in Nat
    BY <1>14, OutcomesCounted, AnsweredFinite
  <2>5. Len(ctx') <= Len(msgs)
    <3>1. Len(ctx) + Cardinality(AnsweredCalls) <= Len(msgs)
      BY <1>1, <1>2, <2>2, <2>4 DEF KeptBatch
    <3>2. QED
      BY <1>1, <1>2, <2>3, <2>4, <3>1
  <2>6. ASSUME NEW i \in DOMAIN ctx', i \notin 1 .. Len(ctx)
        PROVE  /\ ctx'[i].kind = "tool"
               /\ \E h \in DOMAIN Outcomes : ctx'[i].id = Outcomes[h]
    <3>1. i - Len(ctx) \in 1 .. Len(Outcomes) /\ Len(ctx) + (i - Len(ctx)) = i
      BY <1>1, <2>3, <2>6
    <3>2. ctx'[Len(ctx) + (i - Len(ctx))] = Says("tool", Outcomes[i - Len(ctx)])
      BY <2>3, <3>1, Zenon
    <3>3. QED
      BY <2>3, <3>1, <3>2 DEF Says
  <2>7. ASSUME NEW i \in DOMAIN ctx', OwnLine(ctx'[i])
        PROVE  \E j \in DOMAIN msgs : /\ msgs[j].kind = ctx'[i].kind /\ msgs[j].id = ctx'[i].id
                                      /\ Reaches(ctx', i, j)
    <3>1. CASE i \in 1 .. Len(ctx)
      <4>1. PICK j \in DOMAIN msgs : /\ msgs[j].kind = ctx[i].kind /\ msgs[j].id = ctx[i].id
                                     /\ Reaches(ctx, i, j)
        BY <1>1, <2>2, <2>3, <2>7, <3>1 DEF Kept
      <4>2. \A n \in 1 .. i - 1 : ctx'[n + 1] = ctx[n + 1]
        BY <1>1, <2>3, <3>1
      <4>3. Reaches(ctx', i, j)
        BY <4>1, <4>2 DEF Reaches
      <4>4. QED
        BY <2>3, <3>1, <4>1, <4>3
    <3>2. CASE i \notin 1 .. Len(ctx)
      <4>1. PICK h \in DOMAIN Outcomes : ctx'[i].kind = "tool" /\ ctx'[i].id = Outcomes[h]
        BY <2>6, <3>2
      <4>2. Outcomes[h] \in AnsweredCalls
        <5>1. Outcomes \in Seq(CallIds) /\ ToSet(Outcomes) = ToSet(batch)
          BY <1>14, OutcomesAre
        <5>2. QED
          BY <2>4, <5>1, ToSetIn
      <4>3. PICK j \in DOMAIN msgs : /\ j >= Len(ctx) /\ msgs[j].kind = "tool"
                                     /\ msgs[j].id = Outcomes[h]
        BY <2>2, <4>2 DEF KeptBatch
      <4>4. ASSUME NEW n \in 1 .. i - 1, ctx'[n + 1].kind \in NonAnswers PROVE n < j
        <5>1. n + 1 \in DOMAIN ctx'
          BY <1>1, <2>3
        <5>2. n + 1 \in 1 .. Len(ctx)
          BY <2>6, <4>4, <5>1 DEF NonAnswers
        <5>3. QED
          BY <1>1, <1>2, <4>3, <5>2
      <4>5. Reaches(ctx', i, j)
        BY <4>4 DEF Reaches
      <4>6. QED
        BY <4>1, <4>3, <4>5
    <3>3. QED
      BY <3>1, <3>2
  <2>8. QED
    BY <2>5, <2>7 DEF Kept
<1>15. CASE Crash
  <2>1. ctx' = <<>> /\ batch' = <<>> /\ log' = log
    BY <1>15 DEF Crash, NoBatch
  <2>2. DOMAIN ctx' = {} /\ Len(ctx') = 0
    BY <2>1
  <2>3. Kept(msgs, ctx') /\ Len(ctx') <= Len(msgs)
    BY <1>2, <2>2 DEF Kept
  <2>4. QED
    BY <2>1, <2>3 DEF KeptInv, msgs
<1>16. CASE Resume
  <2>1. /\ batch = <<>> /\ batch' = batch /\ log' = log /\ ctx' = Load(log)
        /\ unfiled' = (Load(log) # Replay(log))
    BY <1>3, <1>16 DEF Resume
  <2> SUFFICES ASSUME ctx' = msgs PROVE Kept(msgs, msgs) /\ Len(ctx') <= Len(msgs)
    BY <2>1 DEF KeptInv, msgs
  <2>2. \A i \in DOMAIN msgs : Reaches(msgs, i, i)
    BY <1>2 DEF Reaches
  <2>3. QED
    BY <1>2, <2>2 DEF Kept
<1>17. QED
  BY <1>6, <1>7, <1>9, <1>10, <1>11, <1>12, <1>13, <1>14, <1>15, <1>16 DEF Next, Walks

-----------------------------------------------------------------------------
(***************************************************************************)
(* The invariant and what follows from it.                                 *)
(***************************************************************************)
IInv ==
  TypeOK /\ FileInv /\ CallInv /\ TurnInv /\ CtxInv /\ PairInv /\ OrderInv /\ KeptInv

\* A conversation begins with nothing said, nothing on file, nothing run.
LEMMA InitHolds == Init => IInv
<1> SUFFICES ASSUME Init PROVE IInv
  OBVIOUS
<1>1. /\ log = <<>> /\ ctx = <<>> /\ batch = <<>> /\ completed = <<>>
      /\ at = "idle" /\ cancel = FALSE /\ issued = 0 /\ crashes = 0 /\ serial = FALSE
      /\ pc = [c \in CallIds |-> "waiting"] /\ ran = {} /\ unfiled = FALSE
  BY DEF Init
<1>2. \A kind, id : ~Logged(kind, id)
  BY <1>1 DEF Logged
<1>3. ToSet(batch) = {} /\ ToSet(completed) = {}
  BY <1>1 DEF ToSet
<1>4. TypeOK
  <2>1. \A T : <<>> \in Seq(T)
    OBVIOUS
  <2>2. IsInjective(<<>>)
    BY DEF IsInjective
  <2>3. 0 \in 0 .. MaxCalls /\ 0 \in 0 .. MaxCrashes
    BY TranscriptAssumption
  <2>4. QED
    BY <1>1, <1>3, <2>1, <2>2, <2>3 DEF TypeOK
<1>5. FileInv
  <2>1. <<>> \in Seq(Message) /\ Len(<<>>) = 0 /\ DOMAIN <<>> = {}
    OBVIOUS
  <2>2. 1 .. Len(<<>>) - 1 = {}
    BY <2>1
  <2>3. Faithful(<<>>, <<>>)
    BY <2>1, <2>2 DEF Faithful, NoneMadeUp, ToolsHaveLines, AnswersFollow, CallsShown, LinesHeld,
                      AllOnFile, Alternating, EndsAlike, EndsIn
  <2>4. QED
    BY <1>1, <2>3, ReplayNothing DEF FileInv
<1>6. CallInv
  BY <1>1, <1>2, <1>3 DEF CallInv
<1>7. TurnInv
  BY <1>1 DEF TurnInv, BeforeReply
<1>8. CtxInv
  BY <1>1 DEF CtxInv
<1>9. PairInv
  BY <1>1, <1>3 DEF PairInv, Paired, NoStrayAnswer
<1>10. OrderInv
  BY <1>1 DEF OrderInv, CollectedOrder, Sorted
<1>11. KeptInv
  <2>1. DOMAIN <<>> = {} /\ Len(<<>>) = 0
    OBVIOUS
  <2>2. QED
    BY <1>1, <2>1, ReplayNothing DEF KeptInv, Kept
<1>12. QED
  BY <1>4, <1>5, <1>6, <1>7, <1>8, <1>9, <1>10, <1>11 DEF IInv

\* The parts together are inductive.
LEMMA NextKeeps == IInv /\ [Next]_vars => IInv'
<1> SUFFICES ASSUME IInv, [Next]_vars PROVE IInv'
  OBVIOUS
<1>1. TypeOK /\ FileInv /\ CallInv /\ TurnInv /\ CtxInv /\ PairInv /\ OrderInv /\ KeptInv
  BY DEF IInv
<1>2. TypeOK' /\ FileInv' /\ CallInv'
  BY <1>1, TypeStep, FileStep, CallStep
<1>3. TurnInv'
  BY <1>1, <1>2, TurnStep
<1>4. CtxInv' /\ PairInv' /\ OrderInv'
  BY <1>1, CtxStep, PairStep, OrderStep
<1>5. KeptInv'
  BY <1>1, <1>2, KeptStep
<1>6. QED
  BY <1>2, <1>3, <1>4, <1>5 DEF IInv

\* So they hold in every reachable state.
LEMMA Invariant == Spec => []IInv
BY InitHolds, NextKeeps, PTL DEF Spec

\* At a request no batch is at work: every message's calls are answered.
LEMMA RequestsArePaired ==
  ASSUME IInv
  PROVE  RequestPaired
<1> SUFFICES ASSUME at = "streaming", crashes = 0
             PROVE  /\ NoStrayAnswer(ctx)
                    /\ \A i \in DOMAIN ctx : AllAnsweredOnce(ctx, i) \/ Unasked(i)
  BY DEF RequestPaired, Unasked
<1>1. Paired
  BY DEF IInv, PairInv
<1>2. batch = <<>>
  BY DEF IInv, TypeOK
<1>3. ASSUME NEW i \in DOMAIN ctx, AnsweredOnce(ctx, i) PROVE AllAnsweredOnce(ctx, i)
  <2>1. \A j : Cardinality({j}) = 1
    BY FS_Singleton
  <2>2. QED
    BY <1>3, <2>1 DEF AnsweredOnce, AllAnsweredOnce
<1>4. QED
  BY <1>1, <1>2, <1>3 DEF Paired

\* Between batches both conversations hold what the file holds.
LEMMA RecentAreHeld ==
  ASSUME IInv
  PROVE  RecentLinesHeld
<1>1. log \in Seq(Entry) /\ DOMAIN log = 1 .. Len(log) /\ Len(log) \in Nat
  BY DEF IInv, TypeOK
<1>2. /\ LastCompaction \in 0 .. Len(log)
      /\ \A k \in DOMAIN log : k > LastCompaction <=> Recent(log, k)
  BY <1>1, LastCompactionIs
<1> SUFFICES ASSUME NEW k \in LastCompaction + 1 .. Len(log), log[k].kind # "call"
             PROVE  /\ Holds(Load(log), log[k])
                    /\ at \notin {"batch", "marking", "down"} => Holds(ctx, log[k])
  BY DEF RecentLinesHeld
<1>3. k \in DOMAIN log /\ k > LastCompaction
  BY <1>1, <1>2
<1>4. Recent(log, k)
  BY <1>2, <1>3
<1>5. Holds(Load(log), log[k])
  BY <1>1, <1>3, <1>4, LoadHolds DEF IInv
<1>6. ASSUME at \notin {"batch", "marking", "down"} PROVE Holds(ctx, log[k])
  <2>1. ToSet(batch) = {} /\ at # "down"
    BY <1>6 DEF IInv, TypeOK, ToSet
  <2>2. QED
    BY <1>3, <1>4, <2>1 DEF IInv, CtxInv
<1>7. QED
  BY <1>5, <1>6

\* What the conversation holds, the replay holds, and so does the repaired one.
LEMMA KeptAreReplayed ==
  ASSUME IInv
  PROVE  KeptIsReplayed
<1> DEFINE msgs == Replay(log)
           whole == Load(log)
<1>1. msgs \in Seq(Message)
  BY DEF IInv, FileInv, Faithful
<1>2. PICK pos : IsRepaired(whole, msgs, pos)
  BY <1>1, RepairIs DEF Load
<1> HIDE DEF whole, msgs
<1> SUFFICES ASSUME ~unfiled, NEW i \in DOMAIN ctx, OwnLine(ctx[i])
             PROVE  \E j \in DOMAIN whole : /\ whole[j].kind = ctx[i].kind
                                            /\ whole[j].id = ctx[i].id
  BY DEF KeptIsReplayed, whole
<1>3. PICK h \in DOMAIN msgs : msgs[h].kind = ctx[i].kind /\ msgs[h].id = ctx[i].id
  BY DEF IInv, KeptInv, Kept, msgs
<1>4. pos[h] \in DOMAIN whole /\ whole[pos[h]] = msgs[h]
  BY <1>2 DEF IsRepaired
<1>5. QED
  BY <1>3, <1>4

\* Collected in the order of their ids, calls keep it.
LEMMA SortedKeepsPathOrder ==
  ASSUME IInv, ~Hashed
  PROVE  PathOrder
<1> SUFFICES ASSUME at = "batch", NEW c \in ToSet(batch), NEW d \in ToSet(batch), c < d,
                    serial \/ (Key[c] # NoKey /\ Key[c] = Key[d]), pc[d] # "waiting"
             PROVE  pc[c] = "done"
  BY DEF PathOrder
<1>1. PICK i \in DOMAIN batch : batch[i] = c
  BY DEF ToSet
<1>2. PICK j \in DOMAIN batch : batch[j] = d
  BY DEF ToSet
<1>3. i \in Nat /\ j \in Nat /\ c \in Nat /\ d \in Nat
  BY <1>1, <1>2, TypeFacts DEF IInv, TypeOK
<1>4. i < j
  <2>1. \A h, l \in DOMAIN batch : h < l => batch[h] < batch[l]
    BY DEF IInv, OrderInv, Sorted
  <2>2. ~(j < i)
    BY <1>1, <1>2, <1>3, <2>1
  <2>3. i # j
    BY <1>1, <1>2, <1>3
  <2>4. QED
    BY <1>3, <2>2, <2>3
<1>5. QED
  BY <1>1, <1>2, <1>4 DEF IInv, OrderInv, CollectedOrder

-----------------------------------------------------------------------------
(***************************************************************************)
(* The results.                                                            *)
(***************************************************************************)

\* Until the process has been resumed, every request holds each tool result
\* behind the message that asked for it and each call's answer once; after a
\* resume it never has two assistant messages in a row; and it holds nothing
\* without its line in the session file (run_turn, execute_tool_calls,
\* compact.rs, load_session).
THEOREM RequestsAreSound == Spec => []RequestsSound
<1>1. ASSUME IInv PROVE RequestsSound
  <2>1. TypeOK /\ FileInv /\ CtxInv
    BY <1>1 DEF IInv
  <2>2. RequestPaired /\ OneAssistantPerTurn
    BY <1>1, <2>1, RequestsArePaired, LoadAlternates
  <2>3. RequestIsLogged
    BY <2>1 DEF CtxInv, RequestIsLogged, OnFile
  <2>4. QED
    BY <2>1, <2>2, <2>3 DEF RequestsSound
<1>2. IInv => RequestsSound
  BY <1>1
<1>3. QED
  BY <1>2, Invariant, PTL

\* Wherever a kill falls, every call of the resumed conversation has an
\* answer, a made-up one (repair_orphaned_tool_calls) only where the file has
\* none; and a call that had finished is never marked as cancelled.
THEOREM CallsAreAnsweredOnce == Spec => []CallsAnsweredOnce
<1>1. ASSUME IInv PROVE CallsAnsweredOnce
  <2>1. FileInv /\ TypeOK /\ CallInv
    BY <1>1 DEF IInv
  <2>2. EveryCallAnswered
    BY <2>1, LoadAnswers
  <2>3. FinishedGetsNoMarker
    BY <2>1 DEF FinishedGetsNoMarker, CallInv, TypeOK
  <2>4. QED
    BY <2>2, <2>3 DEF CallsAnsweredOnce
<1>2. IInv => CallsAnsweredOnce
  BY <1>1
<1>3. QED
  BY <1>2, Invariant, PTL

\* A tool that was started shows in the resumed conversation, with an answer,
\* or a summary stands for it: the call is on file before tool.execute runs.
THEOREM EffectsStayKnown == Spec => []EffectsAreKnown
<1>1. ASSUME IInv PROVE EffectsAreKnown
  <2>1. FileInv /\ log \in Seq(Entry) /\ \A c \in ran : Logged("call", c)
    BY <1>1 DEF IInv, TypeOK, CallInv
  <2>2. QED
    BY <2>1, LoadShowsEffects
<1>2. IInv => EffectsAreKnown
  BY <1>1
<1>3. QED
  BY <1>2, Invariant, PTL

\* Compaction, replay and repair swallow no line written since the last
\* compaction, and between batches the running conversation holds it too; and
\* of older lines the replay drops none the running conversation kept: the
\* `replaced_count` of maybe_compact, which counts the messages of the
\* context, never reaches further in the conversation load_session rebuilds,
\* unless an answer without text had no call on file or a result was made up.
THEOREM ReplayKeepsLines == Spec => []ReplayLosesNothing
<1>1. IInv => ReplayLosesNothing
  BY RecentAreHeld, KeptAreReplayed DEF ReplayLosesNothing
<1>2. QED
  BY <1>1, Invariant, PTL

\* group_batch: calls that may not overlap run in the order they were
\* collected, whichever that is.
THEOREM BatchKeepsOrder == Spec => []CollectedOrder
<1>1. IInv => CollectedOrder
  BY DEF IInv, OrderInv
<1>2. QED
  BY <1>1, Invariant, PTL

\* That is the model's own order, unless the provider's parser hands the
\* calls over from a HashMap (openai.rs), where it need not be.
THEOREM PathsKeepOrder == ~Hashed => (Spec => []PathOrder)
<1> SUFFICES ASSUME ~Hashed PROVE Spec => []PathOrder
  OBVIOUS
<1>1. IInv => PathOrder
  BY SortedKeepsPathOrder
<1>2. QED
  BY <1>1, Invariant, PTL
=============================================================================
