--------------------------- MODULE DeliveryProofs ---------------------------
(***************************************************************************)
(* The safety of Delivery for any number of calls and results: its type    *)
(* invariant, InOneHand and LostOnlyWhenExcused, and that every step of it *)
(* is a step of ResultPromise or leaves the promise's state alone.         *)
(***************************************************************************)
EXTENDS Delivery, TLAPS

\* A call that has not begun has started nothing.
Untouched ==
  \A c \in Calls : call[c] = "idle" =>
    \A x \in Of[c] : task[x] = "none" /\ line[x] = "none"

\* What a call returned with is still in its hands.
ReturnedHolds == \A c \in Calls : call[c] = "returned" => Of[c] \subseteq held

\* The channel and its two ends.
LineEnds ==
  \A x \in Parcels :
    /\ line[x] \in {"open", "sent"} => x \in rx
    /\ line[x] = "open" => task[x] = "running"
    /\ x \in rx => x \in Foreground /\ line[x] \in {"open", "sent", "closed"}
    /\ x \in looking => x \in rx /\ line[x] # "open"

\* Only a call that is being dropped looks.
Lookers == \A c \in Calls : \A x \in Of[c] \cap looking : call[c] = "closing"

\* Under -p a background result that can still reach the outbox, or is in
\* it, has a handle in the map, or had one that stop_agent took.
Watched ==
  mode = "print" => \A x \in Background :
    task[x] = "running" \/ outbox[x] > 0 => x \in background \cup stopped

\* Only background results are reported under -p, where no call is detached.
PrintReports ==
  mode = "print" => \A x \in Parcels :
    line[x] = "none" /\ (outbox[x] > 0 => x \in Background)

\* From the first drain on, a background result that can still reach the
\* outbox was dispatched by the extra turn, or stop_agent waits for it.
LateReports ==
  mode = "print" /\ phase \in {"extra", "finishing"} => \A x \in Background :
    task[x] = "running" \/ outbox[x] > 0 => x \in late \cup stopped

IInv ==
  /\ TypeOK /\ InOneHand /\ LostOnlyWhenExcused
  /\ Untouched /\ ReturnedHolds /\ LineEnds /\ Lookers /\ Watched /\ PrintReports
  /\ LateReports
-----------------------------------------------------------------------------
LEMMA StartKeeps ==
  ASSUME NEW c \in Calls, IInv, Start(c)
  PROVE  IInv'
<1>1. TypeOK'
  BY DeliveryAssumption DEF IInv, TypeOK, Start, Detached, Handles, Foreground, TurnRuns, Quiet, GoTo, callVars, taskVars, endVars, printVars
<1>2. InOneHand'
  <2> SUFFICES ASSUME NEW y \in Parcels
               PROVE  Copies(y)' = One(task[y] = "over")'
    BY DEF InOneHand
  <2>1. Copies(y) = One(task[y] = "over") /\ outbox[y] \in Nat /\ got[y] \in Nat
    BY DEF IInv, InOneHand, TypeOK
  <2>2. QED
    BY <2>1, DeliveryAssumption DEF IInv, TypeOK, InOneHand, Start, Detached, Handles, Foreground, TurnRuns, Quiet, GoTo, Copies, One, LineEnds, ReturnedHolds, Untouched, PrintReports, callVars, taskVars, endVars, printVars
<1>3. LostOnlyWhenExcused'
  BY DeliveryAssumption DEF IInv, TypeOK, LostOnlyWhenExcused, Start, Detached, Handles, Foreground, TurnRuns, Quiet, GoTo, LetGo, Watched, InOneHand, Copies, One, PrintReports, callVars, taskVars, endVars, printVars
<1>4. Untouched'
  BY DeliveryAssumption DEF IInv, TypeOK, Untouched, Start, Detached, Handles, Foreground, TurnRuns, Quiet, GoTo, LineEnds, callVars, taskVars, endVars, printVars
<1>5. ReturnedHolds'
  BY DeliveryAssumption DEF IInv, TypeOK, ReturnedHolds, Start, Detached, Handles, Foreground, TurnRuns, Quiet, GoTo, callVars, taskVars, endVars, printVars
<1>6. LineEnds'
  BY DeliveryAssumption DEF IInv, TypeOK, LineEnds, Start, Detached, Handles, Foreground, TurnRuns, Quiet, GoTo, Untouched, Lookers, callVars, taskVars, endVars, printVars
<1>7. Lookers'
  BY DeliveryAssumption DEF IInv, TypeOK, Lookers, Start, Detached, Handles, Foreground, TurnRuns, Quiet, GoTo, LineEnds, callVars, taskVars, endVars, printVars
<1>8. Watched'
  <2> SUFFICES ASSUME mode' = "print", NEW y \in Background,
                      task'[y] = "running" \/ outbox'[y] > 0
               PROVE  y \in background' \cup stopped'
    BY DEF Watched
  <2>1. QED
    BY DeliveryAssumption DEF IInv, TypeOK, Watched, Start, Detached, Handles, Foreground, TurnRuns, Quiet, GoTo, PrintReports, callVars, taskVars, endVars, printVars
<1>9. PrintReports'
  BY DeliveryAssumption DEF IInv, TypeOK, PrintReports, Start, Detached, Handles, Foreground, TurnRuns, Quiet, GoTo, LineEnds, Untouched, callVars, taskVars, endVars, printVars
<1>10. LateReports'
  <2> SUFFICES ASSUME mode' = "print", phase' \in {"extra", "finishing"}, NEW y \in Background,
                      task'[y] = "running" \/ outbox'[y] > 0
               PROVE  y \in late' \cup stopped'
    BY DEF LateReports
  <2>1. QED
    BY DeliveryAssumption DEF IInv, TypeOK, Watched, LateReports, Start, Detached, Handles, Foreground, TurnRuns, Quiet, GoTo, PrintReports, callVars, taskVars, endVars, printVars
<1>11. QED
  BY <1>1, <1>2, <1>3, <1>4, <1>5, <1>6, <1>7, <1>8, <1>9, <1>10 DEF IInv

LEMMA EscKeeps ==
  ASSUME NEW c \in Calls, IInv, Esc(c)
  PROVE  IInv'
<1>1. TypeOK'
  BY DeliveryAssumption DEF IInv, TypeOK, Esc, Foreground, callVars, taskVars, endVars, printVars
<1>2. InOneHand'
  <2> SUFFICES ASSUME NEW y \in Parcels
               PROVE  Copies(y)' = One(task[y] = "over")'
    BY DEF InOneHand
  <2>1. Copies(y) = One(task[y] = "over") /\ outbox[y] \in Nat /\ got[y] \in Nat
    BY DEF IInv, InOneHand, TypeOK
  <2>2. QED
    BY <2>1, DeliveryAssumption DEF IInv, TypeOK, InOneHand, Esc, Copies, One, LineEnds, ReturnedHolds, Untouched, PrintReports, Foreground, callVars, taskVars, endVars, printVars
<1>3. LostOnlyWhenExcused'
  BY DeliveryAssumption DEF IInv, TypeOK, LostOnlyWhenExcused, Esc, LetGo, Watched, InOneHand, Copies, One, PrintReports, callVars, taskVars, endVars, printVars
<1>4. Untouched'
  BY DeliveryAssumption DEF IInv, TypeOK, Untouched, Esc, LineEnds, callVars, taskVars, endVars, printVars
<1>5. ReturnedHolds'
  BY DeliveryAssumption DEF IInv, TypeOK, ReturnedHolds, Esc, callVars, taskVars, endVars, printVars
<1>6. LineEnds'
  BY DeliveryAssumption DEF IInv, TypeOK, LineEnds, Esc, Untouched, Lookers, Foreground, callVars, taskVars, endVars, printVars
<1>7. Lookers'
  BY DeliveryAssumption DEF IInv, TypeOK, Lookers, Esc, LineEnds, callVars, taskVars, endVars, printVars
<1>8. Watched'
  <2> SUFFICES ASSUME mode' = "print", NEW y \in Background,
                      task'[y] = "running" \/ outbox'[y] > 0
               PROVE  y \in background' \cup stopped'
    BY DEF Watched
  <2>1. QED
    BY DeliveryAssumption DEF IInv, TypeOK, Watched, Esc, PrintReports, callVars, taskVars, endVars, printVars
<1>9. PrintReports'
  BY DeliveryAssumption DEF IInv, TypeOK, PrintReports, Esc, LineEnds, Untouched, Foreground, callVars, taskVars, endVars, printVars
<1>10. LateReports'
  <2> SUFFICES ASSUME mode' = "print", phase' \in {"extra", "finishing"}, NEW y \in Background,
                      task'[y] = "running" \/ outbox'[y] > 0
               PROVE  y \in late' \cup stopped'
    BY DEF LateReports
  <2>1. QED
    BY DeliveryAssumption DEF IInv, TypeOK, Watched, LateReports, Esc, PrintReports, callVars, taskVars, endVars, printVars
<1>11. QED
  BY <1>1, <1>2, <1>3, <1>4, <1>5, <1>6, <1>7, <1>8, <1>9, <1>10 DEF IInv

LEMMA TakeKeeps ==
  ASSUME NEW c \in Calls, NEW x \in Parcels, IInv, Take(c, x)
  PROVE  IInv'
<1>1. TypeOK'
  BY DeliveryAssumption DEF IInv, TypeOK, Take, Foreground, callVars, taskVars, endVars, printVars
<1>2. InOneHand'
  <2> SUFFICES ASSUME NEW y \in Parcels
               PROVE  Copies(y)' = One(task[y] = "over")'
    BY DEF InOneHand
  <2>1. Copies(y) = One(task[y] = "over") /\ outbox[y] \in Nat /\ got[y] \in Nat
    BY DEF IInv, InOneHand, TypeOK
  <2>2. UNCHANGED <<task, outbox, got, dropped>>
    BY DEF Take, callVars, taskVars, endVars, printVars
  <2>3. ASSUME y = x
        PROVE  line[y] = "sent" /\ y \in rx /\ y \notin rx' /\ y \in held'
    BY <2>3, DeliveryAssumption DEF Take, IInv, TypeOK
  <2>4. ASSUME ~(y = x)
        PROVE  line'[y] = line[y] /\ (y \in rx' <=> y \in rx) /\ (y \in held' <=> y \in held)
    BY <2>4, DeliveryAssumption DEF Take, IInv, TypeOK
  <2>5. CASE y = x
    BY <2>1, <2>2, <2>3, <2>5 DEF Copies, One
  <2>6. CASE ~(y = x)
    BY <2>1, <2>2, <2>4, <2>6 DEF Copies, One
  <2>7. QED BY <2>5, <2>6
<1>3. LostOnlyWhenExcused'
  BY DeliveryAssumption DEF IInv, TypeOK, LostOnlyWhenExcused, Take, LetGo, Watched, InOneHand, Copies, One, PrintReports, callVars, taskVars, endVars, printVars
<1>4. Untouched'
  BY DeliveryAssumption DEF IInv, TypeOK, Untouched, Take, LineEnds, callVars, taskVars, endVars, printVars
<1>5. ReturnedHolds'
  BY DeliveryAssumption DEF IInv, TypeOK, ReturnedHolds, Take, callVars, taskVars, endVars, printVars
<1>6. LineEnds'
  BY DeliveryAssumption DEF IInv, TypeOK, LineEnds, Take, Untouched, Lookers, Foreground, callVars, taskVars, endVars, printVars
<1>7. Lookers'
  BY DeliveryAssumption DEF IInv, TypeOK, Lookers, Take, LineEnds, callVars, taskVars, endVars, printVars
<1>8. Watched'
  <2> SUFFICES ASSUME mode' = "print", NEW y \in Background,
                      task'[y] = "running" \/ outbox'[y] > 0
               PROVE  y \in background' \cup stopped'
    BY DEF Watched
  <2>1. QED
    BY DeliveryAssumption DEF IInv, TypeOK, Watched, Take, PrintReports, callVars, taskVars, endVars, printVars
<1>9. PrintReports'
  BY DeliveryAssumption DEF IInv, TypeOK, PrintReports, Take, LineEnds, Untouched, Foreground, callVars, taskVars, endVars, printVars
<1>10. LateReports'
  <2> SUFFICES ASSUME mode' = "print", phase' \in {"extra", "finishing"}, NEW y \in Background,
                      task'[y] = "running" \/ outbox'[y] > 0
               PROVE  y \in late' \cup stopped'
    BY DEF LateReports
  <2>1. QED
    BY DeliveryAssumption DEF IInv, TypeOK, Watched, LateReports, Take, PrintReports, callVars, taskVars, endVars, printVars
<1>11. QED
  BY <1>1, <1>2, <1>3, <1>4, <1>5, <1>6, <1>7, <1>8, <1>9, <1>10 DEF IInv

LEMMA ReturnKeeps ==
  ASSUME NEW c \in Calls, IInv, Return(c)
  PROVE  IInv'
<1>1. TypeOK'
  BY DeliveryAssumption DEF IInv, TypeOK, Return, GoTo, Foreground, callVars, taskVars, endVars, printVars
<1>2. InOneHand'
  <2> SUFFICES ASSUME NEW y \in Parcels
               PROVE  Copies(y)' = One(task[y] = "over")'
    BY DEF InOneHand
  <2>1. Copies(y) = One(task[y] = "over") /\ outbox[y] \in Nat /\ got[y] \in Nat
    BY DEF IInv, InOneHand, TypeOK
  <2>2. QED
    BY <2>1, DeliveryAssumption DEF IInv, TypeOK, InOneHand, Return, GoTo, Copies, One, LineEnds, ReturnedHolds, Untouched, PrintReports, Foreground, callVars, taskVars, endVars, printVars
<1>3. LostOnlyWhenExcused'
  BY DeliveryAssumption DEF IInv, TypeOK, LostOnlyWhenExcused, Return, GoTo, LetGo, Watched, InOneHand, Copies, One, PrintReports, callVars, taskVars, endVars, printVars
<1>4. Untouched'
  BY DeliveryAssumption DEF IInv, TypeOK, Untouched, Return, GoTo, LineEnds, callVars, taskVars, endVars, printVars
<1>5. ReturnedHolds'
  BY DeliveryAssumption DEF IInv, TypeOK, ReturnedHolds, Return, GoTo, callVars, taskVars, endVars, printVars
<1>6. LineEnds'
  BY DeliveryAssumption DEF IInv, TypeOK, LineEnds, Return, GoTo, Untouched, Lookers, Foreground, callVars, taskVars, endVars, printVars
<1>7. Lookers'
  BY DeliveryAssumption DEF IInv, TypeOK, Lookers, Return, GoTo, LineEnds, callVars, taskVars, endVars, printVars
<1>8. Watched'
  <2> SUFFICES ASSUME mode' = "print", NEW y \in Background,
                      task'[y] = "running" \/ outbox'[y] > 0
               PROVE  y \in background' \cup stopped'
    BY DEF Watched
  <2>1. QED
    BY DeliveryAssumption DEF IInv, TypeOK, Watched, Return, GoTo, PrintReports, callVars, taskVars, endVars, printVars
<1>9. PrintReports'
  BY DeliveryAssumption DEF IInv, TypeOK, PrintReports, Return, GoTo, LineEnds, Untouched, Foreground, callVars, taskVars, endVars, printVars
<1>10. LateReports'
  <2> SUFFICES ASSUME mode' = "print", phase' \in {"extra", "finishing"}, NEW y \in Background,
                      task'[y] = "running" \/ outbox'[y] > 0
               PROVE  y \in late' \cup stopped'
    BY DEF LateReports
  <2>1. QED
    BY DeliveryAssumption DEF IInv, TypeOK, Watched, LateReports, Return, GoTo, PrintReports, callVars, taskVars, endVars, printVars
<1>11. QED
  BY <1>1, <1>2, <1>3, <1>4, <1>5, <1>6, <1>7, <1>8, <1>9, <1>10 DEF IInv

LEMMA RecordKeeps ==
  ASSUME NEW c \in Calls, IInv, Record(c)
  PROVE  IInv'
<1>1. TypeOK'
  <2>1. outbox \in [Parcels -> Nat] /\ got \in [Parcels -> Nat]
    BY DEF IInv, TypeOK
  <2>2. outbox' \in [Parcels -> Nat] /\ got' \in [Parcels -> Nat]
    BY <2>1 DEF Record, endVars
  <2>3. UNCHANGED <<mode, esc, line, rx, looking, background, stopped, dropped, phase, interrupted, late, task>>
    BY DEF Record, GoTo, callVars, taskVars, endVars, printVars
  <2>4. call' \in [Calls -> {"idle", "waiting", "returned", "closing", "over"}] /\ held' \in SUBSET Parcels
    BY DeliveryAssumption DEF IInv, TypeOK, Record, GoTo, callVars, taskVars, endVars, printVars
  <2>5. QED
    BY <2>2, <2>3, <2>4 DEF IInv, TypeOK
<1>2. InOneHand'
  <2> SUFFICES ASSUME NEW y \in Parcels
               PROVE  Copies(y)' = One(task[y] = "over")'
    BY DEF InOneHand
  <2>1. Copies(y) = One(task[y] = "over") /\ outbox[y] \in Nat /\ got[y] \in Nat
    BY DEF IInv, InOneHand, TypeOK
  <2>2. UNCHANGED <<task, line, rx, outbox, dropped>>
    BY DEF Record, callVars, taskVars, endVars, printVars
  <2>3. ASSUME y \in Of[c]
        PROVE  y \in held /\ y \notin held' /\ got'[y] = got[y] + 1
    BY <2>3, DeliveryAssumption DEF Record, IInv, TypeOK, ReturnedHolds
  <2>4. ASSUME ~(y \in Of[c])
        PROVE  (y \in held' <=> y \in held) /\ got'[y] = got[y]
    BY <2>4, DeliveryAssumption DEF Record, IInv, TypeOK, ReturnedHolds
  <2>5. CASE y \in Of[c]
    BY <2>1, <2>2, <2>3, <2>5 DEF Copies, One
  <2>6. CASE ~(y \in Of[c])
    BY <2>1, <2>2, <2>4, <2>6 DEF Copies, One
  <2>7. QED BY <2>5, <2>6
<1>3. LostOnlyWhenExcused'
  BY DeliveryAssumption DEF IInv, TypeOK, LostOnlyWhenExcused, Record, GoTo, LetGo, Watched, InOneHand, Copies, One, PrintReports, callVars, taskVars, endVars, printVars
<1>4. Untouched'
  BY DeliveryAssumption DEF IInv, TypeOK, Untouched, Record, GoTo, LineEnds, callVars, taskVars, endVars, printVars
<1>5. ReturnedHolds'
  BY DeliveryAssumption DEF IInv, TypeOK, ReturnedHolds, Record, GoTo, callVars, taskVars, endVars, printVars
<1>6. LineEnds'
  BY DeliveryAssumption DEF IInv, TypeOK, LineEnds, Record, GoTo, Untouched, Lookers, Foreground, callVars, taskVars, endVars, printVars
<1>7. Lookers'
  BY DeliveryAssumption DEF IInv, TypeOK, Lookers, Record, GoTo, LineEnds, callVars, taskVars, endVars, printVars
<1>8. Watched'
  <2> SUFFICES ASSUME mode' = "print", NEW y \in Background,
                      task'[y] = "running" \/ outbox'[y] > 0
               PROVE  y \in background' \cup stopped'
    BY DEF Watched
  <2>1. QED
    BY DeliveryAssumption DEF IInv, TypeOK, Watched, Record, GoTo, PrintReports, callVars, taskVars, endVars, printVars
<1>9. PrintReports'
  BY DeliveryAssumption DEF IInv, TypeOK, PrintReports, Record, GoTo, LineEnds, Untouched, Foreground, callVars, taskVars, endVars, printVars
<1>10. LateReports'
  <2> SUFFICES ASSUME mode' = "print", phase' \in {"extra", "finishing"}, NEW y \in Background,
                      task'[y] = "running" \/ outbox'[y] > 0
               PROVE  y \in late' \cup stopped'
    BY DEF LateReports
  <2>1. QED
    BY DeliveryAssumption DEF IInv, TypeOK, Watched, LateReports, Record, GoTo, PrintReports, callVars, taskVars, endVars, printVars
<1>11. QED
  BY <1>1, <1>2, <1>3, <1>4, <1>5, <1>6, <1>7, <1>8, <1>9, <1>10 DEF IInv

LEMMA CancelKeeps ==
  ASSUME NEW c \in Calls, IInv, Cancel(c)
  PROVE  IInv'
<1>1. TypeOK'
  BY DeliveryAssumption DEF IInv, TypeOK, Cancel, GoTo, Foreground, callVars, taskVars, endVars, printVars
<1>2. InOneHand'
  <2> SUFFICES ASSUME NEW y \in Parcels
               PROVE  Copies(y)' = One(task[y] = "over")'
    BY DEF InOneHand
  <2>1. Copies(y) = One(task[y] = "over") /\ outbox[y] \in Nat /\ got[y] \in Nat
    BY DEF IInv, InOneHand, TypeOK
  <2>2. UNCHANGED <<task, line, rx, outbox, got>>
    BY DEF Cancel, callVars, taskVars, endVars, printVars
  <2>3. ASSUME y \in held \cap Of[c]
        PROVE  y \in held /\ y \notin held' /\ y \in dropped'
    BY <2>3, DeliveryAssumption DEF Cancel, IInv, TypeOK
  <2>4. ASSUME ~(y \in held \cap Of[c])
        PROVE  (y \in held' <=> y \in held) /\ (y \in dropped' <=> y \in dropped)
    BY <2>4, DeliveryAssumption DEF Cancel, IInv, TypeOK
  <2>5. CASE y \in held \cap Of[c]
    BY <2>1, <2>2, <2>3, <2>5 DEF Copies, One
  <2>6. CASE ~(y \in held \cap Of[c])
    BY <2>1, <2>2, <2>4, <2>6 DEF Copies, One
  <2>7. QED BY <2>5, <2>6
<1>3. LostOnlyWhenExcused'
  BY DeliveryAssumption DEF IInv, TypeOK, LostOnlyWhenExcused, Cancel, GoTo, LetGo, Watched, InOneHand, Copies, One, PrintReports, callVars, taskVars, endVars, printVars
<1>4. Untouched'
  BY DeliveryAssumption DEF IInv, TypeOK, Untouched, Cancel, GoTo, LineEnds, callVars, taskVars, endVars, printVars
<1>5. ReturnedHolds'
  BY DeliveryAssumption DEF IInv, TypeOK, ReturnedHolds, Cancel, GoTo, callVars, taskVars, endVars, printVars
<1>6. LineEnds'
  BY DeliveryAssumption DEF IInv, TypeOK, LineEnds, Cancel, GoTo, Untouched, Lookers, Foreground, callVars, taskVars, endVars, printVars
<1>7. Lookers'
  BY DeliveryAssumption DEF IInv, TypeOK, Lookers, Cancel, GoTo, LineEnds, callVars, taskVars, endVars, printVars
<1>8. Watched'
  <2> SUFFICES ASSUME mode' = "print", NEW y \in Background,
                      task'[y] = "running" \/ outbox'[y] > 0
               PROVE  y \in background' \cup stopped'
    BY DEF Watched
  <2>1. QED
    BY DeliveryAssumption DEF IInv, TypeOK, Watched, Cancel, GoTo, PrintReports, callVars, taskVars, endVars, printVars
<1>9. PrintReports'
  BY DeliveryAssumption DEF IInv, TypeOK, PrintReports, Cancel, GoTo, LineEnds, Untouched, Foreground, callVars, taskVars, endVars, printVars
<1>10. LateReports'
  <2> SUFFICES ASSUME mode' = "print", phase' \in {"extra", "finishing"}, NEW y \in Background,
                      task'[y] = "running" \/ outbox'[y] > 0
               PROVE  y \in late' \cup stopped'
    BY DEF LateReports
  <2>1. QED
    BY DeliveryAssumption DEF IInv, TypeOK, Watched, LateReports, Cancel, GoTo, PrintReports, callVars, taskVars, endVars, printVars
<1>11. QED
  BY <1>1, <1>2, <1>3, <1>4, <1>5, <1>6, <1>7, <1>8, <1>9, <1>10 DEF IInv

LEMMA CloseKeeps ==
  ASSUME NEW c \in Calls, NEW x \in Parcels, IInv, Close(c, x)
  PROVE  IInv'
<1>1. TypeOK'
  BY DeliveryAssumption DEF IInv, TypeOK, Close, ClosedLine, Foreground, callVars, taskVars, endVars, printVars
<1>2. InOneHand'
  <2> SUFFICES ASSUME NEW y \in Parcels
               PROVE  Copies(y)' = One(task[y] = "over")'
    BY DEF InOneHand
  <2>1. Copies(y) = One(task[y] = "over") /\ outbox[y] \in Nat /\ got[y] \in Nat
    BY DEF IInv, InOneHand, TypeOK
  <2>2. QED
    BY <2>1, DeliveryAssumption DEF IInv, TypeOK, InOneHand, Close, ClosedLine, Copies, One, LineEnds, ReturnedHolds, Untouched, PrintReports, Foreground, callVars, taskVars, endVars, printVars
<1>3. LostOnlyWhenExcused'
  BY DeliveryAssumption DEF IInv, TypeOK, LostOnlyWhenExcused, Close, ClosedLine, LetGo, Watched, InOneHand, Copies, One, PrintReports, callVars, taskVars, endVars, printVars
<1>4. Untouched'
  BY DeliveryAssumption DEF IInv, TypeOK, Untouched, Close, ClosedLine, LineEnds, callVars, taskVars, endVars, printVars
<1>5. ReturnedHolds'
  BY DeliveryAssumption DEF IInv, TypeOK, ReturnedHolds, Close, ClosedLine, callVars, taskVars, endVars, printVars
<1>6. LineEnds'
  BY DeliveryAssumption DEF IInv, TypeOK, LineEnds, Close, ClosedLine, Untouched, Lookers, Foreground, callVars, taskVars, endVars, printVars
<1>7. Lookers'
  BY DeliveryAssumption DEF IInv, TypeOK, Lookers, Close, ClosedLine, LineEnds, callVars, taskVars, endVars, printVars
<1>8. Watched'
  <2> SUFFICES ASSUME mode' = "print", NEW y \in Background,
                      task'[y] = "running" \/ outbox'[y] > 0
               PROVE  y \in background' \cup stopped'
    BY DEF Watched
  <2>1. QED
    BY DeliveryAssumption DEF IInv, TypeOK, Watched, Close, ClosedLine, PrintReports, callVars, taskVars, endVars, printVars
<1>9. PrintReports'
  BY DeliveryAssumption DEF IInv, TypeOK, PrintReports, Close, ClosedLine, LineEnds, Untouched, Foreground, callVars, taskVars, endVars, printVars
<1>10. LateReports'
  <2> SUFFICES ASSUME mode' = "print", phase' \in {"extra", "finishing"}, NEW y \in Background,
                      task'[y] = "running" \/ outbox'[y] > 0
               PROVE  y \in late' \cup stopped'
    BY DEF LateReports
  <2>1. QED
    BY DeliveryAssumption DEF IInv, TypeOK, Watched, LateReports, Close, ClosedLine, PrintReports, callVars, taskVars, endVars, printVars
<1>11. QED
  BY <1>1, <1>2, <1>3, <1>4, <1>5, <1>6, <1>7, <1>8, <1>9, <1>10 DEF IInv

LEMMA ClosedKeeps ==
  ASSUME NEW c \in Calls, IInv, Closed(c)
  PROVE  IInv'
<1>1. TypeOK'
  BY DeliveryAssumption DEF IInv, TypeOK, Closed, GoTo, Foreground, callVars, taskVars, endVars, printVars
<1>2. InOneHand'
  <2> SUFFICES ASSUME NEW y \in Parcels
               PROVE  Copies(y)' = One(task[y] = "over")'
    BY DEF InOneHand
  <2>1. Copies(y) = One(task[y] = "over") /\ outbox[y] \in Nat /\ got[y] \in Nat
    BY DEF IInv, InOneHand, TypeOK
  <2>2. QED
    BY <2>1, DeliveryAssumption DEF IInv, TypeOK, InOneHand, Closed, GoTo, Copies, One, LineEnds, ReturnedHolds, Untouched, PrintReports, Foreground, callVars, taskVars, endVars, printVars
<1>3. LostOnlyWhenExcused'
  BY DeliveryAssumption DEF IInv, TypeOK, LostOnlyWhenExcused, Closed, GoTo, LetGo, Watched, InOneHand, Copies, One, PrintReports, callVars, taskVars, endVars, printVars
<1>4. Untouched'
  BY DeliveryAssumption DEF IInv, TypeOK, Untouched, Closed, GoTo, LineEnds, callVars, taskVars, endVars, printVars
<1>5. ReturnedHolds'
  BY DeliveryAssumption DEF IInv, TypeOK, ReturnedHolds, Closed, GoTo, callVars, taskVars, endVars, printVars
<1>6. LineEnds'
  BY DeliveryAssumption DEF IInv, TypeOK, LineEnds, Closed, GoTo, Untouched, Lookers, Foreground, callVars, taskVars, endVars, printVars
<1>7. Lookers'
  BY DeliveryAssumption DEF IInv, TypeOK, Lookers, Closed, GoTo, LineEnds, callVars, taskVars, endVars, printVars
<1>8. Watched'
  <2> SUFFICES ASSUME mode' = "print", NEW y \in Background,
                      task'[y] = "running" \/ outbox'[y] > 0
               PROVE  y \in background' \cup stopped'
    BY DEF Watched
  <2>1. QED
    BY DeliveryAssumption DEF IInv, TypeOK, Watched, Closed, GoTo, PrintReports, callVars, taskVars, endVars, printVars
<1>9. PrintReports'
  BY DeliveryAssumption DEF IInv, TypeOK, PrintReports, Closed, GoTo, LineEnds, Untouched, Foreground, callVars, taskVars, endVars, printVars
<1>10. LateReports'
  <2> SUFFICES ASSUME mode' = "print", phase' \in {"extra", "finishing"}, NEW y \in Background,
                      task'[y] = "running" \/ outbox'[y] > 0
               PROVE  y \in late' \cup stopped'
    BY DEF LateReports
  <2>1. QED
    BY DeliveryAssumption DEF IInv, TypeOK, Watched, LateReports, Closed, GoTo, PrintReports, callVars, taskVars, endVars, printVars
<1>11. QED
  BY <1>1, <1>2, <1>3, <1>4, <1>5, <1>6, <1>7, <1>8, <1>9, <1>10 DEF IInv

LEMMA EndsForCallKeeps ==
  ASSUME NEW x \in Parcels, IInv, EndsForCall(x)
  PROVE  IInv'
<1>1. TypeOK'
  BY DeliveryAssumption DEF IInv, TypeOK, EndsForCall, Ends, Foreground, callVars, taskVars, endVars, printVars
<1>2. InOneHand'
  <2> SUFFICES ASSUME NEW y \in Parcels
               PROVE  Copies(y)' = One(task[y] = "over")'
    BY DEF InOneHand
  <2>1. Copies(y) = One(task[y] = "over") /\ outbox[y] \in Nat /\ got[y] \in Nat
    BY DEF IInv, InOneHand, TypeOK
  <2>2. UNCHANGED <<rx, held, outbox, got, dropped>>
    BY DEF EndsForCall, Ends, callVars, taskVars, endVars, printVars
  <2>3. ASSUME y = x
        PROVE  /\ task[y] = "running" /\ task'[y] = "over"
               /\ line[y] = "open" /\ y \in rx /\ line'[y] = "sent"
    BY <2>3, DeliveryAssumption DEF EndsForCall, Ends, IInv, TypeOK, LineEnds
  <2>4. ASSUME ~(y = x)
        PROVE  task'[y] = task[y] /\ line'[y] = line[y]
    BY <2>4, DeliveryAssumption DEF EndsForCall, Ends, IInv, TypeOK, LineEnds
  <2>5. CASE y = x
    BY <2>1, <2>2, <2>3, <2>5 DEF Copies, One
  <2>6. CASE ~(y = x)
    BY <2>1, <2>2, <2>4, <2>6 DEF Copies, One
  <2>7. QED BY <2>5, <2>6
<1>3. LostOnlyWhenExcused'
  BY DeliveryAssumption DEF IInv, TypeOK, LostOnlyWhenExcused, EndsForCall, Ends, LetGo, Watched, InOneHand, Copies, One, PrintReports, callVars, taskVars, endVars, printVars
<1>4. Untouched'
  BY DeliveryAssumption DEF IInv, TypeOK, Untouched, EndsForCall, Ends, LineEnds, callVars, taskVars, endVars, printVars
<1>5. ReturnedHolds'
  BY DeliveryAssumption DEF IInv, TypeOK, ReturnedHolds, EndsForCall, Ends, callVars, taskVars, endVars, printVars
<1>6. LineEnds'
  BY DeliveryAssumption DEF IInv, TypeOK, LineEnds, EndsForCall, Ends, Untouched, Lookers, Foreground, callVars, taskVars, endVars, printVars
<1>7. Lookers'
  BY DeliveryAssumption DEF IInv, TypeOK, Lookers, EndsForCall, Ends, LineEnds, callVars, taskVars, endVars, printVars
<1>8. Watched'
  <2> SUFFICES ASSUME mode' = "print", NEW y \in Background,
                      task'[y] = "running" \/ outbox'[y] > 0
               PROVE  y \in background' \cup stopped'
    BY DEF Watched
  <2>1. QED
    BY DeliveryAssumption DEF IInv, TypeOK, Watched, EndsForCall, Ends, PrintReports, callVars, taskVars, endVars, printVars
<1>9. PrintReports'
  BY DeliveryAssumption DEF IInv, TypeOK, PrintReports, EndsForCall, Ends, LineEnds, Untouched, Foreground, callVars, taskVars, endVars, printVars
<1>10. LateReports'
  <2> SUFFICES ASSUME mode' = "print", phase' \in {"extra", "finishing"}, NEW y \in Background,
                      task'[y] = "running" \/ outbox'[y] > 0
               PROVE  y \in late' \cup stopped'
    BY DEF LateReports
  <2>1. QED
    BY DeliveryAssumption DEF IInv, TypeOK, Watched, LateReports, EndsForCall, Ends, PrintReports, callVars, taskVars, endVars, printVars
<1>11. QED
  BY <1>1, <1>2, <1>3, <1>4, <1>5, <1>6, <1>7, <1>8, <1>9, <1>10 DEF IInv

LEMMA EndsForOutboxKeeps ==
  ASSUME NEW x \in Parcels, IInv, EndsForOutbox(x)
  PROVE  IInv'
<1>1. TypeOK'
  <2>1. outbox \in [Parcels -> Nat] /\ got \in [Parcels -> Nat]
    BY DEF IInv, TypeOK
  <2>2. outbox' \in [Parcels -> Nat] /\ got' \in [Parcels -> Nat]
    BY <2>1 DEF EndsForOutbox, Ends, Reported, endVars
  <2>3. UNCHANGED <<mode, call, esc, line, held, rx, looking, background, stopped, dropped, phase, interrupted, late>>
    BY DEF EndsForOutbox, Ends, callVars, taskVars, endVars, printVars
  <2>4. task' \in [Parcels -> {"none", "running", "over"}]
    BY DeliveryAssumption DEF IInv, TypeOK, EndsForOutbox, Ends, callVars, taskVars, endVars, printVars
  <2>5. QED
    BY <2>2, <2>3, <2>4 DEF IInv, TypeOK
<1>2. InOneHand'
  <2> SUFFICES ASSUME NEW y \in Parcels
               PROVE  Copies(y)' = One(task[y] = "over")'
    BY DEF InOneHand
  <2>1. Copies(y) = One(task[y] = "over") /\ outbox[y] \in Nat /\ got[y] \in Nat
    BY DEF IInv, InOneHand, TypeOK
  <2>2. UNCHANGED <<line, rx, held, got, dropped>>
    BY DEF EndsForOutbox, Ends, Reported, callVars, taskVars, endVars, printVars
  <2>3. ASSUME y = x
        PROVE  task[y] = "running" /\ task'[y] = "over" /\ outbox'[y] = outbox[y] + 1
    BY <2>3, DeliveryAssumption DEF EndsForOutbox, Ends, Reported, IInv, TypeOK
  <2>4. ASSUME ~(y = x)
        PROVE  task'[y] = task[y] /\ outbox'[y] = outbox[y]
    BY <2>4, DeliveryAssumption DEF EndsForOutbox, Ends, Reported, IInv, TypeOK
  <2>5. CASE y = x
    BY <2>1, <2>2, <2>3, <2>5 DEF Copies, One
  <2>6. CASE ~(y = x)
    BY <2>1, <2>2, <2>4, <2>6 DEF Copies, One
  <2>7. QED BY <2>5, <2>6
<1>3. LostOnlyWhenExcused'
  BY DeliveryAssumption DEF IInv, TypeOK, LostOnlyWhenExcused, EndsForOutbox, Ends, Reported, Foreground, LetGo, Watched, InOneHand, Copies, One, PrintReports, callVars, taskVars, endVars, printVars
<1>4. Untouched'
  BY DeliveryAssumption DEF IInv, TypeOK, Untouched, EndsForOutbox, Ends, Reported, Foreground, LineEnds, callVars, taskVars, endVars, printVars
<1>5. ReturnedHolds'
  BY DeliveryAssumption DEF IInv, TypeOK, ReturnedHolds, EndsForOutbox, Ends, Reported, Foreground, callVars, taskVars, endVars, printVars
<1>6. LineEnds'
  BY DeliveryAssumption DEF IInv, TypeOK, LineEnds, EndsForOutbox, Ends, Reported, Foreground, Untouched, Lookers, callVars, taskVars, endVars, printVars
<1>7. Lookers'
  BY DeliveryAssumption DEF IInv, TypeOK, Lookers, EndsForOutbox, Ends, Reported, Foreground, LineEnds, callVars, taskVars, endVars, printVars
<1>8. Watched'
  <2> SUFFICES ASSUME mode' = "print", NEW y \in Background,
                      task'[y] = "running" \/ outbox'[y] > 0
               PROVE  y \in background' \cup stopped'
    BY DEF Watched
  <2>1. QED
    BY DeliveryAssumption DEF IInv, TypeOK, Watched, EndsForOutbox, Ends, Reported, Foreground, PrintReports, callVars, taskVars, endVars, printVars
<1>9. PrintReports'
  BY DeliveryAssumption DEF IInv, TypeOK, PrintReports, EndsForOutbox, Ends, Reported, Foreground, LineEnds, Untouched, callVars, taskVars, endVars, printVars
<1>10. LateReports'
  <2> SUFFICES ASSUME mode' = "print", phase' \in {"extra", "finishing"}, NEW y \in Background,
                      task'[y] = "running" \/ outbox'[y] > 0
               PROVE  y \in late' \cup stopped'
    BY DEF LateReports
  <2>1. QED
    BY DeliveryAssumption DEF IInv, TypeOK, Watched, LateReports, EndsForOutbox, Ends, Reported, Foreground, PrintReports, callVars, taskVars, endVars, printVars
<1>11. QED
  BY <1>1, <1>2, <1>3, <1>4, <1>5, <1>6, <1>7, <1>8, <1>9, <1>10 DEF IInv

LEMMA EndsInCallKeeps ==
  ASSUME NEW x \in Parcels, IInv, EndsInCall(x)
  PROVE  IInv'
<1>1. TypeOK'
  BY DeliveryAssumption DEF IInv, TypeOK, EndsInCall, Ends, Foreground, callVars, taskVars, endVars, printVars
<1>2. InOneHand'
  <2> SUFFICES ASSUME NEW y \in Parcels
               PROVE  Copies(y)' = One(task[y] = "over")'
    BY DEF InOneHand
  <2>1. Copies(y) = One(task[y] = "over") /\ outbox[y] \in Nat /\ got[y] \in Nat
    BY DEF IInv, InOneHand, TypeOK
  <2>2. UNCHANGED <<line, rx, outbox, got, dropped>>
    BY DEF EndsInCall, Ends, callVars, taskVars, endVars, printVars
  <2>3. ASSUME y = x
        PROVE  task[y] = "running" /\ task'[y] = "over" /\ y \in held'
    BY <2>3, DeliveryAssumption DEF EndsInCall, Ends, IInv, TypeOK
  <2>4. ASSUME ~(y = x)
        PROVE  task'[y] = task[y] /\ (y \in held' <=> y \in held)
    BY <2>4, DeliveryAssumption DEF EndsInCall, Ends, IInv, TypeOK
  <2>5. CASE y = x
    BY <2>1, <2>2, <2>3, <2>5 DEF Copies, One
  <2>6. CASE ~(y = x)
    BY <2>1, <2>2, <2>4, <2>6 DEF Copies, One
  <2>7. QED BY <2>5, <2>6
<1>3. LostOnlyWhenExcused'
  BY DeliveryAssumption DEF IInv, TypeOK, LostOnlyWhenExcused, EndsInCall, Ends, Foreground, LetGo, Watched, InOneHand, Copies, One, PrintReports, callVars, taskVars, endVars, printVars
<1>4. Untouched'
  BY DeliveryAssumption DEF IInv, TypeOK, Untouched, EndsInCall, Ends, Foreground, LineEnds, callVars, taskVars, endVars, printVars
<1>5. ReturnedHolds'
  BY DeliveryAssumption DEF IInv, TypeOK, ReturnedHolds, EndsInCall, Ends, Foreground, callVars, taskVars, endVars, printVars
<1>6. LineEnds'
  BY DeliveryAssumption DEF IInv, TypeOK, LineEnds, EndsInCall, Ends, Foreground, Untouched, Lookers, callVars, taskVars, endVars, printVars
<1>7. Lookers'
  BY DeliveryAssumption DEF IInv, TypeOK, Lookers, EndsInCall, Ends, Foreground, LineEnds, callVars, taskVars, endVars, printVars
<1>8. Watched'
  <2> SUFFICES ASSUME mode' = "print", NEW y \in Background,
                      task'[y] = "running" \/ outbox'[y] > 0
               PROVE  y \in background' \cup stopped'
    BY DEF Watched
  <2>1. QED
    BY DeliveryAssumption DEF IInv, TypeOK, Watched, EndsInCall, Ends, Foreground, PrintReports, callVars, taskVars, endVars, printVars
<1>9. PrintReports'
  BY DeliveryAssumption DEF IInv, TypeOK, PrintReports, EndsInCall, Ends, Foreground, LineEnds, Untouched, callVars, taskVars, endVars, printVars
<1>10. LateReports'
  <2> SUFFICES ASSUME mode' = "print", phase' \in {"extra", "finishing"}, NEW y \in Background,
                      task'[y] = "running" \/ outbox'[y] > 0
               PROVE  y \in late' \cup stopped'
    BY DEF LateReports
  <2>1. QED
    BY DeliveryAssumption DEF IInv, TypeOK, Watched, LateReports, EndsInCall, Ends, Foreground, PrintReports, callVars, taskVars, endVars, printVars
<1>11. QED
  BY <1>1, <1>2, <1>3, <1>4, <1>5, <1>6, <1>7, <1>8, <1>9, <1>10 DEF IInv

LEMMA LookKeeps ==
  ASSUME NEW x \in Parcels, IInv, Look(x)
  PROVE  IInv'
<1>1. TypeOK'
  <2>1. outbox \in [Parcels -> Nat] /\ got \in [Parcels -> Nat]
    BY DEF IInv, TypeOK
  <2>2. outbox' \in [Parcels -> Nat] /\ got' \in [Parcels -> Nat]
    BY <2>1 DEF Look, Found, Reported, endVars
  <2>3. UNCHANGED <<mode, call, esc, task, held, background, stopped, dropped, phase, interrupted, late>>
    BY DEF Look, callVars, taskVars, endVars, printVars
  <2>4. /\ line' \in [Parcels -> {"none", "open", "sent", "closed", "empty"}]
        /\ looking' \in SUBSET Parcels /\ rx' \subseteq rx
    BY DeliveryAssumption DEF IInv, TypeOK, Look, callVars, taskVars, endVars, printVars
  <2>5. QED
    BY <2>2, <2>3, <2>4 DEF IInv, TypeOK
<1>2. InOneHand'
  <2> SUFFICES ASSUME NEW y \in Parcels
               PROVE  Copies(y)' = One(task[y] = "over")'
    BY DEF InOneHand
  <2>1. Copies(y) = One(task[y] = "over") /\ outbox[y] \in Nat /\ got[y] \in Nat
    BY DEF IInv, InOneHand, TypeOK
  <2>2. UNCHANGED <<task, held, got, dropped>>
    BY DEF Look, Found, Reported, callVars, taskVars, endVars, printVars
  <2>3. ASSUME y = x /\ Found(x)
        PROVE  line[y] = "sent" /\ y \in rx /\ y \notin rx' /\ outbox'[y] = outbox[y] + 1
    BY <2>3, DeliveryAssumption DEF Look, Found, Reported, IInv, TypeOK, LineEnds
  <2>4. ASSUME ~(y = x /\ Found(x))
        PROVE  /\ (y \in rx' /\ line'[y] = "sent") <=> (y \in rx /\ line[y] = "sent")
               /\ outbox'[y] = outbox[y]
    BY <2>4, DeliveryAssumption DEF Look, Found, Reported, IInv, TypeOK, LineEnds
  <2>5. CASE y = x /\ Found(x)
    BY <2>1, <2>2, <2>3, <2>5 DEF Copies, One
  <2>6. CASE ~(y = x /\ Found(x))
    BY <2>1, <2>2, <2>4, <2>6 DEF Copies, One
  <2>7. QED BY <2>5, <2>6
<1>3. LostOnlyWhenExcused'
  BY DeliveryAssumption DEF IInv, TypeOK, LostOnlyWhenExcused, Look, Found, Reported, LetGo, Watched, InOneHand, Copies, One, PrintReports, callVars, taskVars, endVars, printVars
<1>4. Untouched'
  BY DeliveryAssumption DEF IInv, TypeOK, Untouched, Look, Found, Reported, LineEnds, callVars, taskVars, endVars, printVars
<1>5. ReturnedHolds'
  BY DeliveryAssumption DEF IInv, TypeOK, ReturnedHolds, Look, Found, Reported, callVars, taskVars, endVars, printVars
<1>6. LineEnds'
  BY DeliveryAssumption DEF IInv, TypeOK, LineEnds, Look, Found, Reported, Untouched, Lookers, Foreground, callVars, taskVars, endVars, printVars
<1>7. Lookers'
  BY DeliveryAssumption DEF IInv, TypeOK, Lookers, Look, Found, Reported, LineEnds, callVars, taskVars, endVars, printVars
<1>8. Watched'
  <2> SUFFICES ASSUME mode' = "print", NEW y \in Background,
                      task'[y] = "running" \/ outbox'[y] > 0
               PROVE  y \in background' \cup stopped'
    BY DEF Watched
  <2>1. QED
    BY DeliveryAssumption DEF IInv, TypeOK, Watched, Look, Found, Reported, PrintReports, callVars, taskVars, endVars, printVars
<1>9. PrintReports'
  BY DeliveryAssumption DEF IInv, TypeOK, PrintReports, Look, Found, Reported, LineEnds, Untouched, Foreground, callVars, taskVars, endVars, printVars
<1>10. LateReports'
  <2> SUFFICES ASSUME mode' = "print", phase' \in {"extra", "finishing"}, NEW y \in Background,
                      task'[y] = "running" \/ outbox'[y] > 0
               PROVE  y \in late' \cup stopped'
    BY DEF LateReports
  <2>1. QED
    BY DeliveryAssumption DEF IInv, TypeOK, Watched, LateReports, Look, Found, Reported, PrintReports, callVars, taskVars, endVars, printVars
<1>11. QED
  BY <1>1, <1>2, <1>3, <1>4, <1>5, <1>6, <1>7, <1>8, <1>9, <1>10 DEF IInv

LEMMA StopKeeps ==
  ASSUME NEW x \in Parcels, IInv, Stop(x)
  PROVE  IInv'
<1>1. TypeOK'
  BY DeliveryAssumption DEF IInv, TypeOK, Stop, TurnRuns, Foreground, callVars, taskVars, endVars, printVars
<1>2. InOneHand'
  <2> SUFFICES ASSUME NEW y \in Parcels
               PROVE  Copies(y)' = One(task[y] = "over")'
    BY DEF InOneHand
  <2>1. Copies(y) = One(task[y] = "over") /\ outbox[y] \in Nat /\ got[y] \in Nat
    BY DEF IInv, InOneHand, TypeOK
  <2>2. QED
    BY <2>1, DeliveryAssumption DEF IInv, TypeOK, InOneHand, Stop, TurnRuns, Copies, One, LineEnds, ReturnedHolds, Untouched, PrintReports, Foreground, callVars, taskVars, endVars, printVars
<1>3. LostOnlyWhenExcused'
  BY DeliveryAssumption DEF IInv, TypeOK, LostOnlyWhenExcused, Stop, TurnRuns, LetGo, Watched, InOneHand, Copies, One, PrintReports, callVars, taskVars, endVars, printVars
<1>4. Untouched'
  BY DeliveryAssumption DEF IInv, TypeOK, Untouched, Stop, TurnRuns, LineEnds, callVars, taskVars, endVars, printVars
<1>5. ReturnedHolds'
  BY DeliveryAssumption DEF IInv, TypeOK, ReturnedHolds, Stop, TurnRuns, callVars, taskVars, endVars, printVars
<1>6. LineEnds'
  BY DeliveryAssumption DEF IInv, TypeOK, LineEnds, Stop, TurnRuns, Untouched, Lookers, Foreground, callVars, taskVars, endVars, printVars
<1>7. Lookers'
  BY DeliveryAssumption DEF IInv, TypeOK, Lookers, Stop, TurnRuns, LineEnds, callVars, taskVars, endVars, printVars
<1>8. Watched'
  <2> SUFFICES ASSUME mode' = "print", NEW y \in Background,
                      task'[y] = "running" \/ outbox'[y] > 0
               PROVE  y \in background' \cup stopped'
    BY DEF Watched
  <2>1. QED
    BY DeliveryAssumption DEF IInv, TypeOK, Watched, Stop, TurnRuns, PrintReports, callVars, taskVars, endVars, printVars
<1>9. PrintReports'
  BY DeliveryAssumption DEF IInv, TypeOK, PrintReports, Stop, TurnRuns, LineEnds, Untouched, Foreground, callVars, taskVars, endVars, printVars
<1>10. LateReports'
  <2> SUFFICES ASSUME mode' = "print", phase' \in {"extra", "finishing"}, NEW y \in Background,
                      task'[y] = "running" \/ outbox'[y] > 0
               PROVE  y \in late' \cup stopped'
    BY DEF LateReports
  <2>1. QED
    BY DeliveryAssumption DEF IInv, TypeOK, Watched, LateReports, Stop, TurnRuns, PrintReports, callVars, taskVars, endVars, printVars
<1>11. QED
  BY <1>1, <1>2, <1>3, <1>4, <1>5, <1>6, <1>7, <1>8, <1>9, <1>10 DEF IInv

LEMMA TickKeeps ==
  ASSUME IInv, Tick
  PROVE  IInv'
<1>1. TypeOK'
  BY DeliveryAssumption DEF IInv, TypeOK, Tick, TakeReports, Cleared, Pending, Foreground, callVars, taskVars, endVars, printVars
<1>2. InOneHand'
  <2> SUFFICES ASSUME NEW y \in Parcels
               PROVE  Copies(y)' = One(task[y] = "over")'
    BY DEF InOneHand
  <2>1. Copies(y) = One(task[y] = "over") /\ outbox[y] \in Nat /\ got[y] \in Nat
    BY DEF IInv, InOneHand, TypeOK
  <2>2. QED
    BY <2>1, DeliveryAssumption DEF IInv, TypeOK, InOneHand, Tick, TakeReports, Cleared, Pending, Copies, One, LineEnds, ReturnedHolds, Untouched, PrintReports, Foreground, callVars, taskVars, endVars, printVars
<1>3. LostOnlyWhenExcused'
  BY DeliveryAssumption DEF IInv, TypeOK, LostOnlyWhenExcused, Tick, TakeReports, Cleared, Pending, LetGo, Watched, InOneHand, Copies, One, PrintReports, callVars, taskVars, endVars, printVars
<1>4. Untouched'
  BY DeliveryAssumption DEF IInv, TypeOK, Untouched, Tick, TakeReports, Cleared, Pending, LineEnds, callVars, taskVars, endVars, printVars
<1>5. ReturnedHolds'
  BY DeliveryAssumption DEF IInv, TypeOK, ReturnedHolds, Tick, TakeReports, Cleared, Pending, callVars, taskVars, endVars, printVars
<1>6. LineEnds'
  BY DeliveryAssumption DEF IInv, TypeOK, LineEnds, Tick, TakeReports, Cleared, Pending, Untouched, Lookers, Foreground, callVars, taskVars, endVars, printVars
<1>7. Lookers'
  BY DeliveryAssumption DEF IInv, TypeOK, Lookers, Tick, TakeReports, Cleared, Pending, LineEnds, callVars, taskVars, endVars, printVars
<1>8. Watched'
  <2> SUFFICES ASSUME mode' = "print", NEW y \in Background,
                      task'[y] = "running" \/ outbox'[y] > 0
               PROVE  y \in background' \cup stopped'
    BY DEF Watched
  <2>1. QED
    BY DeliveryAssumption DEF IInv, TypeOK, Watched, Tick, TakeReports, Cleared, Pending, PrintReports, callVars, taskVars, endVars, printVars
<1>9. PrintReports'
  BY DeliveryAssumption DEF IInv, TypeOK, PrintReports, Tick, TakeReports, Cleared, Pending, LineEnds, Untouched, Foreground, callVars, taskVars, endVars, printVars
<1>10. LateReports'
  <2> SUFFICES ASSUME mode' = "print", phase' \in {"extra", "finishing"}, NEW y \in Background,
                      task'[y] = "running" \/ outbox'[y] > 0
               PROVE  y \in late' \cup stopped'
    BY DEF LateReports
  <2>1. QED
    BY DeliveryAssumption DEF IInv, TypeOK, Watched, LateReports, Tick, TakeReports, Cleared, Pending, PrintReports, callVars, taskVars, endVars, printVars
<1>11. QED
  BY <1>1, <1>2, <1>3, <1>4, <1>5, <1>6, <1>7, <1>8, <1>9, <1>10 DEF IInv

LEMMA CtrlCKeeps ==
  ASSUME IInv, CtrlC
  PROVE  IInv'
<1>1. TypeOK'
  BY DeliveryAssumption DEF IInv, TypeOK, CtrlC, Foreground, callVars, taskVars, endVars, printVars
<1>2. InOneHand'
  <2> SUFFICES ASSUME NEW y \in Parcels
               PROVE  Copies(y)' = One(task[y] = "over")'
    BY DEF InOneHand
  <2>1. Copies(y) = One(task[y] = "over") /\ outbox[y] \in Nat /\ got[y] \in Nat
    BY DEF IInv, InOneHand, TypeOK
  <2>2. QED
    BY <2>1, DeliveryAssumption DEF IInv, TypeOK, InOneHand, CtrlC, Copies, One, LineEnds, ReturnedHolds, Untouched, PrintReports, Foreground, callVars, taskVars, endVars, printVars
<1>3. LostOnlyWhenExcused'
  BY DeliveryAssumption DEF IInv, TypeOK, LostOnlyWhenExcused, CtrlC, LetGo, Watched, InOneHand, Copies, One, PrintReports, callVars, taskVars, endVars, printVars
<1>4. Untouched'
  BY DeliveryAssumption DEF IInv, TypeOK, Untouched, CtrlC, LineEnds, callVars, taskVars, endVars, printVars
<1>5. ReturnedHolds'
  BY DeliveryAssumption DEF IInv, TypeOK, ReturnedHolds, CtrlC, callVars, taskVars, endVars, printVars
<1>6. LineEnds'
  BY DeliveryAssumption DEF IInv, TypeOK, LineEnds, CtrlC, Untouched, Lookers, Foreground, callVars, taskVars, endVars, printVars
<1>7. Lookers'
  BY DeliveryAssumption DEF IInv, TypeOK, Lookers, CtrlC, LineEnds, callVars, taskVars, endVars, printVars
<1>8. Watched'
  <2> SUFFICES ASSUME mode' = "print", NEW y \in Background,
                      task'[y] = "running" \/ outbox'[y] > 0
               PROVE  y \in background' \cup stopped'
    BY DEF Watched
  <2>1. QED
    BY DeliveryAssumption DEF IInv, TypeOK, Watched, CtrlC, PrintReports, callVars, taskVars, endVars, printVars
<1>9. PrintReports'
  BY DeliveryAssumption DEF IInv, TypeOK, PrintReports, CtrlC, LineEnds, Untouched, Foreground, callVars, taskVars, endVars, printVars
<1>10. LateReports'
  <2> SUFFICES ASSUME mode' = "print", phase' \in {"extra", "finishing"}, NEW y \in Background,
                      task'[y] = "running" \/ outbox'[y] > 0
               PROVE  y \in late' \cup stopped'
    BY DEF LateReports
  <2>1. QED
    BY DeliveryAssumption DEF IInv, TypeOK, Watched, LateReports, CtrlC, PrintReports, callVars, taskVars, endVars, printVars
<1>11. QED
  BY <1>1, <1>2, <1>3, <1>4, <1>5, <1>6, <1>7, <1>8, <1>9, <1>10 DEF IInv

LEMMA EndTurnKeeps ==
  ASSUME IInv, EndTurn
  PROVE  IInv'
<1>1. TypeOK'
  <2>1. outbox \in [Parcels -> Nat] /\ got \in [Parcels -> Nat]
    BY DEF IInv, TypeOK
  <2>2. outbox' \in [Parcels -> Nat] /\ got' \in [Parcels -> Nat]
    BY <2>1 DEF EndTurn, Exit, Cleared, endVars
  <2>3. UNCHANGED <<mode, call, esc, held, task, line, rx, looking, stopped, interrupted, late>>
    BY DEF EndTurn, TurnDone, Exit, Pending, PrintFrame, callVars, taskVars, endVars, printVars
  <2>4. mode = "print" /\ {background', dropped'} \subseteq SUBSET Parcels /\ phase' \in {"waiting", "over"}
    BY DeliveryAssumption DEF IInv, TypeOK, EndTurn, TurnDone, Exit, Pending, PrintFrame, callVars, taskVars, endVars, printVars
  <2>5. QED
    BY <2>2, <2>3, <2>4 DEF IInv, TypeOK
<1>2. InOneHand'
  <2> SUFFICES ASSUME NEW y \in Parcels
               PROVE  Copies(y)' = One(task[y] = "over")'
    BY DEF InOneHand
  <2>1. Copies(y) = One(task[y] = "over") /\ outbox[y] \in Nat /\ got[y] \in Nat
    BY DEF IInv, InOneHand, TypeOK
  <2>2. UNCHANGED <<task, line, rx, held>>
    BY DEF EndTurn, PrintFrame, callVars
  <2>3. \/ UNCHANGED <<outbox, got, dropped>>
        \/ got' = got /\ outbox' = Cleared /\ dropped' = dropped \cup Pending
        \/ TakeReports /\ dropped' = dropped
    BY DEF EndTurn, Exit, endVars
  <2>4. CASE UNCHANGED <<outbox, got, dropped>>
    BY <2>1, <2>2, <2>4 DEF Copies, One
  <2>5. CASE got' = got /\ outbox' = Cleared /\ dropped' = dropped \cup Pending
    <3>1. outbox'[y] = 0 /\ got'[y] = got[y] /\ (y \in dropped' <=> y \in dropped \/ outbox[y] > 0)
      BY <2>5 DEF Cleared, Pending
    <3>2. QED
      BY <2>1, <2>2, <3>1 DEF Copies, One
  <2>6. CASE TakeReports /\ dropped' = dropped
    <3>1. outbox'[y] = 0 /\ got'[y] = got[y] + outbox[y]
      BY <2>6 DEF TakeReports, Cleared
    <3>2. QED
      BY <2>1, <2>2, <2>6, <3>1 DEF Copies, One
  <2>7. QED BY <2>3, <2>4, <2>5, <2>6
<1>3. LostOnlyWhenExcused'
  BY DeliveryAssumption DEF IInv, TypeOK, LostOnlyWhenExcused, EndTurn, TurnDone, Tracked, Exit, Pending, Cleared, PrintFrame, LetGo, Watched, InOneHand, Copies, One, PrintReports, callVars, taskVars, endVars, printVars
<1>4. Untouched'
  BY DeliveryAssumption DEF IInv, TypeOK, Untouched, EndTurn, TurnDone, Tracked, Exit, Pending, Cleared, PrintFrame, LineEnds, callVars, taskVars, endVars, printVars
<1>5. ReturnedHolds'
  BY DeliveryAssumption DEF IInv, TypeOK, ReturnedHolds, EndTurn, TurnDone, Tracked, Exit, Pending, Cleared, PrintFrame, callVars, taskVars, endVars, printVars
<1>6. LineEnds'
  BY DeliveryAssumption DEF IInv, TypeOK, LineEnds, EndTurn, TurnDone, Tracked, Exit, Pending, Cleared, PrintFrame, Untouched, Lookers, Foreground, callVars, taskVars, endVars, printVars
<1>7. Lookers'
  BY DeliveryAssumption DEF IInv, TypeOK, Lookers, EndTurn, TurnDone, Tracked, Exit, Pending, Cleared, PrintFrame, LineEnds, callVars, taskVars, endVars, printVars
<1>8. Watched'
  <2> SUFFICES ASSUME mode' = "print", NEW y \in Background,
                      task'[y] = "running" \/ outbox'[y] > 0
               PROVE  y \in background' \cup stopped'
    BY DEF Watched
  <2>1. QED
    BY DeliveryAssumption DEF IInv, TypeOK, Watched, EndTurn, TurnDone, Tracked, Exit, Pending, Cleared, PrintFrame, PrintReports, callVars, taskVars, endVars, printVars
<1>9. PrintReports'
  BY DeliveryAssumption DEF IInv, TypeOK, PrintReports, EndTurn, TurnDone, Tracked, Exit, Pending, Cleared, PrintFrame, LineEnds, Untouched, Foreground, callVars, taskVars, endVars, printVars
<1>10. LateReports'
  <2> SUFFICES ASSUME mode' = "print", phase' \in {"extra", "finishing"}, NEW y \in Background,
                      task'[y] = "running" \/ outbox'[y] > 0
               PROVE  y \in late' \cup stopped'
    BY DEF LateReports
  <2>1. QED
    BY DeliveryAssumption DEF IInv, TypeOK, Watched, LateReports, EndTurn, TurnDone, Tracked, Exit, Pending, Cleared, PrintFrame, PrintReports, callVars, taskVars, endVars, printVars
<1>11. QED
  BY <1>1, <1>2, <1>3, <1>4, <1>5, <1>6, <1>7, <1>8, <1>9, <1>10 DEF IInv

LEMMA EndExtraTurnKeeps ==
  ASSUME IInv, EndExtraTurn
  PROVE  IInv'
<1>1. TypeOK'
  BY DeliveryAssumption DEF IInv, TypeOK, EndExtraTurn, TurnDone, PrintFrame, Foreground, callVars, taskVars, endVars, printVars
<1>2. InOneHand'
  <2> SUFFICES ASSUME NEW y \in Parcels
               PROVE  Copies(y)' = One(task[y] = "over")'
    BY DEF InOneHand
  <2>1. Copies(y) = One(task[y] = "over") /\ outbox[y] \in Nat /\ got[y] \in Nat
    BY DEF IInv, InOneHand, TypeOK
  <2>2. QED
    BY <2>1, DeliveryAssumption DEF IInv, TypeOK, InOneHand, EndExtraTurn, TurnDone, PrintFrame, Copies, One, LineEnds, ReturnedHolds, Untouched, PrintReports, Foreground, callVars, taskVars, endVars, printVars
<1>3. LostOnlyWhenExcused'
  BY DeliveryAssumption DEF IInv, TypeOK, LostOnlyWhenExcused, EndExtraTurn, TurnDone, PrintFrame, LetGo, Watched, InOneHand, Copies, One, PrintReports, callVars, taskVars, endVars, printVars
<1>4. Untouched'
  BY DeliveryAssumption DEF IInv, TypeOK, Untouched, EndExtraTurn, TurnDone, PrintFrame, LineEnds, callVars, taskVars, endVars, printVars
<1>5. ReturnedHolds'
  BY DeliveryAssumption DEF IInv, TypeOK, ReturnedHolds, EndExtraTurn, TurnDone, PrintFrame, callVars, taskVars, endVars, printVars
<1>6. LineEnds'
  BY DeliveryAssumption DEF IInv, TypeOK, LineEnds, EndExtraTurn, TurnDone, PrintFrame, Untouched, Lookers, Foreground, callVars, taskVars, endVars, printVars
<1>7. Lookers'
  BY DeliveryAssumption DEF IInv, TypeOK, Lookers, EndExtraTurn, TurnDone, PrintFrame, LineEnds, callVars, taskVars, endVars, printVars
<1>8. Watched'
  <2> SUFFICES ASSUME mode' = "print", NEW y \in Background,
                      task'[y] = "running" \/ outbox'[y] > 0
               PROVE  y \in background' \cup stopped'
    BY DEF Watched
  <2>1. QED
    BY DeliveryAssumption DEF IInv, TypeOK, Watched, EndExtraTurn, TurnDone, PrintFrame, PrintReports, callVars, taskVars, endVars, printVars
<1>9. PrintReports'
  BY DeliveryAssumption DEF IInv, TypeOK, PrintReports, EndExtraTurn, TurnDone, PrintFrame, LineEnds, Untouched, Foreground, callVars, taskVars, endVars, printVars
<1>10. LateReports'
  <2> SUFFICES ASSUME mode' = "print", phase' \in {"extra", "finishing"}, NEW y \in Background,
                      task'[y] = "running" \/ outbox'[y] > 0
               PROVE  y \in late' \cup stopped'
    BY DEF LateReports
  <2>1. QED
    BY DeliveryAssumption DEF IInv, TypeOK, Watched, LateReports, EndExtraTurn, TurnDone, PrintFrame, PrintReports, callVars, taskVars, endVars, printVars
<1>11. QED
  BY <1>1, <1>2, <1>3, <1>4, <1>5, <1>6, <1>7, <1>8, <1>9, <1>10 DEF IInv

LEMMA DrainKeeps ==
  ASSUME IInv, Drain
  PROVE  IInv'
<1>1. TypeOK'
  <2>1. outbox \in [Parcels -> Nat] /\ got \in [Parcels -> Nat]
    BY DEF IInv, TypeOK
  <2>2. outbox' \in [Parcels -> Nat] /\ got' \in [Parcels -> Nat]
    BY <2>1 DEF Drain, Exit, TakeReports, Cleared, endVars
  <2>3. UNCHANGED <<mode, call, esc, held, task, line, rx, looking, stopped, interrupted, late>>
    BY DEF Drain, Exit, TakeReports, Pending, PrintFrame, callVars, taskVars, endVars, printVars
  <2>4. mode = "print" /\ {background', dropped'} \subseteq SUBSET Parcels /\ phase' \in {"extra", "over"}
    BY DeliveryAssumption DEF IInv, TypeOK, Drain, Exit, TakeReports, Pending, PrintFrame, callVars, taskVars, endVars, printVars
  <2>5. QED
    BY <2>2, <2>3, <2>4 DEF IInv, TypeOK
<1>2. InOneHand'
  <2> SUFFICES ASSUME NEW y \in Parcels
               PROVE  Copies(y)' = One(task[y] = "over")'
    BY DEF InOneHand
  <2>1. Copies(y) = One(task[y] = "over") /\ outbox[y] \in Nat /\ got[y] \in Nat
    BY DEF IInv, InOneHand, TypeOK
  <2>2. UNCHANGED <<task, line, rx, held>>
    BY DEF Drain, PrintFrame, callVars
  <2>3. \/ UNCHANGED <<outbox, got, dropped>>
        \/ got' = got /\ outbox' = Cleared /\ dropped' = dropped \cup Pending
        \/ TakeReports /\ dropped' = dropped
    BY DEF Drain, Exit, endVars
  <2>4. CASE UNCHANGED <<outbox, got, dropped>>
    BY <2>1, <2>2, <2>4 DEF Copies, One
  <2>5. CASE got' = got /\ outbox' = Cleared /\ dropped' = dropped \cup Pending
    <3>1. outbox'[y] = 0 /\ got'[y] = got[y] /\ (y \in dropped' <=> y \in dropped \/ outbox[y] > 0)
      BY <2>5 DEF Cleared, Pending
    <3>2. QED
      BY <2>1, <2>2, <3>1 DEF Copies, One
  <2>6. CASE TakeReports /\ dropped' = dropped
    <3>1. outbox'[y] = 0 /\ got'[y] = got[y] + outbox[y]
      BY <2>6 DEF TakeReports, Cleared
    <3>2. QED
      BY <2>1, <2>2, <2>6, <3>1 DEF Copies, One
  <2>7. QED BY <2>3, <2>4, <2>5, <2>6
<1>3. LostOnlyWhenExcused'
  BY DeliveryAssumption DEF IInv, TypeOK, LostOnlyWhenExcused, Drain, Drained, TakeReports, Exit, Pending, Cleared, PrintFrame, LetGo, Watched, InOneHand, Copies, One, PrintReports, callVars, taskVars, endVars, printVars
<1>4. Untouched'
  BY DeliveryAssumption DEF IInv, TypeOK, Untouched, Drain, Drained, TakeReports, Exit, Pending, Cleared, PrintFrame, LineEnds, callVars, taskVars, endVars, printVars
<1>5. ReturnedHolds'
  BY DeliveryAssumption DEF IInv, TypeOK, ReturnedHolds, Drain, Drained, TakeReports, Exit, Pending, Cleared, PrintFrame, callVars, taskVars, endVars, printVars
<1>6. LineEnds'
  BY DeliveryAssumption DEF IInv, TypeOK, LineEnds, Drain, Drained, TakeReports, Exit, Pending, Cleared, PrintFrame, Untouched, Lookers, Foreground, callVars, taskVars, endVars, printVars
<1>7. Lookers'
  BY DeliveryAssumption DEF IInv, TypeOK, Lookers, Drain, Drained, TakeReports, Exit, Pending, Cleared, PrintFrame, LineEnds, callVars, taskVars, endVars, printVars
<1>8. Watched'
  <2> SUFFICES ASSUME mode' = "print", NEW y \in Background,
                      task'[y] = "running" \/ outbox'[y] > 0
               PROVE  y \in background' \cup stopped'
    BY DEF Watched
  <2>1. QED
    BY DeliveryAssumption DEF IInv, TypeOK, Watched, Drain, Drained, TakeReports, Exit, Pending, Cleared, PrintFrame, PrintReports, callVars, taskVars, endVars, printVars
<1>9. PrintReports'
  BY DeliveryAssumption DEF IInv, TypeOK, PrintReports, Drain, Drained, TakeReports, Exit, Pending, Cleared, PrintFrame, LineEnds, Untouched, Foreground, callVars, taskVars, endVars, printVars
<1>10. LateReports'
  <2> SUFFICES ASSUME mode' = "print", phase' \in {"extra", "finishing"}, NEW y \in Background,
                      task'[y] = "running" \/ outbox'[y] > 0
               PROVE  y \in late' \cup stopped'
    BY DEF LateReports
  <2>1. QED
    BY DeliveryAssumption DEF IInv, TypeOK, Watched, LateReports, Drain, Drained, TakeReports, Exit, Pending, Cleared, PrintFrame, PrintReports, callVars, taskVars, endVars, printVars
<1>11. QED
  BY <1>1, <1>2, <1>3, <1>4, <1>5, <1>6, <1>7, <1>8, <1>9, <1>10 DEF IInv

LEMMA DrainAgainKeeps ==
  ASSUME IInv, DrainAgain
  PROVE  IInv'
<1>1. TypeOK'
  <2>1. outbox \in [Parcels -> Nat] /\ got \in [Parcels -> Nat]
    BY DEF IInv, TypeOK
  <2>2. outbox' \in [Parcels -> Nat] /\ got' \in [Parcels -> Nat]
    BY <2>1 DEF DrainAgain, Exit, Pending, Cleared, endVars
  <2>3. UNCHANGED <<mode, call, esc, held, task, line, rx, looking, stopped, interrupted, late>>
    BY DEF DrainAgain, PrintFrame, callVars, taskVars, endVars, printVars
  <2>4. mode = "print" /\ {background', dropped'} \subseteq SUBSET Parcels /\ phase' \in {"over"}
    BY DeliveryAssumption DEF IInv, TypeOK, DrainAgain, Exit, Pending, PrintFrame, callVars, taskVars, endVars, printVars
  <2>5. QED
    BY <2>2, <2>3, <2>4 DEF IInv, TypeOK
<1>2. InOneHand'
  <2> SUFFICES ASSUME NEW y \in Parcels
               PROVE  Copies(y)' = One(task[y] = "over")'
    BY DEF InOneHand
  <2>1. Copies(y) = One(task[y] = "over") /\ outbox[y] \in Nat /\ got[y] \in Nat
    BY DEF IInv, InOneHand, TypeOK
  <2>2. UNCHANGED <<task, line, rx, held>>
    BY DEF DrainAgain, PrintFrame, callVars
  <2>3. outbox'[y] = 0 /\ got'[y] = got[y] /\ (y \in dropped' <=> y \in dropped \/ outbox[y] > 0)
    BY DEF DrainAgain, Exit, Cleared, Pending
  <2>4. QED
    BY <2>1, <2>2, <2>3 DEF Copies, One
<1>3. LostOnlyWhenExcused'
  BY DeliveryAssumption DEF IInv, TypeOK, LostOnlyWhenExcused, DrainAgain, Drained, Exit, Pending, Cleared, PrintFrame, LetGo, LateReports, Watched, InOneHand, Copies, One, PrintReports, callVars, taskVars, endVars, printVars
<1>4. Untouched'
  BY DeliveryAssumption DEF IInv, TypeOK, Untouched, DrainAgain, Drained, Exit, Pending, Cleared, PrintFrame, LineEnds, callVars, taskVars, endVars, printVars
<1>5. ReturnedHolds'
  BY DeliveryAssumption DEF IInv, TypeOK, ReturnedHolds, DrainAgain, Drained, Exit, Pending, Cleared, PrintFrame, callVars, taskVars, endVars, printVars
<1>6. LineEnds'
  BY DeliveryAssumption DEF IInv, TypeOK, LineEnds, DrainAgain, Drained, Exit, Pending, Cleared, PrintFrame, Untouched, Lookers, Foreground, callVars, taskVars, endVars, printVars
<1>7. Lookers'
  BY DeliveryAssumption DEF IInv, TypeOK, Lookers, DrainAgain, Drained, Exit, Pending, Cleared, PrintFrame, LineEnds, callVars, taskVars, endVars, printVars
<1>8. Watched'
  <2> SUFFICES ASSUME mode' = "print", NEW y \in Background,
                      task'[y] = "running" \/ outbox'[y] > 0
               PROVE  y \in background' \cup stopped'
    BY DEF Watched
  <2>1. QED
    BY DeliveryAssumption DEF IInv, TypeOK, Watched, DrainAgain, Drained, Exit, Pending, Cleared, PrintFrame, PrintReports, callVars, taskVars, endVars, printVars
<1>9. PrintReports'
  BY DeliveryAssumption DEF IInv, TypeOK, PrintReports, DrainAgain, Drained, Exit, Pending, Cleared, PrintFrame, LineEnds, Untouched, Foreground, callVars, taskVars, endVars, printVars
<1>10. LateReports'
  <2> SUFFICES ASSUME mode' = "print", phase' \in {"extra", "finishing"}, NEW y \in Background,
                      task'[y] = "running" \/ outbox'[y] > 0
               PROVE  y \in late' \cup stopped'
    BY DEF LateReports
  <2>1. QED
    BY DeliveryAssumption DEF IInv, TypeOK, Watched, LateReports, DrainAgain, Drained, Exit, Pending, Cleared, PrintFrame, PrintReports, callVars, taskVars, endVars, printVars
<1>11. QED
  BY <1>1, <1>2, <1>3, <1>4, <1>5, <1>6, <1>7, <1>8, <1>9, <1>10 DEF IInv

LEMMA InitEstablishes == Init => IInv
<1> SUFFICES ASSUME Init PROVE IInv
  OBVIOUS
<1>1. TypeOK
  BY DEF Init, TypeOK
<1>2. InOneHand
  <2> SUFFICES ASSUME NEW y \in Parcels PROVE Copies(y) = One(task[y] = "over")
    BY DEF InOneHand
  <2>1. /\ y \notin rx /\ y \notin held /\ y \notin dropped
        /\ outbox[y] = 0 /\ got[y] = 0 /\ task[y] = "none"
    BY DEF Init
  <2>2. QED
    BY <2>1 DEF Copies, One
<1>3. LostOnlyWhenExcused /\ Untouched /\ ReturnedHolds /\ Lookers
  BY DeliveryAssumption DEF Init, LostOnlyWhenExcused, Untouched, ReturnedHolds, Lookers
<1>4. LineEnds /\ Watched /\ PrintReports /\ LateReports
  BY DeliveryAssumption DEF Init, LineEnds, Watched, PrintReports, LateReports
<1>5. QED
  BY <1>1, <1>2, <1>3, <1>4 DEF IInv

LEMMA StutterKeeps == IInv /\ UNCHANGED vars => IInv'
  BY DEF IInv, vars, callVars, taskVars, endVars, printVars, TypeOK, InOneHand, Copies,
     LostOnlyWhenExcused, LetGo, Untouched, ReturnedHolds, LineEnds, Lookers, Watched, PrintReports,
     LateReports

LEMMA NextKeeps == IInv /\ [Next]_vars => IInv'
<1> SUFFICES ASSUME IInv, [Next]_vars PROVE IInv'
  OBVIOUS
<1>1. CASE UNCHANGED vars
  BY <1>1, StutterKeeps
<1>2. ASSUME NEW c \in Calls, Start(c) \/ Esc(c) \/ CallStep(c) PROVE IInv'
  BY <1>2, StartKeeps, EscKeeps, TakeKeeps, ReturnKeeps, RecordKeeps, CancelKeeps, CloseKeeps,
     ClosedKeeps DEF CallStep
<1>3. ASSUME NEW x \in Parcels, Stop(x) \/ TaskStep(x) PROVE IInv'
  BY <1>3, StopKeeps, EndsForCallKeeps, EndsForOutboxKeeps, EndsInCallKeeps, LookKeeps DEF TaskStep
<1>4. CASE Tick \/ CtrlC \/ PrintStep
  BY <1>4, TickKeeps, CtrlCKeeps, EndTurnKeeps, EndExtraTurnKeeps, DrainKeeps, DrainAgainKeeps
     DEF PrintStep
<1>5. QED
  BY <1>1, <1>2, <1>3, <1>4 DEF Next

LEMMA Inductive == Spec => []IInv
  BY InitEstablishes, NextKeeps, PTL DEF Spec

\* The variables keep their types, and the two ways of running keep apart: a
\* TUI never drains, a -p run has no detached call.
THEOREM TypeCorrect == Spec => []TypeOK
  BY Inductive, PTL DEF IInv

\* From the end of its task a result is in exactly one place.
THEOREM ResultInOneHand == Spec => []InOneHand
  BY Inductive, PTL DEF IInv

\* Every result is accounted for.
THEOREM ResultsAreAccounted == Spec => []ResultsAccounted
<1>1. TypeOK /\ InOneHand => ResultsAccounted
  BY DEF ResultsAccounted
<1>2. QED
  BY <1>1, TypeCorrect, ResultInOneHand, PTL

\* No result is let go of without one of the four excuses.
THEOREM ResultLostOnlyWhenExcused == Spec => []LostOnlyWhenExcused
  BY Inductive, PTL DEF IInv

-----------------------------------------------------------------------------
\* A result the model was given it was given once, and is nowhere else.
LEMMA GotOnce ==
  ASSUME IInv, NEW x \in Parcels
  PROVE  /\ got[x] \in {0, 1} /\ (got[x] = 1 \/ x \in dropped => task[x] = "over")
         /\ got[x] = 1 => x \notin held /\ outbox[x] = 0 /\ x \notin dropped
         /\ x \in held \/ outbox[x] > 0 => got[x] = 0 /\ x \notin dropped /\ task[x] = "over"
<1>1. Copies(x) = One(task[x] = "over") /\ outbox[x] \in Nat /\ got[x] \in Nat
  BY DEF IInv, InOneHand, TypeOK
<1>2. QED
  BY <1>1 DEF Copies, One

LEMMA InitRefines == Init => Promise!Init
  BY DEF Init, Promise!Init, LetGo

\* Steps that neither end a task, nor deliver, nor let go, nor excuse.
LEMMA HiddenStep ==
  ASSUME UNCHANGED <<got, dropped, esc, interrupted, stopped, late>>,
         \A x \in Parcels : task'[x] = "over" <=> task[x] = "over"
  PROVE  UNCHANGED Promise!vars
  BY DEF Promise!vars, LetGo

\* A task ends.
LEMMA MakeStep ==
  ASSUME UNCHANGED <<got, dropped, esc, interrupted, stopped, late>>,
         \A x \in Parcels : task[x] = "over" => task'[x] = "over"
  PROVE  Promise!Next
  BY DEF Promise!Next, Promise!Make, LetGo

\* Somebody leaves.
LEMMA ExcuseStep ==
  ASSUME UNCHANGED <<got, dropped>>,
         \A x \in Parcels : task'[x] = "over" <=> task[x] = "over",
         esc \subseteq esc', stopped \subseteq stopped', late \subseteq late', interrupted => interrupted'
  PROVE  Promise!Next
<1>1. \A x \in Parcels : LetGo(x) => LetGo(x)'
  BY DEF LetGo
<1>2. QED
  BY <1>1 DEF Promise!Next, Promise!Excuse

\* The results of a set reach the model.
LEMMA DeliverStep ==
  ASSUME IInv, IInv', UNCHANGED <<task, dropped, esc, interrupted, stopped, late>>,
         \A x \in Parcels : got'[x] # got[x] => got[x] = 0 /\ x \notin dropped /\ task[x] = "over"
  PROVE  Promise!Next
<1>1. got' \in [Parcels -> {0, 1}]
  <2>1. got' \in [Parcels -> Nat]
    BY DEF IInv, TypeOK
  <2>2. \A x \in Parcels : got[x]' \in {0, 1}
    <3> TAKE x \in Parcels
    <3>1. Copies(x)' = One(task[x] = "over")' /\ outbox'[x] \in Nat /\ got'[x] \in Nat
      BY DEF IInv, InOneHand, TypeOK
    <3>2. QED
      BY <3>1 DEF Copies, One
  <2>3. QED
    BY <2>1, <2>2
<1>2. UNCHANGED <<{x \in Parcels : task[x] = "over"}, dropped, {x \in Parcels : LetGo(x)}>>
  BY DEF LetGo
<1>3. QED
  BY <1>1, <1>2 DEF Promise!Next, Promise!Deliver

\* Results somebody held are let go of.
LEMMA GiveUpStep ==
  ASSUME IInv, IInv', UNCHANGED <<task, got, esc, interrupted, stopped, late>>, dropped \subseteq dropped'
  PROVE  Promise!Next
<1>1. \A x \in dropped' : x \in Parcels /\ LetGo(x)'
  BY DEF IInv, LostOnlyWhenExcused, TypeOK
<1>2. \A x \in Parcels : LetGo(x)' <=> LetGo(x)
  BY DEF LetGo
<1>3. \A x \in dropped' : task[x] = "over" /\ got[x] = 0
  <2> TAKE x \in dropped'
  <2>0. x \in Parcels
    BY <1>1
  <2>1. Copies(x)' = One(task[x] = "over")' /\ outbox'[x] \in Nat /\ got'[x] \in Nat
    BY <2>0 DEF IInv, InOneHand, TypeOK
  <2>2. QED
    BY <2>1 DEF Copies, One
<1>4. dropped' \in SUBSET Parcels
  BY DEF IInv, TypeOK
<1>5. UNCHANGED <<{x \in Parcels : task[x] = "over"}, got, {x \in Parcels : LetGo(x)}>>
  BY <1>2
<1>6. QED
  BY <1>1, <1>2, <1>3, <1>4, <1>5 DEF Promise!Next, Promise!GiveUp

LEMMA CallStepRefines ==
  ASSUME IInv, IInv', NEW c \in Calls, Start(c) \/ Esc(c) \/ CallStep(c)
  PROVE  [Promise!Next]_(Promise!vars)
<1>1. CASE Start(c)
  <2>1. \A x \in Of[c] : task[x] = "none"
    BY <1>1 DEF Start, IInv, Untouched
  <2>2. \A x \in Parcels : task'[x] = "over" <=> task[x] = "over"
    BY <1>1, <2>1 DEF Start
  <2>3. QED
    BY <1>1, <2>2, ExcuseStep DEF Start, endVars
<1>2. CASE Esc(c)
  BY <1>2, ExcuseStep DEF Esc, taskVars, endVars, printVars
<1>3. CASE Return(c) \/ Closed(c) \/ \E x \in Parcels : Take(c, x) \/ Close(c, x)
  BY <1>3, HiddenStep DEF Return, Closed, Take, Close, callVars, taskVars, endVars, printVars
<1>4. CASE Record(c)
  <2>1. Of[c] \subseteq held
    BY <1>4 DEF Record, IInv, ReturnedHolds
  <2>2. \A x \in Parcels : got'[x] # got[x] => x \in held
    BY <1>4, <2>1 DEF Record
  <2>3. QED
    BY <1>4, <2>2, GotOnce, DeliverStep DEF Record, taskVars, printVars
<1>5. CASE Cancel(c)
  BY <1>5, GiveUpStep DEF Cancel, taskVars, printVars
<1>6. QED
  BY <1>1, <1>2, <1>3, <1>4, <1>5 DEF CallStep

LEMMA TaskStepRefines ==
  ASSUME IInv, IInv', NEW x \in Parcels, Stop(x) \/ TaskStep(x)
  PROVE  [Promise!Next]_(Promise!vars)
<1>1. CASE Stop(x)
  BY <1>1, ExcuseStep DEF Stop, callVars, endVars, printVars
<1>2. CASE Look(x)
  BY <1>2, HiddenStep DEF Look, callVars, endVars, printVars
<1>3. CASE EndsForCall(x) \/ EndsForOutbox(x) \/ EndsInCall(x)
  <2>1. Ends(x)
    BY <1>3 DEF EndsForCall, EndsForOutbox, EndsInCall
  <2>2. \A y \in Parcels : task[y] = "over" => task'[y] = "over"
    BY <2>1 DEF Ends, IInv, TypeOK
  <2>3. QED
    BY <2>1, <2>2, MakeStep DEF Ends, endVars, printVars
<1>4. QED
  BY <1>1, <1>2, <1>3 DEF TaskStep

\* take_reports delivers what is in the outbox.
LEMMA TakeReportsRefines ==
  ASSUME IInv, IInv', TakeReports, UNCHANGED <<task, dropped, esc, interrupted, stopped, late>>
  PROVE  Promise!Next
<1>1. \A x \in Parcels : got'[x] # got[x] => outbox[x] > 0
  BY DEF TakeReports, IInv, TypeOK
<1>2. QED
  BY <1>1, GotOnce, DeliverStep

LEMMA EndRefines ==
  ASSUME IInv, IInv', Tick \/ CtrlC \/ PrintStep
  PROVE  [Promise!Next]_(Promise!vars)
<1>1. CASE Tick
  BY <1>1, TakeReportsRefines DEF Tick, callVars, taskVars, printVars
<1>2. CASE CtrlC
  BY <1>2, ExcuseStep DEF CtrlC, callVars, taskVars, endVars
<1>3. ASSUME UNCHANGED <<task, esc, interrupted, stopped, late>>, UNCHANGED endVars \/ Exit
      PROVE  [Promise!Next]_(Promise!vars)
  <2>1. CASE UNCHANGED endVars
    BY <1>3, <2>1, HiddenStep DEF endVars
  <2>2. CASE Exit
    BY <1>3, <2>2, GiveUpStep DEF Exit
  <2>3. QED
    BY <1>3, <2>1, <2>2
<1>4. CASE EndTurn \/ EndExtraTurn
  BY <1>3, <1>4 DEF EndTurn, EndExtraTurn, PrintFrame, callVars
<1>5. CASE Drain \/ DrainAgain
  <2>1. UNCHANGED <<task, esc, interrupted, stopped, late>>
    BY <1>5 DEF Drain, DrainAgain, PrintFrame, callVars
  <2>2. Exit \/ (TakeReports /\ UNCHANGED dropped)
    BY <1>5 DEF Drain, DrainAgain
  <2>3. QED
    BY <1>3, <2>1, <2>2, TakeReportsRefines
<1>6. QED
  BY <1>1, <1>2, <1>4, <1>5 DEF PrintStep

\* Delivery implements the safety of ResultPromise: no result reaches the
\* model twice, and none is given up that the promise does not excuse.
THEOREM DeliveryKeepsPromise == Spec => Promise!Safe
<1>1. IInv /\ IInv' /\ [Next]_vars => [Promise!Next]_(Promise!vars)
  <2> SUFFICES ASSUME IInv, IInv', [Next]_vars PROVE [Promise!Next]_(Promise!vars)
    OBVIOUS
  <2>1. CASE UNCHANGED vars
    BY <2>1, HiddenStep DEF vars, callVars, taskVars, endVars, printVars
  <2>2. CASE Next
    BY <2>2, CallStepRefines, TaskStepRefines, EndRefines DEF Next
  <2>3. QED
    BY <2>1, <2>2
<1>2. QED
  BY <1>1, InitRefines, Inductive, PTL DEF Spec, Promise!Safe
=============================================================================
