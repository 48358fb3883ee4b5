--------------------------- MODULE RetentionProofs ---------------------------
(***************************************************************************)
(* Theorems about Retention for any tables, grains, retention settings and *)
(* tenants: type correctness, the runway, the order of the drops, and that *)
(* no drop takes what an open window or a live reader still needs.         *)
(***************************************************************************)
EXTENDS Retention, SetFacts, TLAPS

WindowRow == [tenant : Tenants, lo : Nat, hi : Nat, kept : SUBSET Int]
TxnRow == [tenant : Tenants, day : Nat, upd : Nat]

\* The shape of the tables, with what TypeOK says of them.
Shape ==
    /\ today \in 0 .. MaxDay
    /\ parts \in [Tables -> SUBSET Days]
    /\ \A t \in Tables : \A s \in parts[t] : PeriodStart(t, s) = s
    /\ windows \subseteq WindowRow /\ txns \subseteq TxnRow
    /\ \A w \in windows : w.lo <= w.hi /\ w.hi <= today /\ w.kept \subseteq w.lo .. w.hi
    /\ \A x \in txns : x.upd <= today
    /\ cursor \in [Tenants -> Nat \cup {Null}] /\ notify \in [Tenants -> BOOLEAN]
    /\ state \in [Tenants -> {Null} \cup [frontier : (0 .. today) \cup {Null}, cycle : 0 .. today]]
    /\ registry \in [Readers -> {Null} \cup [pos : Nat, seen : 0 .. today]]
    /\ \A n \in Tenants : cursor[n] # Null => cursor[n] <= today
    /\ \A c \in Readers : registry[c] # Null => registry[c].pos <= registry[c].seen
    /\ tick \in [open : BOOLEAN, made : [Tables -> SUBSET Days], drop : [Tables -> SUBSET Int],
                 heard : SUBSET Tenants, pinned : SUBSET Int]
    /\ \A t \in Tables : \A s \in tick.made[t] : PeriodStart(t, s) = s
    /\ ghost \in [lost : SUBSET TxnRow, joined : SUBSET Tenants, good : 0 .. today]

\* A day's partition starts on a boundary of the grain, on or before the day,
\* and ends on or after it (period_start, next_period_start).
LEMMA PeriodOfDay ==
  ASSUME NEW t \in Tables, NEW d \in Nat
  PROVE  /\ PeriodStart(t, d) \in Nat /\ PeriodStart(t, d) <= d
         /\ d <= PeriodEnd(t, PeriodStart(t, d))
         /\ PeriodStart(t, PeriodStart(t, d)) = PeriodStart(t, d)
<1>1. Grain[t] \in Nat \ {0}
  BY ConstantsAssumption
<1>2. /\ d \div Grain[t] \in Nat /\ PeriodStart(t, d) \in Nat /\ PeriodStart(t, d) <= d
      /\ d < PeriodStart(t, d) + Grain[t]
  BY <1>1, DivBounds DEF PeriodStart
<1>3. PeriodStart(t, PeriodStart(t, d)) = PeriodStart(t, d)
  BY <1>1, <1>2, DivIdempotent DEF PeriodStart
<1>4. d <= PeriodEnd(t, PeriodStart(t, d))
  BY <1>1, <1>2 DEF PeriodEnd, NextPeriodStart
<1> QED
  BY <1>2, <1>3, <1>4

\* A daily partition is named by its day.
LEMMA DailyPeriod ==
  ASSUME NEW t \in HealthGated, NEW d \in Nat
  PROVE  PeriodStart(t, d) = d /\ PeriodEnd(t, d) = d /\ NextPeriodStart(t, d) = d + 1
<1>1. Grain[t] = 1 /\ t \in Tables
  BY ConstantsAssumption
<1> QED
  BY <1>1, PeriodOfDay DEF PeriodStart, PeriodEnd, NextPeriodStart

\* The runway a tick cuts lies within the days the model counts.
LEMMA CoverageShape ==
  ASSUME Shape, NEW t \in Tables
  PROVE  Coverage(t) \subseteq Days /\ \A s \in Coverage(t) : PeriodStart(t, s) = s
<1>1. \A d \in today .. today + Ahead : d \in Nat /\ d <= MaxDay + Ahead
  BY ConstantsAssumption DEF Shape
<1>2. \A d \in today .. today + Ahead : /\ PeriodStart(t, d) \in Days
                                        /\ PeriodStart(t, PeriodStart(t, d)) = PeriodStart(t, d)
  BY <1>1, PeriodOfDay, ConstantsAssumption DEF Days
<1> QED
  BY <1>2 DEF Coverage

\* The first tick's partitions are there and nothing has been reported.
LEMMA ShapeInit == Init => Shape
<1> SUFFICES ASSUME Init PROVE Shape
  OBVIOUS
<1> USE ConstantsAssumption
<1>1. \A t \in Tables : \A d \in 0 .. Ahead : /\ PeriodStart(t, d) \in Days
                                              /\ PeriodStart(t, PeriodStart(t, d)) = PeriodStart(t, d)
  BY PeriodOfDay DEF Days
<1>2. /\ parts \in [Tables -> SUBSET Days]
      /\ \A t \in Tables : \A s \in parts[t] : PeriodStart(t, s) = s
  BY <1>1 DEF Init
<1>3. /\ tick \in [open : BOOLEAN, made : [Tables -> SUBSET Days], drop : [Tables -> SUBSET Int],
                   heard : SUBSET Tenants, pinned : SUBSET Int]
      /\ \A t \in Tables : \A s \in tick.made[t] : PeriodStart(t, s) = s
  BY DEF Init, NoTick
<1>4. /\ ghost \in [lost : SUBSET TxnRow, joined : SUBSET Tenants, good : 0 .. today]
      /\ today \in 0 .. MaxDay /\ windows = {} /\ txns = {}
  BY DEF Init
<1>5. /\ cursor \in [Tenants -> Nat \cup {Null}] /\ notify \in [Tenants -> BOOLEAN]
      /\ state \in [Tenants -> {Null} \cup [frontier : (0 .. today) \cup {Null}, cycle : 0 .. today]]
      /\ registry \in [Readers -> {Null} \cup [pos : Nat, seen : 0 .. today]]
      /\ \A n \in Tenants : cursor[n] # Null => cursor[n] <= today
      /\ \A c \in Readers : registry[c] # Null => registry[c].pos <= registry[c].seen
  BY DEF Init
<1> QED
  BY <1>2, <1>3, <1>4, <1>5 DEF Shape

\* A published position is that of the one furthest behind, and never ahead.
LEMMA PositionIsLeast ==
  ASSUME NEW ps \in SUBSET Nat, ps # {}
  PROVE  Position(ps) \in ps /\ \A p \in ps : Position(ps) <= p
<1>1. ps \in SUBSET Int /\ \A p \in ps : 0 <= p
  OBVIOUS
<1> QED
  BY <1>1, MinIsLeast DEF Position

\* Every step keeps the types, and partitions begin where their period begins.
LEMMA ShapeNext == Shape /\ [Next]_vars => Shape'
<1> SUFFICES ASSUME Shape, [Next]_vars PROVE Shape'
  OBVIOUS
<1> USE ConstantsAssumption
<1>1. CASE TickGate
  <2>1. \A t \in Tables : /\ Coverage(t) \ parts[t] \in SUBSET Days
                          /\ \A s \in Coverage(t) \ parts[t] : PeriodStart(t, s) = s
    BY CoverageShape
  <2>2. \A t \in Tables : Expired(t) \in SUBSET Int
    BY DEF Shape, Expired, Days
  <2>3. "txns" \in Tables /\ Speaks \in SUBSET Tenants
    BY DEF HealthGated, Speaks
  <2>4. /\ tick' \in [open : BOOLEAN, made : [Tables -> SUBSET Days], drop : [Tables -> SUBSET Int],
                      heard : SUBSET Tenants, pinned : SUBSET Int]
        /\ \A t \in Tables : \A s \in tick'.made[t] : PeriodStart(t, s) = s
    BY <1>1, <2>1, <2>2, <2>3 DEF TickGate
  <2> QED
    BY <1>1, <2>4 DEF Shape, TickGate, PeriodStart
<1>2. CASE TickCommit
  <2>1. /\ parts' \in [Tables -> SUBSET Days]
        /\ \A t \in Tables : \A s \in parts'[t] : PeriodStart(t, s) = s
    BY <1>2 DEF Shape, TickCommit
  <2>2. /\ tick' \in [open : BOOLEAN, made : [Tables -> SUBSET Days], drop : [Tables -> SUBSET Int],
                      heard : SUBSET Tenants, pinned : SUBSET Int]
        /\ \A t \in Tables : \A s \in tick'.made[t] : PeriodStart(t, s) = s
    BY <1>2 DEF TickCommit, NoTick
  <2>3. ghost' \in [lost : SUBSET TxnRow, joined : SUBSET Tenants, good : 0 .. today]
    <3> DEFINE gone == {x \in txns : x.day \in tick.drop["txns"]}
               unread == {x \in gone : x.tenant \in tick.heard /\ x.upd >= cursor[x.tenant]}
    <3>1. unread \in SUBSET TxnRow
      <4>1. txns \in SUBSET TxnRow
        BY DEF Shape
      <4>2. gone \subseteq txns /\ unread \subseteq gone
        BY Zenon
      <4> QED
        BY <4>1, <4>2
    <3>2. ghost' = [ghost EXCEPT !.good = today, !.lost = @ \cup unread]
      BY <1>2 DEF TickCommit
    <3> HIDE DEF unread
    <3>3. ghost \in [lost : SUBSET TxnRow, joined : SUBSET Tenants, good : 0 .. today] /\ today \in 0 .. today
      BY DEF Shape
    <3> QED
      BY <3>1, <3>2, <3>3
  <2> QED
    BY <1>2, <2>1, <2>2, <2>3 DEF Shape, TickCommit, PeriodStart
<1>3. CASE DropFails
  <2>1. /\ tick' \in [open : BOOLEAN, made : [Tables -> SUBSET Days], drop : [Tables -> SUBSET Int],
                      heard : SUBSET Tenants, pinned : SUBSET Int]
        /\ \A t \in Tables : \A s \in tick'.made[t] : PeriodStart(t, s) = s
    BY <1>3 DEF DropFails, NoTick
  <2> QED
    BY <1>3, <2>1 DEF Shape, DropFails, PeriodStart
<1>4. CASE Midnight
  <2>1. today' = today + 1 /\ today' \in 0 .. MaxDay /\ today \in Nat
    BY <1>4 DEF Shape, Midnight
  <2>2. 0 .. today \subseteq 0 .. today'
    BY <2>1
  <2>3. /\ state' \in [Tenants -> {Null} \cup [frontier : (0 .. today') \cup {Null}, cycle : 0 .. today']]
        /\ registry' \in [Readers -> {Null} \cup [pos : Nat, seen : 0 .. today']]
        /\ ghost' \in [lost : SUBSET TxnRow, joined : SUBSET Tenants, good : 0 .. today']
    <3>1. UNCHANGED <<state, registry, ghost>>
      BY <1>4 DEF Midnight
    <3>2. \A n \in Tenants : state[n] \in {Null} \cup [frontier : (0 .. today') \cup {Null}, cycle : 0 .. today']
      BY <2>2 DEF Shape
    <3>3. \A c \in Readers : registry[c] \in {Null} \cup [pos : Nat, seen : 0 .. today']
      BY <2>2 DEF Shape
    <3> QED
      BY <2>2, <3>1, <3>2, <3>3 DEF Shape
  <2>4. /\ \A w \in windows' : w.lo <= w.hi /\ w.hi <= today' /\ w.kept \subseteq w.lo .. w.hi
        /\ \A x \in txns' : x.upd <= today'
        /\ \A n \in Tenants : cursor'[n] # Null => cursor'[n] <= today'
    BY <1>4, <2>1 DEF Shape, Midnight, WindowRow, TxnRow
  <2> QED
    BY <1>4, <2>1, <2>3, <2>4 DEF Shape, Midnight, PeriodStart
<1>5. CASE Report
  <2> DEFINE ps == {cursor[n] : n \in Speaks}
  <2>0. Speaks # {} /\ \A n \in Speaks : cursor[n] \in Nat /\ cursor[n] <= today
    BY <1>5 DEF Shape, Report, Speaks
  <2>1. ps \in SUBSET Nat /\ ps # {} /\ \A p \in ps : p <= today
    BY <2>0
  <2>2. Position(ps) \in Nat /\ Position(ps) <= today
    BY <2>1, PositionIsLeast
  <2>3. /\ registry' \in [Readers -> {Null} \cup [pos : Nat, seen : 0 .. today]]
        /\ \A c \in Readers : registry'[c] # Null => registry'[c].pos <= registry'[c].seen
    BY <1>5, <2>2 DEF Shape, Report, Readers
  <2> QED
    BY <1>5, <2>3 DEF Shape, Report, PeriodStart
<1>6. ASSUME NEW n \in Tenants, Start(n) PROVE Shape'
  BY <1>6 DEF Shape, Start, PeriodStart
<1>7. ASSUME NEW n \in Tenants, Read(n) PROVE Shape'
  BY <1>7 DEF Shape, Read, PeriodStart
<1>8. ASSUME NEW n \in Tenants, SwitchTenant(n) PROVE Shape'
  BY <1>8 DEF Shape, SwitchTenant, PeriodStart
<1>9. ASSUME NEW n \in Tenants, TicketDies(n) PROVE Shape'
  BY <1>9 DEF Shape, TicketDies, PeriodStart
<1>10. ASSUME NEW n \in Tenants, NEW d \in Days, Fold(n, d) PROVE Shape'
  <2> DEFINE met == {x.upd : x \in {y \in txns : y.tenant = n /\ y.day = d}}
                      \cup (IF state[n] = Null THEN {} ELSE {state[n].frontier} \ {Null})
             row == [frontier |-> IF met = {} THEN Null ELSE Max(met), cycle |-> today]
             fs  == {state'[m].frontier : m \in {k \in Tenants : state'[k] # Null}}
             near == Days \cap ((d - 1 .. d + 1) \cup {today})
  <2>1. met \in SUBSET (0 .. today)
    <3>1. \A x \in txns : x.upd \in 0 .. today
      BY DEF Shape, TxnRow
    <3>2. state[n] # Null => state[n].frontier \in (0 .. today) \cup {Null}
      BY DEF Shape
    <3> QED
      BY <3>1, <3>2
  <2>2. met # {} => Max(met) \in 0 .. today
    <3>1. met \in SUBSET Int /\ today \in Int /\ \A x \in met : x <= today
      BY <2>1 DEF Shape
    <3> HIDE DEF met
    <3> QED
      BY <3>1, <2>1, MaxIsGreatest
  <2> HIDE DEF met
  <2>3. state' = [state EXCEPT ![n] = row]
    BY <1>10 DEF Fold, met
  <2>4. state' \in [Tenants -> {Null} \cup [frontier : (0 .. today) \cup {Null}, cycle : 0 .. today]]
    BY <2>2, <2>3 DEF Shape
  <2>5. fs \in SUBSET ((0 .. today) \cup {Null})
    BY <2>4
  <2>n. n \in Tenants /\ row = state'[n]
    BY <2>3 DEF Shape
  <2>6. ASSUME Null \notin fs, fs # {} PROVE Position(fs) \in 0 .. today
    <3>1. fs \in SUBSET Nat /\ fs \in SUBSET (0 .. today)
      BY <2>5, <2>6 DEF Shape
    <3> HIDE DEF fs
    <3> QED
      BY <3>1, <2>6, PositionIsLeast
  <2>7. registry' = IF Null \in fs THEN registry
                    ELSE [registry EXCEPT !["analytics"] = [pos |-> Position(fs), seen |-> today]]
    BY <1>10 DEF Fold
  <2>8. fs # {}
    <3>1. row # Null
      BY <2>2 DEF Shape
    <3>2. n \in {k \in Tenants : state'[k] # Null}
      BY <2>n, <3>1
    <3>3. state'[n].frontier \in fs
      BY <3>2
    <3> QED
      BY <3>3
  <2> HIDE DEF fs, row
  <2>9. /\ registry' \in [Readers -> {Null} \cup [pos : Nat, seen : 0 .. today]]
        /\ \A c \in Readers : registry'[c] # Null => registry'[c].pos <= registry'[c].seen
    BY <2>6, <2>7, <2>8 DEF Shape, Readers
  <2>10. \A t \in Tables : \A e \in near : /\ PeriodStart(t, e) \in Days
                                           /\ PeriodStart(t, PeriodStart(t, e)) = PeriodStart(t, e)
    BY PeriodOfDay DEF Days
  <2>11. parts' = [t \in Tables |-> parts[t] \cup
                      (IF t \in HealthGated THEN {} ELSE {PeriodStart(t, e) : e \in near})]
    BY <1>10 DEF Fold
  <2>12. /\ parts' \in [Tables -> SUBSET Days]
         /\ \A t \in Tables : \A s \in parts'[t] : PeriodStart(t, s) = s
    BY <2>10, <2>11 DEF Shape
  <2> QED
    BY <1>10, <2>4, <2>9, <2>12 DEF Shape, Fold, PeriodStart
<1>11. ASSUME NEW n \in Tenants, NEW d \in Days, NEW tail \in {0, 1}, Arrive(n, d, tail) PROVE Shape'
  <2> DEFINE w == [tenant |-> n, lo |-> d, hi |-> d + tail,
                   kept |-> IF tick.open THEN {} ELSE (d .. d + tail) \cap parts["entries"]]
  <2>1. d \in Nat /\ d + tail \in Nat /\ d <= d + tail /\ d + tail <= today
    BY <1>11 DEF Arrive, Days
  <2>2. w \in WindowRow /\ w.lo <= w.hi /\ w.hi <= today /\ w.kept \subseteq w.lo .. w.hi
    BY <2>1 DEF WindowRow
  <2>3. windows' = windows \cup {w}
    BY <1>11 DEF Arrive
  <2> HIDE DEF w
  <2> QED
    BY <1>11, <2>2, <2>3 DEF Shape, Arrive, PeriodStart
<1>12. ASSUME NEW w \in windows, Stitch(w) PROVE Shape'
  <2> DEFINE x == [tenant |-> w.tenant, day |-> w.lo, upd |-> today]
  <2>1. x \in TxnRow /\ x.upd <= today
    BY <1>12 DEF Shape, TxnRow, WindowRow
  <2>2. txns' \subseteq txns \cup {x}
    BY <1>12 DEF Stitch
  <2> HIDE DEF x
  <2>3. txns' \subseteq TxnRow /\ \A y \in txns' : y.upd <= today
    BY <2>1, <2>2 DEF Shape
  <2> QED
    BY <1>12, <2>3 DEF Shape, Stitch, PeriodStart
<1>13. ASSUME NEW w \in windows, Abandon(w) PROVE Shape'
  BY <1>13 DEF Shape, Abandon, PeriodStart
<1>14. CASE UNCHANGED vars
  BY <1>14 DEF Shape, vars, PeriodStart
<1> QED
  BY <1>1, <1>2, <1>3, <1>4, <1>5, <1>6, <1>7, <1>8, <1>9, <1>10, <1>11, <1>12, <1>13, <1>14 DEF Next

\* Type correctness: partitions start on a boundary of their grain, and no
\* published position is ahead of the clock.
THEOREM TypeCorrect == Spec => []TypeOK
<1>1. Shape => TypeOK
  BY ConstantsAssumption DEF Shape, TypeOK
<1> QED
  BY <1>1, ShapeInit, ShapeNext, PTL DEF Spec

\* The runway reaches as far as the last tick that committed cut it.
RunwayInv ==
    \A t \in Tables : \A d \in today .. ghost.good + Ahead : PeriodStart(t, d) \in parts[t]

\* What the gate settled still holds while its transaction is open: the runway
\* it makes, that its drops are past retention and in the midnight rule's
\* order, and that they take nothing an earlier window or a heard reader needs.
OpenTick ==
    tick.open =>
        /\ \A t \in Tables : Coverage(t) \subseteq parts[t] \cup tick.made[t]
        /\ \A t \in Tables : \A s \in tick.drop[t] :
              RetentionDays[t] # Null /\ PeriodEnd(t, s) < today - RetentionFor(t)
        /\ \A s \in tick.made["txns"] : s >= today
        /\ \A s \in tick.drop["entries"] :
              /\ s \in parts["txns"] => s \in tick.drop["txns"]
              /\ s - 1 \in parts["txns"] => s - 1 \in tick.drop["txns"] \cup tick.pinned
        /\ \A w \in windows : w.kept \cap tick.drop["entries"] = {}
        /\ \A n \in tick.heard, s \in tick.drop["txns"] : cursor[n] # Null /\ s + 1 <= cursor[n]

\* No tenant the published position speaks for is behind it, except those that
\* joined since it was reported.
ReportedInv ==
    registry["notifications"] # Null =>
        \A n \in Speaks \ ghost.joined : registry["notifications"].pos <= cursor[n]

DropInv == RunwayInv /\ OpenTick /\ ReportedInv /\ NeededIsKept

\* Both log tables are daily.
LEMMA DailyTables ==
  /\ "entries" \in Tables /\ "txns" \in Tables
  /\ Grain["entries"] = 1 /\ Grain["txns"] = 1
  /\ RetentionDays["entries"] \in Nat /\ RetentionDays["txns"] = RetentionDays["entries"]
  /\ \A s \in Int : \A t \in HealthGated : PeriodEnd(t, s) = s /\ NextPeriodStart(t, s) = s + 1
  BY ConstantsAssumption DEF HealthGated, PeriodEnd, NextPeriodStart

\* A step outside the worker that takes no partition, adds none to the daily
\* log tables, moves cursors forwards only and lets windows arrive without a
\* claim on the partitions leaves what the gate settled in force.
LEMMA OpenTickStays ==
  ASSUME Shape, Shape', OpenTick, tick' = tick, today' = today,
         \A t \in Tables : parts[t] \subseteq parts'[t],
         parts'["txns"] = parts["txns"],
         \A n \in Tenants : cursor[n] # Null => cursor'[n] # Null /\ cursor[n] <= cursor'[n],
         \A w \in windows' : w \in windows \/ (tick.open => w.kept = {})
  PROVE  OpenTick'
<1> SUFFICES ASSUME tick.open PROVE OpenTick'
  BY DEF OpenTick
<1>1. \A t \in Tables : /\ Coverage(t)' = Coverage(t) /\ RetentionFor(t)' = RetentionFor(t)
                        /\ \A s \in tick.drop[t] : PeriodEnd(t, s)' = PeriodEnd(t, s)
  BY DEF Coverage, RetentionFor, PeriodEnd, NextPeriodStart, PeriodStart
<1>2. \A n \in tick.heard, s \in tick.drop["txns"] : cursor'[n] # Null /\ s + 1 <= cursor'[n]
  <2> TAKE n \in tick.heard, s \in tick.drop["txns"]
  <2>1. n \in Tenants /\ s \in Int /\ cursor[n] # Null /\ s + 1 <= cursor[n] /\ cursor[n] \in Nat
    BY DailyTables DEF Shape, OpenTick
  <2>2. cursor'[n] # Null /\ cursor[n] <= cursor'[n] /\ cursor'[n] \in Nat
    BY <2>1 DEF Shape
  <2> QED
    BY <2>1, <2>2
<1> QED
  BY <1>1, <1>2 DEF OpenTick

\* The gate: what may stand in the way of a transaction of a day, or of the day
\* before, and does not stand in the way of the entries of the day, is an open
\* window; and no partition a window or a live reader needs passes it.
LEMMA GateOrders ==
  ASSUME Shape, NEW s \in Expired("entries"), ~Blocked("entries", s)
  PROVE  /\ s \in parts["txns"] => s \in Expired("txns") /\ ~Blocked("txns", s)
         /\ s - 1 \in parts["txns"] =>
               /\ s - 1 \in Expired("txns")
               /\ Blocked("txns", s - 1) => BlockedByPending("txns", s - 1)
         /\ \A w \in windows : s \notin w.kept
<1> USE DailyTables
<1>1. s \in Int /\ s < today - (RetentionDays["entries"] + 1) /\ today \in Int
  BY ConstantsAssumption DEF Shape, Expired, RetentionFor, HealthGated, Days
<1>2. /\ s \in parts["txns"] => s \in Expired("txns")
      /\ s - 1 \in parts["txns"] => s - 1 \in Expired("txns")
  BY <1>1, ConstantsAssumption DEF Expired, RetentionFor, HealthGated
<1>3. "entries" \in HealthGated /\ "txns" \in HealthGated
  BY DEF HealthGated
<1>4. /\ NextPeriodStart("entries", s) = s + 1 /\ NextPeriodStart("txns", s) = s + 1
      /\ NextPeriodStart("txns", s - 1) = s
  BY <1>1, <1>3
<1>5. ~Blocked("txns", s)
  BY <1>3, <1>4 DEF Blocked, BlockedByPending, Overlaps, BlockedByConsumers
<1>6. ~BlockedByConsumers("txns", s - 1)
  <2> SUFFICES ASSUME NEW c \in Readers, IsLive(c), registry[c].pos < s PROVE FALSE
    BY <1>4 DEF BlockedByConsumers
  <2>1. registry[c].pos \in Nat
    BY DEF Shape, IsLive
  <2>2. registry[c].pos < NextPeriodStart("entries", s)
    BY <1>1, <1>4, <2>1
  <2> QED
    BY <2>2 DEF Blocked, BlockedByConsumers
<1>7. \A w \in windows : s \notin w.kept
  <2> SUFFICES ASSUME NEW w \in windows, s \in w.kept PROVE FALSE
    OBVIOUS
  <2>1. w.lo \in Nat /\ w.hi \in Nat /\ w.lo <= s /\ s <= w.hi
    BY DEF Shape, WindowRow
  <2>2. Overlaps("entries", s, w)
    BY <1>1, <1>4, <2>1 DEF Overlaps
  <2> QED
    BY <2>2 DEF Blocked, BlockedByPending
<1> QED
  BY <1>2, <1>3, <1>5, <1>6, <1>7 DEF Blocked

\* A partition that may be dropped ends behind the cursor of every tenant heard.
LEMMA GateHears ==
  ASSUME Shape, ReportedInv, IsLive("notifications"), NEW n \in Speaks \ ghost.joined,
         NEW s \in Expired("txns"), ~Blocked("txns", s)
  PROVE  cursor[n] # Null /\ s + 1 <= cursor[n]
<1>1. s \in Int /\ NextPeriodStart("txns", s) = s + 1
  BY DailyTables DEF Shape, Expired, Days, HealthGated
<1>2. registry["notifications"].pos \in Nat /\ registry["notifications"].pos <= cursor[n]
  BY DEF Shape, ReportedInv, IsLive, Readers
<1>3. cursor[n] # Null /\ cursor[n] \in Nat
  BY DEF Shape, Speaks
<1>4. ~(registry["notifications"].pos < s + 1)
  BY <1>1 DEF Blocked, BlockedByConsumers, Readers
<1> QED
  BY <1>1, <1>2, <1>3, <1>4

\* What the gate reads is what the drop relies on.
LEMMA TickGateOpens ==
  ASSUME Shape, ReportedInv, TickGate
  PROVE  OpenTick'
<1> USE DailyTables
<1>1. /\ tick'.made = [t \in Tables |-> Coverage(t) \ parts[t]]
      /\ tick'.drop = [t \in Tables |-> {s \in Expired(t) : ~Blocked(t, s)}]
      /\ tick'.heard = IF IsLive("notifications") THEN Speaks \ ghost.joined ELSE {}
      /\ tick'.pinned = {s \in Expired("txns") : BlockedByPending("txns", s)}
      /\ UNCHANGED <<today, parts, windows, cursor>>
  BY DEF TickGate
<1>2. \A t \in Tables : Coverage(t)' \subseteq parts'[t] \cup tick'.made[t]
  BY <1>1 DEF Coverage, PeriodStart
<1>3. \A t \in Tables : \A s \in tick'.drop[t] :
        RetentionDays[t] # Null /\ PeriodEnd(t, s) < today - RetentionFor(t)
  BY <1>1 DEF Expired
<1>4. \A s \in tick'.made["txns"] : s >= today
  <2>1. \A d \in today .. today + Ahead : PeriodStart("txns", d) = d
    BY DailyPeriod, ConstantsAssumption DEF HealthGated, Shape
  <2> QED
    BY <1>1, <2>1, ConstantsAssumption DEF Coverage, Shape
<1>5. \A s \in tick'.drop["entries"] :
        /\ s \in parts["txns"] => s \in tick'.drop["txns"]
        /\ s - 1 \in parts["txns"] => s - 1 \in tick'.drop["txns"] \cup tick'.pinned
        /\ \A w \in windows : s \notin w.kept
  BY <1>1, GateOrders
<1>6. \A n \in tick'.heard, s \in tick'.drop["txns"] : cursor[n] # Null /\ s + 1 <= cursor[n]
  BY <1>1, GateHears
<1>7. \A t \in Tables : \A s : PeriodEnd(t, s)' = PeriodEnd(t, s) /\ RetentionFor(t)' = RetentionFor(t)
  BY DEF PeriodEnd, NextPeriodStart, RetentionFor
<1>8. \A w \in windows : w.kept \cap tick'.drop["entries"] = {}
  BY <1>5
<1> QED
  BY <1>1, <1>2, <1>3, <1>4, <1>5, <1>6, <1>7, <1>8 DEF OpenTick

\* The commit of a tick: the runway is made whole and nothing needed goes.
LEMMA TickCommitKeeps ==
  ASSUME Shape, DropInv, TickCommit
  PROVE  DropInv'
<1> USE DailyTables
<1>1. /\ tick.open /\ tick'.open = FALSE
      /\ parts' = [t \in Tables |-> (parts[t] \cup tick.made[t]) \ tick.drop[t]]
      /\ UNCHANGED <<today, windows, cursor, notify, registry>>
      /\ today \in Nat /\ Ahead \in Nat
  BY ConstantsAssumption DEF TickCommit, NoTick, Shape
<1>2. ghost'.good = today /\ ghost'.joined = ghost.joined
  BY DEF TickCommit, Shape
<1>3. RunwayInv'
  <2> SUFFICES ASSUME NEW t \in Tables, NEW d \in today .. today + Ahead
               PROVE  PeriodStart(t, d) \in parts'[t]
    BY <1>1, <1>2 DEF RunwayInv, PeriodStart
  <2>1. PeriodStart(t, d) \in parts[t] \cup tick.made[t]
    BY <1>1 DEF DropInv, OpenTick, Coverage
  <2>2. d \in Nat /\ d <= PeriodEnd(t, PeriodStart(t, d)) /\ PeriodEnd(t, PeriodStart(t, d)) \in Int
    BY <1>1, PeriodOfDay, ConstantsAssumption DEF PeriodEnd, NextPeriodStart
  <2>3. ASSUME PeriodStart(t, d) \in tick.drop[t] PROVE FALSE
    <3>1. RetentionDays[t] \in Nat /\ PeriodEnd(t, PeriodStart(t, d)) < today - RetentionFor(t)
      BY <1>1, <2>3, ConstantsAssumption DEF DropInv, OpenTick
    <3>2. RetentionFor(t) \in Nat
      BY <3>1 DEF RetentionFor
    <3> QED
      BY <1>1, <2>2, <3>1, <3>2
  <2> QED
    BY <1>1, <2>1, <2>3
<1>4. NeededIsKept'
  <2>1. \A w \in windows : w.kept \subseteq parts'["entries"]
    BY <1>1 DEF DropInv, OpenTick, NeededIsKept
  <2>2. \A x \in ghost'.lost : x.upd > x.day
    <3> DEFINE unread == {x \in {y \in txns : y.day \in tick.drop["txns"]} :
                            x.tenant \in tick.heard /\ x.upd >= cursor[x.tenant]}
    <3>1. ghost' = [ghost EXCEPT !.good = today, !.lost = @ \cup unread]
      BY DEF TickCommit
    <3>2. ghost'.lost = ghost.lost \cup unread
      BY <3>1 DEF Shape
    <3>3. ASSUME NEW x \in unread PROVE x.upd > x.day
      <4>1. x.day + 1 <= cursor[x.tenant] /\ x.upd >= cursor[x.tenant] /\ cursor[x.tenant] # Null
        BY <1>1, <3>3 DEF DropInv, OpenTick
      <4>2. x \in TxnRow
        BY <3>3 DEF Shape
      <4>3. x.day \in Nat /\ x.upd \in Nat /\ cursor[x.tenant] \in Nat
        BY <4>1, <4>2 DEF Shape, TxnRow
      <4> QED
        BY <4>1, <4>3
    <3> QED
      BY <3>2, <3>3 DEF DropInv, NeededIsKept
  <2> QED
    BY <1>1, <2>1, <2>2 DEF NeededIsKept
<1>5. ReportedInv'
  BY <1>1, <1>2 DEF DropInv, ReportedInv, Speaks
<1>6. OpenTick'
  BY <1>1 DEF OpenTick
<1> QED
  BY <1>3, <1>4, <1>5, <1>6 DEF DropInv

\* Nothing has been dropped at the start.
LEMMA DropInvInit == Init => DropInv
<1> SUFFICES ASSUME Init PROVE DropInv
  OBVIOUS
<1>1. RunwayInv
  <2>1. today .. ghost.good + Ahead = 0 .. Ahead
    BY ConstantsAssumption DEF Init
  <2> QED
    BY <2>1 DEF Init, RunwayInv, PeriodStart
<1> QED
  BY <1>1 DEF Init, DropInv, OpenTick, ReportedInv, NeededIsKept, NoTick, Readers

\* Outside the tick, partitions are only added: the runway and what windows
\* claimed stay.
LEMMA PartsGrow ==
  ASSUME Shape, RunwayInv, today' \in Nat, today <= today', ghost'.good = ghost.good,
         \A t \in Tables : parts[t] \subseteq parts'[t]
  PROVE  RunwayInv'
<1>1. \A t \in Tables : \A d \in today' .. ghost.good + Ahead :
        /\ d \in today .. ghost.good + Ahead /\ PeriodStart(t, d)' = PeriodStart(t, d)
  BY ConstantsAssumption DEF Shape, PeriodStart
<1> QED
  BY <1>1 DEF RunwayInv

\* Every step keeps what was dropped unneeded and the runway made.
LEMMA DropInvNext == Shape /\ Shape' /\ DropInv /\ [Next]_vars => DropInv'
<1> SUFFICES ASSUME Shape, Shape', DropInv, [Next]_vars PROVE DropInv'
  OBVIOUS
<1>0. \A n \in Tenants : cursor[n] # Null => cursor[n] \in Nat /\ cursor[n] <= cursor[n]
  BY DEF Shape
<1>t. today \in Nat /\ today <= today
  BY DEF Shape
<1>1. CASE TickGate
  <2>1. OpenTick'
    BY <1>1, TickGateOpens DEF DropInv
  <2>2. UNCHANGED <<today, parts, windows, cursor, notify, registry, ghost>>
    BY <1>1 DEF TickGate
  <2> QED
    BY <2>1, <2>2 DEF DropInv, RunwayInv, ReportedInv, NeededIsKept, Speaks, PeriodStart
<1>2. CASE TickCommit
  BY <1>2, TickCommitKeeps
<1>3. CASE DropFails
  BY <1>3 DEF DropFails, NoTick, DropInv, OpenTick, RunwayInv, ReportedInv, NeededIsKept, Speaks, PeriodStart
<1>4. CASE Midnight
  <2>1. ~tick.open /\ tick' = tick /\ today' = today + 1
        /\ UNCHANGED <<parts, windows, cursor, notify, registry, ghost>>
    BY <1>4 DEF Midnight
  <2>2. RunwayInv'
    BY <1>t, <2>1, PartsGrow DEF DropInv
  <2> QED
    BY <2>1, <2>2 DEF DropInv, OpenTick, ReportedInv, NeededIsKept, Speaks
<1>5. ASSUME UNCHANGED <<today, tick, windows>>, ghost'.good = ghost.good, ghost'.lost = ghost.lost,
             \A t \in Tables : parts[t] \subseteq parts'[t], parts'["txns"] = parts["txns"],
             \A n \in Tenants : cursor[n] # Null => cursor'[n] # Null /\ cursor[n] <= cursor'[n],
             ReportedInv'
      PROVE  DropInv'
  <2>1. OpenTick'
    BY <1>5, OpenTickStays DEF DropInv
  <2>2. RunwayInv'
    BY <1>t, <1>5, PartsGrow DEF DropInv
  <2>3. NeededIsKept'
    BY <1>5, DailyTables DEF DropInv, NeededIsKept
  <2> QED
    BY <1>5, <2>1, <2>2, <2>3 DEF DropInv
<1>6. CASE Report
  <2> DEFINE ps == {cursor[n] : n \in Speaks}
  <2>1. /\ UNCHANGED <<today, tick, windows, parts, cursor, notify>>
        /\ ghost' = [ghost EXCEPT !.joined = {}] /\ Speaks # {}
        /\ registry' = [registry EXCEPT !["notifications"] = [pos |-> Position(ps), seen |-> today]]
    BY <1>6 DEF Report
  <2>2. ps \in SUBSET Nat /\ ps # {}
    <3>1. \A n \in Speaks : cursor[n] \in Nat
      BY DEF Shape, Speaks
    <3> QED
      BY <2>1, <3>1
  <2>3. \A p \in ps : Position(ps) <= p
    BY <2>2, PositionIsLeast
  <2>4. \A n \in Speaks : Position(ps) <= cursor[n]
    BY <2>3
  <2> HIDE DEF ps
  <2>5. ReportedInv' /\ ghost'.good = ghost.good /\ ghost'.lost = ghost.lost
    BY <2>1, <2>4 DEF ReportedInv, Speaks, Shape, Readers
  <2> QED
    BY <1>0, <1>5, <2>1, <2>5
<1>7. ASSUME NEW n \in Tenants, Start(n) PROVE DropInv'
  <2>1. /\ UNCHANGED <<today, tick, windows, parts, notify, registry>>
        /\ cursor[n] = Null /\ cursor' = [cursor EXCEPT ![n] = today]
        /\ ghost' = [ghost EXCEPT !.joined = @ \cup {n}]
    BY <1>7 DEF Start
  <2>2. ReportedInv' /\ ghost'.good = ghost.good /\ ghost'.lost = ghost.lost
    BY <2>1 DEF DropInv, ReportedInv, Speaks, Shape
  <2>3. \A m \in Tenants : cursor[m] # Null => cursor'[m] # Null /\ cursor[m] <= cursor'[m]
    BY <1>0, <2>1 DEF Shape
  <2> QED
    BY <1>5, <2>1, <2>2, <2>3
<1>8. ASSUME NEW n \in Tenants, Read(n) PROVE DropInv'
  <2>1. PICK p \in cursor[n] + 1 .. today : cursor' = [cursor EXCEPT ![n] = p]
    BY <1>8 DEF Read
  <2>2. /\ UNCHANGED <<today, tick, windows, parts, notify, registry, ghost>>
        /\ cursor[n] \in Nat /\ p \in Nat /\ cursor[n] <= p
    BY <1>8, <2>1 DEF Read, Shape
  <2>3. \A m \in Tenants : cursor[m] # Null => cursor'[m] # Null /\ cursor[m] <= cursor'[m]
    BY <1>0, <2>1, <2>2, ConstantsAssumption DEF Shape
  <2>4. ReportedInv'
    <3> SUFFICES ASSUME registry["notifications"] # Null, NEW m \in Speaks' \ ghost.joined
                 PROVE  registry["notifications"].pos <= cursor'[m]
      BY <2>2 DEF ReportedInv
    <3>1. m \in Speaks \ ghost.joined
      BY <2>1, <2>2, ConstantsAssumption DEF Speaks, Shape
    <3>2. registry["notifications"].pos <= cursor[m] /\ cursor[m] <= cursor'[m]
      BY <2>3, <3>1 DEF DropInv, ReportedInv, Speaks
    <3>3. registry["notifications"].pos \in Nat /\ cursor[m] \in Nat /\ cursor'[m] \in Nat
      BY <2>3, <3>1 DEF Shape, Speaks, Readers
    <3> QED
      BY <3>2, <3>3
  <2> QED
    BY <1>5, <2>2, <2>3, <2>4
<1>9. ASSUME NEW n \in Tenants, SwitchTenant(n) PROVE DropInv'
  <2>1. /\ UNCHANGED <<today, tick, windows, parts, cursor, registry>>
        /\ notify' = [notify EXCEPT ![n] = ~@]
        /\ ghost' = [ghost EXCEPT !.joined = @ \cup {n}]
    BY <1>9 DEF SwitchTenant
  <2>2. ReportedInv' /\ ghost'.good = ghost.good /\ ghost'.lost = ghost.lost
    BY <2>1 DEF DropInv, ReportedInv, Speaks, Shape
  <2> QED
    BY <1>0, <1>5, <2>1, <2>2
<1>10. ASSUME NEW n \in Tenants, TicketDies(n) PROVE DropInv'
  <2>1. UNCHANGED <<today, tick, windows, parts, cursor, notify, registry, ghost>>
    BY <1>10 DEF TicketDies
  <2>2. ReportedInv'
    BY <2>1 DEF DropInv, ReportedInv, Speaks
  <2> QED
    BY <1>0, <1>5, <2>1, <2>2
<1>11. ASSUME NEW n \in Tenants, NEW d \in Days, Fold(n, d) PROVE DropInv'
  <2>1. /\ UNCHANGED <<today, tick, windows, cursor, notify, ghost>>
        /\ \A t \in Tables : parts[t] \subseteq parts'[t]
        /\ parts'["txns"] = parts["txns"]
    BY <1>11, DailyTables DEF Fold, HealthGated
  <2>2. registry'["notifications"] = registry["notifications"]
    BY <1>11 DEF Fold, Shape, Readers
  <2>3. ReportedInv'
    BY <2>1, <2>2 DEF DropInv, ReportedInv, Speaks
  <2> QED
    BY <1>0, <1>5, <2>1, <2>3
<1>12. ASSUME UNCHANGED <<today, tick, parts, cursor, notify, registry, ghost>>,
              \A w \in windows' : w \in windows \/ (w.kept \subseteq parts["entries"] /\ (tick.open => w.kept = {}))
       PROVE  DropInv'
  <2>1. OpenTick'
    BY <1>0, <1>12, OpenTickStays DEF DropInv
  <2>2. RunwayInv'
    BY <1>t, <1>12, PartsGrow DEF DropInv
  <2>3. NeededIsKept' /\ ReportedInv'
    BY <1>12 DEF DropInv, NeededIsKept, ReportedInv, Speaks
  <2> QED
    BY <2>1, <2>2, <2>3 DEF DropInv
<1>13. ASSUME NEW n \in Tenants, NEW d \in Days, NEW tail \in {0, 1}, Arrive(n, d, tail) PROVE DropInv'
  BY <1>12, <1>13 DEF Arrive
<1>14. ASSUME NEW w \in windows, Stitch(w) PROVE DropInv'
  BY <1>12, <1>14 DEF Stitch
<1>15. ASSUME NEW w \in windows, Abandon(w) PROVE DropInv'
  BY <1>12, <1>15 DEF Abandon
<1>16. CASE UNCHANGED vars
  BY <1>12, <1>16 DEF vars
<1> QED
  BY <1>1, <1>2, <1>3, <1>4, <1>6, <1>7, <1>8, <1>9, <1>10, <1>11, <1>13, <1>14, <1>15, <1>16 DEF Next

\* DropInv is an invariant.
LEMMA DropInvHolds == Spec => [](Shape /\ DropInv)
<1>1. Init => Shape /\ DropInv
  BY ShapeInit, DropInvInit
<1>2. Shape /\ DropInv /\ [Next]_vars => (Shape /\ DropInv)'
  BY ShapeNext, DropInvNext
<1> QED
  BY <1>1, <1>2, PTL DEF Spec

\* No drop takes what is still needed: the lines an open window stands for keep
\* their partitions, and no row stitched on its own day goes before the rules of
\* a tenant the gate heard have read it (_has_pending_overlap, blocks_until).
THEOREM NothingNeededIsDropped == Spec => []NeededIsKept
<1>1. DropInv => NeededIsKept
  BY DEF DropInv
<1> QED
  BY <1>1, DropInvHolds, PTL

\* As long as one tick of the last Ahead days committed, today has a partition in
\* every table (run_once: the runway is cut before the drop is considered).
THEOREM RunwayAlwaysKept == Spec => []RunwayKept
<1>1. Shape /\ DropInv => RunwayKept
  BY ConstantsAssumption DEF Shape, DropInv, RunwayInv, RunwayKept
<1> QED
  BY <1>1, DropInvHolds, PTL

\* Partitions go in order: only past their retention, never from a table kept
\* forever, and entries only after the transactions that own them (droppable_days).
THEOREM PartitionsGoInOrder == Spec => DropsInOrder
<1> DEFINE InOrder ==
      /\ \A t \in Tables : \A s \in parts[t] \ parts'[t] :
            /\ RetentionDays[t] # Null
            /\ \A d \in s .. s + Grain[t] - 1 : d < today - RetentionDays[t]
      /\ \A s \in parts["entries"] \ parts'["entries"] :
            s \notin parts'["txns"] /\ (s - 1 \in parts'["txns"] => s - 1 \in tick.pinned)
<1>1. ASSUME Shape, DropInv, [Next]_vars PROVE InOrder
  <2>1. CASE TickCommit
    <3>1. /\ tick.open /\ OpenTick
          /\ parts' = [t \in Tables |-> (parts[t] \cup tick.made[t]) \ tick.drop[t]]
      BY <1>1, <2>1 DEF TickCommit, DropInv
    <3>2. ASSUME NEW t \in Tables, NEW s \in parts[t] \ parts'[t]
          PROVE  /\ RetentionDays[t] # Null
                 /\ \A d \in s .. s + Grain[t] - 1 : d < today - RetentionDays[t]
      <4>1. s \in tick.drop[t] /\ s \in Int /\ today \in Int
        BY <1>1, <3>1, <3>2, ConstantsAssumption DEF Shape, Days
      <4>2. RetentionDays[t] # Null /\ PeriodEnd(t, s) < today - RetentionFor(t)
        BY <3>1, <4>1 DEF OpenTick
      <4>3. RetentionDays[t] \in Nat /\ Grain[t] \in Nat
        BY <4>2, ConstantsAssumption
      <4>4. today - RetentionFor(t) <= today - RetentionDays[t] /\ RetentionFor(t) \in Int
        BY <4>1, <4>3 DEF RetentionFor
      <4> QED
        BY <4>1, <4>2, <4>3, <4>4 DEF PeriodEnd, NextPeriodStart
    <3>3. ASSUME NEW s \in parts["entries"] \ parts'["entries"]
          PROVE  s \notin parts'["txns"] /\ (s - 1 \in parts'["txns"] => s - 1 \in tick.pinned)
      <4>1. s \in tick.drop["entries"] /\ s \in Int /\ today \in Int
        BY <1>1, <3>1, <3>3, DailyTables, ConstantsAssumption DEF Shape, Days
      <4>2. s < today
        <5>1. PeriodEnd("entries", s) < today - RetentionFor("entries")
          BY <3>1, <4>1, DailyTables DEF OpenTick
        <5> QED
          BY <4>1, <5>1, DailyTables DEF RetentionFor, PeriodEnd, NextPeriodStart
      <4>3. s \notin tick.made["txns"] /\ s - 1 \notin tick.made["txns"]
        BY <3>1, <4>1, <4>2 DEF OpenTick
      <4> QED
        BY <3>1, <4>1, <4>3, DailyTables DEF OpenTick
    <3> QED
      BY <3>2, <3>3
  <2>2. CASE \A t \in Tables : parts[t] \subseteq parts'[t]
    BY <2>2, DailyTables
  <2>3. CASE \E n \in Tenants, d \in Days : Fold(n, d)
    <3>1. PICK n \in Tenants, d \in Days : Fold(n, d)
      BY <2>3
    <3>2. \A t \in Tables : parts[t] \subseteq parts'[t]
      BY <3>1 DEF Fold
    <3> QED
      BY <2>2, <3>2
  <2>4. CASE parts' = parts
    BY <2>2, <2>4
  <2>5. TickCommit \/ (\E n \in Tenants, d \in Days : Fold(n, d)) \/ parts' = parts
    BY <1>1 DEF Next, vars, TickGate, DropFails, Midnight, Report, Start, Read, SwitchTenant,
       TicketDies, Arrive, Stitch, Abandon
  <2> QED
    BY <2>1, <2>3, <2>4, <2>5
<1>2. Shape /\ DropInv /\ [Next]_vars => [InOrder]_vars
  BY <1>1
<1> QED
  BY <1>2, DropInvHolds, PTL DEF Spec, DropsInOrder
=============================================================================
