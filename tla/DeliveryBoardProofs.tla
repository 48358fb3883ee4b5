-------------------------- MODULE DeliveryBoardProofs --------------------------
(***************************************************************************)
(* Theorems about DeliveryBoard for any deliveries, departures, margins    *)
(* and bounds: a delivery keeps one row per date and one open row, a       *)
(* closed row is history and its outcome is the warehouse's, a check that  *)
(* was overtaken is counted re-opened, and a row reconstructed for a past  *)
(* day reports what the passes would have seen.                            *)
(***************************************************************************)
EXTENDS DeliveryBoard, SetFacts, TLAPS

Clock == Instants \cup {Null}

Outcomes == {"never_loaded", "loaded_late", "loaded_in_time", "picked_late", "picked_in_time", "unknown"}

StateRec == [dep : Departures, expected : Expected, confirmed : {0, 1}, created : {0, 1}, loaded : {0, 1},
             lastPick : Clock, lastLoad : Clock, loading : BOOLEAN, dock : Int \cup {Null}]
RowRec   == [d : Deliveries, day : Nat, status : {"open", "closed", "deleted"}, state : StateRec,
             usual : Int \cup {Null}, tier : Tiers, maxTier : Tiers, checked : Tiers \cup {Null},
             reopened : Nat, outcome : Outcomes \cup {Null}, closedAt : Int \cup {Null},
             reconstructed : BOOLEAN, sight : BOOLEAN, raced : BOOLEAN, reopenedBefore : Nat]
ProfileRec == [usual : Nat \cup {Null}, loads : BOOLEAN]
CallRec == [at : Nat, dep : Departures]
WarehouseRec == [calls : Seq(CallRec), expected : Expected, pickAt : Clock, loadAt : Clock]

\* What a pass or a backfill read: a state for each delivery it names.
Read(states) == \A d \in Deliveries : states[d] # Null => states[d] \in StateRec

\* The shape of the tables and of what the evaluators and people hold.
Shape ==
    /\ now \in Instants /\ scans \subseteq Instants /\ profiled \in -1 .. Day(MaxTime)
    /\ wh \in [Deliveries -> WarehouseRec] /\ \A d \in Deliveries : wh[d].calls # <<>>
    /\ \A d \in Deliveries : \A t \in {wh[d].pickAt, wh[d].loadAt} : t # Null => t <= now
    /\ rows \in Seq(RowRec)
    /\ DOMAIN pass = Evaluators
    /\ \A e \in Evaluators :
          /\ pass[e].pc \in {"idle", "read"} /\ pass[e].at \in Instants
          /\ pass[e].pc = "read" => Read(pass[e].states) /\ pass[e].profile \in ProfileRec
    /\ check.pc \in {"idle", "read"}
    /\ check.pc = "read" => check.row \in DOMAIN rows /\ check.tier \in Tiers
    /\ fill.pc \in {"idle", "read"}
    /\ fill.pc = "read" =>
          /\ fill.day \in Days /\ fill.profile \in ProfileRec /\ Read(fill.states)
          /\ \A d \in Deliveries : fill.states[d] # Null => Day(fill.states[d].dep) = fill.day
    /\ DOMAIN profiles = Days /\ \A k \in Days : profiles[k] # Null => profiles[k] \in ProfileRec
    /\ on \in [tenant : BOOLEAN, settlement : BOOLEAN]

\* One row per date and one open row of each delivery, in any list of rows.
OneRow(rs) ==
    \A d \in Deliveries :
        /\ \A i, j \in RowsOf(rs, d) : rs[i].day = rs[j].day => i = j
        /\ \A i, j \in RowsOf(rs, d) : Open(rs[i]) /\ Open(rs[j]) => i = j

\* A check the tier has passed is counted, unless it was raced.
Counted(r) ==
    /\ r.reopenedBefore <= r.reopened
    /\ r.checked # Null /\ r.tier > r.checked /\ ~r.raced => r.reopened > r.reopenedBefore

\* An event is legible at an instant: not of that instant, nor out of the lookback.
Legible(t, at) == t = Null \/ (t # at /\ t >= at - Lookback)

\* A state tells what the warehouse logged of a delivery before an instant.
Tells(s, w, at) ==
    /\ Legible(w.pickAt, at) =>
          /\ s.confirmed = IF w.pickAt # Null /\ w.pickAt < at THEN 1 ELSE 0
          /\ s.created = s.confirmed
          /\ s.lastPick = IF w.pickAt # Null /\ w.pickAt < at THEN w.pickAt ELSE Null
    /\ Legible(w.loadAt, at) =>
          /\ s.loaded = IF w.loadAt # Null /\ w.loadAt < at THEN 1 ELSE 0
          /\ s.lastLoad = IF w.loadAt # Null /\ w.loadAt < at THEN w.loadAt ELSE Null

\* A row the board closed in sight of it holds a state that tells the truth,
\* and its outcome is that state's.
Truthful(r) ==
    r.status = "closed" /\ ~r.reconstructed =>
        /\ r.closedAt \in Int /\ r.closedAt <= now
        /\ r.sight => r.outcome = OutcomeFor(r.state) /\ Tells(r.state, wh[r.d], r.closedAt)

\* A pass under way read no later than now, and what it read tells the truth.
PassTruthful(e) ==
    pass[e].pc = "read" =>
        /\ pass[e].at <= now
        /\ \A d \in Deliveries : pass[e].states[d] # Null => Tells(pass[e].states[d], wh[d], pass[e].at)

RowsInv == OneRow(rows) /\ \A i \in DOMAIN rows : Counted(rows[i]) /\ Truthful(rows[i])

Inv == Shape /\ RowsInv /\ \A e \in Evaluators : PassTruthful(e)
-----------------------------------------------------------------------------
(* The clock and the rules.                                                *)

\* The parameters, as the proofs use them.
LEMMA Parameters ==
    /\ DayLen \in Nat /\ DayLen >= 1 /\ Warn \in Nat /\ Gone \in Nat /\ Lookback \in Nat /\ MaxTime \in Nat
    /\ Grace \in Nat /\ Grace <= DayLen /\ Departures \subseteq Nat
    /\ \A u \in Rhythms : u \in Nat \/ u = Null
    /\ \A x \in Expected : x \in Nat \/ x = Null
    /\ IsFiniteSet(Deliveries) /\ Null \notin Int
BY BoardAssumption

\* Every instant has its day, and the days follow the clock.
LEMMA DayOf ==
  ASSUME NEW t \in Nat
  PROVE  Day(t) \in Nat /\ \A u \in Nat : u <= t => Day(u) <= Day(t)
<1>1. Day(t) \in Nat /\ t < Day(t) * DayLen + DayLen
  BY Parameters, DivBounds DEF Day
<1>2. ASSUME NEW u \in Nat, u <= t PROVE Day(u) <= Day(t)
  <2>1. Day(u) \in Nat /\ Day(u) * DayLen <= u
    BY Parameters, DivBounds DEF Day
  <2>2. Day(u) * DayLen < (Day(t) + 1) * DayLen
    BY <1>1, <1>2, <2>1, Parameters
  <2>3. ASSUME Day(u) >= Day(t) + 1 PROVE FALSE
    <3>1. Day(u) * DayLen >= (Day(t) + 1) * DayLen
      BY <1>1, <2>1, <2>3, Parameters
    <3> QED
      BY <1>1, <2>1, <2>2, <3>1, Parameters
  <2> QED
    BY <1>1, <2>1, <2>3
<1> QED
  BY <1>1, <1>2

\* Whatever a state says, the rule gives one of the four tiers.
LEMMA TierKnown ==
  ASSUME NEW s, NEW t, NEW usual
  PROVE  TierFor(s, t, usual) \in Tiers
BY DEF TierFor, Tiers, None, Watch, AtRisk, LeftBehind

\* Whatever a state says, it has an outcome.
LEMMA OutcomeKnown ==
  ASSUME NEW s
  PROVE  OutcomeFor(s) \in Outcomes
BY DEF OutcomeFor, Outcomes

\* The later of two tiers.
LEMMA HigherTier ==
  ASSUME NEW a \in Tiers, NEW b \in Tiers
  PROVE  Max({a, b}) \in Tiers
<1>1. Tiers \subseteq Int /\ \A x \in {a, b} : x <= 3
  BY DEF Tiers, None, LeftBehind
<1> QED
  BY <1>1, MaxIsGreatest

\* A clock of the rule, learned or announced.
LEMMA ClockKnown ==
  ASSUME NEW s \in StateRec, NEW profile \in ProfileRec
  PROVE  ClockFor(s, profile) \in Nat
<1>1. s.dep \in Nat
  BY Parameters DEF StateRec
<1>2. Day(s.dep) \in Nat
  BY <1>1, DayOf
<1>3. Day(s.dep) * DayLen \in Nat
  BY <1>2, Parameters
<1> QED
  BY <1>1, <1>3, Parameters DEF ClockFor, ProfileRec

-----------------------------------------------------------------------------
(* Judging one row.                                                        *)

\* A row after a write of the board: its delivery, its origin and its check
\* columns stay, and a check it overtakes is counted.
Follows(r, q) ==
    /\ q \in RowRec
    /\ q.d = r.d /\ q.reconstructed = r.reconstructed
    /\ Counted(r) => Counted(q)

\* A tier moves with its highest one and the count of re-openings, and nothing else.
LEMMA TierMoves ==
  ASSUME NEW r \in RowRec, NEW tier \in Tiers
  PROVE  LET q == WriteTier(r, tier) IN
         /\ Follows(r, q)
         /\ q.status = r.status /\ q.day = r.day /\ q.state = r.state /\ q.sight = r.sight
<1> DEFINE q == WriteTier(r, tier)
<1> HIDE DEF q
<1>1. CASE tier = r.tier
  <2>1. q = r
    BY <1>1 DEF WriteTier, q
  <2> QED
    BY <2>1 DEF Follows, q
<1>2. CASE tier # r.tier
  <2>1. Max({r.maxTier, tier}) \in Tiers /\ r.reopened + 1 \in Nat
    BY HigherTier DEF RowRec
  <2>2. PICK more \in Nat : more = IF Reopens(r, tier) THEN r.reopened + 1 ELSE r.reopened
    BY <2>1 DEF RowRec
  <2>3. PICK top \in Tiers : top = Max({r.maxTier, tier})
    BY <2>1
  <2>4. q = [r EXCEPT !.tier = tier, !.maxTier = top, !.reopened = more]
    BY <1>2, <2>2, <2>3 DEF WriteTier, q
  <2>5. /\ q \in RowRec /\ q.tier = tier /\ q.reopened = more
        /\ q.d = r.d /\ q.reconstructed = r.reconstructed /\ q.checked = r.checked
        /\ q.raced = r.raced /\ q.reopenedBefore = r.reopenedBefore
        /\ q.status = r.status /\ q.day = r.day /\ q.state = r.state /\ q.sight = r.sight
    BY <2>4 DEF RowRec
  <2>6. Counted(r) => Counted(q)
    BY <2>2, <2>5 DEF Counted, Reopens, RowRec
  <2> QED
    BY <2>5, <2>6 DEF Follows, q
<1> QED
  BY <1>1, <1>2 DEF q

\* The progress written is the state read, but for a dock clock that is kept.
LEMMA ProgressWritten ==
  ASSUME NEW r \in RowRec, NEW s \in StateRec
  PROVE  LET q == WriteProgress(r, s) IN
         /\ Follows(r, q)
         /\ q.status = r.status /\ q.day = r.day /\ q.sight = r.sight
         /\ q.state \in StateRec /\ \E k \in Int \cup {Null} : q.state = [s EXCEPT !.dock = k]
<1> DEFINE q == WriteProgress(r, s)
<1> HIDE DEF q
<1>1. PICK k \in Int \cup {Null} : k = IF s.dock = Null THEN r.state.dock ELSE s.dock
  BY DEF RowRec, StateRec
<1>2. PICK w : w = [s EXCEPT !.dock = k]
  OBVIOUS
<1>3. w \in StateRec
  BY <1>2 DEF StateRec
<1>4. q = [r EXCEPT !.state = w]
  BY <1>1, <1>2 DEF WriteProgress, q
<1>5. /\ q \in RowRec /\ q.state = w
      /\ q.d = r.d /\ q.reconstructed = r.reconstructed /\ q.checked = r.checked
      /\ q.raced = r.raced /\ q.reopenedBefore = r.reopenedBefore
      /\ q.status = r.status /\ q.day = r.day /\ q.tier = r.tier /\ q.reopened = r.reopened
      /\ q.sight = r.sight
  BY <1>3, <1>4 DEF RowRec
<1> QED
  BY <1>2, <1>3, <1>5 DEF Follows, Counted, q
\* What a pass or a backfill holds while it writes.
Evaluation(p) == Read(p.states) /\ p.profile \in ProfileRec /\ p.at \in Instants

\* A row judged by a pass stays what it was but takes the departure's day.
LEMMA RowJudged ==
  ASSUME NEW r \in RowRec, NEW s \in StateRec, NEW p, Evaluation(p)
  PROVE  LET q == Judge(r, s, p) IN
         Follows(r, q) /\ q.status = r.status /\ q.day = Day(s.dep)
<1> DEFINE q == Judge(r, s, p)
<1> HIDE DEF q
<1>1. PICK v : v = WriteProgress(r, s)
  OBVIOUS
<1>2. Follows(r, v) /\ v.status = r.status
  BY <1>1, ProgressWritten
<1>3. Day(s.dep) \in Nat /\ ClockFor(s, p.profile) \in Int
  <2>1. ClockFor(s, p.profile) \in Nat
    BY ClockKnown DEF Evaluation
  <2>2. s.dep \in Nat
    BY Parameters DEF StateRec
  <2> QED
    BY <2>1, <2>2, DayOf
<1>4. PICK w : w = [v EXCEPT !.day = Day(s.dep), !.usual = ClockFor(s, p.profile)]
  OBVIOUS
<1>5. /\ w \in RowRec /\ w.day = Day(s.dep) /\ w.status = v.status
      /\ w.d = v.d /\ w.reconstructed = v.reconstructed /\ w.checked = v.checked
      /\ w.raced = v.raced /\ w.reopenedBefore = v.reopenedBefore
      /\ w.tier = v.tier /\ w.reopened = v.reopened
  BY <1>2, <1>3, <1>4 DEF Follows, RowRec
<1>6. PICK tier \in Tiers : tier = TierFor(s, p.at, w.usual)
  BY TierKnown
<1>7. q = WriteTier(w, tier)
  BY <1>1, <1>4, <1>6 DEF Judge, q
<1>8. Follows(w, q) /\ q.status = w.status /\ q.day = w.day
  BY <1>5, <1>7, TierMoves
<1> QED
  BY <1>2, <1>5, <1>8 DEF Follows, Counted, q

\* A row of a departure seen for the first time.
LEMMA RowStarts ==
  ASSUME NEW d \in Deliveries, NEW s \in StateRec
  PROVE  /\ NewRow(d, s) \in RowRec /\ Counted(NewRow(d, s))
         /\ NewRow(d, s).d = d /\ NewRow(d, s).status = "open" /\ ~NewRow(d, s).reconstructed
<1>1. Day(s.dep) \in Nat
  BY DayOf, Parameters DEF StateRec
<1>2. NewRow(d, s) \in RowRec
  BY <1>1 DEF NewRow, RowRec, Tiers, None, LeftBehind
<1> QED
  BY <1>2 DEF NewRow, Counted

\* What the end of a pass does to a row: it closes the due ones, then sweeps.
Finish(r, p) == Sweep(IF Due(r, p.at) THEN CloseDue(r, p) ELSE r, p.at)

\* A row closed by a pass holds the outcome of the state stored with it, which
\* is the state of the pass when the row was in sight.
ClosedBy(p, r) ==
    /\ r.status = "closed" /\ r.closedAt = p.at
    /\ r.sight => /\ r.outcome = OutcomeFor(r.state) /\ p.states[r.d] # Null
                  /\ \E k \in Int \cup {Null} : r.state = [p.states[r.d] EXCEPT !.dock = k]

\* A pass ends an open row or leaves it, and never touches another; the sweep
\* finds nothing, because what it would take was due before.
LEMMA RowFinished ==
  ASSUME NEW r \in RowRec, NEW p, Evaluation(p)
  PROVE  LET q == Finish(r, p) IN
         /\ Follows(r, q) /\ q.day = r.day
         /\ \/ q = r
            \/ Open(r) /\ ClosedBy(p, q)
<1> DEFINE q == Finish(r, p)
<1> HIDE DEF q
<1>0. r.state.dep \in Nat /\ p.at \in Nat
  <2>1. r.state \in StateRec
    BY DEF RowRec
  <2>2. r.state.dep \in Nat
    BY <2>1, Parameters DEF StateRec
  <2> QED
    BY <2>2, Parameters DEF Evaluation, Instants
<1>1. CASE ~Due(r, p.at)
  <2>1. q = Sweep(r, p.at)
    BY <1>1 DEF Finish, q
  <2>2. ~(Open(r) /\ r.state.dep + DayLen <= p.at)
    BY <1>0, <1>1, Parameters DEF Due
  <2>3. q = r
    BY <2>1, <2>2 DEF Sweep
  <2> QED
    BY <2>3 DEF Follows, q
<1>2. CASE Due(r, p.at)
  <2>0. PICK s : s = p.states[r.d]
    OBVIOUS
  <2>s. PICK sight \in BOOLEAN : sight <=> s # Null /\ Day(s.dep) = r.day
    OBVIOUS
  <2>1. PICK w : w = IF sight THEN WriteProgress(r, s) ELSE r
    OBVIOUS
  <2>2. sight => s \in StateRec
    BY <2>0, <2>s DEF Evaluation, Read, RowRec
  <2>3. /\ Follows(r, w) /\ w.day = r.day /\ w.status = r.status
        /\ sight => \E k \in Int \cup {Null} : w.state = [s EXCEPT !.dock = k]
    <3>1. CASE sight
      <4>1. s \in StateRec /\ w = WriteProgress(r, s)
        BY <2>1, <2>2, <3>1
      <4>2. /\ Follows(r, w) /\ w.status = r.status /\ w.day = r.day
            /\ \E k \in Int \cup {Null} : w.state = [s EXCEPT !.dock = k]
        BY ZenonT(40), <4>1, ProgressWritten
      <4> QED
        BY <4>2
    <3>2. CASE ~sight
      BY <2>1, <3>2 DEF Follows
    <3> QED
      BY <3>1, <3>2
  <2>4. PICK tier \in Tiers : tier = TierFor(w.state, p.at, w.usual)
    BY TierKnown
  <2>5. PICK t : t = WriteTier(w, tier)
    OBVIOUS
  <2>6. Follows(w, t) /\ t.day = w.day /\ t.state = w.state
    BY <2>3, <2>4, <2>5, TierMoves DEF Follows
  <2>7. PICK c : c = [t EXCEPT !.status = "closed", !.closedAt = p.at,
                                !.outcome = OutcomeFor(w.state), !.sight = sight]
    OBVIOUS
  <2>8. c = CloseDue(r, p)
    BY <2>0, <2>s, <2>1, <2>4, <2>5, <2>7 DEF CloseDue
  <2>9. OutcomeFor(w.state) \in Outcomes
    BY OutcomeKnown
  <2>10. /\ c \in RowRec /\ c.status = "closed" /\ c.closedAt = p.at /\ c.outcome = OutcomeFor(w.state)
         /\ c.sight = sight /\ c.state = t.state /\ c.day = t.day
         /\ c.d = t.d /\ c.reconstructed = t.reconstructed /\ c.checked = t.checked
         /\ c.raced = t.raced /\ c.reopenedBefore = t.reopenedBefore
         /\ c.tier = t.tier /\ c.reopened = t.reopened
    <3>1. PICK out \in Outcomes, at \in Int : out = OutcomeFor(w.state) /\ at = p.at
      BY <1>0, <2>9
    <3>2. t \in RowRec
      BY <2>6 DEF Follows
    <3>3. c = [t EXCEPT !.status = "closed", !.closedAt = at, !.outcome = out, !.sight = sight]
      BY <2>7, <3>1
    <3>4. c \in RowRec
      BY ZenonT(40), <2>s, <3>1, <3>2, <3>3 DEF RowRec
    <3>5. c.status = "closed" /\ c.closedAt = at /\ c.outcome = out /\ c.sight = sight
      BY <3>2, <3>3 DEF RowRec
    <3>6. /\ c.state = t.state /\ c.day = t.day /\ c.d = t.d /\ c.reconstructed = t.reconstructed
          /\ c.checked = t.checked /\ c.raced = t.raced /\ c.reopenedBefore = t.reopenedBefore
          /\ c.tier = t.tier /\ c.reopened = t.reopened
      BY <3>2, <3>3 DEF RowRec
    <3> QED
      BY <3>1, <3>4, <3>5, <3>6
  <2>11. q = c
    BY <1>2, <2>8, <2>10 DEF Finish, Sweep, Open, q
  <2>12. Follows(r, c)
    BY <2>3, <2>6, <2>10 DEF Follows, Counted
  <2>13. c.d = r.d /\ c.state = w.state /\ c.day = r.day
    BY <2>3, <2>6, <2>10 DEF Follows
  <2>14. ClosedBy(p, c)
    BY <2>0, <2>s, <2>3, <2>10, <2>13 DEF ClosedBy
  <2> QED
    BY <1>2, <2>11, <2>12, <2>13, <2>14 DEF Due, q
<1> QED
  BY <1>1, <1>2 DEF q

\* A row the backfill writes: closed, reconstructed and unchecked.
LEMMA RowReplayed ==
  ASSUME NEW d \in Deliveries, NEW s \in StateRec, NEW usual \in Int
  PROVE  LET q == WriteClosed(d, s, usual) IN
         /\ q \in RowRec /\ Counted(q)
         /\ q.d = d /\ q.day = Day(s.dep) /\ q.status = "closed" /\ q.reconstructed
<1> DEFINE q == WriteClosed(d, s, usual)
           closeAt == s.dep + Grace
<1>1. closeAt \in Int
  <2>1. s.dep \in Nat
    BY Parameters DEF StateRec
  <2> QED
    BY <2>1, Parameters
<1> DEFINE told == {ReplayTier(s, usual, t) : t \in ReplayInstants(s, usual, closeAt)}
<1>2. closeAt \in ReplayInstants(s, usual, closeAt)
  BY <1>1 DEF ReplayInstants
<1> HIDE DEF closeAt
<1>3. told # {} /\ told \subseteq Tiers
  BY <1>2, TierKnown DEF ReplayTier
<1> HIDE DEF told
<1>4. Max(told) \in Tiers
  <2>1. PICK T \in SUBSET Int : T = told
    BY <1>3 DEF Tiers, None, LeftBehind
  <2>2. T # {} /\ \A x \in T : x <= 3
    BY <1>3, <2>1 DEF Tiers, None, LeftBehind
  <2>3. Max(T) \in T
    BY <2>2, MaxIsGreatest
  <2> QED
    BY <1>3, <2>1, <2>3
<1>5. PICK top \in Tiers : top = Max(told)
  BY <1>4
<1>6. PICK last \in Tiers : last = ReplayTier(s, usual, closeAt)
  BY TierKnown DEF ReplayTier
<1>7. PICK r : r = NewRow(d, s)
  OBVIOUS
<1>8. r \in RowRec /\ r.d = d /\ r.day = Day(s.dep) /\ r.checked = Null /\ r.reopened = 0 /\ r.reopenedBefore = 0
  BY <1>7, RowStarts DEF NewRow
<1>9. OutcomeFor(s) \in Outcomes
  BY OutcomeKnown
<1>10. q = [r EXCEPT !.status = "closed", !.usual = usual, !.reconstructed = TRUE, !.closedAt = closeAt,
                     !.tier = last, !.maxTier = top, !.outcome = OutcomeFor(s)]
  BY <1>5, <1>6, <1>7 DEF WriteClosed, closeAt, told
<1> HIDE DEF q
<1>11. /\ q \in RowRec /\ q.d = d /\ q.day = Day(s.dep) /\ q.status = "closed" /\ q.reconstructed
       /\ q.checked = Null /\ q.reopened = 0 /\ q.reopenedBefore = 0
  BY <1>1, <1>8, <1>9, <1>10 DEF RowRec
<1> QED
  BY <1>11 DEF Counted, q
-----------------------------------------------------------------------------
(* Writing the rows of a pass.                                             *)

\* The places of a list of rows.
LEMMA Places ==
  ASSUME NEW rs \in Seq(RowRec)
  PROVE  DOMAIN rs = 1 .. Len(rs) /\ Len(rs) \in Nat /\ \A i \in 1 .. Len(rs) : rs[i] \in RowRec
OBVIOUS

\* The row apply picks is open, of that delivery and free for that date; a new
\* row is for a delivery with no open row and none of that date.
LEMMA RowFound ==
  ASSUME NEW rs \in Seq(RowRec), NEW d \in Deliveries, NEW day
  PROVE  /\ RowFor(rs, d, day) \in DOMAIN rs =>
              /\ RowFor(rs, d, day) \in RowsOf(rs, d) /\ Open(rs[RowFor(rs, d, day)])
              /\ rs[RowFor(rs, d, day)].day = day \/ ~HasDay(rs, d, day)
         /\ RowFor(rs, d, day) = 0 =>
              ~HasDay(rs, d, day) /\ \A i \in RowsOf(rs, d) : ~Open(rs[i])
<1> DEFINE open == {i \in RowsOf(rs, d) : Open(rs[i])}
<1>0. DOMAIN rs = 1 .. Len(rs) /\ Len(rs) \in Nat /\ Null \notin Int
  BY Parameters
<1>1. PICK S \in SUBSET Int : S = open
  <2>1. open \subseteq DOMAIN rs
    BY DEF RowsOf
  <2>2. open \in SUBSET Int
    BY <1>0, <2>1
  <2> QED
    BY <2>2
<1>2. CASE open = {}
  <2>1. RowFor(rs, d, day) = IF HasDay(rs, d, day) THEN Null ELSE 0
    BY <1>2 DEF RowFor
  <2>2. RowFor(rs, d, day) \notin DOMAIN rs
    BY <1>0, <2>1
  <2>3. RowFor(rs, d, day) = 0 => ~HasDay(rs, d, day)
    BY <1>0, <2>1
  <2> QED
    BY <1>2, <2>2, <2>3
<1>3. CASE open # {}
  <2>0. S # {} /\ \A x \in S : x >= 0
    BY <1>0, <1>1, <1>3 DEF RowsOf
  <2>1. Min(S) \in S
    BY <2>0, MinIsLeast
  <2>2. PICK i \in open : i = Min(open)
    BY <1>1, <2>1
  <2>3. RowFor(rs, d, day) = IF rs[i].day # day /\ HasDay(rs, d, day) THEN Null ELSE i
    BY <1>3, <2>2 DEF RowFor
  <2>4. i \in RowsOf(rs, d) /\ Open(rs[i]) /\ i \in DOMAIN rs /\ i # 0
    BY <1>0, <2>2 DEF RowsOf
  <2> HIDE DEF open
  <2>5. CASE rs[i].day # day /\ HasDay(rs, d, day)
    BY <1>0, <2>3, <2>5
  <2>6. CASE ~(rs[i].day # day /\ HasDay(rs, d, day))
    BY <1>0, <2>3, <2>4, <2>6
  <2> QED
    BY <2>5, <2>6
<1> QED
  BY <1>2, <1>3

\* The row a pass writes for a delivery.
Target(rs, p, d) == RowFor(rs, d, Day(p.states[d].dep))

\* What apply does to a list of rows.
Applied(rs, p, qs) ==
    /\ qs \in Seq(RowRec) /\ Len(rs) <= Len(qs)
    /\ \A i \in 1 .. Len(rs) :
          /\ Follows(rs[i], qs[i]) /\ qs[i].status = rs[i].status
          /\ \/ qs[i] = rs[i]
             \/ i = Target(rs, p, rs[i].d) /\ qs[i].day = Day(p.states[rs[i].d].dep)
    /\ \A i \in Len(rs) + 1 .. Len(qs) :
          /\ Counted(qs[i]) /\ qs[i].status = "open" /\ qs[i].d \in Deliveries /\ ~qs[i].reconstructed
          /\ Target(rs, p, qs[i].d) = 0 /\ qs[i].day = Day(p.states[qs[i].d].dep)
    /\ \A i, j \in Len(rs) + 1 .. Len(qs) : qs[i].d = qs[j].d => i = j

\* Apply judges the row of each delivery it names, and starts those that have none.
LEMMA RowsApplied ==
  ASSUME NEW rs \in Seq(RowRec), NEW p, Evaluation(p)
  PROVE  Applied(rs, p, Apply(rs, p))
<1> DEFINE named == {d \in Deliveries : p.states[d] # Null}
           target == [d \in named |-> RowFor(rs, d, Day(p.states[d].dep))]
           fresh == {d \in named : target[d] = 0}
           new == SetToSeq(fresh)
           judged == [i \in DOMAIN rs |->
                         IF rs[i].d \in named /\ target[rs[i].d] = i
                         THEN Judge(rs[i], p.states[rs[i].d], p) ELSE rs[i]]
           started == [k \in DOMAIN new |-> Judge(NewRow(new[k], p.states[new[k]]), p.states[new[k]], p)]
<1>0. Apply(rs, p) = judged \o started
  BY DEF Apply
<1>1. \A d \in named : d \in Deliveries /\ p.states[d] \in StateRec /\ target[d] = Target(rs, p, d)
  BY DEF Evaluation, Read, Target
<1>2. /\ new \in Seq(fresh) /\ DOMAIN new = 1 .. Len(new) /\ Len(new) \in Nat
      /\ \A i, j \in 1 .. Len(new) : new[i] = new[j] => i = j
  <2>1. fresh \in SUBSET Deliveries /\ IsFiniteSet(Deliveries)
    BY Parameters
  <2> HIDE DEF fresh
  <2>2. IsFiniteSet(fresh)
    BY <2>1, FS_Subset
  <2> QED
    BY <2>2, SetHasSequence
<1>3. \A d \in fresh : d \in named /\ Target(rs, p, d) = 0
  BY <1>1
<1> HIDE DEF target, fresh
<1>4. /\ DOMAIN rs = 1 .. Len(rs) /\ Len(rs) \in Nat
      /\ judged \in Seq(RowRec) /\ Len(judged) = Len(rs)
      /\ \A i \in 1 .. Len(rs) :
            /\ Follows(rs[i], judged[i]) /\ judged[i].status = rs[i].status
            /\ \/ judged[i] = rs[i]
               \/ i = Target(rs, p, rs[i].d) /\ judged[i].day = Day(p.states[rs[i].d].dep)
  <2>1. DOMAIN rs = 1 .. Len(rs) /\ Len(rs) \in Nat /\ \A i \in 1 .. Len(rs) : rs[i] \in RowRec
    OBVIOUS
  <2>2. ASSUME NEW i \in 1 .. Len(rs)
        PROVE  /\ judged[i] \in RowRec
               /\ Follows(rs[i], judged[i]) /\ judged[i].status = rs[i].status
               /\ \/ judged[i] = rs[i]
                  \/ i = Target(rs, p, rs[i].d) /\ judged[i].day = Day(p.states[rs[i].d].dep)
    <3>1. CASE rs[i].d \in named /\ target[rs[i].d] = i
      <4>1. judged[i] = Judge(rs[i], p.states[rs[i].d], p)
        BY <2>1, <2>2, <3>1
      <4>2. p.states[rs[i].d] \in StateRec /\ i = Target(rs, p, rs[i].d)
        BY <1>1, <3>1
      <4> HIDE DEF judged, named
      <4>3. /\ Follows(rs[i], judged[i]) /\ judged[i].status = rs[i].status
            /\ judged[i].day = Day(p.states[rs[i].d].dep)
        BY <2>1, <4>1, <4>2, RowJudged
      <4> QED
        BY <4>2, <4>3 DEF Follows
    <3>2. CASE ~(rs[i].d \in named /\ target[rs[i].d] = i)
      <4>1. judged[i] = rs[i]
        BY <2>1, <2>2, <3>2
      <4> QED
        BY <2>1, <4>1 DEF Follows
    <3> QED
      BY <3>1, <3>2
  <2>3. DOMAIN judged = 1 .. Len(rs)
    BY <2>1
  <2> HIDE DEF judged
  <2>4. judged = [i \in 1 .. Len(rs) |-> judged[i]]
    BY <2>1, <2>3 DEF judged
  <2>5. judged \in [1 .. Len(rs) -> RowRec]
    BY <2>2, <2>4
  <2>6. judged \in Seq(RowRec) /\ Len(judged) = Len(rs)
    BY <2>1, <2>5
  <2> QED
    BY <2>1, <2>2, <2>6
<1>5. /\ started \in Seq(RowRec) /\ Len(started) = Len(new)
      /\ \A k \in 1 .. Len(new) :
            /\ Counted(started[k]) /\ started[k].status = "open" /\ started[k].d = new[k]
            /\ ~started[k].reconstructed
            /\ started[k].day = Day(p.states[new[k]].dep)
  <2>1. ASSUME NEW k \in 1 .. Len(new)
        PROVE  /\ started[k] \in RowRec /\ started[k].d = new[k]
               /\ Counted(started[k]) /\ started[k].status = "open" /\ ~started[k].reconstructed
               /\ started[k].day = Day(p.states[new[k]].dep)
    <3> DEFINE s == p.states[new[k]]
               r == NewRow(new[k], s)
    <3>1. new[k] \in fresh
      BY <1>2
    <3>2. new[k] \in Deliveries /\ s \in StateRec
      BY <1>1, <1>3, <3>1
    <3>3. started[k] = Judge(r, s, p)
      BY <1>2
    <3> HIDE DEF started, new, s
    <3>4. r \in RowRec /\ Counted(r) /\ r.d = new[k] /\ r.status = "open" /\ ~r.reconstructed
      BY <3>2, RowStarts
    <3> HIDE DEF r
    <3>5. Follows(r, started[k]) /\ started[k].status = r.status /\ started[k].day = Day(s.dep)
      BY <3>2, <3>3, <3>4, RowJudged
    <3> QED
      BY <3>4, <3>5 DEF Follows, s
  <2>2. DOMAIN started = 1 .. Len(new)
    BY <1>2
  <2>3. started = [k \in 1 .. Len(new) |-> started[k]]
    BY <1>2
  <2> HIDE DEF started, new
  <2>4. started \in [1 .. Len(new) -> RowRec]
    BY <2>1, <2>3
  <2>5. started \in Seq(RowRec) /\ Len(started) = Len(new)
    BY <1>2, <2>4
  <2> QED
    BY <2>1, <2>5
<1> HIDE DEF judged, started, new
<1>6. PICK qs : qs = judged \o started
  OBVIOUS
<1>7. /\ qs \in Seq(RowRec) /\ Len(qs) = Len(rs) + Len(new)
      /\ \A i \in 1 .. Len(rs) : qs[i] = judged[i]
      /\ \A i \in Len(rs) + 1 .. Len(qs) : i - Len(rs) \in 1 .. Len(new) /\ qs[i] = started[i - Len(rs)]
  <2>1. /\ qs \in Seq(RowRec) /\ Len(qs) = Len(judged) + Len(started)
        /\ \A i \in 1 .. Len(judged) : qs[i] = judged[i]
        /\ \A i \in Len(judged) + 1 .. Len(judged) + Len(started) : qs[i] = started[i - Len(judged)]
    <3>1. judged \in Seq(RowRec) /\ started \in Seq(RowRec)
      BY <1>4, <1>5
    <3>2. /\ judged \o started \in Seq(RowRec) /\ Len(judged \o started) = Len(judged) + Len(started)
          /\ \A i \in 1 .. Len(judged) : (judged \o started)[i] = judged[i]
          /\ \A i \in Len(judged) + 1 .. Len(judged) + Len(started) :
                (judged \o started)[i] = started[i - Len(judged)]
      BY <3>1, Appended
    <3> QED
      BY <1>6, <3>2
  <2>2. Len(judged) = Len(rs) /\ Len(started) = Len(new) /\ Len(rs) \in Nat /\ Len(new) \in Nat
    BY <1>2, <1>4, <1>5
  <2>3. \A i \in Len(rs) + 1 .. Len(qs) : i - Len(rs) \in 1 .. Len(new)
    BY <2>1, <2>2
  <2> QED
    BY <2>1, <2>2, <2>3
<1>8. ASSUME NEW i \in Len(rs) + 1 .. Len(qs)
      PROVE  /\ Counted(qs[i]) /\ qs[i].status = "open" /\ qs[i].d = new[i - Len(rs)] /\ qs[i].d \in Deliveries
             /\ Target(rs, p, qs[i].d) = 0 /\ qs[i].day = Day(p.states[qs[i].d].dep)
             /\ ~qs[i].reconstructed
  <2>1. PICK k \in 1 .. Len(new) : k = i - Len(rs)
    BY <1>7
  <2>2. qs[i] = started[k] /\ new[k] \in fresh
    BY <1>2, <1>7, <2>1
  <2> QED
    BY <1>1, <1>3, <1>5, <2>1, <2>2
<1>9. ASSUME NEW i \in Len(rs) + 1 .. Len(qs), NEW j \in Len(rs) + 1 .. Len(qs), qs[i].d = qs[j].d
      PROVE  i = j
  <2>1. new[i - Len(rs)] = new[j - Len(rs)]
    BY <1>8, <1>9
  <2>2. i - Len(rs) = j - Len(rs)
    BY <1>2, <1>7, <2>1
  <2> QED
    BY <1>4, <1>7, <2>2
<1>10. Applied(rs, p, qs)
  <2>1. Len(rs) <= Len(qs)
    BY <1>2, <1>4, <1>7
  <2>2. \A i \in 1 .. Len(rs) :
           /\ Follows(rs[i], qs[i]) /\ qs[i].status = rs[i].status
           /\ \/ qs[i] = rs[i]
              \/ i = Target(rs, p, rs[i].d) /\ qs[i].day = Day(p.states[rs[i].d].dep)
    BY <1>4, <1>7
  <2> QED
    BY <1>7, <1>8, <1>9, <2>1, <2>2 DEF Applied
<1> QED
  BY <1>0, <1>6, <1>10
\* Judging a delivery gives it no second row of a date and no second open row.
LEMMA OneRowApplied ==
  ASSUME NEW rs \in Seq(RowRec), NEW p, NEW qs, Applied(rs, p, qs), OneRow(rs)
  PROVE  OneRow(qs)
<1>0. /\ DOMAIN rs = 1 .. Len(rs) /\ Len(rs) \in Nat /\ \A i \in 1 .. Len(rs) : rs[i] \in RowRec
      /\ DOMAIN qs = 1 .. Len(qs) /\ Len(qs) \in Nat /\ \A i \in 1 .. Len(qs) : qs[i] \in RowRec
  BY DEF Applied
<1>1. \A d, i : i \in RowsOf(rs, d) <=> i \in 1 .. Len(rs) /\ rs[i].d = d /\ rs[i].status # "deleted"
  BY <1>0 DEF RowsOf
<1>2. \A d, i : i \in RowsOf(qs, d) <=> i \in 1 .. Len(qs) /\ qs[i].d = d /\ qs[i].status # "deleted"
  BY <1>0 DEF RowsOf
<1> SUFFICES ASSUME NEW d \in Deliveries, NEW i \in RowsOf(qs, d), NEW j \in RowsOf(qs, d), i # j
             PROVE  qs[i].day # qs[j].day /\ ~(Open(qs[i]) /\ Open(qs[j]))
  BY DEF OneRow
<1> DEFINE day == Day(p.states[d].dep)
           t == Target(rs, p, d)
<1>3. /\ i \in 1 .. Len(qs) /\ j \in 1 .. Len(qs) /\ qs[i].d = d /\ qs[j].d = d
      /\ qs[i].status # "deleted" /\ qs[j].status # "deleted"
  BY <1>2
<1>4. /\ t \in 1 .. Len(rs) =>
            /\ t \in RowsOf(rs, d) /\ Open(rs[t])
            /\ rs[t].day = day \/ ~HasDay(rs, d, day)
      /\ t = 0 => ~HasDay(rs, d, day) /\ \A k \in RowsOf(rs, d) : ~Open(rs[k])
  BY <1>0, RowFound DEF Target
<1>5. \A k \in 1 .. Len(rs) : k \in RowsOf(qs, d) =>
         /\ k \in RowsOf(rs, d) /\ qs[k].status = rs[k].status
         /\ qs[k].day = rs[k].day \/ (k = t /\ qs[k].day = day)
  BY <1>1, <1>2 DEF Applied, Follows
<1>6. \A k \in Len(rs) + 1 .. Len(qs) : k \in RowsOf(qs, d) => t = 0 /\ qs[k].day = day
  BY <1>2 DEF Applied
<1> HIDE DEF day, t
<1>7. ASSUME NEW a \in RowsOf(qs, d), NEW b \in RowsOf(qs, d), a \in 1 .. Len(rs), b \in Len(rs) + 1 .. Len(qs)
      PROVE  qs[a].day # qs[b].day /\ ~(Open(qs[a]) /\ Open(qs[b]))
  <2>1. t = 0 /\ qs[b].day = day
    BY <1>6, <1>7
  <2>2. a \in RowsOf(rs, d) /\ qs[a].status = rs[a].status /\ qs[a].day = rs[a].day
    BY <1>0, <1>5, <1>7, <2>1
  <2>3. ~HasDay(rs, d, day) /\ ~Open(rs[a])
    BY <1>4, <2>1, <2>2
  <2>4. rs[a].day # day
    BY <2>2, <2>3 DEF HasDay
  <2> QED
    BY <2>1, <2>2, <2>3, <2>4 DEF Open
<1>8. CASE i \in 1 .. Len(rs) /\ j \in 1 .. Len(rs)
  <2>1. /\ i \in RowsOf(rs, d) /\ qs[i].status = rs[i].status
        /\ j \in RowsOf(rs, d) /\ qs[j].status = rs[j].status
    BY <1>5, <1>8
  <2>2. rs[i].day # rs[j].day /\ ~(Open(rs[i]) /\ Open(rs[j]))
    BY <2>1 DEF OneRow
  <2>3. ~(Open(qs[i]) /\ Open(qs[j]))
    BY <2>1, <2>2 DEF Open
  <2>4. ASSUME NEW a \in RowsOf(rs, d), NEW b \in RowsOf(rs, d), a # b, a = t, qs[a].day = day, b # t,
               a \in 1 .. Len(rs), qs[b].day = rs[b].day, rs[a].day # rs[b].day
        PROVE  qs[a].day # qs[b].day
    <3>1. rs[a].day = day \/ ~HasDay(rs, d, day)
      BY <1>4, <2>4
    <3>2. ASSUME rs[b].day = day PROVE FALSE
      <4>1. HasDay(rs, d, day)
        BY <3>2 DEF HasDay
      <4> QED
        BY <2>4, <3>1, <3>2, <4>1
    <3> QED
      BY <2>4, <3>2
  <2>5. CASE i = t
    BY <1>5, <1>8, <2>1, <2>2, <2>3, <2>4, <2>5
  <2>6. CASE j = t
    BY <1>5, <1>8, <2>1, <2>2, <2>3, <2>4, <2>6
  <2>7. CASE i # t /\ j # t
    BY <1>5, <1>8, <2>1, <2>2, <2>3, <2>7
  <2> QED
    BY <2>5, <2>6, <2>7
<1>9. CASE i \in Len(rs) + 1 .. Len(qs) /\ j \in Len(rs) + 1 .. Len(qs)
  BY <1>3, <1>9 DEF Applied
<1>10. i \in 1 .. Len(rs) \/ i \in Len(rs) + 1 .. Len(qs)
  BY <1>0, <1>3
<1>11. j \in 1 .. Len(rs) \/ j \in Len(rs) + 1 .. Len(qs)
  BY <1>0, <1>3
<1> QED
  BY <1>7, <1>8, <1>9, <1>10, <1>11

\* What a pass leaves of a list of rows: the ones no longer open are untouched.
Evaluated(rs, p, qs) ==
    /\ qs \in Seq(RowRec) /\ Len(rs) <= Len(qs)
    /\ \A i \in 1 .. Len(rs) :
          /\ Follows(rs[i], qs[i])
          /\ qs[i] = rs[i] \/ (Open(rs[i]) /\ (Open(qs[i]) \/ ClosedBy(p, qs[i])))
    /\ \A i \in Len(rs) + 1 .. Len(qs) :
          Counted(qs[i]) /\ ~qs[i].reconstructed /\ (Open(qs[i]) \/ ClosedBy(p, qs[i]))
    /\ OneRow(rs) => OneRow(qs)

\* A pass judges, closes and sweeps.
LEMMA RowsEvaluated ==
  ASSUME NEW rs \in Seq(RowRec), NEW p, Evaluation(p)
  PROVE  Evaluated(rs, p, EvaluateRows(rs, p))
<1>1. PICK bs : bs = Apply(rs, p)
  OBVIOUS
<1>2. Applied(rs, p, bs)
  BY <1>1, RowsApplied
<1>3. PICK qs : qs = [i \in DOMAIN bs |-> Finish(bs[i], p)]
  OBVIOUS
<1>4. qs = EvaluateRows(rs, p)
  <2> DEFINE closed == [i \in DOMAIN bs |-> IF Due(bs[i], p.at) THEN CloseDue(bs[i], p) ELSE bs[i]]
  <2>1. EvaluateRows(rs, p) = [i \in DOMAIN closed |-> Sweep(closed[i], p.at)]
    BY <1>1 DEF EvaluateRows
  <2>2. DOMAIN closed = DOMAIN bs
    OBVIOUS
  <2>3. \A i \in DOMAIN bs : Sweep(closed[i], p.at) = Finish(bs[i], p)
    BY DEF Finish
  <2> HIDE DEF closed
  <2> QED
    BY <1>3, <2>1, <2>2, <2>3
<1>5. /\ bs \in Seq(RowRec) /\ DOMAIN bs = 1 .. Len(bs) /\ Len(bs) \in Nat
      /\ Len(rs) \in Nat /\ Len(rs) <= Len(bs) /\ \A i \in 1 .. Len(bs) : bs[i] \in RowRec
  <2>1. bs \in Seq(RowRec) /\ Len(rs) <= Len(bs)
    BY <1>2 DEF Applied
  <2>2. Len(rs) \in Nat
    OBVIOUS
  <2>3. DOMAIN bs = 1 .. Len(bs) /\ Len(bs) \in Nat /\ \A i \in 1 .. Len(bs) : bs[i] \in RowRec
    BY <2>1, Places
  <2> QED
    BY <2>1, <2>2, <2>3
<1>6. ASSUME NEW i \in 1 .. Len(bs)
      PROVE  /\ Follows(bs[i], qs[i]) /\ qs[i].day = bs[i].day
             /\ qs[i] = bs[i] \/ (Open(bs[i]) /\ ClosedBy(p, qs[i]))
  <2>1. qs[i] = Finish(bs[i], p) /\ bs[i] \in RowRec
    BY <1>3, <1>5
  <2> QED
    BY <2>1, RowFinished
<1>7. qs \in Seq(RowRec) /\ Len(qs) = Len(bs)
  <2>1. \A i \in 1 .. Len(bs) : qs[i] \in RowRec
    BY <1>6 DEF Follows
  <2>2. qs \in [1 .. Len(bs) -> RowRec]
    BY <1>3, <1>5, <2>1
  <2>3. PICK n \in Nat : n = Len(bs)
    BY <1>5
  <2>4. qs \in [1 .. n -> RowRec]
    BY <2>2, <2>3
  <2>5. qs \in Seq(RowRec) /\ Len(qs) = n
    BY <2>4
  <2> QED
    BY <2>3, <2>5
<1>8. ASSUME NEW i \in 1 .. Len(rs)
      PROVE  /\ Follows(rs[i], qs[i])
             /\ qs[i] = rs[i] \/ (Open(rs[i]) /\ (Open(qs[i]) \/ ClosedBy(p, qs[i])))
  <2>0. DOMAIN rs = 1 .. Len(rs) /\ rs[i] \in RowRec
    BY Places
  <2>1. i \in 1 .. Len(bs)
    <3>1. PICK n \in Nat, m \in Nat : n = Len(rs) /\ m = Len(bs)
      BY <1>5
    <3>2. n <= m /\ i \in 1 .. n
      BY <1>5, <3>1
    <3> QED
      BY <3>1, <3>2
  <2>2. Follows(rs[i], bs[i]) /\ bs[i].status = rs[i].status
    BY <1>2 DEF Applied
  <2>3. Follows(bs[i], qs[i]) /\ (qs[i] = bs[i] \/ (Open(bs[i]) /\ ClosedBy(p, qs[i])))
    BY <1>6, <2>1
  <2>4. Follows(rs[i], qs[i])
    BY <2>2, <2>3 DEF Follows
  <2>5. bs[i] = rs[i] \/ Open(rs[i])
    <3>1. bs[i] = rs[i] \/ i = Target(rs, p, rs[i].d)
      BY <1>2 DEF Applied
    <3>2. rs[i].d \in Deliveries
      BY <2>0 DEF RowRec
    <3>3. i = Target(rs, p, rs[i].d) => Open(rs[i])
      BY <2>0, <3>2, RowFound DEF Target
    <3> QED
      BY <3>1, <3>3
  <2> QED
    BY <2>2, <2>3, <2>4, <2>5 DEF Open
<1>9. ASSUME NEW i \in Len(rs) + 1 .. Len(qs)
      PROVE  Counted(qs[i]) /\ ~qs[i].reconstructed /\ (Open(qs[i]) \/ ClosedBy(p, qs[i]))
  <2>1. i \in 1 .. Len(bs) /\ i \in Len(rs) + 1 .. Len(bs)
    <3>1. PICK n \in Nat, m \in Nat : n = Len(rs) /\ m = Len(bs)
      BY <1>5
    <3>2. n <= m /\ i \in n + 1 .. m
      BY <1>5, <1>7, <3>1
    <3> QED
      BY <3>1, <3>2
  <2>2. Counted(bs[i]) /\ bs[i].status = "open" /\ ~bs[i].reconstructed
    BY <1>2, <2>1 DEF Applied
  <2> QED
    BY <1>6, <2>1, <2>2 DEF Follows, Open
<1>10. OneRow(rs) => OneRow(qs)
  <2> SUFFICES ASSUME OneRow(rs) PROVE OneRow(qs)
    OBVIOUS
  <2>1. OneRow(bs)
    BY <1>2, OneRowApplied
  <2>2. ASSUME NEW d \in Deliveries, NEW i \in RowsOf(qs, d)
        PROVE  /\ i \in RowsOf(bs, d) /\ qs[i].day = bs[i].day
               /\ Open(qs[i]) => Open(bs[i])
    <3>1. i \in 1 .. Len(bs) /\ qs[i].d = d /\ qs[i].status # "deleted"
      BY <1>3, <1>5 DEF RowsOf
    <3>2. /\ Follows(bs[i], qs[i]) /\ qs[i].day = bs[i].day
          /\ qs[i] = bs[i] \/ (Open(bs[i]) /\ ClosedBy(p, qs[i]))
      BY <1>6, <3>1
    <3> QED
      BY <1>5, <3>1, <3>2 DEF RowsOf, Follows, Open, ClosedBy
  <2>3. ASSUME NEW d \in Deliveries, NEW i \in RowsOf(qs, d), NEW j \in RowsOf(qs, d), i # j
        PROVE  qs[i].day # qs[j].day /\ ~(Open(qs[i]) /\ Open(qs[j]))
    <3>1. /\ i \in RowsOf(bs, d) /\ qs[i].day = bs[i].day /\ (Open(qs[i]) => Open(bs[i]))
          /\ j \in RowsOf(bs, d) /\ qs[j].day = bs[j].day /\ (Open(qs[j]) => Open(bs[j]))
      BY <2>2
    <3> QED
      BY <2>1, <2>3, <3>1 DEF OneRow
  <2> QED
    BY <2>3 DEF OneRow
<1>11. Evaluated(rs, p, qs)
  BY <1>5, <1>7, <1>8, <1>9, <1>10 DEF Evaluated
<1> QED
  BY <1>4, <1>11
-----------------------------------------------------------------------------
(* Writing the rows of a backfill.                                         *)

\* The row a backfill writes for a delivery.
Replayed(d, f) == WriteClosed(d, f.states[d], ClockFor(f.states[d], f.profile))

\* What a backfill leaves of a list of rows: those the board wrote are untouched,
\* those it replaces only change their status, and it adds rows it replayed.
Backfilled(rs, f, qs) ==
    /\ qs \in Seq(RowRec) /\ Len(rs) <= Len(qs)
    /\ \A i \in 1 .. Len(rs) :
          /\ Follows(rs[i], qs[i])
          /\ qs[i] = rs[i] \/ (rs[i].reconstructed /\ qs[i] = [rs[i] EXCEPT !.status = "deleted"])
    /\ \A i \in Len(rs) + 1 .. Len(qs) :
          /\ Counted(qs[i]) /\ qs[i].reconstructed
          /\ \E d \in Deliveries : f.states[d] # Null /\ qs[i] = Replayed(d, f)
    /\ OneRow(rs) => OneRow(qs)

\* What a backfill holds: states of departures of its day.
Replay(f) ==
    /\ f.profile \in ProfileRec /\ Read(f.states)
    /\ \A d \in Deliveries : f.states[d] # Null => Day(f.states[d].dep) = f.day

\* A backfill takes away reconstructed rows only, and adds a closed row of its
\* day for each delivery that has none of it.
LEMMA DayBackfilled ==
  ASSUME NEW rs \in Seq(RowRec), NEW f, Replay(f)
  PROVE  Backfilled(rs, f, BackfillDay(rs, f))
<1> DEFINE kept == [i \in DOMAIN rs |-> IF f.replace /\ rs[i].day = f.day /\ Replaceable(rs[i])
                                        THEN [rs[i] EXCEPT !.status = "deleted"] ELSE rs[i]]
           fresh == {d \in Deliveries : f.states[d] # Null /\ ~HasDay(kept, d, f.day)}
           new == SetToSeq(fresh)
           written == [k \in DOMAIN new |->
                          WriteClosed(new[k], f.states[new[k]], ClockFor(f.states[new[k]], f.profile))]
<1>0. BackfillDay(rs, f) = kept \o written
  BY DEF BackfillDay
<1>1. /\ DOMAIN rs = 1 .. Len(rs) /\ Len(rs) \in Nat /\ \A i \in 1 .. Len(rs) : rs[i] \in RowRec
  BY Places
<1>2. ASSUME NEW i \in 1 .. Len(rs)
      PROVE  /\ Follows(rs[i], kept[i])
             /\ \/ kept[i] = rs[i]
                \/ /\ rs[i].reconstructed /\ kept[i].status = "deleted"
                   /\ kept[i] = [rs[i] EXCEPT !.status = "deleted"]
  <2>1. CASE f.replace /\ rs[i].day = f.day /\ Replaceable(rs[i])
    <3>1. kept[i] = [rs[i] EXCEPT !.status = "deleted"] /\ rs[i] \in RowRec
      BY <1>1, <2>1
    <3> HIDE DEF kept
    <3>2. /\ kept[i] \in RowRec /\ kept[i].status = "deleted"
          /\ kept[i].d = rs[i].d /\ kept[i].reconstructed = rs[i].reconstructed
          /\ kept[i].checked = rs[i].checked /\ kept[i].raced = rs[i].raced
          /\ kept[i].reopenedBefore = rs[i].reopenedBefore
          /\ kept[i].tier = rs[i].tier /\ kept[i].reopened = rs[i].reopened
      BY <3>1 DEF RowRec
    <3> QED
      BY <2>1, <3>1, <3>2 DEF Follows, Counted, Replaceable
  <2>2. CASE ~(f.replace /\ rs[i].day = f.day /\ Replaceable(rs[i]))
    <3>1. kept[i] = rs[i] /\ rs[i] \in RowRec
      BY <1>1, <2>2
    <3> HIDE DEF kept
    <3> QED
      BY <3>1 DEF Follows
  <2> QED
    BY <2>1, <2>2
<1>3. DOMAIN kept = 1 .. Len(rs) /\ kept = [i \in 1 .. Len(rs) |-> kept[i]]
  BY <1>1
<1>4. /\ new \in Seq(fresh) /\ DOMAIN new = 1 .. Len(new) /\ Len(new) \in Nat
      /\ \A i, j \in 1 .. Len(new) : new[i] = new[j] => i = j
  <2>1. fresh \in SUBSET Deliveries /\ IsFiniteSet(Deliveries)
    BY Parameters
  <2> HIDE DEF fresh
  <2>2. IsFiniteSet(fresh)
    BY <2>1, FS_Subset
  <2> QED
    BY <2>2, SetHasSequence
<1>5. \A d \in fresh : d \in Deliveries /\ f.states[d] \in StateRec /\ Day(f.states[d].dep) = f.day
                       /\ ~HasDay(kept, d, f.day)
  BY DEF Replay, Read
<1> HIDE DEF kept, fresh
<1>6. kept \in Seq(RowRec) /\ Len(kept) = Len(rs)
  <2>1. kept \in [1 .. Len(rs) -> RowRec]
    BY <1>2, <1>3 DEF Follows
  <2>2. PICK n \in Nat : n = Len(rs)
    BY <1>1
  <2>3. kept \in [1 .. n -> RowRec]
    BY <2>1, <2>2
  <2>4. kept \in Seq(RowRec) /\ Len(kept) = n
    BY <2>3
  <2> QED
    BY <2>2, <2>4
<1>7. ASSUME NEW k \in 1 .. Len(new)
      PROVE  /\ written[k] \in RowRec /\ Counted(written[k])
             /\ written[k].d = new[k] /\ written[k].day = f.day /\ new[k] \in fresh
             /\ written[k].status = "closed" /\ written[k].reconstructed
             /\ written[k] = Replayed(new[k], f)
  <2>1. PICK d \in fresh : d = new[k]
    BY <1>4
  <2>2. PICK s \in StateRec : s = f.states[d]
    BY <1>5
  <2>3. PICK usual \in Int : usual = ClockFor(s, f.profile)
    BY ClockKnown DEF Replay
  <2>4. written[k] = WriteClosed(d, s, usual)
    BY <1>4, <2>1, <2>2, <2>3
  <2> HIDE DEF written
  <2>5. d \in Deliveries /\ Day(s.dep) = f.day
    BY <1>5, <2>2
  <2>6. WriteClosed(d, s, usual) = Replayed(new[k], f)
    BY <2>1, <2>2, <2>3 DEF Replayed
  <2> QED
    BY <2>1, <2>4, <2>5, <2>6, RowReplayed
<1>8. DOMAIN written = 1 .. Len(new) /\ written = [k \in 1 .. Len(new) |-> written[k]]
  BY <1>4
<1> HIDE DEF written, new
<1>9. written \in Seq(RowRec) /\ Len(written) = Len(new)
  <2>1. written \in [1 .. Len(new) -> RowRec]
    BY <1>7, <1>8
  <2>2. PICK n \in Nat : n = Len(new)
    BY <1>4
  <2>3. written \in [1 .. n -> RowRec]
    BY <2>1, <2>2
  <2>4. written \in Seq(RowRec) /\ Len(written) = n
    BY <2>3
  <2> QED
    BY <2>2, <2>4
<1>10. PICK qs : qs = kept \o written
  OBVIOUS
<1>11. /\ qs \in Seq(RowRec) /\ Len(qs) = Len(rs) + Len(new)
       /\ \A i \in 1 .. Len(rs) : qs[i] = kept[i]
       /\ \A i \in Len(rs) + 1 .. Len(qs) : i - Len(rs) \in 1 .. Len(new) /\ qs[i] = written[i - Len(rs)]
  <2>1. /\ kept \o written \in Seq(RowRec) /\ Len(kept \o written) = Len(kept) + Len(written)
        /\ \A i \in 1 .. Len(kept) : (kept \o written)[i] = kept[i]
        /\ \A i \in Len(kept) + 1 .. Len(kept) + Len(written) : (kept \o written)[i] = written[i - Len(kept)]
    <3>1. kept \in Seq(RowRec)
      BY <1>6
    <3> QED
      BY <3>1, <1>9, Appended
  <2>2. Len(kept) = Len(rs) /\ Len(written) = Len(new) /\ Len(rs) \in Nat /\ Len(new) \in Nat
    BY <1>1, <1>4, <1>6, <1>9
  <2>3. \A i \in Len(rs) + 1 .. Len(rs) + Len(new) : i - Len(rs) \in 1 .. Len(new)
    BY <2>2
  <2> QED
    BY <1>10, <2>1, <2>2, <2>3
<1>12. ASSUME NEW i \in Len(rs) + 1 .. Len(qs)
       PROVE  /\ Counted(qs[i]) /\ qs[i].reconstructed /\ qs[i].status = "closed" /\ qs[i].day = f.day
              /\ qs[i].d = new[i - Len(rs)] /\ qs[i].d \in fresh
              /\ qs[i] = Replayed(qs[i].d, f)
  <2>1. PICK k \in 1 .. Len(new) : k = i - Len(rs)
    BY <1>11
  <2>2. qs[i] = written[k]
    BY <1>11, <2>1
  <2> QED
    BY <1>7, <2>1, <2>2
<1>13. OneRow(rs) => OneRow(qs)
  <2> SUFFICES ASSUME OneRow(rs), NEW d \in Deliveries,
                      NEW i \in RowsOf(qs, d), NEW j \in RowsOf(qs, d), i # j
               PROVE  qs[i].day # qs[j].day /\ ~(Open(qs[i]) /\ Open(qs[j]))
    BY DEF OneRow
  <2>0. DOMAIN qs = 1 .. Len(qs)
    BY <1>11, Places
  <2>1. /\ i \in 1 .. Len(qs) /\ qs[i].d = d /\ qs[i].status # "deleted"
        /\ j \in 1 .. Len(qs) /\ qs[j].d = d /\ qs[j].status # "deleted"
    BY <2>0 DEF RowsOf
  <2>2. \A k \in 1 .. Len(rs) : k \in RowsOf(qs, d) =>
           k \in RowsOf(rs, d) /\ k \in RowsOf(kept, d) /\ qs[k] = rs[k] /\ kept[k] = rs[k]
    BY <1>1, <1>2, <1>3, <1>11, <2>0 DEF RowsOf
  <2>3. \A k \in Len(rs) + 1 .. Len(qs) : k \in RowsOf(qs, d) =>
           qs[k].day = f.day /\ ~Open(qs[k]) /\ ~HasDay(kept, d, f.day)
    BY <1>5, <1>12, <2>0 DEF RowsOf, Open
  <2>4. ASSUME NEW a \in RowsOf(qs, d), NEW b \in RowsOf(qs, d), a \in 1 .. Len(rs), b \in Len(rs) + 1 .. Len(qs)
        PROVE  qs[a].day # qs[b].day /\ ~(Open(qs[a]) /\ Open(qs[b]))
    BY <2>2, <2>3, <2>4 DEF HasDay
  <2>5. CASE i \in 1 .. Len(rs) /\ j \in 1 .. Len(rs)
    BY <2>2, <2>5 DEF OneRow
  <2>6. CASE i \in Len(rs) + 1 .. Len(qs) /\ j \in Len(rs) + 1 .. Len(qs)
    <3>1. new[i - Len(rs)] = new[j - Len(rs)]
      BY <1>12, <2>1, <2>6
    <3>2. i - Len(rs) = j - Len(rs)
      BY <1>4, <1>11, <2>6, <3>1
    <3> QED
      BY <1>1, <2>1, <2>6, <3>2
  <2>7. i \in 1 .. Len(rs) \/ i \in Len(rs) + 1 .. Len(qs)
    BY <1>1, <2>1
  <2>8. j \in 1 .. Len(rs) \/ j \in Len(rs) + 1 .. Len(qs)
    BY <1>1, <2>1
  <2> QED
    BY <2>4, <2>5, <2>6, <2>7, <2>8
<1>14. Backfilled(rs, f, qs)
  <2>1. Len(rs) <= Len(qs)
    BY <1>1, <1>4, <1>11
  <2>2. \A i \in 1 .. Len(rs) :
           /\ Follows(rs[i], qs[i])
           /\ qs[i] = rs[i] \/ (rs[i].reconstructed /\ qs[i] = [rs[i] EXCEPT !.status = "deleted"])
    BY <1>2, <1>11
  <2>3. \A d \in fresh : d \in Deliveries /\ f.states[d] # Null
    BY DEF fresh
  <2>4. \A i \in Len(rs) + 1 .. Len(qs) :
           /\ Counted(qs[i]) /\ qs[i].reconstructed
           /\ \E d \in Deliveries : f.states[d] # Null /\ qs[i] = Replayed(d, f)
    BY <1>12, <2>3
  <2> QED
    BY <1>11, <1>13, <2>1, <2>2, <2>4 DEF Backfilled
<1> QED
  BY <1>0, <1>10, <1>14
-----------------------------------------------------------------------------
(* Reading the warehouse.                                                  *)

\* The places of a list of routing calls, and its last one.
LEMMA CallPlaces ==
  ASSUME NEW calls \in Seq(CallRec)
  PROVE  /\ DOMAIN calls = 1 .. Len(calls) /\ Len(calls) \in Nat
         /\ \A k \in 1 .. Len(calls) : calls[k] \in CallRec
         /\ calls # <<>> => calls[Len(calls)] \in CallRec
<1>1. calls # <<>> => Len(calls) >= 1
  OBVIOUS
<1> QED
  BY <1>1

\* The newest profile up to a day, or the empty one.
LEMMA ProfileRead ==
  ASSUME Shape, NEW asOf
  PROVE  Latest(asOf) \in ProfileRec
<1> DEFINE of == {k \in Days : k <= asOf /\ profiles[k] # Null}
<1>1. CASE of = {}
  BY <1>1, Parameters DEF Latest, ProfileRec
<1>2. CASE of # {}
  <2>0. Day(MaxTime) \in Nat
    BY Parameters, DayOf
  <2>1. PICK S \in SUBSET Int : S = of
    <3>1. Days \subseteq Int
      BY <2>0 DEF Days
    <3>2. of \in SUBSET Int
      BY <3>1
    <3> QED
      BY <3>2
  <2>2. PICK b \in Int : S # {} /\ \A k \in S : k <= b
    <3>1. PICK b \in Int : b = Day(MaxTime)
      BY <2>0
    <3>2. S # {} /\ \A k \in S : k <= b
      BY <1>2, <2>1, <3>1 DEF Days
    <3> QED
      BY <3>1, <3>2
  <2>3. Max(S) \in S
    BY <2>1, <2>2, MaxIsGreatest
  <2>4. PICK k \in of : k = Max(of)
    BY <2>1, <2>3
  <2>5. Latest(asOf) = profiles[k]
    BY <1>2, <2>4 DEF Latest
  <2> QED
    BY <2>4, <2>5 DEF Shape
<1> QED
  BY <1>1, <1>2

\* What a read finds of a delivery is a state of the departure it asks for.
LEMMA StateRead ==
  ASSUME Shape, NEW d \in Deliveries, NEW dep \in Departures, NEW lo, NEW hi, NEW loads \in BOOLEAN
  PROVE  Assemble(d, dep, lo, hi, loads) \in StateRec /\ Assemble(d, dep, lo, hi, loads).dep = dep
<1>1. PICK w \in WarehouseRec : w = wh[d]
  BY DEF Shape
<1> DEFINE seen == {t \in scans : Within(t, lo, hi)}
           load == IF Within(w.loadAt, lo, hi) THEN w.loadAt ELSE Null
           of == {t \in seen : Day(t) = Day(dep)}
<1>2. load \in Clock /\ w.pickAt \in Clock /\ w.expected \in Expected
  BY <1>1 DEF WarehouseRec, Clock
<1>3. DockLast(seen, Day(dep)) \in Int \cup {Null}
  <2>1. CASE of = {}
    BY <2>1 DEF DockLast
  <2>2. CASE of # {}
    <3>1. PICK S \in SUBSET Int : S = of
      <4>1. scans \subseteq Int
        BY Parameters DEF Shape, Instants
      <4>2. of \in SUBSET Int
        BY <4>1
      <4> QED
        BY <4>2
    <3>2. PICK b \in Int : S # {} /\ \A t \in S : t <= b
      <4>1. S # {} /\ \A t \in S : t <= MaxTime
        BY <2>2, <3>1, Parameters DEF Shape, Instants
      <4>2. MaxTime \in Int
        BY Parameters
      <4> QED
        BY <4>1, <4>2
    <3>3. Max(S) \in S
      BY <3>1, <3>2, MaxIsGreatest
    <3> QED
      BY <2>2, <3>1, <3>3 DEF DockLast
  <2> QED
    BY <2>1, <2>2
<1>4. PICK dock \in Int \cup {Null} : dock = DockLast(seen, Day(dep))
  BY <1>3
<1>5. PICK loading \in BOOLEAN : loading <=> (seen # {} \/ loads)
  OBVIOUS
<1>6. PICK s : s = Assemble(d, dep, lo, hi, loads)
  OBVIOUS
<1>7. s = [dep |-> dep, expected |-> w.expected,
           confirmed |-> IF w.pickAt = Null THEN 0 ELSE 1,
           created |-> IF Within(w.pickAt, lo, hi) THEN 1 ELSE 0,
           loaded |-> IF load = Null THEN 0 ELSE 1,
           lastPick |-> w.pickAt, lastLoad |-> load, loading |-> loading, dock |-> dock]
  BY <1>1, <1>4, <1>5, <1>6 DEF Assemble
<1> HIDE DEF load
<1>8. s \in StateRec /\ s.dep = dep
  BY <1>2, <1>7 DEF StateRec
<1> QED
  BY <1>6, <1>8

\* A pass that reads now tells what the warehouse logged before now.
LEMMA ReadTells ==
  ASSUME Shape, NEW d \in Deliveries, NEW dep, NEW loads
  PROVE  Tells(Assemble(d, dep, FactsSince(now), MaxTime + 1, loads), wh[d], now)
<1>1. PICK w \in WarehouseRec : w = wh[d]
  BY DEF Shape
<1>2. PICK s : s = Assemble(d, dep, FactsSince(now), MaxTime + 1, loads)
  OBVIOUS
<1>3. /\ s.confirmed = (IF w.pickAt = Null THEN 0 ELSE 1)
      /\ s.created = (IF Within(w.pickAt, now - Lookback, MaxTime + 1) THEN 1 ELSE 0)
      /\ s.lastPick = w.pickAt
      /\ s.lastLoad = (IF Within(w.loadAt, now - Lookback, MaxTime + 1) THEN w.loadAt ELSE Null)
      /\ s.loaded = IF s.lastLoad = Null THEN 0 ELSE 1
  BY <1>1, <1>2 DEF Assemble, FactsSince
<1>4. /\ now \in Nat /\ Lookback \in Nat /\ MaxTime \in Nat /\ Null \notin Int
      /\ \A t \in {w.pickAt, w.loadAt} : t = Null \/ (t \in Nat /\ t <= now /\ t < MaxTime + 1)
  <2>1. now \in Nat /\ now <= MaxTime /\ Lookback \in Nat /\ MaxTime \in Nat /\ Null \notin Int
    BY Parameters DEF Shape, Instants
  <2>2. w.pickAt \in Clock /\ w.loadAt \in Clock
    BY DEF WarehouseRec
  <2>3. \A t \in {w.pickAt, w.loadAt} : t = Null \/ (t \in Nat /\ t <= now)
    BY <1>1, <2>1, <2>2 DEF Clock, Instants, Shape
  <2> QED
    BY <2>1, <2>3
<1>5. ASSUME NEW t \in {w.pickAt, w.loadAt}, Legible(t, now)
      PROVE  /\ (t # Null /\ t < now) <=> t # Null
             /\ Within(t, now - Lookback, MaxTime + 1) <=> t # Null
  BY <1>4, <1>5 DEF Legible, Within
<1>6. Tells(s, w, now)
  BY <1>3, <1>4, <1>5 DEF Tells
<1> QED
  BY <1>1, <1>2, <1>6

\* What the warehouse logs later is not news to a state read before it.
LEMMA TellsStays ==
  ASSUME NEW s, NEW w, NEW v, NEW at \in Int, NEW t \in Int, at <= t,
         v.pickAt = w.pickAt \/ (w.pickAt = Null /\ v.pickAt = t),
         v.loadAt = w.loadAt \/ (w.loadAt = Null /\ v.loadAt = t),
         Tells(s, w, at)
  PROVE  Tells(s, v, at)
<1>1. Legible(v.pickAt, at) => Legible(w.pickAt, at)
  BY DEF Legible
<1>2. (v.pickAt # Null /\ v.pickAt < at) <=> (w.pickAt # Null /\ w.pickAt < at)
  BY Parameters
<1>3. Legible(v.loadAt, at) => Legible(w.loadAt, at)
  BY DEF Legible
<1>4. (v.loadAt # Null /\ v.loadAt < at) <=> (w.loadAt # Null /\ w.loadAt < at)
  BY Parameters
<1>5. v.pickAt < at /\ v.pickAt # Null => v.pickAt = w.pickAt
  BY Parameters
<1>6. v.loadAt < at /\ v.loadAt # Null => v.loadAt = w.loadAt
  BY Parameters
<1> QED
  BY <1>1, <1>2, <1>3, <1>4, <1>5, <1>6 DEF Tells

\* A dock clock says nothing of the picks and the loads.
LEMMA TellsAnyDock ==
  ASSUME NEW s \in StateRec, NEW k, NEW w, NEW at, Tells(s, w, at)
  PROVE  Tells([s EXCEPT !.dock = k], w, at)
<1>1. PICK v : v = [s EXCEPT !.dock = k]
  OBVIOUS
<1>2. /\ v.confirmed = s.confirmed /\ v.created = s.created /\ v.lastPick = s.lastPick
      /\ v.loaded = s.loaded /\ v.lastLoad = s.lastLoad
  BY <1>1 DEF StateRec
<1>3. Tells(v, w, at)
  BY <1>2 DEF Tells
<1> QED
  BY <1>1, <1>3
-----------------------------------------------------------------------------
(* The shape is kept.                                                      *)

\* The first instant of a tenant's board is in shape.
LEMMA ShapeInit ==
  ASSUME Init
  PROVE  Shape
<1>1. now = 0 /\ now \in Instants /\ scans \subseteq Instants
  BY Parameters DEF Init, Instants
<1>2. profiled \in -1 .. Day(MaxTime)
  BY Parameters, DayOf DEF Init
<1>3. ASSUME NEW d \in Deliveries
      PROVE  /\ wh[d] \in WarehouseRec /\ wh[d].calls # <<>>
             /\ \A t \in {wh[d].pickAt, wh[d].loadAt} : t = Null
  <2>1. PICK t \in Departures, x \in Expected :
           wh[d] = [calls |-> <<[at |-> 0, dep |-> t]>>, expected |-> x, pickAt |-> Null, loadAt |-> Null]
    BY DEF Init
  <2>2. <<[at |-> 0, dep |-> t]>> \in Seq(CallRec) /\ <<[at |-> 0, dep |-> t]>> # <<>>
    BY DEF CallRec
  <2> QED
    BY <2>1, <2>2 DEF WarehouseRec, Clock
<1>4. wh \in [Deliveries -> WarehouseRec]
  BY <1>3 DEF Init
<1>5. rows \in Seq(RowRec)
  BY DEF Init
<1>6. DOMAIN pass = Evaluators /\ \A e \in Evaluators : pass[e].pc = "idle" /\ pass[e].at \in Instants
  BY <1>1 DEF Init, Idle
<1>7. check.pc = "idle" /\ fill.pc = "idle"
  BY DEF Init, NoCheck, NoFill
<1>8. DOMAIN profiles = Days /\ \A k \in Days : profiles[k] = Null
  BY DEF Init
<1>9. on \in [tenant : BOOLEAN, settlement : BOOLEAN]
  BY DEF Init
<1> QED
  BY <1>1, <1>2, <1>3, <1>4, <1>5, <1>6, <1>7, <1>8, <1>9 DEF Shape

\* The log only gains events, at the present, and the clock goes on.
Logged ==
    /\ now <= now'
    /\ \A d \in Deliveries :
          /\ wh'[d].pickAt = wh[d].pickAt \/ (wh[d].pickAt = Null /\ wh'[d].pickAt = now)
          /\ wh'[d].loadAt = wh[d].loadAt \/ (wh[d].loadAt = Null /\ wh'[d].loadAt = now)

\* A routing call joins those of its delivery.
LEMMA CallJoins ==
  ASSUME Shape, NEW d \in Deliveries, NEW dep \in Departures, Announce(d, dep)
  PROVE  Shape' /\ Logged
<1>1. PICK c : c = Append(wh[d].calls, [at |-> Day(now), dep |-> dep])
  OBVIOUS
<1>2. now \in Nat /\ Day(now) \in Nat
  <2>1. now \in Nat
    BY Parameters DEF Shape, Instants
  <2> QED
    BY <2>1, DayOf
<1>3. c \in Seq(CallRec) /\ c # <<>>
  <2>1. PICK s \in Seq(CallRec) : s = wh[d].calls
    BY DEF Shape, WarehouseRec
  <2>2. PICK r \in CallRec : r = [at |-> Day(now), dep |-> dep]
    BY <1>2 DEF CallRec
  <2>3. Append(s, r) \in Seq(CallRec) /\ Append(s, r) # <<>>
    <3>1. Append(s, r) \in Seq(CallRec) /\ Len(Append(s, r)) = Len(s) + 1 /\ Len(s) \in Nat
      BY <2>1, <2>2
    <3> QED
      BY <3>1
  <2> QED
    BY <1>1, <2>1, <2>2, <2>3
<1>4. /\ wh' = [wh EXCEPT ![d].calls = c]
      /\ UNCHANGED <<now, scans, rows, pass, check, fill, profiles, profiled, on>>
  BY <1>1 DEF Announce
<1>5. \A x \in Deliveries :
         /\ wh'[x] \in WarehouseRec /\ wh'[x].calls # <<>>
         /\ wh'[x].pickAt = wh[x].pickAt /\ wh'[x].loadAt = wh[x].loadAt
  BY <1>3, <1>4 DEF Shape, WarehouseRec
<1>6. wh' \in [Deliveries -> WarehouseRec]
  BY <1>4, <1>5 DEF Shape
<1>7. Logged
  BY <1>2, <1>4, <1>5 DEF Logged
<1>8. Shape'
  <2>1. \A x \in Deliveries : \A t \in {wh'[x].pickAt, wh'[x].loadAt} : t # Null => t <= now
    BY <1>5 DEF Shape
  <2>2. UNCHANGED <<now, scans, rows, pass, check, fill, profiles, profiled, on>>
    BY <1>4
  <2> QED
    BY <1>5, <1>6, <2>1, <2>2 DEF Shape, Day, Days, Instants
<1> QED
  BY <1>7, <1>8

\* A pick or a load is logged at the present.
LEMMA EventLogged ==
  ASSUME Shape, NEW d \in Deliveries, ConfirmPickLine(d) \/ LoadDeliveryPackage(d)
  PROVE  Shape' /\ Logged
<1>1. now \in Nat /\ now \in Clock /\ scans' \subseteq Instants
  BY Parameters DEF Shape, Instants, Clock, ConfirmPickLine, LoadDeliveryPackage
<1>2. UNCHANGED <<now, rows, pass, check, fill, profiles, profiled, on>>
  BY DEF ConfirmPickLine, LoadDeliveryPackage
<1>3. /\ DOMAIN wh' = Deliveries
      /\ \A x \in Deliveries :
            /\ wh'[x] \in WarehouseRec /\ wh'[x].calls = wh[x].calls
            /\ wh'[x].pickAt = wh[x].pickAt \/ (wh[x].pickAt = Null /\ wh'[x].pickAt = now)
            /\ wh'[x].loadAt = wh[x].loadAt \/ (wh[x].loadAt = Null /\ wh'[x].loadAt = now)
  <2>1. CASE ConfirmPickLine(d)
    BY <1>1, <2>1 DEF ConfirmPickLine, Shape, WarehouseRec
  <2>2. CASE LoadDeliveryPackage(d)
    BY <1>1, <2>2 DEF LoadDeliveryPackage, Shape, WarehouseRec
  <2> QED
    BY <2>1, <2>2
<1>4. wh' \in [Deliveries -> WarehouseRec]
  <2>1. wh' = [x \in Deliveries |-> wh'[x]]
    BY DEF ConfirmPickLine, LoadDeliveryPackage, Shape
  <2> QED
    BY <1>3, <2>1
<1>5. Logged
  BY <1>1, <1>2, <1>3 DEF Logged
<1>6. \A x \in Deliveries : \A t \in {wh'[x].pickAt, wh'[x].loadAt} : t # Null => t <= now
  BY <1>1, <1>3 DEF Shape
<1>7. \A x \in Deliveries : wh'[x].calls # <<>>
  BY <1>3 DEF Shape
<1>8. Shape'
  BY <1>1, <1>2, <1>4, <1>6, <1>7 DEF Shape, Day, Days, Instants
<1> QED
  BY <1>5, <1>8
\* The steps that leave the rows, the board's reads and the log's events alone.
LEMMA ShapeQuiet ==
  ASSUME Shape,
         \/ DockScan \/ Tick \/ UNCHANGED vars
         \/ \E e \in Evaluators : PassFails(e)
         \/ \E what \in {"tenant", "settlement"} : Switch(what)
  PROVE  Shape' /\ Logged /\ UNCHANGED rows /\ \A e \in Evaluators : pass'[e] \in {pass[e], Idle}
<1>0. now \in Nat /\ MaxTime \in Nat /\ now \in Instants /\ 0 \in Instants
  BY Parameters DEF Shape, Instants
<1>1. CASE DockScan
  <2>1. scans' \subseteq Instants /\ UNCHANGED <<now, wh, rows, pass, check, fill, profiles, profiled, on>>
    BY <1>0, <1>1 DEF DockScan, Shape
  <2>2. Shape'
    BY <2>1 DEF Shape, Day, Days, Instants
  <2> QED
    BY <1>0, <2>1, <2>2 DEF Logged
<1>2. CASE Tick
  <2>1. /\ now' \in Instants /\ now' = now + 1
        /\ UNCHANGED <<wh, scans, rows, pass, check, fill, profiles, profiled, on>>
    BY <1>0, <1>2 DEF Tick, Instants
  <2>2. \A d \in Deliveries : \A t \in {wh[d].pickAt, wh[d].loadAt} : t # Null => t <= now + 1
    <3>1. ASSUME NEW d \in Deliveries, NEW t \in {wh[d].pickAt, wh[d].loadAt}, t # Null PROVE t <= now + 1
      <4>1. t \in Clock /\ t <= now
        BY <3>1 DEF Shape, WarehouseRec
      <4> QED
        BY <1>0, <3>1, <4>1 DEF Clock, Instants
    <3> QED
      BY <3>1
  <2>3. Shape'
    BY <2>1, <2>2 DEF Shape, Day, Days, Instants
  <2> QED
    BY <1>0, <2>1, <2>3 DEF Logged
<1>3. CASE UNCHANGED vars
  <2>1. UNCHANGED <<now, wh, scans, rows, pass, check, fill, profiles, profiled, on>>
    BY <1>3 DEF vars
  <2>2. Shape'
    BY <2>1 DEF Shape, Day, Days, Instants
  <2> QED
    BY <1>0, <2>1, <2>2 DEF Logged
<1>4. CASE \E e \in Evaluators : PassFails(e)
  <2>1. PICK e \in Evaluators : PassFails(e)
    BY <1>4
  <2>2. /\ pass' = [pass EXCEPT ![e] = Idle]
        /\ UNCHANGED <<now, wh, scans, rows, check, fill, profiles, profiled, on>>
    BY <2>1 DEF PassFails
  <2>3. DOMAIN pass' = Evaluators /\ \A x \in Evaluators : pass'[x] \in {pass[x], Idle}
    BY <2>2 DEF Shape
  <2>4. Idle.pc = "idle" /\ Idle.at \in Instants
    BY <1>0 DEF Idle
  <2>5. Shape'
    BY <2>2, <2>3, <2>4 DEF Shape, Day, Days, Instants
  <2> QED
    BY <1>0, <2>2, <2>3, <2>5 DEF Logged
<1>5. CASE \E what \in {"tenant", "settlement"} : Switch(what)
  <2>1. PICK what \in {"tenant", "settlement"} : Switch(what)
    BY <1>5
  <2>2. on' = [on EXCEPT ![what] = ~@] /\ UNCHANGED <<now, wh, scans, rows, pass, check, fill, profiles, profiled>>
    BY <2>1 DEF Switch
  <2>3. on' \in [tenant : BOOLEAN, settlement : BOOLEAN]
    <3>1. CASE what = "tenant"
      BY <2>2, <3>1 DEF Shape
    <3>2. CASE what = "settlement"
      BY <2>2, <3>2 DEF Shape
    <3> QED
      BY <3>1, <3>2
  <2>4. Shape'
    BY <2>2, <2>3 DEF Shape, Day, Days, Instants
  <2> QED
    BY <1>0, <2>2, <2>4 DEF Logged
<1> QED
  BY <1>1, <1>2, <1>3, <1>4, <1>5

\* A pass reads the states of the board's deliveries and the newest profile,
\* and they tell the truth.
LEMMA BoardRead ==
  ASSUME Shape, NEW e \in Evaluators, ReadBoard(e)
  PROVE  /\ Shape' /\ UNCHANGED <<now, wh, rows>> /\ PassTruthful(e)'
         /\ \A x \in Evaluators \ {e} : pass'[x] = pass[x]
<1>0. now \in Nat /\ now \in Instants
  BY Parameters DEF Shape, Instants
<1>1. PICK profile \in ProfileRec : profile = Latest(Day(MaxTime))
  BY ProfileRead
<1>2. PICK states : states = ReadStates
  OBVIOUS
<1>3. PICK p : p = [Idle EXCEPT !.pc = "read", !.at = now, !.states = states, !.profile = profile]
  OBVIOUS
<1>4. p.pc = "read" /\ p.at = now /\ p.states = states /\ p.profile = profile
  BY <1>3 DEF Idle
<1>5. /\ pass' = [pass EXCEPT ![e] = p]
      /\ UNCHANGED <<now, wh, scans, rows, check, fill, profiles, profiled, on>>
  BY <1>1, <1>2, <1>3 DEF ReadBoard
<1>6. pass'[e] = p /\ DOMAIN pass' = Evaluators /\ \A x \in Evaluators \ {e} : pass'[x] = pass[x]
  BY <1>5 DEF Shape
<1>7. ASSUME NEW d \in Deliveries, states[d] # Null
      PROVE  states[d] \in StateRec /\ Tells(states[d], wh[d], now)
  <2>1. PICK loads \in BOOLEAN : loads = Latest(Day(MaxTime)).loads
    BY <1>1 DEF ProfileRec
  <2>2. PICK dep \in Departures : dep = Last(wh[d].calls).dep
    <3>1. PICK s \in Seq(CallRec) : s = wh[d].calls
      BY DEF Shape, WarehouseRec
    <3>2. s # <<>>
      BY <3>1 DEF Shape
    <3>3. s[Len(s)] \in CallRec
      BY <3>1, <3>2, CallPlaces
    <3> QED
      BY <3>1, <3>3 DEF Last, CallRec
  <2>3. states[d] = Assemble(d, dep, FactsSince(now), MaxTime + 1, loads)
    BY <1>2, <1>7, <2>1, <2>2 DEF ReadStates
  <2> QED
    BY <2>3, StateRead, ReadTells
<1>8. Read(p.states)
  BY <1>4, <1>7 DEF Read
<1>9. Shape'
  BY <1>0, <1>4, <1>5, <1>6, <1>8 DEF Shape, Day, Days, Instants
<1>10. PassTruthful(e)'
  BY <1>0, <1>4, <1>5, <1>6, <1>7 DEF PassTruthful
<1> QED
  BY <1>5, <1>6, <1>9, <1>10

\* What is learned for a day is a profile, or the one it had.
LEMMA LearnedShape ==
  ASSUME Shape, NEW rs, NEW day \in Days, NEW p \in Learned(rs, day), p # Null
  PROVE  p \in ProfileRec
<1> DEFINE of == {i \in DOMAIN rs : rs[i].status = "closed" /\ rs[i].outcome # "unknown" /\ rs[i].day <= day}
<1>1. CASE of = {}
  BY <1>1 DEF Learned, Shape
<1>2. CASE of # {}
  <2>1. PICK b \in BOOLEAN : b = \E i \in of : rs[i].state.lastLoad # Null
    OBVIOUS
  <2>2. p \in [usual : Rhythms, loads : {b}]
    BY <1>2, <2>1 DEF Learned
  <2> QED
    BY <2>2, Parameters DEF ProfileRec
<1> QED
  BY <1>1, <1>2

\* The worker learns the profile of the day before.
LEMMA ShapeProfiled ==
  ASSUME Shape, ProfileTenant
  PROVE  Shape' /\ UNCHANGED <<now, wh, rows, pass>>
<1>0. now \in Nat /\ now <= MaxTime /\ MaxTime \in Nat
  BY Parameters DEF Shape, Instants
<1>1. Day(now) \in Nat /\ Day(MaxTime) \in Nat /\ Day(now) <= Day(MaxTime)
  BY <1>0, DayOf
<1>2. profiled \in Int /\ profiled >= -1 /\ Day(now) - 1 > profiled
  BY <1>1 DEF Shape, ProfileTenant
<1>3. PICK day \in Int : day = Day(now) - 1
  BY <1>1
<1>4. day \in Days /\ day \in -1 .. Day(MaxTime)
  BY <1>1, <1>2, <1>3 DEF Days
<1>5. PICK p \in Learned(rows, day) : profiles' = [profiles EXCEPT ![day] = p]
  BY <1>3 DEF ProfileTenant
<1>6. UNCHANGED <<now, wh, scans, rows, pass, check, fill, on>> /\ profiled' = day
  BY <1>3 DEF ProfileTenant
<1>7. p # Null => p \in ProfileRec
  BY <1>4, <1>5, LearnedShape
<1>8. DOMAIN profiles' = Days /\ \A k \in Days : profiles'[k] # Null => profiles'[k] \in ProfileRec
  BY <1>5, <1>7 DEF Shape
<1>9. Shape'
  BY <1>4, <1>6, <1>8 DEF Shape, Day, Days, Instants
<1> QED
  BY <1>6, <1>9
\* People read a row before they write its check.
LEMMA ShapeReadForCheck ==
  ASSUME Shape, NEW d, NEW day, ReadForCheck(d, day)
  PROVE  Shape' /\ UNCHANGED <<now, wh, rows, pass>>
<1>1. PICK i \in Find(d, day) : check' = [pc |-> "read", row |-> i, tier |-> rows[i].tier]
  BY DEF ReadForCheck
<1>2. i \in DOMAIN rows
  BY DEF Find, RowsOf
<1>3. rows[i].tier \in Tiers
  BY <1>2, Places DEF Shape, RowRec
<1>4. UNCHANGED <<now, wh, scans, rows, pass, fill, profiles, profiled, on>>
  BY DEF ReadForCheck
<1>5. Shape'
  BY <1>1, <1>2, <1>3, <1>4 DEF Shape, Day, Days, Instants
<1> QED
  BY <1>4, <1>5

\* The departure a backfill reads for a delivery is one the WMS announced.
LEMMA DepartureRead ==
  ASSUME Shape, NEW d \in Deliveries, NEW day \in Days, DepartsOn(d, day)
  PROVE  DepartureBy(d, day) \in Departures
<1>1. PICK calls \in Seq(CallRec) : calls = wh[d].calls
  BY DEF Shape, WarehouseRec
<1>2. /\ DOMAIN calls = 1 .. Len(calls) /\ Len(calls) \in Nat
      /\ \A k \in 1 .. Len(calls) : calls[k] \in CallRec
  BY <1>1, CallPlaces
<1>3. PICK S \in SUBSET Int, b \in Int : S = CallsBy(d, day) /\ S # {} /\ \A k \in S : k <= b
  <2>1. CallsBy(d, day) \in SUBSET Int /\ CallsBy(d, day) # {} /\ \A k \in CallsBy(d, day) : k <= Len(calls)
    BY <1>1, <1>2 DEF CallsBy, DepartsOn
  <2>2. PICK b \in Int : b = Len(calls)
    <3>1. Len(calls) \in Int
      BY <1>2
    <3> QED
      BY <3>1
  <2> QED
    BY <2>1, <2>2
<1>4. Max(S) \in S
  BY <1>3, MaxIsGreatest
<1>5. S \subseteq 1 .. Len(calls)
  BY <1>1, <1>2, <1>3 DEF CallsBy
<1> QED
  BY <1>1, <1>2, <1>3, <1>4, <1>5 DEF DepartureBy, CallRec

\* A backfill reads the departures of its day.
LEMMA ShapeReadDay ==
  ASSUME Shape, NEW day \in Days, NEW replace \in BOOLEAN, ReadDay(day, replace)
  PROVE  Shape' /\ UNCHANGED <<now, wh, rows, pass>>
<1> DEFINE named == {d \in Deliveries : DepartsOn(d, day)}
           closeAt == Max({DepartureBy(d, day) : d \in named}) + Grace
<1>1. PICK profile \in ProfileRec : profile = Latest(day - 1)
  BY ProfileRead
<1>2. PICK states : states = [d \in Deliveries |->
          IF d \in named THEN Assemble(d, DepartureBy(d, day), (day - 1) * DayLen, closeAt, profile.loads) ELSE Null]
  OBVIOUS
<1>3. /\ fill' = [pc |-> "read", day |-> day, profile |-> profile, replace |-> replace, states |-> states]
      /\ UNCHANGED <<now, wh, scans, rows, pass, check, profiles, profiled, on>>
  BY <1>1, <1>2 DEF ReadDay
<1>4. ASSUME NEW d \in Deliveries, states[d] # Null
      PROVE  states[d] \in StateRec /\ Day(states[d].dep) = day
  <2>1. d \in named /\ states[d] = Assemble(d, DepartureBy(d, day), (day - 1) * DayLen, closeAt, profile.loads)
    BY <1>2, <1>4
  <2>2. CallsBy(d, day) # {} /\ Day(DepartureBy(d, day)) = day
    BY <2>1 DEF DepartsOn
  <2>3. PICK dep \in Departures : dep = DepartureBy(d, day)
    BY <2>1, DepartureRead
  <2>4. profile.loads \in BOOLEAN
    BY DEF ProfileRec
  <2> HIDE DEF closeAt
  <2>5. states[d] \in StateRec /\ states[d].dep = dep
    BY <2>1, <2>3, <2>4, StateRead
  <2> QED
    BY <2>2, <2>3, <2>5
<1>5. Shape'
  BY <1>3, <1>4 DEF Shape, Read, Day, Days, Instants
<1> QED
  BY <1>3, <1>5

-----------------------------------------------------------------------------
(* The rows stay in order.                                                 *)

\* A step that leaves the rows alone leaves what was said of them true.
LEMMA RowsStay ==
  ASSUME Shape, Shape', RowsInv, Logged, rows' = rows
  PROVE  RowsInv'
<1>1. OneRow(rows')
  BY DEF RowsInv
<1>2. ASSUME NEW i \in DOMAIN rows PROVE Truthful(rows[i])'
  <2>1. PICK r \in RowRec : r = rows[i]
    BY <1>2, Places DEF Shape
  <2>2. Truthful(r)
    BY <2>1 DEF RowsInv
  <2>3. now \in Int /\ now' \in Int /\ now <= now'
    BY Parameters DEF Shape, Instants, Logged
  <2>4. r.d \in Deliveries
    BY DEF RowRec
  <2> SUFFICES ASSUME r.status = "closed", ~r.reconstructed
               PROVE  /\ r.closedAt \in Int /\ r.closedAt <= now'
                      /\ r.sight => r.outcome = OutcomeFor(r.state) /\ Tells(r.state, wh'[r.d], r.closedAt)
    BY <2>1 DEF Truthful
  <2>5. /\ r.closedAt \in Int /\ r.closedAt <= now
        /\ r.sight => r.outcome = OutcomeFor(r.state) /\ Tells(r.state, wh[r.d], r.closedAt)
    BY <2>2 DEF Truthful
  <2>6. Tells(r.state, wh[r.d], r.closedAt) => Tells(r.state, wh'[r.d], r.closedAt)
    <3>1. /\ wh'[r.d].pickAt = wh[r.d].pickAt \/ (wh[r.d].pickAt = Null /\ wh'[r.d].pickAt = now)
          /\ wh'[r.d].loadAt = wh[r.d].loadAt \/ (wh[r.d].loadAt = Null /\ wh'[r.d].loadAt = now)
      BY <2>4 DEF Logged
    <3> QED
      BY <2>3, <2>5, <3>1, TellsStays
  <2> QED
    BY <2>3, <2>5, <2>6
<1>3. \A i \in DOMAIN rows : Counted(rows[i])
  BY DEF RowsInv
<1>4. \A i \in DOMAIN rows' : Counted(rows'[i]) /\ Truthful(rows[i])'
  BY <1>2, <1>3
<1> QED
  BY <1>1, <1>4 DEF RowsInv

\* A pass that goes on still holds the truth as of its read.
LEMMA PassStays ==
  ASSUME Shape, Shape', Logged, NEW e \in Evaluators, PassTruthful(e), pass'[e] = pass[e]
  PROVE  PassTruthful(e)'
<1> SUFFICES ASSUME pass[e].pc = "read"
             PROVE  /\ pass[e].at <= now'
                    /\ \A d \in Deliveries : pass[e].states[d] # Null => Tells(pass[e].states[d], wh'[d], pass[e].at)
  BY DEF PassTruthful
<1>1. now \in Int /\ pass[e].at \in Int /\ pass[e].at <= now
  BY Parameters DEF Shape, Instants, PassTruthful
<1>2. ASSUME NEW d \in Deliveries, pass[e].states[d] # Null
      PROVE  Tells(pass[e].states[d], wh'[d], pass[e].at)
  <2>1. Tells(pass[e].states[d], wh[d], pass[e].at)
    BY <1>2 DEF PassTruthful
  <2>2. /\ wh'[d].pickAt = wh[d].pickAt \/ (wh[d].pickAt = Null /\ wh'[d].pickAt = now)
        /\ wh'[d].loadAt = wh[d].loadAt \/ (wh[d].loadAt = Null /\ wh'[d].loadAt = now)
    BY DEF Logged
  <2> QED
    BY <1>1, <2>1, <2>2, TellsStays
<1>3. pass[e].at <= now'
  <2>1. now' \in Int /\ now <= now'
    BY Parameters DEF Shape, Instants, Logged
  <2> QED
    BY <1>1, <2>1
<1> QED
  BY <1>2, <1>3
\* A row a pass closes tells the truth, because the pass does.
LEMMA ClosedTruthful ==
  ASSUME Shape, NEW e \in Evaluators, PassTruthful(e), pass[e].pc = "read",
         NEW q \in RowRec, ClosedBy(pass[e], q)
  PROVE  Truthful(q)
<1>1. PICK p : p = pass[e]
  OBVIOUS
<1>2. p.at \in Int /\ p.at <= now /\ Read(p.states)
  BY <1>1, Parameters DEF Shape, Instants, PassTruthful
<1>3. q.d \in Deliveries
  BY DEF RowRec
<1>4. ASSUME q.sight
      PROVE  q.outcome = OutcomeFor(q.state) /\ Tells(q.state, wh[q.d], p.at)
  <2>1. PICK k \in Int \cup {Null} : q.state = [p.states[q.d] EXCEPT !.dock = k]
    BY <1>1, <1>4 DEF ClosedBy
  <2>2. q.outcome = OutcomeFor(q.state) /\ p.states[q.d] # Null
    BY <1>1, <1>4 DEF ClosedBy
  <2>3. PICK s \in StateRec : s = p.states[q.d]
    BY <1>2, <1>3, <2>2 DEF Read
  <2>4. Tells(s, wh[q.d], p.at)
    BY <1>1, <1>3, <2>2, <2>3 DEF PassTruthful
  <2>5. Tells(q.state, wh[q.d], p.at)
    BY <2>1, <2>3, <2>4, TellsAnyDock
  <2> QED
    BY <2>2, <2>5
<1>5. q.closedAt = p.at
  BY <1>1 DEF ClosedBy
<1> QED
  BY <1>2, <1>4, <1>5 DEF Truthful

\* The list of rows may grow under a check that is being made.
LEMMA ShapeRows ==
  ASSUME Shape, rows' \in Seq(RowRec), Len(rows) <= Len(rows'),
         UNCHANGED <<now, wh, scans, check, profiled, on>>,
         fill' \in {fill, NoFill}, DOMAIN profiles' = Days,
         \A k \in Days : profiles'[k] # Null => profiles'[k] \in ProfileRec,
         DOMAIN pass' = Evaluators, \A e \in Evaluators : pass'[e] \in {pass[e], Idle}
  PROVE  Shape'
<1>1. DOMAIN rows = 1 .. Len(rows) /\ Len(rows) \in Nat
  BY Places DEF Shape
<1>2. DOMAIN rows' = 1 .. Len(rows') /\ Len(rows') \in Nat
  BY Places
<1>3. check.row \in DOMAIN rows => check.row \in DOMAIN rows'
  <2>1. PICK n \in Nat, m \in Nat : n = Len(rows) /\ m = Len(rows') /\ n <= m
    BY <1>1, <1>2
  <2>2. DOMAIN rows = 1 .. n /\ DOMAIN rows' = 1 .. m
    BY <1>1, <1>2, <2>1
  <2> QED
    BY <2>1, <2>2
<1>4. NoFill.pc = "idle" /\ Idle.pc = "idle" /\ Idle.at \in Instants
  BY Parameters DEF NoFill, Idle, Instants
<1> QED
  BY <1>3, <1>4 DEF Shape, Day, Days, Instants

\* What a pass under way holds is what the writing lemmas ask for.
LEMMA PassEvaluates ==
  ASSUME Shape, NEW e \in Evaluators, pass[e].pc = "read"
  PROVE  Evaluation(pass[e])
BY DEF Shape, Evaluation

\* A pass leaves the rows it writes in order.
LEMMA PassWritten ==
  ASSUME Inv, NEW e \in Evaluators, WritePass(e)
  PROVE  /\ Shape' /\ RowsInv' /\ Logged
         /\ \A x \in Evaluators : pass'[x] \in {pass[x], Idle}
         /\ \A i \in 1 .. Len(rows) : ~Open(rows[i]) => rows'[i] = rows[i]
         /\ \A i \in DOMAIN rows' : rows'[i].reconstructed => i \in 1 .. Len(rows) /\ rows[i].reconstructed
<1>1. PICK p : p = pass[e]
  OBVIOUS
<1>2. PICK qs : qs = EvaluateRows(rows, p)
  OBVIOUS
<1>3. /\ p.pc = "read" /\ rows' = qs /\ pass' = [pass EXCEPT ![e] = Idle]
      /\ UNCHANGED <<now, wh, scans, check, fill, profiles, profiled, on>>
  BY <1>1, <1>2 DEF WritePass
<1>4. Shape /\ RowsInv /\ PassTruthful(e)
  BY DEF Inv
<1>5. rows \in Seq(RowRec) /\ Evaluation(p)
  BY <1>1, <1>3, <1>4, PassEvaluates DEF Shape
<1>6. Evaluated(rows, p, qs)
  BY <1>2, <1>5, RowsEvaluated
<1>7. DOMAIN pass' = Evaluators /\ \A x \in Evaluators : pass'[x] \in {pass[x], Idle}
  BY <1>3, <1>4 DEF Shape
<1>8. Shape'
  <2>1. rows' \in Seq(RowRec) /\ Len(rows) <= Len(rows')
    BY <1>3, <1>6 DEF Evaluated
  <2>2. DOMAIN profiles' = Days /\ \A k \in Days : profiles'[k] # Null => profiles'[k] \in ProfileRec
    BY <1>3, <1>4 DEF Shape
  <2> QED
    BY <1>3, <1>4, <1>7, <2>1, <2>2, ShapeRows
<1>9. now \in Int
  BY <1>4, Parameters DEF Shape, Instants
<1>10. /\ DOMAIN qs = 1 .. Len(qs) /\ Len(qs) \in Nat /\ \A i \in 1 .. Len(qs) : qs[i] \in RowRec
       /\ DOMAIN rows = 1 .. Len(rows) /\ Len(rows) \in Nat
  <2>1. qs \in Seq(RowRec)
    BY <1>6 DEF Evaluated
  <2> QED
    BY <1>5, <2>1, Places
<1>11. ASSUME NEW i \in 1 .. Len(qs) PROVE Counted(qs[i]) /\ Truthful(qs[i])
  <2>1. qs[i] \in RowRec
    BY <1>10
  <2>2. CASE i \in 1 .. Len(rows)
    <3>1. Counted(rows[i]) /\ Truthful(rows[i])
      BY <1>4, <1>10, <2>2 DEF RowsInv
    <3>2. Follows(rows[i], qs[i]) /\ (qs[i] = rows[i] \/ Open(qs[i]) \/ ClosedBy(p, qs[i]))
      BY <1>6, <2>2 DEF Evaluated
    <3>3. Open(qs[i]) => Truthful(qs[i])
      BY DEF Open, Truthful
    <3>4. ClosedBy(p, qs[i]) => Truthful(qs[i])
      BY <1>1, <1>3, <1>4, <2>1, ClosedTruthful
    <3> QED
      BY <3>1, <3>2, <3>3, <3>4 DEF Follows
  <2>3. CASE i \in Len(rows) + 1 .. Len(qs)
    <3>1. Counted(qs[i]) /\ (Open(qs[i]) \/ ClosedBy(p, qs[i]))
      BY <1>6, <2>3 DEF Evaluated
    <3>2. Open(qs[i]) => Truthful(qs[i])
      BY DEF Open, Truthful
    <3>3. ClosedBy(p, qs[i]) => Truthful(qs[i])
      BY <1>1, <1>3, <1>4, <2>1, ClosedTruthful
    <3> QED
      BY <3>1, <3>2, <3>3
  <2> QED
    BY <1>10, <2>2, <2>3
<1>12. OneRow(qs)
  BY <1>4, <1>6 DEF RowsInv, Evaluated
<1>13. \A i \in DOMAIN rows' : Counted(rows'[i]) /\ Truthful(rows[i])'
  BY <1>3, <1>10, <1>11 DEF Truthful
<1>14. RowsInv'
  BY <1>3, <1>12, <1>13 DEF RowsInv
<1>15. \A i \in 1 .. Len(rows) : ~Open(rows[i]) => rows'[i] = rows[i]
  BY <1>3, <1>6 DEF Evaluated
<1>16. ASSUME NEW i \in DOMAIN rows', rows'[i].reconstructed
       PROVE  i \in 1 .. Len(rows) /\ rows[i].reconstructed
  <2>1. i \in 1 .. Len(qs)
    BY <1>3, <1>10, <1>16
  <2>2. CASE i \in 1 .. Len(rows)
    BY <1>3, <1>6, <1>16, <2>2 DEF Evaluated, Follows
  <2>3. CASE i \in Len(rows) + 1 .. Len(qs)
    BY <1>3, <1>6, <1>16, <2>3 DEF Evaluated
  <2> QED
    BY <1>10, <2>1, <2>2, <2>3
<1> QED
  BY <1>3, <1>7, <1>8, <1>9, <1>14, <1>15, <1>16 DEF Logged

\* A backfill leaves the rows in order, and those of the board untouched.
LEMMA DayWritten ==
  ASSUME Inv, WriteDay
  PROVE  /\ Shape' /\ RowsInv' /\ Logged /\ UNCHANGED pass
         /\ \A i \in 1 .. Len(rows) : ~rows[i].reconstructed => rows'[i] = rows[i]
         /\ Replay(fill) /\ Backfilled(rows, fill, rows')
<1>1. PICK qs : qs = BackfillDay(rows, fill)
  OBVIOUS
<1>2. /\ fill.pc = "read" /\ rows' = qs /\ fill' = NoFill
      /\ UNCHANGED <<now, wh, scans, pass, check, profiled, on>>
      /\ \E p \in Learned(rows', fill.day) : profiles' = [profiles EXCEPT ![fill.day] = p]
  BY <1>1 DEF WriteDay
<1>3. Shape /\ RowsInv
  BY DEF Inv
<1>4. rows \in Seq(RowRec) /\ Replay(fill) /\ fill.day \in Days
  BY <1>2, <1>3 DEF Shape, Replay
<1>5. Backfilled(rows, fill, qs)
  BY <1>1, <1>4, DayBackfilled
<1>6. DOMAIN profiles' = Days /\ \A k \in Days : profiles'[k] # Null => profiles'[k] \in ProfileRec
  <2>1. PICK p \in Learned(rows', fill.day) : profiles' = [profiles EXCEPT ![fill.day] = p]
    BY <1>2
  <2>2. p # Null => p \in ProfileRec
    BY <1>3, <1>4, <2>1, LearnedShape
  <2> QED
    BY <1>3, <2>1, <2>2 DEF Shape
<1>7. Shape'
  <2>1. rows' \in Seq(RowRec) /\ Len(rows) <= Len(rows')
    BY <1>2, <1>5 DEF Backfilled
  <2>2. DOMAIN pass' = Evaluators /\ \A x \in Evaluators : pass'[x] \in {pass[x], Idle}
    BY <1>2, <1>3 DEF Shape
  <2> QED
    BY <1>2, <1>3, <1>6, <2>1, <2>2, ShapeRows
<1>8. /\ DOMAIN qs = 1 .. Len(qs) /\ Len(qs) \in Nat /\ \A i \in 1 .. Len(qs) : qs[i] \in RowRec
      /\ DOMAIN rows = 1 .. Len(rows) /\ Len(rows) \in Nat
  <2>1. qs \in Seq(RowRec)
    BY <1>5 DEF Backfilled
  <2> QED
    BY <1>4, <2>1, Places
<1>9. ASSUME NEW i \in 1 .. Len(qs) PROVE Counted(qs[i]) /\ Truthful(qs[i])
  <2>1. qs[i].reconstructed => Truthful(qs[i])
    BY DEF Truthful
  <2>2. CASE i \in 1 .. Len(rows)
    <3>1. Counted(rows[i]) /\ Truthful(rows[i])
      BY <1>3, <1>8, <2>2 DEF RowsInv
    <3>2. Follows(rows[i], qs[i]) /\ (qs[i] = rows[i] \/ rows[i].reconstructed)
      BY <1>5, <2>2 DEF Backfilled
    <3> QED
      BY <2>1, <3>1, <3>2 DEF Follows
  <2>3. CASE i \in Len(rows) + 1 .. Len(qs)
    BY <1>5, <2>1, <2>3 DEF Backfilled
  <2> QED
    BY <1>8, <2>2, <2>3
<1>10. OneRow(qs)
  BY <1>3, <1>5 DEF RowsInv, Backfilled
<1>11. \A i \in DOMAIN rows' : Counted(rows'[i]) /\ Truthful(rows[i])'
  BY <1>2, <1>8, <1>9 DEF Truthful
<1>12. RowsInv'
  BY <1>2, <1>10, <1>11 DEF RowsInv
<1>13. \A i \in 1 .. Len(rows) : ~rows[i].reconstructed => rows'[i] = rows[i]
  BY <1>2, <1>5 DEF Backfilled
<1>14. now \in Int
  BY <1>3, Parameters DEF Shape, Instants
<1> QED
  BY <1>2, <1>4, <1>5, <1>7, <1>12, <1>13, <1>14 DEF Logged

\* A row but for its check columns.
SameButChecks(r, q) ==
    [q EXCEPT !.checked = r.checked, !.raced = r.raced, !.reopenedBefore = r.reopenedBefore] = r

\* A check writes the check columns of one row and nothing else.
LEMMA CheckCommitted ==
  ASSUME Inv, NEW undo \in BOOLEAN, CommitCheck(undo)
  PROVE  /\ Shape' /\ RowsInv' /\ Logged /\ UNCHANGED pass
         /\ \A i \in 1 .. Len(rows) : SameButChecks(rows[i], rows'[i])
<1>1. Shape /\ RowsInv /\ rows \in Seq(RowRec)
  BY DEF Inv, Shape
<1>2. DOMAIN rows = 1 .. Len(rows) /\ Len(rows) \in Nat /\ \A k \in 1 .. Len(rows) : rows[k] \in RowRec
  BY <1>1, Places
<1>3. PICK i \in 1 .. Len(rows) : i = check.row
  BY <1>1, <1>2 DEF Shape, CommitCheck
<1>4. PICK tier \in Tiers \cup {Null} : tier = IF undo THEN Null ELSE check.tier
  BY <1>1 DEF Shape, CommitCheck
<1>5. PICK raced \in BOOLEAN : raced <=> tier # Null /\ rows[i].tier # tier
  OBVIOUS
<1>6. PICK q : q = [rows[i] EXCEPT !.checked = tier, !.raced = raced, !.reopenedBefore = rows[i].reopened]
  OBVIOUS
<1>7. /\ q \in RowRec /\ q.checked = tier /\ q.raced = raced /\ q.reopenedBefore = rows[i].reopened
      /\ q.reopened = rows[i].reopened /\ q.tier = rows[i].tier
      /\ q.d = rows[i].d /\ q.day = rows[i].day /\ q.status = rows[i].status
      /\ q.reconstructed = rows[i].reconstructed /\ q.closedAt = rows[i].closedAt
      /\ q.sight = rows[i].sight /\ q.outcome = rows[i].outcome /\ q.state = rows[i].state
  <2>1. rows[i] \in RowRec
    BY <1>2
  <2>2. PICK n \in Nat : n = rows[i].reopened
    BY <2>1 DEF RowRec
  <2>3. q = [rows[i] EXCEPT !.checked = tier, !.raced = raced, !.reopenedBefore = n]
    BY <1>6, <2>2
  <2>4. q \in RowRec
    BY ZenonT(40), <2>1, <1>4, <1>5, <2>2, <2>3 DEF RowRec
  <2>5. q.checked = tier /\ q.raced = raced /\ q.reopenedBefore = rows[i].reopened
    BY <2>1, <2>2, <2>3 DEF RowRec
  <2> QED
    BY <2>1, <2>3, <2>4, <2>5 DEF RowRec
<1>8. Counted(q)
  <2>1. Tiers \subseteq Int /\ rows[i].tier \in Tiers /\ rows[i].reopened \in Nat
    BY <1>2 DEF RowRec, Tiers, None, LeftBehind
  <2> QED
    BY <1>5, <1>7, <2>1 DEF Counted
<1>9. SameButChecks(rows[i], q)
  <2>1. PICK r \in RowRec : r = rows[i]
    BY <1>2
  <2>2. q = [r EXCEPT !.checked = tier, !.raced = raced, !.reopenedBefore = r.reopened]
    BY <1>6, <2>1
  <2>3. [q EXCEPT !.checked = r.checked, !.raced = r.raced, !.reopenedBefore = r.reopenedBefore] = r
    BY <2>2 DEF RowRec
  <2> QED
    BY <2>1, <2>3 DEF SameButChecks
<1>10. \A k \in 1 .. Len(rows) : SameButChecks(rows[k], rows[k])
  <2>1. ASSUME NEW r \in RowRec
        PROVE  [r EXCEPT !.checked = r.checked, !.raced = r.raced, !.reopenedBefore = r.reopenedBefore] = r
    BY DEF RowRec
  <2> QED
    BY <1>2, <2>1 DEF SameButChecks
<1>11. rows' = rows \/ rows' = [rows EXCEPT ![i] = q]
  <2>1. raced = (tier # Null /\ rows[i].tier # tier)
    BY <1>5
  <2> QED
    BY <1>3, <1>4, <1>6, <2>1 DEF CommitCheck
<1>12. /\ rows' \in Seq(RowRec) /\ Len(rows') = Len(rows) /\ DOMAIN rows' = DOMAIN rows
       /\ \A k \in 1 .. Len(rows) : rows'[k] = rows[k] \/ (k = i /\ rows'[k] = q)
  <2>1. CASE rows' = rows
    BY <1>1, <2>1
  <2>2. CASE rows' = [rows EXCEPT ![i] = q]
    BY <1>1, <1>2, <1>7, <2>2
  <2> QED
    BY <1>11, <2>1, <2>2
<1>13. UNCHANGED <<now, wh, scans, pass, fill, profiles, profiled, on>> /\ check' = NoCheck
  BY DEF CommitCheck
<1>14. Shape'
  <2>1. NoCheck.pc = "idle"
    BY DEF NoCheck
  <2> QED
    BY <1>1, <1>12, <1>13, <2>1 DEF Shape, Day, Days, Instants
<1>15. \A k \in 1 .. Len(rows) :
          rows'[k].d = rows[k].d /\ rows'[k].day = rows[k].day /\ rows'[k].status = rows[k].status
  BY <1>7, <1>12
<1>16. OneRow(rows')
  <2>1. \A d : RowsOf(rows', d) = RowsOf(rows, d)
    BY <1>2, <1>12, <1>15 DEF RowsOf
  <2>2. \A d : \A k \in RowsOf(rows, d) : rows'[k].day = rows[k].day /\ (Open(rows'[k]) <=> Open(rows[k]))
    BY <1>2, <1>15 DEF RowsOf, Open
  <2> QED
    BY <1>1, <2>1, <2>2 DEF OneRow, RowsInv
<1>17. ASSUME NEW k \in 1 .. Len(rows) PROVE Counted(rows'[k]) /\ Truthful(rows[k])'
  <2>1. Counted(rows[k]) /\ Truthful(rows[k])
    BY <1>1, <1>2 DEF RowsInv
  <2>2. CASE rows'[k] = rows[k]
    BY <1>13, <2>1, <2>2 DEF Truthful
  <2>3. CASE k = i /\ rows'[k] = q
    BY <1>7, <1>8, <1>13, <2>1, <2>3 DEF Truthful
  <2> QED
    BY <1>12, <2>2, <2>3
<1>18. RowsInv'
  BY <1>2, <1>12, <1>16, <1>17 DEF RowsInv
<1>19. \A k \in 1 .. Len(rows) : SameButChecks(rows[k], rows'[k])
  BY <1>9, <1>10, <1>12
<1>20. now \in Int
  BY <1>1, Parameters DEF Shape, Instants
<1> QED
  BY <1>13, <1>14, <1>18, <1>19, <1>20 DEF Logged

-----------------------------------------------------------------------------
(* The replay of a day.                                                    *)

\* The lesser of two instants.
LEMMA LesserOf ==
  ASSUME NEW a \in Int, NEW b \in Int
  PROVE  Min({a, b}) = IF a <= b THEN a ELSE b
<1>1. PICK S \in SUBSET Int, c \in Int : S = {a, b} /\ c = IF a <= b THEN a ELSE b
  OBVIOUS
<1>2. S # {} /\ \A x \in S : c <= x
  BY <1>1
<1>3. Min(S) \in S /\ \A x \in S : Min(S) <= x
  BY <1>2, MinIsLeast
<1> QED
  BY <1>1, <1>3

\* A state wound back to an instant: the pick and the load once they happened,
\* and a dock that was scanned just then, or at its last scan.
LEMMA WoundBack ==
  ASSUME NEW s \in StateRec, NEW t \in Int
  PROVE  LET q == StateAsOf(s, t) IN
         /\ q.expected = s.expected /\ q.created = s.created /\ q.loading = s.loading
         /\ q.confirmed = IF s.lastPick = Null \/ t >= s.lastPick THEN s.confirmed ELSE 0
         /\ q.loaded = IF s.lastLoad = Null \/ t >= s.lastLoad THEN s.loaded ELSE 0
         /\ q.dock = IF s.dock = Null THEN Null ELSE IF s.dock <= t THEN s.dock ELSE t
<1> DEFINE picked == s.lastPick = Null \/ t >= s.lastPick
           loaded == s.lastLoad = Null \/ t >= s.lastLoad
<1>1. PICK q : q = StateAsOf(s, t)
  OBVIOUS
<1>2. PICK c, l, p, o, k :
         /\ c = (IF picked THEN s.confirmed ELSE 0) /\ l = (IF loaded THEN s.loaded ELSE 0)
         /\ p = (IF picked THEN s.lastPick ELSE Null) /\ o = (IF loaded THEN s.lastLoad ELSE Null)
         /\ k = IF s.dock = Null THEN Null ELSE Min({s.dock, t})
  OBVIOUS
<1>3. q = [s EXCEPT !.confirmed = c, !.loaded = l, !.lastPick = p, !.lastLoad = o, !.dock = k]
  BY <1>1, <1>2 DEF StateAsOf
<1>4. /\ q.expected = s.expected /\ q.created = s.created /\ q.loading = s.loading
      /\ q.confirmed = c /\ q.loaded = l /\ q.dock = k
  BY <1>3 DEF StateRec
<1>5. k = IF s.dock = Null THEN Null ELSE IF s.dock <= t THEN s.dock ELSE t
  <2>1. s.dock = Null \/ s.dock \in Int
    BY DEF StateRec
  <2> QED
    BY <1>2, <2>1, LesserOf
<1> QED
  BY <1>1, <1>2, <1>4, <1>5

\* Whether a delivery is open at an instant, as the replay sees it.
PicksAt(s, t) == PickingOpen(StateAsOf(s, t))
LoadsAt(s, t) == LoadingOpen(StateAsOf(s, t))

\* What is open at an instant was open before it.
LEMMA OpenBefore ==
  ASSUME NEW s \in StateRec, NEW t \in Int, NEW u \in Int, u <= t
  PROVE  /\ PicksAt(s, t) => PicksAt(s, u)
         /\ LoadsAt(s, t) => LoadsAt(s, u)
<1>1. PICK q, v : q = StateAsOf(s, t) /\ v = StateAsOf(s, u)
  OBVIOUS
<1>2. /\ v.expected = q.expected /\ v.created = q.created /\ v.loading = q.loading
      /\ q.expected = s.expected /\ q.created = s.created /\ q.loading = s.loading
      /\ q.confirmed = IF s.lastPick = Null \/ t >= s.lastPick THEN s.confirmed ELSE 0
      /\ v.confirmed = IF s.lastPick = Null \/ u >= s.lastPick THEN s.confirmed ELSE 0
      /\ q.loaded = IF s.lastLoad = Null \/ t >= s.lastLoad THEN s.loaded ELSE 0
      /\ v.loaded = IF s.lastLoad = Null \/ u >= s.lastLoad THEN s.loaded ELSE 0
  BY <1>1, WoundBack
<1>3. /\ s.confirmed \in {0, 1} /\ s.loaded \in {0, 1} /\ s.created \in {0, 1} /\ s.loading \in BOOLEAN
      /\ s.expected \in Nat \/ s.expected = Null
      /\ s.lastPick \in Int \/ s.lastPick = Null
      /\ s.lastLoad \in Int \/ s.lastLoad = Null
  <2>1. s.expected \in Expected /\ s.lastPick \in Clock /\ s.lastLoad \in Clock
    BY DEF StateRec
  <2> QED
    BY <2>1, Parameters DEF StateRec, Clock, Instants
<1>4. v.confirmed = q.confirmed \/ (v.confirmed = 0 /\ q.confirmed = 1)
  BY <1>2, <1>3
<1>5. v.loaded = q.loaded \/ (v.loaded = 0 /\ q.loaded = 1)
  BY <1>2, <1>3
<1>6. PickingOpen(q) => PickingOpen(v)
  BY <1>2, <1>3, <1>4, Parameters DEF PickingOpen
<1>7. LoadingOpen(q) => LoadingOpen(v)
  BY <1>2, <1>3, <1>5 DEF LoadingOpen
<1> QED
  BY <1>1, <1>6, <1>7 DEF PicksAt, LoadsAt

\* For the replay the van is gone from an instant on: once its own time and the
\* last scan of its dock are the gone window old.
GoneAt(s, usual, t) == t >= usual + Gone /\ (s.dock = Null \/ Gone = 0 \/ t >= s.dock + Gone)

LEMMA GoneFromThenOn ==
  ASSUME NEW s \in StateRec, NEW t \in Int, NEW usual \in Nat, s.dock # Null => s.loading
  PROVE  VanGone(StateAsOf(s, t), t, usual) <=> GoneAt(s, usual, t)
<1>1. PICK q : q = StateAsOf(s, t)
  OBVIOUS
<1>2. /\ q.loading = s.loading
      /\ q.dock = IF s.dock = Null THEN Null ELSE IF s.dock <= t THEN s.dock ELSE t
  BY <1>1, WoundBack
<1>3. s.dock = Null \/ s.dock \in Int
  BY DEF StateRec
<1>4. Null \notin Int /\ Gone \in Nat
  BY Parameters
<1>5. VanGone(q, t, usual) <=> GoneAt(s, usual, t)
  <2>1. CASE s.dock = Null
    BY <1>2, <2>1 DEF VanGone, GoneAt
  <2>2. CASE s.dock # Null
    <3>1. s.dock \in Int /\ q.loading /\ q.dock \in Int
      BY <1>2, <1>3, <2>2
    <3>2. VanGone(q, t, usual) <=> t >= usual + Gone /\ t - q.dock >= Gone
      BY <1>4, <3>1 DEF VanGone
    <3>3. CASE s.dock <= t
      BY <1>2, <1>4, <3>1, <3>2, <3>3 DEF GoneAt
    <3>4. CASE ~(s.dock <= t)
      BY <1>2, <1>4, <3>1, <3>2, <3>4 DEF GoneAt
    <3> QED
      BY <3>3, <3>4
  <2> QED
    BY <2>1, <2>2
<1> QED
  BY <1>1, <1>5

\* The tier of a delivery with this open, this gone and this warned of.
Ranked(picks, loads, gone, warned) ==
    IF ~(picks \/ loads) THEN 0
    ELSE IF gone THEN 3 ELSE IF ~warned THEN 0 ELSE IF loads THEN 2 ELSE 1

\* The rule is that tier.
LEMMA RuleRanks ==
  ASSUME NEW s, NEW t \in Int, NEW usual \in Nat
  PROVE  TierFor(s, t, usual) = Ranked(PickingOpen(s), LoadingOpen(s), VanGone(s, t, usual), t >= usual - Warn)
<1>1. Warn \in Nat
  BY Parameters
<1>2. (t < usual - Warn) <=> ~(t >= usual - Warn)
  BY <1>1
<1> QED
  BY <1>2 DEF TierFor, Ranked, None, Watch, AtRisk, LeftBehind

\* So is the replay's tier of an instant.
LEMMA ReplayRanks ==
  ASSUME NEW s \in StateRec, NEW t \in Int, NEW usual \in Nat, s.dock # Null => s.loading
  PROVE  ReplayTier(s, usual, t) = Ranked(PicksAt(s, t), LoadsAt(s, t), GoneAt(s, usual, t), t >= usual - Warn)
<1>1. ReplayTier(s, usual, t)
        = Ranked(PicksAt(s, t), LoadsAt(s, t), VanGone(StateAsOf(s, t), t, usual), t >= usual - Warn)
  BY RuleRanks DEF ReplayTier, PicksAt, LoadsAt
<1>2. VanGone(StateAsOf(s, t), t, usual) <=> GoneAt(s, usual, t)
  BY GoneFromThenOn
<1> QED
  BY <1>1, <1>2 DEF Ranked

\* The highest tier of a replay.
Highest(s, usual, closeAt) == Max({ReplayTier(s, usual, t) : t \in ReplayInstants(s, usual, closeAt)})

\* It is the tier of one of the instants, and no instant has a higher one.
LEMMA HighestSeen ==
  ASSUME NEW s \in StateRec, NEW usual \in Nat, NEW closeAt \in Int
  PROVE  /\ Highest(s, usual, closeAt) \in Tiers
         /\ \A t \in ReplayInstants(s, usual, closeAt) :
               t \in Int /\ ReplayTier(s, usual, t) <= Highest(s, usual, closeAt)
         /\ \E t \in ReplayInstants(s, usual, closeAt) : ReplayTier(s, usual, t) = Highest(s, usual, closeAt)
<1> DEFINE told == {ReplayTier(s, usual, t) : t \in ReplayInstants(s, usual, closeAt)}
<1>1. closeAt \in ReplayInstants(s, usual, closeAt)
  BY DEF ReplayInstants
<1>2. \A t \in ReplayInstants(s, usual, closeAt) : t \in Int
  <2>1. usual \in Int /\ Warn \in Int /\ Gone \in Int
    BY Parameters
  <2>2. (s.dock = Null \/ s.dock \in Int) /\ s.lastPick \in Clock /\ s.lastLoad \in Clock
    BY DEF StateRec
  <2>3. \A t \in Clock \ {Null} : t \in Int
    BY Parameters DEF Clock, Instants
  <2> QED
    BY <2>1, <2>2, <2>3 DEF ReplayInstants
<1>3. \A t \in ReplayInstants(s, usual, closeAt) : ReplayTier(s, usual, t) \in Tiers
  BY TierKnown DEF ReplayTier
<1>4. PICK T \in SUBSET Int : T = told
  <2>1. told \subseteq Tiers
    BY <1>3
  <2>2. Tiers \subseteq Int
    BY DEF Tiers, None, LeftBehind
  <2>3. told \in SUBSET Int
    BY <2>1, <2>2
  <2> QED
    BY <2>3
<1>5. T # {} /\ \A x \in T : x <= 3
  <2>1. \A x \in Tiers : x <= 3
    BY DEF Tiers, None, LeftBehind
  <2> QED
    BY <1>1, <1>3, <1>4, <2>1
<1>6. Max(T) \in T /\ \A x \in T : x <= Max(T)
  BY <1>5, MaxIsGreatest
<1>7. Highest(s, usual, closeAt) = Max(T)
  BY <1>4 DEF Highest
<1> QED
  BY <1>2, <1>3, <1>4, <1>6, <1>7

\* Two instants in a row that the replay does not look at are never both above
\* the highest tier it saw.
LEMMA NoneMissed ==
  ASSUME NEW s \in StateRec, NEW usual \in Nat, NEW closeAt \in Int, NEW t \in Int, t < closeAt,
         s.dock # Null => s.loading
  PROVE  \/ ReplayTier(s, usual, t) <= Highest(s, usual, closeAt)
         \/ ReplayTier(s, usual, t + 1) <= Highest(s, usual, closeAt)
<1> DEFINE R(x) == ReplayTier(s, usual, x)
           Rank(x) == Ranked(PicksAt(s, x), LoadsAt(s, x), GoneAt(s, usual, x), x >= usual - Warn)
           top == Highest(s, usual, closeAt)
           i == usual - Warn + 1
<1>0. /\ Warn \in Nat /\ Gone \in Nat /\ (s.dock = Null \/ s.dock \in Int) /\ Null \notin Int
      /\ i \in Int /\ t + 1 \in Int
  BY Parameters DEF StateRec
<1>1. \A x \in Int : R(x) = Rank(x)
  BY ReplayRanks
<1>2. \A x \in Int : x \in ReplayInstants(s, usual, closeAt) => R(x) <= top
  BY HighestSeen
<1>3. top \in Tiers /\ Tiers = 0 .. 3
  BY HighestSeen DEF Tiers, None, LeftBehind
<1> HIDE DEF R, top
<1>4. CASE t < usual - Warn
  <2>1. ~GoneAt(s, usual, t)
    BY <1>0, <1>4 DEF GoneAt
  <2>2. R(t) = 0
    BY <1>0, <1>1, <1>4, <2>1 DEF Ranked
  <2> QED
    BY <1>3, <2>2 DEF R, top
<1>5. CASE t >= usual - Warn
  <2>1. i <= closeAt /\ i <= t + 1
    BY <1>0, <1>5
  <2>2. R(i) <= top
    BY <1>0, <1>2, <2>1 DEF ReplayInstants
  <2>3. CASE i = t + 1
    BY <2>2, <2>3 DEF R, top
  <2>4. CASE i <= t /\ ~GoneAt(s, usual, t)
    <3>1. (PicksAt(s, t) => PicksAt(s, i)) /\ (LoadsAt(s, t) => LoadsAt(s, i))
      BY <1>0, <2>4, OpenBefore
    <3>2. R(t) \in Int /\ R(i) \in Int /\ R(t) <= R(i)
      BY <1>0, <1>1, <2>4, <3>1 DEF Ranked
    <3>3. R(t) <= top
      BY <1>3, <2>2, <3>2
    <3> QED
      BY <3>3 DEF R, top
  <2>5. CASE i <= t /\ GoneAt(s, usual, t)
    <3> DEFINE late == s.dock # Null /\ Gone # 0 /\ s.dock > usual
               v == (IF late THEN s.dock ELSE usual) + Gone + 1
    <3>1. v \in Int /\ v <= t + 1 /\ v <= closeAt /\ GoneAt(s, usual, v)
      BY <1>0, <2>5 DEF GoneAt
    <3>2. v \in ReplayInstants(s, usual, closeAt)
      <4>1. CASE late
        BY <3>1, <4>1 DEF ReplayInstants
      <4>2. CASE ~late
        BY <3>1, <4>2 DEF ReplayInstants
      <4> QED
        BY <4>1, <4>2
    <3>3. R(v) <= top
      BY <1>2, <3>1, <3>2
    <3> HIDE DEF v
    <3>4. (PicksAt(s, t + 1) => PicksAt(s, v)) /\ (LoadsAt(s, t + 1) => LoadsAt(s, v))
      BY <1>0, <3>1, OpenBefore
    <3>5. R(t + 1) \in 0 .. 3 /\ R(v) \in 0 .. 3 /\ R(t + 1) <= R(v)
      BY <1>0, <1>1, <3>1, <3>4 DEF Ranked
    <3>6. R(t + 1) <= top
      BY <1>3, <3>3, <3>5
    <3> QED
      BY <3>6 DEF R, top
  <2> QED
    BY <1>0, <2>1, <2>3, <2>4, <2>5
<1> QED
  BY <1>0, <1>4, <1>5

\* Nor is the tick before a close at which the dock scans, unless the warning
\* and the gone window leave no tick between them.
LEMMA NoneMissedAtTheDock ==
  ASSUME NEW s \in StateRec, NEW usual \in Nat, NEW closeAt \in Int, s.dock # Null => s.loading,
         s.dock = closeAt, Gone >= 1, closeAt >= usual + Gone, Warn > 0 \/ Gone # 1
  PROVE  /\ ReplayTier(s, usual, closeAt - 1) \in Int /\ ReplayTier(s, usual, closeAt) \in Int
         /\ ReplayTier(s, usual, closeAt - 1) <= Highest(s, usual, closeAt)
         /\ ReplayTier(s, usual, closeAt) <= ReplayTier(s, usual, closeAt - 1)
<1> DEFINE R(x) == ReplayTier(s, usual, x)
           Rank(x) == Ranked(PicksAt(s, x), LoadsAt(s, x), GoneAt(s, usual, x), x >= usual - Warn)
           i == usual - Warn + 1
<1>0. /\ Warn \in Nat /\ Gone \in Nat /\ Null \notin Int /\ i \in Int /\ closeAt - 1 \in Int
      /\ i <= closeAt - 1 /\ i <= closeAt
  BY Parameters
<1>1. \A x \in Int : R(x) = Rank(x)
  BY ReplayRanks
<1>2. i \in ReplayInstants(s, usual, closeAt)
  BY <1>0 DEF ReplayInstants
<1>3. R(i) <= Highest(s, usual, closeAt) /\ Highest(s, usual, closeAt) \in 0 .. 3
  BY <1>2, HighestSeen DEF Tiers, None, LeftBehind
<1> HIDE DEF R
<1>4. \A x \in Int : x <= closeAt => ~GoneAt(s, usual, x)
  BY <1>0 DEF GoneAt
<1>5. /\ PicksAt(s, closeAt - 1) => PicksAt(s, i)
      /\ LoadsAt(s, closeAt - 1) => LoadsAt(s, i)
      /\ PicksAt(s, closeAt) => PicksAt(s, closeAt - 1)
      /\ LoadsAt(s, closeAt) => LoadsAt(s, closeAt - 1)
  BY <1>0, OpenBefore
<1>6. ~GoneAt(s, usual, i) /\ ~GoneAt(s, usual, closeAt - 1) /\ ~GoneAt(s, usual, closeAt)
  BY <1>0, <1>4
<1>7. /\ R(closeAt - 1) \in Int /\ R(closeAt) \in Int /\ R(i) \in Int
      /\ R(closeAt - 1) <= R(i) /\ R(closeAt) <= R(closeAt - 1)
  BY <1>0, <1>1, <1>5, <1>6 DEF Ranked
<1>8. R(closeAt - 1) <= Highest(s, usual, closeAt)
  BY <1>3, <1>7
<1> QED
  BY <1>7, <1>8 DEF R

-----------------------------------------------------------------------------
(* The replay and the warehouse.                                           *)

\* The last of the dock's scans on a day among those before an instant: later
\* ones may be in the log by now.
LastScan(dock, of, day, before) ==
    /\ dock = Null => \A x \in of : Day(x) = day => x >= before
    /\ dock # Null => /\ dock \in of /\ Day(dock) = day
                      /\ \A x \in of : Day(x) = day /\ x < before => x <= dock

\* A state a backfill read of a delivery: its close is past, and what it says of
\* the picks, the loads and the dock is what the log w and the scans say for good.
Kept(s, w, of, t) ==
    /\ s.dep + Grace <= t
    /\ IF s.lastPick = Null THEN s.confirmed = 0 ELSE w.pickAt = s.lastPick
    /\ IF s.lastLoad = Null THEN s.loaded = 0 ELSE w.loadAt = s.lastLoad
    /\ LastScan(s.dock, of, Day(s.dep), s.dep + Grace)
    /\ s.dock # Null => s.loading

\* A row a backfill wrote, or has since taken away, is the replay of such a state.
Rebuilt(r, w, of, t) ==
    r.reconstructed =>
        /\ ~Open(r) /\ r.usual \in Nat
        /\ r.day = Day(r.state.dep) /\ r.closedAt = r.state.dep + Grace
        /\ r.maxTier = Highest(r.state, r.usual, r.closedAt)
        /\ Kept(r.state, w, of, t)

\* The rows of the backfills done and the states of the one under way.
ReplayInv ==
    /\ \A i \in DOMAIN rows : Rebuilt(rows[i], wh[rows[i].d], scans, now)
    /\ fill.pc = "read" =>
          \A d \in Deliveries : fill.states[d] # Null => Kept(fill.states[d], wh[d], scans, now)

\* The clock of a dock is its last scan of that day among those seen.
LEMMA DockScanned ==
  ASSUME Shape, NEW seen \in SUBSET scans, NEW day
  PROVE  LET k == DockLast(seen, day) IN
         \/ k = Null /\ \A x \in seen : Day(x) # day
         \/ k \in seen /\ Day(k) = day /\ \A x \in seen : Day(x) = day => x <= k
<1> DEFINE of == {x \in seen : Day(x) = day}
<1>1. CASE of = {}
  BY <1>1 DEF DockLast
<1>2. CASE of # {}
  <2>1. scans \subseteq Int /\ \A x \in scans : x <= MaxTime
    BY Parameters DEF Shape, Instants
  <2>2. PICK S \in SUBSET Int : S = of
    BY <2>1
  <2>3. Max(S) \in S /\ \A x \in S : x <= Max(S)
    <3>1. S # {} /\ \A x \in S : x <= MaxTime
      BY <1>2, <2>1, <2>2
    <3>2. MaxTime \in Int
      BY Parameters
    <3> QED
      BY <3>1, <3>2, MaxIsGreatest
  <2>4. DockLast(seen, day) = Max(S)
    BY <1>2, <2>2 DEF DockLast
  <2> QED
    BY <2>2, <2>3, <2>4
<1> QED
  BY <1>1, <1>2

\* A scan of a day is not older than the day before.
LEMMA ScanInReach ==
  ASSUME NEW x \in Nat
  PROVE  (Day(x) - 1) * DayLen <= x
<1>1. Day(x) \in Nat /\ Day(x) * DayLen \in Nat /\ Day(x) * DayLen <= x
  BY Parameters, DivBounds DEF Day
<1>2. (Day(x) - 1) * DayLen = Day(x) * DayLen - DayLen
  BY <1>1, Parameters
<1> QED
  BY <1>1, <1>2, Parameters

\* The scans a delivery's dock had made by an instant before the close.
SeenBy(r, t) == {x \in scans : Within(x, (r.day - 1) * DayLen, r.closedAt) /\ x <= t}

\* What was open at an instant is what the replay finds open.
LEMMA WasOpen ==
  ASSUME Shape, NEW r \in RowRec, Kept(r.state, wh[r.d], scans, now), NEW t \in Int
  PROVE  /\ PickingOpen(AsItWas(r, t)) <=> PicksAt(r.state, t)
         /\ LoadingOpen(AsItWas(r, t)) <=> LoadsAt(r.state, t)
         /\ AsItWas(r, t).loading = r.state.loading
         /\ AsItWas(r, t).dock = DockLast(SeenBy(r, t), r.day)
<1>1. PICK s \in StateRec : s = r.state
  BY DEF RowRec
<1>2. PICK w \in WarehouseRec : w = wh[r.d]
  BY DEF Shape, RowRec
<1>3. PICK a, q : a = AsItWas(r, t) /\ q = StateAsOf(s, t)
  OBVIOUS
<1>4. PICK c, l, k :
         /\ c = (IF w.pickAt # Null /\ w.pickAt <= t THEN s.confirmed ELSE 0)
         /\ l = (IF w.loadAt # Null /\ w.loadAt <= t THEN s.loaded ELSE 0)
         /\ k = DockLast(SeenBy(r, t), r.day)
  OBVIOUS
<1>5. a = [s EXCEPT !.confirmed = c, !.loaded = l, !.dock = k]
  BY <1>1, <1>2, <1>3, <1>4 DEF AsItWas, SeenBy
<1>6. /\ a.expected = s.expected /\ a.created = s.created /\ a.loading = s.loading
      /\ a.confirmed = c /\ a.loaded = l /\ a.dock = k
  BY <1>5 DEF StateRec
<1>7. /\ q.expected = s.expected /\ q.created = s.created /\ q.loading = s.loading
      /\ q.confirmed = IF s.lastPick = Null \/ t >= s.lastPick THEN s.confirmed ELSE 0
      /\ q.loaded = IF s.lastLoad = Null \/ t >= s.lastLoad THEN s.loaded ELSE 0
  BY <1>3, WoundBack
<1>8. /\ IF s.lastPick = Null THEN s.confirmed = 0 ELSE w.pickAt = s.lastPick
      /\ IF s.lastLoad = Null THEN s.loaded = 0 ELSE w.loadAt = s.lastLoad
  BY <1>1, <1>2 DEF Kept
<1>9. /\ s.lastPick \in Int \/ s.lastPick = Null
      /\ s.lastLoad \in Int \/ s.lastLoad = Null
  BY Parameters DEF StateRec, Clock, Instants
<1>10. a.confirmed = q.confirmed
  BY <1>4, <1>6, <1>7, <1>8, <1>9
<1>11. a.loaded = q.loaded
  BY <1>4, <1>6, <1>7, <1>8, <1>9
<1>12. PickingOpen(a) <=> PickingOpen(q)
  BY <1>6, <1>7, <1>10 DEF PickingOpen
<1>13. LoadingOpen(a) <=> LoadingOpen(q)
  BY <1>6, <1>7, <1>11 DEF LoadingOpen
<1> QED
  BY <1>1, <1>3, <1>4, <1>6, <1>12, <1>13 DEF PicksAt, LoadsAt

\* The van was gone when the replay says so, if the dock did not pause; except
\* that a scan at the very close is not among the facts a backfill may read.
LEMMA WasGone ==
  ASSUME Shape, NEW r \in RowRec, r.reconstructed, Rebuilt(r, wh[r.d], scans, now), ~DockPaused(r),
         NEW t \in Int, t <= r.closedAt
  PROVE  \/ VanGone(AsItWas(r, t), t, r.usual) <=> GoneAt(r.state, r.usual, t)
         \/ t = r.closedAt /\ t = r.state.dock /\ Gone >= 1 /\ t >= r.usual + Gone
<1>1. PICK s \in StateRec : s = r.state
  BY DEF RowRec
<1>2. PICK usual \in Nat, at \in Int : usual = r.usual /\ at = r.closedAt /\ at = s.dep + Grace
  <2>1. s.dep \in Nat /\ Grace \in Nat
    BY Parameters DEF StateRec
  <2> QED
    BY <1>1, <2>1 DEF Rebuilt
<1>3. PICK a : a = AsItWas(r, t)
  OBVIOUS
<1>4. PICK seen \in SUBSET scans : seen = SeenBy(r, t)
  BY DEF SeenBy
<1>5. /\ LastScan(s.dock, scans, r.day, at) /\ (s.dock # Null => s.loading)
      /\ a.loading = s.loading /\ a.dock = DockLast(seen, r.day)
  <2>1. Kept(s, wh[r.d], scans, now) /\ r.day = Day(s.dep)
    BY <1>1 DEF Rebuilt
  <2> QED
    BY <1>1, <1>2, <1>3, <1>4, <2>1, WasOpen DEF Kept
<1>6. Null \notin Int /\ Gone \in Nat /\ scans \subseteq Nat
  BY Parameters DEF Shape, Instants
<1>7. \A x \in scans : (x \in seen /\ Day(x) = r.day) <=> (Day(x) = r.day /\ x < at /\ x <= t)
  <2>1. ASSUME NEW x \in scans, Day(x) = r.day PROVE x # Null /\ (r.day - 1) * DayLen <= x
    BY <1>6, <2>1, ScanInReach
  <2> QED
    BY <1>2, <1>4, <2>1 DEF SeenBy, Within
<1>8. \/ a.dock = Null /\ \A x \in seen : Day(x) # r.day
      \/ a.dock \in seen /\ Day(a.dock) = r.day /\ \A x \in seen : Day(x) = r.day => x <= a.dock
  <2>1. PICK k : k = DockLast(seen, r.day)
    OBVIOUS
  <2>2. \/ k = Null /\ \A x \in seen : Day(x) # r.day
        \/ k \in seen /\ Day(k) = r.day /\ \A x \in seen : Day(x) = r.day => x <= k
    BY ZenonT(40), <2>1, DockScanned
  <2> QED
    BY <1>5, <2>1, <2>2
<1>s. /\ s.dock = Null => \A x \in scans : Day(x) = r.day => x >= at
      /\ s.dock # Null => /\ s.dock \in scans /\ s.dock \in Nat /\ Day(s.dock) = r.day
                          /\ \A x \in scans : Day(x) = r.day /\ x < at => x <= s.dock
  BY <1>5, <1>6 DEF LastScan
<1>9. CASE s.dock = Null
  <2>1. \A x \in scans : x \in Nat /\ (Day(x) = r.day => ~(x < at))
    BY <1>2, <1>6, <1>9, <1>s
  <2>2. a.dock = Null
    BY <1>7, <1>8, <2>1
  <2>3. VanGone(a, t, usual) <=> t >= usual + Gone
    BY <2>2 DEF VanGone
  <2> QED
    BY <1>1, <1>2, <1>3, <1>9, <2>3 DEF GoneAt
<1>10. CASE s.dock # Null /\ t < s.dock
  <2>1. s.dock \in Nat
    BY <1>10, <1>s
  <2>2. ~VanGone(a, t, usual)
    <3>1. CASE t < 0
      <4>1. ~(t >= usual + Gone)
        BY <1>6, <3>1
      <4> QED
        BY <4>1 DEF VanGone
    <3>2. CASE t >= 0
      <4>1. t \in 0 .. (s.dock - 1)
        BY <1>10, <2>1, <3>2
      <4> QED
        BY <1>1, <1>2, <1>3, <1>10, <4>1 DEF DockPaused
    <3> QED
      BY <3>1, <3>2
  <2>3. ~GoneAt(s, usual, t)
    <3>1. ASSUME GoneAt(s, usual, t) PROVE FALSE
      <4>1. Gone = 0 /\ t >= usual + Gone
        BY <1>6, <1>10, <2>1, <3>1 DEF GoneAt
      <4>2. a.dock = Null \/ (a.dock \in Nat /\ a.dock <= t)
        BY <1>6, <1>7, <1>8
      <4>3. VanGone(a, t, usual)
        BY <4>1, <4>2 DEF VanGone
      <4> QED
        BY <2>2, <4>3
    <3> QED
      BY <3>1
  <2> QED
    BY <1>1, <1>2, <1>3, <2>2, <2>3
<1>11. CASE s.dock # Null /\ t >= s.dock /\ s.dock < at
  <2>1. s.dock \in scans /\ s.dock \in Nat /\ s.dock \in seen /\ Day(s.dock) = r.day
    BY <1>7, <1>11, <1>s
  <2>2. a.dock \in seen /\ Day(a.dock) = r.day /\ s.dock <= a.dock
    BY <1>8, <2>1
  <2>3. a.dock = s.dock
    <3>1. PICK k \in scans : k = a.dock /\ k \in seen /\ Day(k) = r.day
      BY <2>2
    <3>2. k < at
      BY <1>7, <3>1
    <3>3. k <= s.dock
      BY <1>11, <1>s, <3>1, <3>2
    <3> QED
      BY <1>6, <2>1, <2>2, <3>1, <3>3
  <2>4. VanGone(a, t, usual) <=> t >= usual + Gone /\ t - s.dock >= Gone
    BY <1>5, <1>6, <1>11, <2>1, <2>3 DEF VanGone
  <2>5. VanGone(a, t, usual) <=> GoneAt(s, usual, t)
    BY <1>6, <1>11, <2>1, <2>4 DEF GoneAt
  <2> QED
    BY <1>1, <1>2, <1>3, <2>5
<1>12. CASE s.dock # Null /\ t >= s.dock /\ s.dock >= at
  <2>1. s.dock \in Nat /\ t = at /\ t = s.dock
    BY <1>2, <1>12, <1>s
  <2>2. ASSUME t < usual + Gone PROVE VanGone(a, t, usual) <=> GoneAt(s, usual, t)
    BY <1>6, <2>2 DEF VanGone, GoneAt
  <2>3. ASSUME t >= usual + Gone, Gone = 0 PROVE VanGone(a, t, usual) <=> GoneAt(s, usual, t)
    <3>1. a.dock = Null \/ (a.dock \in Nat /\ a.dock <= t)
      BY <1>6, <1>7, <1>8
    <3>2. VanGone(a, t, usual)
      BY <2>3, <3>1 DEF VanGone
    <3> QED
      BY <2>3, <3>2 DEF GoneAt
  <2> QED
    BY <1>1, <1>2, <1>3, <1>6, <2>1, <2>2, <2>3
<1> QED
  <2>1. s.dock = Null \/ s.dock \in Int
    BY DEF StateRec
  <2> QED
    BY <1>2, <1>9, <1>10, <1>11, <1>12, <2>1

\* The tier the minute pass would have seen is the replay's, but perhaps at a
\* close at which the dock scans.
LEMMA JudgedAsReplayed ==
  ASSUME Shape, NEW r \in RowRec, r.reconstructed, Rebuilt(r, wh[r.d], scans, now), ~DockPaused(r),
         NEW t \in Int, t <= r.closedAt
  PROVE  \/ Judged(r, t) = ReplayTier(r.state, r.usual, t)
         \/ /\ t = r.closedAt /\ t = r.state.dock /\ Gone >= 1 /\ t >= r.usual + Gone
            /\ ReplayTier(r.state, r.usual, t) # 0
<1>1. PICK s \in StateRec, usual \in Nat : s = r.state /\ usual = r.usual
  BY DEF RowRec, Rebuilt
<1>2. Kept(s, wh[r.d], scans, now) /\ (s.dock # Null => s.loading)
  BY <1>1 DEF Rebuilt, Kept
<1>3. PICK a : a = AsItWas(r, t)
  OBVIOUS
<1>4. (PickingOpen(a) <=> PicksAt(s, t)) /\ (LoadingOpen(a) <=> LoadsAt(s, t))
  BY <1>1, <1>2, <1>3, WasOpen
<1>5. Judged(r, t) = Ranked(PickingOpen(a), LoadingOpen(a), VanGone(a, t, usual), t >= usual - Warn)
  BY <1>1, <1>3, RuleRanks DEF Judged
<1>6. ReplayTier(s, usual, t) = Ranked(PicksAt(s, t), LoadsAt(s, t), GoneAt(s, usual, t), t >= usual - Warn)
  BY <1>2, ReplayRanks
<1>7. CASE VanGone(a, t, usual) <=> GoneAt(s, usual, t)
  BY <1>1, <1>4, <1>5, <1>6, <1>7 DEF Ranked
<1>8. CASE t = r.closedAt /\ t = s.dock /\ Gone >= 1 /\ t >= usual + Gone
  <2>1. t >= usual - Warn
    BY <1>8, Parameters
  <2>2. CASE PicksAt(s, t) \/ LoadsAt(s, t)
    BY <1>1, <1>6, <1>8, <2>1, <2>2 DEF Ranked
  <2>3. CASE ~(PicksAt(s, t) \/ LoadsAt(s, t))
    BY <1>1, <1>4, <1>5, <1>6, <2>3 DEF Ranked
  <2> QED
    BY <2>2, <2>3
<1> QED
  BY <1>1, <1>3, <1>7, <1>8, WasGone

\* A row that is the replay of what the log says reports what the passes would
\* have seen.
LEMMA RowFaithful ==
  ASSUME Shape, NEW r \in RowRec, r.reconstructed, Rebuilt(r, wh[r.d], scans, now), ~DockPaused(r), Warn > 0 \/ Gone # 1
  PROVE  /\ \A t \in -Warn .. (r.closedAt - 1) : Min({Judged(r, t), Judged(r, t + 1)}) <= r.maxTier
         /\ \E t \in -Warn .. r.closedAt : Judged(r, t) = r.maxTier
<1> DEFINE J(x) == Judged(r, x)
           R(x) == ReplayTier(r.state, r.usual, x)
           Blind(x) == x = r.closedAt /\ x = r.state.dock /\ Gone >= 1 /\ x >= r.usual + Gone /\ R(x) # 0
<1>1. PICK s \in StateRec, usual \in Nat, at \in Nat :
         s = r.state /\ usual = r.usual /\ at = r.closedAt
  <2>1. r.state \in StateRec
    BY DEF RowRec
  <2>2. r.state.dep \in Nat /\ Grace \in Nat
    BY <2>1, Parameters DEF StateRec
  <2> QED
    BY <2>1, <2>2 DEF Rebuilt
<1>2. r.maxTier = Highest(s, usual, at) /\ (s.dock # Null => s.loading)
  BY <1>1 DEF Rebuilt, Kept
<1>3. \A x \in Int : x <= at => J(x) = R(x) \/ Blind(x)
  BY <1>1, JudgedAsReplayed
<1>4. \A x : J(x) \in Tiers /\ R(x) \in Tiers
  BY TierKnown DEF Judged, ReplayTier
<1>5. Tiers = 0 .. 3 /\ Warn \in Nat /\ Gone \in Nat
  BY Parameters DEF Tiers, None, LeftBehind
<1>6. ASSUME NEW x \in Int, x < at, Blind(at)
      PROVE  J(at - 1) = R(at - 1) /\ R(at - 1) <= r.maxTier /\ R(at) <= R(at - 1)
  <2>1. at - 1 \in Int /\ at - 1 <= at /\ at - 1 # at
    OBVIOUS
  <2>2. J(at - 1) = R(at - 1)
    BY <1>1, <1>3, <2>1
  <2> QED
    BY <1>1, <1>2, <1>6, <2>2, NoneMissedAtTheDock
<1>7. ASSUME NEW t \in -Warn .. (r.closedAt - 1) PROVE Min({J(t), J(t + 1)}) <= r.maxTier
  <2>1. t \in Int /\ t + 1 \in Int /\ t < at /\ t <= at /\ t + 1 <= at
    BY <1>1, <1>5
  <2>2. J(t) \in Int /\ J(t + 1) \in Int /\ R(t) \in Int /\ R(t + 1) \in Int
    BY <1>4, <1>5
  <2>3. J(t) = R(t)
    BY <1>1, <1>3, <2>1
  <2>4. R(t) <= r.maxTier \/ R(t + 1) <= r.maxTier
    BY <1>1, <1>2, <2>1, NoneMissed
  <2>5. J(t) <= r.maxTier \/ J(t + 1) <= r.maxTier
    <3>1. CASE J(t + 1) = R(t + 1)
      BY <2>3, <2>4, <3>1
    <3>2. CASE J(t + 1) # R(t + 1)
      <4>1. Blind(t + 1) /\ t + 1 = at
        BY <1>1, <1>3, <2>1, <3>2
      <4>2. t = at - 1 /\ Blind(at)
        BY <2>1, <4>1
      <4> QED
        BY <1>6, <2>1, <4>2
    <3> QED
      BY <3>1, <3>2
  <2> HIDE DEF J
  <2>6. Min({J(t), J(t + 1)}) = IF J(t) <= J(t + 1) THEN J(t) ELSE J(t + 1)
    BY <2>2, LesserOf
  <2>7. r.maxTier \in Int
    BY <1>5 DEF RowRec
  <2> QED
    BY <2>2, <2>5, <2>6, <2>7
<1>8. \E t \in -Warn .. r.closedAt : J(t) = r.maxTier
  <2>1. PICK x \in ReplayInstants(s, usual, at) : R(x) = r.maxTier
    BY <1>1, <1>2, HighestSeen
  <2>2. x \in Int /\ x <= at /\ x >= -Warn
    <3>1. x \in Int
      BY HighestSeen
    <3>2. s.lastPick \in Clock /\ s.lastLoad \in Clock /\ (s.dock # Null => s.dock \in Nat)
      <4>1. s.dock # Null => s.dock \in scans
        BY <1>1 DEF Rebuilt, Kept, LastScan
      <4> QED
        BY <4>1 DEF StateRec, Shape, Instants
    <3>3. \A y \in Clock \ {Null} : y \in Nat
      BY DEF Clock, Instants
    <3> QED
      BY <1>5, <3>1, <3>2, <3>3 DEF ReplayInstants
  <2>3. CASE J(x) = R(x)
    BY <1>1, <2>1, <2>2, <2>3
  <2>4. CASE J(x) # R(x)
    <3>1. x = at /\ Blind(at)
      BY <1>1, <1>3, <2>2, <2>4
    <3>2. at >= 1 /\ at - 1 \in Int /\ at - 1 < at
      BY <1>1, <1>5, <3>1
    <3>3. J(at - 1) = R(at - 1) /\ R(at - 1) <= r.maxTier /\ R(at) <= R(at - 1)
      BY <1>6, <3>1, <3>2
    <3>4. R(at - 1) \in Int /\ R(at) \in Int
      BY <1>4, <1>5
    <3>5. J(at - 1) = r.maxTier
      BY <2>1, <3>1, <3>3, <3>4
    <3>6. at - 1 \in -Warn .. r.closedAt
      BY <1>1, <1>5, <3>2
    <3> QED
      BY <3>5, <3>6
  <2> QED
    BY <2>3, <2>4
<1> QED
  BY <1>7, <1>8

-----------------------------------------------------------------------------
(* The replay keeps what it read.                                          *)

\* The dock only gains scans of the present.
Scanned == scans \subseteq scans' /\ scans' \subseteq scans \cup {now}

\* A step logs at the present, whatever it does.
LEMMA StepLogs == Inv /\ [Next]_vars => Logged /\ Scanned
<1> SUFFICES ASSUME Inv, [Next]_vars PROVE Logged /\ Scanned
  OBVIOUS
<1>0. Shape /\ now \in Int
  BY Parameters DEF Inv, Shape, Instants
<1>1. ASSUME UNCHANGED <<now, wh, scans>> PROVE Logged /\ Scanned
  BY <1>0, <1>1 DEF Logged, Scanned
<1>2. ASSUME NEW d \in Deliveries, NEW dep \in Departures, Announce(d, dep) PROVE Logged /\ Scanned
  BY <1>0, <1>2, CallJoins DEF Announce, Scanned
<1>3. ASSUME NEW d \in Deliveries, ConfirmPickLine(d) \/ LoadDeliveryPackage(d) PROVE Logged /\ Scanned
  BY <1>0, <1>3, EventLogged DEF ConfirmPickLine, LoadDeliveryPackage, Scanned
<1>4. ASSUME DockScan \/ Tick PROVE Logged /\ Scanned
  BY <1>0, <1>4, ShapeQuiet DEF DockScan, Tick, Scanned
<1>5. CASE UNCHANGED vars
  BY <1>1, <1>5 DEF vars
<1>6. CASE Next
  <2>1. ASSUME ProfileTenant \/ WriteDay PROVE Logged /\ Scanned
    BY <1>1, <2>1 DEF ProfileTenant, WriteDay
  <2>2. ASSUME NEW d, NEW day, ReadForCheck(d, day) PROVE Logged /\ Scanned
    BY <1>1, <2>2 DEF ReadForCheck
  <2>3. ASSUME NEW undo, CommitCheck(undo) PROVE Logged /\ Scanned
    BY <1>1, <2>3 DEF CommitCheck
  <2>4. ASSUME NEW day, NEW replace, ReadDay(day, replace) PROVE Logged /\ Scanned
    BY <1>1, <2>4 DEF ReadDay
  <2>5. ASSUME NEW what, Switch(what) PROVE Logged /\ Scanned
    BY <1>1, <2>5 DEF Switch
  <2>6. ASSUME NEW e, Pass(e) \/ PassFails(e) PROVE Logged /\ Scanned
    BY <1>1, <2>6 DEF Pass, ReadBoard, WritePass, PassFails
  <2> QED
    BY <1>2, <1>3, <1>4, <1>6, <2>1, <2>2, <2>3, <2>4, <2>5, <2>6 DEF Next, Warehouse, People
<1> QED
  BY <1>5, <1>6

\* What a backfill read stays true: the log never changes what is past.
LEMMA KeptStays ==
  ASSUME Shape, Shape', Logged, Scanned, NEW s \in StateRec, NEW d \in Deliveries,
         Kept(s, wh[d], scans, now)
  PROVE  Kept(s, wh'[d], scans', now')
<1>1. PICK close \in Int : close = s.dep + Grace
  <2>1. s.dep \in Nat /\ Grace \in Nat
    BY Parameters DEF StateRec
  <2> QED
    BY <2>1
<1>2. now \in Int /\ now' \in Int /\ now <= now' /\ close <= now
  BY <1>1, Parameters DEF Shape, Instants, Logged, Kept
<1>3. /\ s.lastPick # Null => wh'[d].pickAt = s.lastPick
      /\ s.lastLoad # Null => wh'[d].loadAt = s.lastLoad
  BY DEF Kept, Logged
<1>4. LastScan(s.dock, scans', Day(s.dep), close)
  <2>1. LastScan(s.dock, scans, Day(s.dep), close)
    BY <1>1 DEF Kept
  <2>2. \A x \in scans' : x \in scans \/ (x >= close /\ ~(x < close))
    BY <1>2 DEF Scanned
  <2> QED
    BY <2>1, <2>2 DEF LastScan, Scanned
<1> QED
  BY <1>1, <1>2, <1>3, <1>4 DEF Kept

\* A row that stays, or is only taken away, is still the replay it was.
LEMMA RebuiltStays ==
  ASSUME Shape, Shape', Logged, Scanned, NEW r \in RowRec, NEW q, Rebuilt(r, wh[r.d], scans, now),
         q.reconstructed = r.reconstructed, Open(q) => Open(r),
         q.d = r.d, q.state = r.state, q.usual = r.usual, q.day = r.day, q.closedAt = r.closedAt, q.maxTier = r.maxTier
  PROVE  Rebuilt(q, wh'[q.d], scans', now')
<1> SUFFICES ASSUME r.reconstructed PROVE Rebuilt(q, wh'[q.d], scans', now')
  BY DEF Rebuilt
<1>1. PICK s \in StateRec, d \in Deliveries : s = r.state /\ d = r.d
  BY DEF RowRec
<1>2. Kept(s, wh'[d], scans', now')
  <2>1. Kept(s, wh[d], scans, now)
    BY <1>1 DEF Rebuilt
  <2> QED
    BY <2>1, KeptStays
<1> QED
  BY <1>1, <1>2 DEF Rebuilt

\* A row written from a state that was kept is its replay.
LEMMA RowRebuilt ==
  ASSUME NEW d \in Deliveries, NEW s \in StateRec, NEW usual \in Nat, NEW w, NEW of, NEW t, Kept(s, w, of, t)
  PROVE  Rebuilt(WriteClosed(d, s, usual), w, of, t)
<1>1. PICK close, last, top, out :
         /\ close = s.dep + Grace /\ last = ReplayTier(s, usual, close)
         /\ top = Highest(s, usual, close) /\ out = OutcomeFor(s)
  OBVIOUS
<1>2. PICK r : r = NewRow(d, s)
  OBVIOUS
<1>3. r \in RowRec /\ r.d = d /\ r.state = s /\ r.day = Day(s.dep)
  BY <1>2, RowStarts DEF NewRow
<1>4. PICK q : q = WriteClosed(d, s, usual)
  OBVIOUS
<1>5. q = [r EXCEPT !.status = "closed", !.usual = usual, !.reconstructed = TRUE, !.closedAt = close,
                    !.tier = last, !.maxTier = top, !.outcome = out]
  BY <1>1, <1>2, <1>4 DEF WriteClosed, Highest
<1>6. /\ q.status = "closed" /\ q.usual = usual /\ q.closedAt = close /\ q.maxTier = top
      /\ q.state = s /\ q.day = Day(s.dep) /\ q.d = d
  BY <1>3, <1>5 DEF RowRec
<1>7. Rebuilt(q, w, of, t)
  BY <1>1, <1>6 DEF Rebuilt, Open
<1> QED
  BY <1>4, <1>7

\* A state read for a departure whose close is past, up to that close or later,
\* says what the log says for good.
LEMMA AssembledIsKept ==
  ASSUME Shape, NEW d \in Deliveries, NEW dep \in Departures, NEW hi \in Int, NEW loads \in BOOLEAN,
         dep + Grace <= hi, hi <= now
  PROVE  Kept(Assemble(d, dep, (Day(dep) - 1) * DayLen, hi, loads), wh[d], scans, now)
<1> DEFINE lo == (Day(dep) - 1) * DayLen
           seen == {t \in scans : Within(t, lo, hi)}
<1>1. PICK w \in WarehouseRec : w = wh[d]
  BY DEF Shape
<1>2. PICK s : s = Assemble(d, dep, lo, hi, loads)
  OBVIOUS
<1>3. PICK load : load = IF Within(w.loadAt, lo, hi) THEN w.loadAt ELSE Null
  OBVIOUS
<1>4. /\ s.dep = dep /\ s.lastPick = w.pickAt /\ s.lastLoad = load
      /\ s.confirmed = (IF w.pickAt = Null THEN 0 ELSE 1)
      /\ s.loaded = (IF load = Null THEN 0 ELSE 1)
      /\ s.dock = DockLast(seen, Day(dep))
      /\ s.loading = (seen # {} \/ loads)
  BY <1>1, <1>2, <1>3 DEF Assemble
<1>5. PICK close \in Int : close = dep + Grace /\ close <= hi /\ close <= now
  <2>1. dep \in Nat /\ Grace \in Nat /\ now \in Int
    BY Parameters DEF Shape, Instants
  <2> QED
    BY <2>1
<1>6. scans \subseteq Nat /\ Null \notin Int /\ lo \in Int
  <2>1. Day(dep) \in Nat /\ DayLen \in Nat
    BY Parameters, DayOf
  <2> QED
    BY <2>1, Parameters DEF Shape, Instants
<1>7. ASSUME NEW x \in scans, Day(x) = Day(dep) PROVE x \in seen <=> x < hi
  <2>1. lo <= x /\ x # Null
    BY <1>6, <1>7, ScanInReach
  <2> QED
    BY <2>1 DEF Within
<1> HIDE DEF lo
<1>8. seen \in SUBSET scans
  OBVIOUS
<1> HIDE DEF seen
<1>9. \/ s.dock = Null /\ \A x \in seen : Day(x) # Day(dep)
      \/ s.dock \in seen /\ Day(s.dock) = Day(dep) /\ \A x \in seen : Day(x) = Day(dep) => x <= s.dock
  <2>1. PICK k : k = DockLast(seen, Day(dep))
    OBVIOUS
  <2>2. \/ k = Null /\ \A x \in seen : Day(x) # Day(dep)
        \/ k \in seen /\ Day(k) = Day(dep) /\ \A x \in seen : Day(x) = Day(dep) => x <= k
    BY ZenonT(40), <1>8, <2>1, DockScanned
  <2> QED
    BY <1>4, <2>1, <2>2
<1>10. LastScan(s.dock, scans, Day(dep), close)
  <2>1. ASSUME s.dock = Null, NEW x \in scans, Day(x) = Day(dep) PROVE x >= close
    <3>1. \A y \in scans : y # Null
      BY <1>6
    <3>2. x \notin seen
      BY <1>8, <1>9, <2>1, <3>1
    <3>3. ~(x < hi)
      BY <1>7, <2>1, <3>2
    <3> QED
      BY <1>5, <1>6, <3>3
  <2>2. ASSUME s.dock # Null
        PROVE  /\ s.dock \in scans /\ Day(s.dock) = Day(dep)
               /\ \A x \in scans : Day(x) = Day(dep) /\ x < close => x <= s.dock
    <3>1. s.dock \in seen /\ Day(s.dock) = Day(dep) /\ \A x \in seen : Day(x) = Day(dep) => x <= s.dock
      BY <1>9, <2>2
    <3>2. ASSUME NEW x \in scans, Day(x) = Day(dep), x < close PROVE x <= s.dock
      <4>1. x < hi
        BY <1>5, <1>6, <3>2
      <4> QED
        BY <1>7, <3>1, <3>2, <4>1
    <3> QED
      BY <1>8, <3>1, <3>2
  <2> QED
    BY <2>1, <2>2 DEF LastScan
<1>11. s.dock # Null => s.loading
  BY <1>4, <1>9
<1>12. load # Null => w.loadAt = load
  BY <1>3
<1>13. Kept(s, w, scans, now)
  BY <1>4, <1>5, <1>10, <1>11, <1>12 DEF Kept
<1> QED
  BY <1>1, <1>2, <1>13 DEF lo

\* The close a backfill waits for is no earlier than that of any of its departures.
LEMMA ClosesLast ==
  ASSUME Shape, NEW day \in Days, NEW c \in Deliveries, DepartsOn(c, day)
  PROVE  LET named == {d \in Deliveries : DepartsOn(d, day)}
             last == Max({DepartureBy(d, day) : d \in named})
         IN last \in Int /\ DepartureBy(c, day) <= last
<1> DEFINE named == {d \in Deliveries : DepartsOn(d, day)}
           deps == {DepartureBy(d, day) : d \in named}
           f == [d \in named |-> DepartureBy(d, day)]
<1>1. \A d \in named : DepartureBy(d, day) \in Departures
  BY DepartureRead
<1>2. deps \in SUBSET Int
  <2>1. deps \subseteq Departures
    BY <1>1
  <2>2. Departures \subseteq Int
    BY Parameters
  <2>3. deps \subseteq Int
    BY <2>1, <2>2
  <2> QED
    BY <2>3
<1>3. IsFiniteSet(deps)
  <2>1. IsFiniteSet(named)
    BY Parameters, FS_Subset
  <2>2. f \in Surjection(named, deps)
    BY DEF Surjection
  <2> QED
    BY <2>1, <2>2, FS_Surjection
<1>4. DepartureBy(c, day) \in deps
  OBVIOUS
<1> HIDE DEF deps
<1>5. PICK b \in Int : \A x \in deps : x <= b
  BY <1>2, <1>3, FiniteHasBound
<1>6. Max(deps) \in deps /\ \A x \in deps : x <= Max(deps)
  BY <1>2, <1>4, <1>5, MaxIsGreatest
<1> QED
  BY <1>2, <1>4, <1>6 DEF deps

\* What a backfill reads says what the log says for good: it starts only when
\* the last departure of the day is closed (backfill.py).
LEMMA FillKept ==
  ASSUME Shape, NEW day \in Days, NEW replace \in BOOLEAN, ReadDay(day, replace),
         NEW d \in Deliveries, fill'.states[d] # Null
  PROVE  Kept(fill'.states[d], wh[d], scans, now)
<1> DEFINE named == {x \in Deliveries : DepartsOn(x, day)}
           last == Max({DepartureBy(x, day) : x \in named})
           closeAt == last + Grace
<1>1. PICK profile \in ProfileRec : profile = Latest(day - 1)
  BY ProfileRead
<1>2. PICK states : states = [x \in Deliveries |->
          IF x \in named THEN Assemble(x, DepartureBy(x, day), (day - 1) * DayLen, closeAt, profile.loads) ELSE Null]
  OBVIOUS
<1>3. fill'.states = states /\ closeAt <= now
  BY <1>1, <1>2 DEF ReadDay
<1>4. /\ DepartsOn(d, day)
      /\ states[d] = Assemble(d, DepartureBy(d, day), (day - 1) * DayLen, closeAt, profile.loads)
  <2>1. states[d] # Null
    BY <1>3
  <2> QED
    BY <1>2, <2>1
<1>5. PICK dep \in Departures : dep = DepartureBy(d, day) /\ day = Day(dep)
  BY <1>4, DepartureRead DEF DepartsOn
<1>6. last \in Int /\ dep <= last
  BY <1>4, <1>5, ClosesLast
<1> HIDE DEF last
<1>7. PICK hi \in Int : hi = closeAt /\ dep + Grace <= hi /\ hi <= now
  <2>1. dep \in Int /\ Grace \in Int
    BY Parameters
  <2> QED
    BY <1>3, <1>6, <2>1
<1>8. PICK loads \in BOOLEAN : loads = profile.loads
  BY DEF ProfileRec
<1>9. Kept(Assemble(d, dep, (Day(dep) - 1) * DayLen, hi, loads), wh[d], scans, now)
  BY <1>7, AssembledIsKept
<1> HIDE DEF closeAt
<1> QED
  BY <1>3, <1>4, <1>5, <1>7, <1>8, <1>9
\* Before the first pass nothing was replayed.
LEMMA ReplayInit == Init => ReplayInv
<1> SUFFICES ASSUME Init PROVE ReplayInv
  OBVIOUS
<1>1. rows = <<>> /\ fill.pc = "idle"
  BY DEF Init, NoFill
<1> QED
  BY <1>1 DEF ReplayInv

\* Each step leaves the replays what they were; a backfill adds its own.
LEMMA ReplayNext == Inv /\ Inv' /\ ReplayInv /\ [Next]_vars => ReplayInv'
<1> SUFFICES ASSUME Inv, Inv', ReplayInv, [Next]_vars PROVE ReplayInv'
  OBVIOUS
<1>0. Shape /\ Shape' /\ Logged /\ Scanned /\ now \in Int
  BY StepLogs, Parameters DEF Inv, Shape, Instants
<1>1. /\ rows \in Seq(RowRec) /\ rows' \in Seq(RowRec)
      /\ DOMAIN rows = 1 .. Len(rows) /\ \A i \in 1 .. Len(rows) : rows[i] \in RowRec
      /\ DOMAIN rows' = 1 .. Len(rows') /\ Len(rows) \in Nat /\ Len(rows') \in Nat
  <2>1. rows \in Seq(RowRec) /\ rows' \in Seq(RowRec)
    BY <1>0 DEF Shape
  <2> QED
    BY <2>1, Places
<1>2. ASSUME NEW i \in 1 .. Len(rows), NEW q, q.reconstructed = rows[i].reconstructed, Open(q) => Open(rows[i]),
             q.d = rows[i].d, q.state = rows[i].state, q.usual = rows[i].usual,
             q.day = rows[i].day, q.closedAt = rows[i].closedAt, q.maxTier = rows[i].maxTier
      PROVE  Rebuilt(q, wh'[q.d], scans', now')
  <2>1. PICK r \in RowRec : r = rows[i]
    BY <1>1
  <2>2. Rebuilt(r, wh[r.d], scans, now)
    BY <1>1, <2>1 DEF ReplayInv
  <2> QED
    BY <1>0, <1>2, <2>1, <2>2, RebuiltStays
<1>3. \A i \in 1 .. Len(rows) : Rebuilt(rows[i], wh'[rows[i].d], scans', now')
  BY <1>2
<1>4. ASSUME fill' \in {fill, NoFill}
      PROVE  fill'.pc = "read" =>
                \A d \in Deliveries : fill'.states[d] # Null => Kept(fill'.states[d], wh'[d], scans', now')
  <2> SUFFICES ASSUME fill'.pc = "read", NEW d \in Deliveries, fill'.states[d] # Null
               PROVE  Kept(fill'.states[d], wh'[d], scans', now')
    OBVIOUS
  <2>1. fill' = fill
    BY <1>4 DEF NoFill
  <2>2. PICK s \in StateRec : s = fill.states[d]
    BY <1>0, <2>1 DEF Shape, Read
  <2>3. Kept(s, wh[d], scans, now)
    BY <2>1, <2>2 DEF ReplayInv
  <2> QED
    BY <1>0, <2>1, <2>2, <2>3, KeptStays
<1>5. ASSUME rows' = rows, fill' \in {fill, NoFill} PROVE ReplayInv'
  BY <1>1, <1>3, <1>4, <1>5 DEF ReplayInv
<1>6. ASSUME NEW e \in Evaluators, WritePass(e) PROVE ReplayInv'
  <2>1. /\ \A i \in 1 .. Len(rows) : ~Open(rows[i]) => rows'[i] = rows[i]
        /\ \A i \in DOMAIN rows' : rows'[i].reconstructed => i \in 1 .. Len(rows) /\ rows[i].reconstructed
    BY <1>6, PassWritten
  <2>2. ASSUME NEW i \in DOMAIN rows' PROVE Rebuilt(rows'[i], wh'[rows'[i].d], scans', now')
    <3>1. CASE ~rows'[i].reconstructed
      BY <3>1 DEF Rebuilt
    <3>2. CASE rows'[i].reconstructed
      <4>1. i \in 1 .. Len(rows) /\ rows[i].reconstructed
        BY <2>1, <2>2, <3>2
      <4>2. ~Open(rows[i])
        BY <1>1, <4>1 DEF ReplayInv, Rebuilt
      <4> QED
        BY <1>3, <2>1, <4>1, <4>2
    <3> QED
      BY <3>1, <3>2
  <2>3. fill' = fill
    BY <1>6 DEF WritePass
  <2> QED
    BY <1>4, <2>2, <2>3 DEF ReplayInv
<1>7. ASSUME NEW undo \in BOOLEAN, CommitCheck(undo) PROVE ReplayInv'
  <2>1. \A i \in 1 .. Len(rows) : SameButChecks(rows[i], rows'[i])
    BY <1>7, CheckCommitted
  <2>2. fill' = fill /\ DOMAIN rows' = DOMAIN rows
    BY <1>7 DEF CommitCheck
  <2>3. ASSUME NEW i \in DOMAIN rows' PROVE Rebuilt(rows'[i], wh'[rows'[i].d], scans', now')
    <3>1. i \in 1 .. Len(rows) /\ rows'[i] \in RowRec
      BY <1>1, <2>2, Places
    <3>2. PICK r \in RowRec, q \in RowRec : r = rows[i] /\ q = rows'[i]
      BY <1>1, <3>1
    <3>3. r = [q EXCEPT !.checked = r.checked, !.raced = r.raced, !.reopenedBefore = r.reopenedBefore]
      BY <2>1, <3>1, <3>2 DEF SameButChecks
    <3>4. /\ q.reconstructed = r.reconstructed /\ q.status = r.status /\ q.d = r.d /\ q.state = r.state
          /\ q.usual = r.usual /\ q.day = r.day /\ q.closedAt = r.closedAt /\ q.maxTier = r.maxTier
      BY <3>3 DEF RowRec
    <3> QED
      BY <1>2, <3>1, <3>2, <3>4 DEF Open
  <2> QED
    BY <1>4, <2>2, <2>3 DEF ReplayInv
<1>8. ASSUME WriteDay PROVE ReplayInv'
  <2>1. Backfilled(rows, fill, rows') /\ Replay(fill)
    BY <1>8, DayWritten
  <2>2. fill.pc = "read" /\ fill' = NoFill /\ UNCHANGED <<now, wh, scans>>
    BY <1>8 DEF WriteDay
  <2>3. ASSUME NEW i \in DOMAIN rows' PROVE Rebuilt(rows'[i], wh'[rows'[i].d], scans', now')
    <3>1. CASE i \in 1 .. Len(rows)
      <4>1. \/ rows'[i] = rows[i]
            \/ rows'[i] = [rows[i] EXCEPT !.status = "deleted"]
        BY <2>1, <3>1 DEF Backfilled
      <4>2. CASE rows'[i] = rows[i]
        BY <1>3, <3>1, <4>2
      <4>3. CASE rows'[i] = [rows[i] EXCEPT !.status = "deleted"]
        <5>1. PICK r \in RowRec : r = rows[i]
          BY <1>1, <3>1
        <5>2. PICK q : q = [r EXCEPT !.status = "deleted"]
          OBVIOUS
        <5>3. /\ q.reconstructed = r.reconstructed /\ ~Open(q) /\ q.d = r.d /\ q.state = r.state
              /\ q.usual = r.usual /\ q.day = r.day /\ q.closedAt = r.closedAt /\ q.maxTier = r.maxTier
          BY <5>2 DEF RowRec, Open
        <5> QED
          BY <1>2, <3>1, <4>3, <5>1, <5>2, <5>3
      <4> QED
        BY <4>1, <4>2, <4>3
    <3>2. CASE i \in Len(rows) + 1 .. Len(rows')
      <4>1. PICK d \in Deliveries : fill.states[d] # Null /\ rows'[i] = Replayed(d, fill)
        BY <2>1, <3>2 DEF Backfilled
      <4>2. PICK s \in StateRec : s = fill.states[d]
        BY <2>1, <4>1 DEF Replay, Read
      <4>3. PICK usual \in Nat : usual = ClockFor(s, fill.profile)
        BY <2>1, ClockKnown DEF Replay
      <4>4. Kept(s, wh[d], scans, now)
        BY <2>2, <4>1, <4>2 DEF ReplayInv
      <4>5. PICK q : q = WriteClosed(d, s, usual)
        OBVIOUS
      <4>6. Rebuilt(q, wh[d], scans, now)
        BY <4>4, <4>5, RowRebuilt
      <4>7. rows'[i] = q /\ q.d = d
        <5>1. rows'[i] = q
          BY <4>1, <4>2, <4>3, <4>5 DEF Replayed
        <5>2. q.d = d
          BY <4>5, RowReplayed
        <5> QED
          BY <5>1, <5>2
      <4> QED
        BY <2>2, <4>6, <4>7
    <3> QED
      BY <1>1, <2>3, <3>1, <3>2
  <2> QED
    BY <1>4, <2>2, <2>3 DEF ReplayInv
<1>9. ASSUME NEW day \in Days, NEW replace \in BOOLEAN, ReadDay(day, replace) PROVE ReplayInv'
  <2>1. UNCHANGED <<now, wh, scans, rows>>
    BY <1>9 DEF ReadDay
  <2>2. \A d \in Deliveries : fill'.states[d] # Null => Kept(fill'.states[d], wh'[d], scans', now')
    BY <1>0, <1>9, <2>1, FillKept
  <2> QED
    BY <1>1, <1>3, <2>1, <2>2 DEF ReplayInv
<1>10. CASE UNCHANGED vars
  BY <1>5, <1>10 DEF vars
<1>11. CASE Next
  <2>1. ASSUME NEW d, NEW dep, Announce(d, dep) \/ ConfirmPickLine(d) \/ LoadDeliveryPackage(d) PROVE ReplayInv'
    BY <1>5, <2>1 DEF Announce, ConfirmPickLine, LoadDeliveryPackage
  <2>2. ASSUME DockScan \/ Tick \/ ProfileTenant PROVE ReplayInv'
    BY <1>5, <2>2 DEF DockScan, Tick, ProfileTenant
  <2>3. ASSUME NEW d, NEW day, ReadForCheck(d, day) PROVE ReplayInv'
    BY <1>5, <2>3 DEF ReadForCheck
  <2>4. ASSUME NEW what, Switch(what) PROVE ReplayInv'
    BY <1>5, <2>4 DEF Switch
  <2>5. ASSUME NEW e, ReadBoard(e) \/ PassFails(e) PROVE ReplayInv'
    BY <1>5, <2>5 DEF ReadBoard, PassFails
  <2> QED
    BY <1>6, <1>7, <1>8, <1>9, <1>11, <2>1, <2>2, <2>3, <2>4, <2>5 DEF Next, Warehouse, People, Pass
<1> QED
  BY <1>10, <1>11

-----------------------------------------------------------------------------
(* The theorems.                                                           *)

\* The steps that leave the rows and the passes as they are.
LEMMA Unhurried ==
  ASSUME Shape, Shape', RowsInv, \A e \in Evaluators : PassTruthful(e),
         Logged, rows' = rows, \A e \in Evaluators : pass'[e] \in {pass[e], Idle}
  PROVE  Inv'
<1>1. RowsInv'
  BY RowsStay
<1>2. ASSUME NEW e \in Evaluators PROVE PassTruthful(e)'
  <2>1. CASE pass'[e] = pass[e]
    BY <2>1, PassStays
  <2>2. CASE pass'[e] = Idle
    BY <2>2 DEF PassTruthful, Idle
  <2> QED
    BY <2>1, <2>2
<1> QED
  BY <1>1, <1>2 DEF Inv

\* The invariant holds of the first instant.
LEMMA InvInit == Init => Inv
<1> SUFFICES ASSUME Init PROVE Inv
  OBVIOUS
<1>1. Shape
  BY ShapeInit
<1>2. rows = <<>> /\ \A e \in Evaluators : pass[e].pc = "idle"
  BY DEF Init, Idle
<1>3. RowsInv
  BY <1>2 DEF RowsInv, OneRow, RowsOf
<1>4. \A e \in Evaluators : PassTruthful(e)
  BY <1>2 DEF PassTruthful
<1> QED
  BY <1>1, <1>3, <1>4 DEF Inv

\* Every step of the warehouse, the clock, the evaluators and people keeps it.
LEMMA InvNext == Inv /\ [Next]_vars => Inv'
<1> SUFFICES ASSUME Inv, [Next]_vars PROVE Inv'
  OBVIOUS
<1>0. Shape /\ RowsInv /\ \A e \in Evaluators : PassTruthful(e)
  BY DEF Inv
<1>n. now \in Int
  BY <1>0, Parameters DEF Shape, Instants
<1>1. ASSUME NEW d \in Deliveries, NEW dep \in Departures, Announce(d, dep) PROVE Inv'
  <2>1. Shape' /\ Logged /\ rows' = rows /\ pass' = pass
    BY <1>0, <1>1, CallJoins DEF Announce
  <2> QED
    BY <1>0, <2>1, Unhurried
<1>2. ASSUME NEW d \in Deliveries, ConfirmPickLine(d) \/ LoadDeliveryPackage(d) PROVE Inv'
  <2>1. Shape' /\ Logged
    BY <1>0, <1>2, EventLogged
  <2>2. rows' = rows /\ pass' = pass
    BY <1>2 DEF ConfirmPickLine, LoadDeliveryPackage
  <2> QED
    BY <1>0, <2>1, <2>2, Unhurried
<1>3. ASSUME \/ DockScan \/ Tick \/ UNCHANGED vars
             \/ \E e \in Evaluators : PassFails(e)
             \/ \E what \in {"tenant", "settlement"} : Switch(what)
      PROVE  Inv'
  <2>1. Shape' /\ Logged /\ rows' = rows /\ \A e \in Evaluators : pass'[e] \in {pass[e], Idle}
    BY <1>0, <1>3, ShapeQuiet
  <2> QED
    BY <1>0, <2>1, Unhurried
<1>4. ASSUME ProfileTenant PROVE Inv'
  <2>1. Shape' /\ now' = now /\ wh' = wh /\ rows' = rows /\ pass' = pass
    BY <1>0, <1>4, ShapeProfiled
  <2>2. Logged
    BY <1>n, <2>1 DEF Logged
  <2> QED
    BY <1>0, <2>1, <2>2, Unhurried
<1>5. ASSUME NEW d, NEW day, ReadForCheck(d, day) PROVE Inv'
  <2>1. Shape' /\ now' = now /\ wh' = wh /\ rows' = rows /\ pass' = pass
    BY <1>0, <1>5, ShapeReadForCheck
  <2>2. Logged
    BY <1>n, <2>1 DEF Logged
  <2> QED
    BY <1>0, <2>1, <2>2, Unhurried
<1>6. ASSUME NEW undo \in BOOLEAN, CommitCheck(undo) PROVE Inv'
  <2>1. Shape' /\ RowsInv' /\ Logged /\ pass' = pass
    BY <1>6, CheckCommitted
  <2>2. \A e \in Evaluators : PassTruthful(e)'
    BY <1>0, <2>1, PassStays
  <2> QED
    BY <2>1, <2>2 DEF Inv
<1>7. ASSUME NEW day \in Days, NEW replace \in BOOLEAN, ReadDay(day, replace) PROVE Inv'
  <2>1. Shape' /\ now' = now /\ wh' = wh /\ rows' = rows /\ pass' = pass
    BY <1>0, <1>7, ShapeReadDay
  <2>2. Logged
    BY <1>n, <2>1 DEF Logged
  <2> QED
    BY <1>0, <2>1, <2>2, Unhurried
<1>8. ASSUME WriteDay PROVE Inv'
  <2>1. Shape' /\ RowsInv' /\ Logged /\ pass' = pass
    BY <1>8, DayWritten
  <2>2. \A e \in Evaluators : PassTruthful(e)'
    BY <1>0, <2>1, PassStays
  <2> QED
    BY <2>1, <2>2 DEF Inv
<1>9. ASSUME NEW e \in Evaluators, ReadBoard(e) PROVE Inv'
  <2>1. /\ Shape' /\ now' = now /\ wh' = wh /\ rows' = rows /\ PassTruthful(e)'
        /\ \A x \in Evaluators \ {e} : pass'[x] = pass[x]
    BY <1>0, <1>9, BoardRead
  <2>2. Logged
    BY <1>n, <2>1 DEF Logged
  <2>3. RowsInv'
    BY <1>0, <2>1, <2>2, RowsStay
  <2>4. \A x \in Evaluators : PassTruthful(x)'
    BY <1>0, <2>1, <2>2, PassStays
  <2> QED
    BY <2>1, <2>3, <2>4 DEF Inv
<1>10. ASSUME NEW e \in Evaluators, WritePass(e) PROVE Inv'
  <2>1. Shape' /\ RowsInv' /\ Logged /\ \A x \in Evaluators : pass'[x] \in {pass[x], Idle}
    BY <1>10, PassWritten
  <2>2. ASSUME NEW x \in Evaluators PROVE PassTruthful(x)'
    <3>1. CASE pass'[x] = pass[x]
      BY <1>0, <2>1, <3>1, PassStays
    <3>2. CASE pass'[x] = Idle
      BY <3>2 DEF PassTruthful, Idle
    <3> QED
      BY <2>1, <3>1, <3>2
  <2> QED
    BY <2>1, <2>2 DEF Inv
<1> QED
  BY <1>1, <1>2, <1>3, <1>4, <1>5, <1>6, <1>7, <1>8, <1>9, <1>10 DEF Next, Warehouse, People, Pass

\* The invariant of every state of the specification.
LEMMA BoardInvariant == Spec => []Inv
<1> QED
  BY InvInit, InvNext, PTL DEF Spec

\* Every variable keeps its type, whatever evaluates, checks or backfills.
THEOREM TypeCorrect == Spec => []TypeOK
<1>1. Inv => TypeOK
  <2> SUFFICES ASSUME Shape PROVE TypeOK
    BY DEF Inv
  <2>1. ASSUME NEW i \in DOMAIN rows
        PROVE  /\ rows[i].d \in Deliveries /\ rows[i].status \in {"open", "closed", "deleted"}
               /\ {rows[i].tier, rows[i].maxTier} \subseteq Tiers /\ rows[i].checked \in Tiers \cup {Null}
               /\ rows[i].state.dep \in Departures /\ rows[i].reopened \in Nat
    <3>1. PICK r \in RowRec : r = rows[i]
      BY <2>1, Places DEF Shape
    <3>2. r.state \in StateRec
      BY DEF RowRec
    <3>3. r.state.dep \in Departures
      BY <3>2 DEF StateRec
    <3> QED
      BY <3>1, <3>3 DEF RowRec
  <2> QED
    BY <2>1 DEF TypeOK, Shape
<1> QED
  BY <1>1, BoardInvariant, PTL

\* A delivery has one row per departure date and at most one open row, for any
\* number of deliveries and whatever the WMS announces: apply finds the open row
\* first and yields to a date that has its row (delivery_store.apply).
THEOREM ADeliveryHasOneRow == Spec => []OneOpenRow
<1>1. Inv => OneOpenRow
  BY DEF Inv, RowsInv, OneRow, OneOpenRow
<1> QED
  BY <1>1, BoardInvariant, PTL

\* A check that was overtaken is counted re-opened, unless a pass and the check
\* overlapped (_write_tier, check_store.py).
THEOREM OvertakenChecksCount == Spec => []ReopenedWhenOvertaken
<1>1. Inv => ReopenedWhenOvertaken
  BY DEF Inv, RowsInv, Counted, ReopenedWhenOvertaken
<1> QED
  BY <1>1, BoardInvariant, PTL

\* A row that tells the truth of a legible log tells what the log says.
LEMMA TruthIsTold ==
  ASSUME NEW r \in RowRec, Tells(r.state, wh[r.d], r.closedAt),
         Readable(wh[r.d].pickAt, r), Readable(wh[r.d].loadAt, r)
  PROVE  TrueState(r) = r.state
<1>1. PICK w : w = wh[r.d]
  OBVIOUS
<1>2. Legible(w.pickAt, r.closedAt) /\ Legible(w.loadAt, r.closedAt)
  BY <1>1 DEF Readable, Legible
<1>3. PICK s \in StateRec : s = r.state
  BY DEF RowRec
<1>4. /\ s.confirmed = IF Known(w.pickAt, r) THEN 1 ELSE 0
      /\ s.created = IF Known(w.pickAt, r) THEN 1 ELSE 0
      /\ s.loaded = IF Known(w.loadAt, r) THEN 1 ELSE 0
      /\ s.lastPick = IF Known(w.pickAt, r) THEN w.pickAt ELSE Null
      /\ s.lastLoad = IF Known(w.loadAt, r) THEN w.loadAt ELSE Null
  BY <1>1, <1>2, <1>3 DEF Tells, Known
<1>5. TrueState(r) = [s EXCEPT !.confirmed = s.confirmed, !.created = s.created, !.loaded = s.loaded,
                                !.lastPick = s.lastPick, !.lastLoad = s.lastLoad]
  BY <1>1, <1>3, <1>4 DEF TrueState
<1>6. [s EXCEPT !.confirmed = s.confirmed, !.created = s.created, !.loaded = s.loaded,
                !.lastPick = s.lastPick, !.lastLoad = s.lastLoad] = s
  BY DEF StateRec
<1> QED
  BY <1>3, <1>5, <1>6

\* The outcome of a closed row in sight is the one the warehouse's log gives,
\* however stale or overlapping the passes were (evaluate_tenant, close_due).
THEOREM OutcomesAreTrue == Spec => []OutcomeTruthful
<1>1. Inv => OutcomeTruthful
  <2> SUFFICES ASSUME Inv, NEW i \in DOMAIN rows,
                      rows[i].status = "closed", ~rows[i].reconstructed, rows[i].sight,
                      Readable(wh[rows[i].d].pickAt, rows[i]), Readable(wh[rows[i].d].loadAt, rows[i])
               PROVE  rows[i].outcome = OutcomeFor(TrueState(rows[i]))
    BY DEF OutcomeTruthful
  <2>1. PICK r \in RowRec : r = rows[i]
    BY Places DEF Inv, Shape
  <2>2. r.outcome = OutcomeFor(r.state) /\ Tells(r.state, wh[r.d], r.closedAt)
    BY <2>1 DEF Inv, RowsInv, Truthful
  <2>3. TrueState(r) = r.state
    BY <2>1, <2>2, TruthIsTold
  <2> QED
    BY <2>1, <2>2, <2>3
<1> QED
  BY <1>1, BoardInvariant, PTL

\* A row a backfill reconstructed reports the highest tier the minute pass would
\* have seen, for any deliveries sharing a dock, clocks and windows
\* (model.replay_tiers).  One pair of windows is set aside: with no warning and a
\* gone window of one tick, a warning can begin in the last tick before a close
\* and be over at it, when a scan at the close keeps the replay from calling the
\* van gone.
THEOREM ReplaysReportWhatPassesSee == Warn > 0 \/ Gone # 1 => (Spec => []ReplayFaithful)
<1> SUFFICES ASSUME Warn > 0 \/ Gone # 1 PROVE Spec => []ReplayFaithful
  OBVIOUS
<1>1. Inv /\ ReplayInv => ReplayFaithful
  <2> SUFFICES ASSUME Inv, ReplayInv, NEW i \in DOMAIN rows, rows[i].reconstructed, ~DockPaused(rows[i])
               PROVE  /\ \A t \in -Warn .. (rows[i].closedAt - 1) :
                            Min({Judged(rows[i], t), Judged(rows[i], t + 1)}) <= rows[i].maxTier
                      /\ \E t \in -Warn .. rows[i].closedAt : Judged(rows[i], t) = rows[i].maxTier
    BY DEF ReplayFaithful
  <2>1. Shape
    BY DEF Inv
  <2>2. PICK r \in RowRec : r = rows[i]
    BY <2>1, Places DEF Shape
  <2>3. Rebuilt(r, wh[r.d], scans, now)
    BY <2>2 DEF ReplayInv
  <2> QED
    BY <2>1, <2>2, <2>3, RowFaithful
<1>2. Inv /\ ReplayInv /\ [Next]_vars /\ Inv' => ReplayInv'
  BY ReplayNext
<1> QED
  BY <1>1, <1>2, ReplayInit, BoardInvariant, PTL DEF Spec

\* No later pass, check or backfill touches a row the board watched and closed,
\* but for the check columns (delivery_store.py, backfill.replaceable).
THEOREM ClosedRowsAreHistory == Spec => ClosedIsFinal
<1> DEFINE Final == \A i \in DOMAIN rows :
                       rows[i].status = "closed" /\ ~rows[i].reconstructed => SameButChecks(rows[i], rows'[i])
<1>1. Inv /\ [Next]_vars => Final
  <2> SUFFICES ASSUME Inv, [Next]_vars, NEW i \in DOMAIN rows,
                      rows[i].status = "closed", ~rows[i].reconstructed
               PROVE  SameButChecks(rows[i], rows'[i])
    OBVIOUS
  <2>1. rows[i] \in RowRec /\ i \in 1 .. Len(rows)
    BY Places DEF Inv, Shape
  <2>2. SameButChecks(rows[i], rows[i])
    <3>1. ASSUME NEW r \in RowRec
          PROVE  [r EXCEPT !.checked = r.checked, !.raced = r.raced, !.reopenedBefore = r.reopenedBefore] = r
      BY DEF RowRec
    <3> QED
      BY <2>1, <3>1 DEF SameButChecks
  <2>3. ASSUME rows' = rows PROVE SameButChecks(rows[i], rows'[i])
    BY <2>2, <2>3
  <2>4. ASSUME NEW e \in Evaluators, WritePass(e) PROVE SameButChecks(rows[i], rows'[i])
    <3>1. rows'[i] = rows[i]
      BY <2>1, <2>4, PassWritten DEF Open
    <3> QED
      BY <2>2, <3>1
  <2>5. ASSUME WriteDay PROVE SameButChecks(rows[i], rows'[i])
    <3>1. rows'[i] = rows[i]
      BY <2>1, <2>5, DayWritten
    <3> QED
      BY <2>2, <3>1
  <2>6. ASSUME NEW undo \in BOOLEAN, CommitCheck(undo) PROVE SameButChecks(rows[i], rows'[i])
    BY <2>1, <2>6, CheckCommitted
  <2>7. \/ rows' = rows
        \/ \E e \in Evaluators : WritePass(e)
        \/ WriteDay
        \/ \E undo \in BOOLEAN : CommitCheck(undo)
    <3>1. CASE UNCHANGED vars
      BY <3>1 DEF vars
    <3>2. CASE Next
      BY <3>2 DEF Next, Warehouse, People, Pass, Announce, ConfirmPickLine, LoadDeliveryPackage, DockScan,
                  Tick, ReadBoard, PassFails, ProfileTenant, ReadForCheck, ReadDay, Switch
    <3> QED
      BY <3>1, <3>2
  <2> QED
    BY <2>3, <2>4, <2>5, <2>6, <2>7
<1>2. Final =>
        \A i \in DOMAIN rows :
          rows[i].status = "closed" /\ ~rows[i].reconstructed =>
             LET same == [rows'[i] EXCEPT !.checked = rows[i].checked, !.raced = rows[i].raced,
                                          !.reopenedBefore = rows[i].reopenedBefore]
             IN same = rows[i]
  BY DEF SameButChecks
<1> HIDE DEF Final
<1> QED
  BY <1>1, <1>2, BoardInvariant, PTL DEF Spec, ClosedIsFinal
=============================================================================
