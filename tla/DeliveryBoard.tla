---------------------------- MODULE DeliveryBoard ----------------------------
(***************************************************************************)
(* Deliveries at risk (services/analytics_at_risk): one row per delivery   *)
(* and departure, judged every minute by the worker or at once by          *)
(* POST /evaluate, closed with an outcome once the van is hours gone,      *)
(* checked by people through the API, and reconstructed for past days by   *)
(* the backfill, which replays the rule over the clocks in the logs.       *)
(*                                                                         *)
(* A pass reads the warehouse in one session and writes the rows in        *)
(* another, under the tenant's advisory lock; the API writes the check     *)
(* columns of a row without that lock.  Time counts passes: one unit is    *)
(* the poll interval (TICK), DayLen units are a tenant-local day.  Every   *)
(* delivery has one line and one package, and all share a loading dock.    *)
(***************************************************************************)
EXTENDS Integers, FiniteSets, Sequences, FiniteSetsExt, SequencesExt

CONSTANTS
    Deliveries,
    Null,
    DayLen,         \* units in a day; SWEEP_AFTER is one day
    Warn, Gone,     \* warn_before_min, gone_after_min
    Grace,          \* close_grace_min
    Lookback,       \* analytics_at_risk_board_lookback_hours
    Departures,     \* instants the WMS announces
    Expected,       \* counts of the pick-line lookup, Null when it knows none
    Rhythms,        \* times of day a profile may learn, Null below min_days
    MaxTime,        \* bound: the clock
    MaxStale,       \* bound: how long a pass may take
    MaxCalls,       \* bound: routing calls per delivery
    MaxScans,       \* bound: packages of other deliveries loaded at the dock
    MaxEvents       \* bound: people's actions, backfills and failed passes

ASSUME BoardAssumption ==
    /\ DayLen \in Nat \ {0} /\ {Warn, Gone, Lookback, MaxTime, MaxStale, MaxCalls, MaxScans, MaxEvents} \subseteq Nat
    /\ Grace \in 0..DayLen              \* settings_store.RANGES
    /\ Departures \subseteq Nat /\ Expected \subseteq Nat \cup {Null}
    /\ Rhythms \subseteq 0..(DayLen - 1) \cup {Null}
    /\ IsFiniteSet(Deliveries) /\ Null \notin Int

VARIABLES
    now,        \* the clock
    wh,         \* delivery -> what the warehouse logged: calls, expected, pickAt, loadAt
    scans,      \* instants at which the dock scanned a package
    rows,       \* analytics_at_risk_deliveries, in creation order
    pass,       \* evaluator -> its pass: the worker's and POST /evaluate's
    check,      \* a check or uncheck request under way
    fill,       \* a backfill of one day under way
    profiles,   \* day -> the route profile learned for it
    profiled,   \* analytics_at_risk_tenant_state.last_profiled_date
    on,         \* settings.enabled and the settlement's enabled
    left        \* bounds left

vars == <<now, wh, scans, rows, pass, check, fill, profiles, profiled, on, left>>

Evaluators == {"worker", "api"}
Instants == 0..MaxTime
Day(t) == t \div DayLen
Days == 0..Day(MaxTime)

-----------------------------------------------------------------------------
(* The warehouse: routing calls, a pick confirmation, a load.              *)

Announce(d, dep) ==
    /\ Len(wh[d].calls) < MaxCalls
    /\ wh' = [wh EXCEPT ![d].calls = Append(@, [at |-> Day(now), dep |-> dep])]
    /\ UNCHANGED <<now, scans, rows, pass, check, fill, profiles, profiled, on, left>>

\* The confirmation moves stock into a package; packages are born here.
ConfirmPickLine(d) ==
    /\ wh[d].pickAt = Null
    /\ wh' = [wh EXCEPT ![d].pickAt = now]
    /\ UNCHANGED <<now, scans, rows, pass, check, fill, profiles, profiled, on, left>>

LoadDeliveryPackage(d) ==
    /\ wh[d].loadAt = Null /\ wh[d].pickAt # Null
    /\ wh' = [wh EXCEPT ![d].loadAt = now]
    /\ scans' = scans \cup {now}
    /\ UNCHANGED <<now, rows, pass, check, fill, profiles, profiled, on, left>>

\* A package of a delivery outside the model goes over the same dock.
DockScan ==
    /\ left.scans > 0 /\ now \notin scans
    /\ scans' = scans \cup {now}
    /\ left' = [left EXCEPT !.scans = @ - 1]
    /\ UNCHANGED <<now, wh, rows, pass, check, fill, profiles, profiled, on>>

Tick ==
    /\ now < MaxTime
    /\ \A e \in Evaluators : pass[e].pc # "idle" => now - pass[e].at < MaxStale
    /\ now' = now + 1
    /\ UNCHANGED <<wh, scans, rows, pass, check, fill, profiles, profiled, on, left>>

-----------------------------------------------------------------------------
(* The rules (model.py).  Tiers are their ranks.                           *)

None == 0
Watch == 1
AtRisk == 2
LeftBehind == 3
Tiers == None..LeftBehind

PickingOpen(s) ==
    IF s.expected = Null THEN s.confirmed = 0 ELSE s.confirmed < s.expected

LoadingOpen(s) ==
    s.loading /\ (s.loaded = 0 \/ s.loaded < s.created)

VanGone(s, t, usual) ==
    /\ t >= usual + Gone
    /\ \/ ~s.loading
       \/ s.dock = Null
       \/ t - s.dock >= Gone

TierFor(s, t, usual) ==
    CASE ~(PickingOpen(s) \/ LoadingOpen(s)) -> None
      [] OTHER -> IF VanGone(s, t, usual) THEN LeftBehind
                  ELSE IF t < usual - Warn THEN None
                  ELSE IF LoadingOpen(s) THEN AtRisk ELSE Watch

\* A route without a loading step is judged by its last pick.
OutcomeFor(s) ==
    LET last == IF s.loading THEN s.lastLoad ELSE s.lastPick
        late == last # Null /\ last > s.dep
    IN IF s.loading
       THEN IF LoadingOpen(s) THEN "never_loaded" ELSE IF late THEN "loaded_late" ELSE "loaded_in_time"
       ELSE IF PickingOpen(s) \/ last = Null \/ late THEN "picked_late" ELSE "picked_in_time"

-----------------------------------------------------------------------------
(* Reading the warehouse (board_store.py).                                 *)

Within(t, lo, hi) == t # Null /\ lo <= t /\ t < hi

\* The dock's scans of a day, from those the facts read returned.
DockLast(seen, day) ==
    LET of == {t \in seen : Day(t) = day} IN IF of = {} THEN Null ELSE Max(of)

\* assemble: picks and the expected count come from settled rows, whatever
\* their age; packages and loads only from facts in [lo, hi).
Assemble(d, dep, lo, hi, routesThatLoad) ==
    LET w == wh[d]
        seen == {t \in scans : Within(t, lo, hi)}
        load == IF Within(w.loadAt, lo, hi) THEN w.loadAt ELSE Null
    IN [dep |-> dep, expected |-> w.expected,
        confirmed |-> IF w.pickAt = Null THEN 0 ELSE 1,
        created |-> IF Within(w.pickAt, lo, hi) THEN 1 ELSE 0,
        loaded |-> IF load = Null THEN 0 ELSE 1,
        lastPick |-> w.pickAt, lastLoad |-> load,
        loading |-> seen # {} \/ routesThatLoad,
        dock |-> DockLast(seen, Day(dep))]

\* The pass reads the facts of the lookback.
MutantFactsSince(t) == Day(t) * DayLen

FactsSince(t) == t - Lookback

\* The newest profile on or before a day.
Latest(asOf) ==
    LET of == {k \in Days : k <= asOf /\ profiles[k] # Null}
    IN IF of = {} THEN [usual |-> Null, loads |-> FALSE] ELSE profiles[Max(of)]

\* The board names deliveries departing yesterday, today or tomorrow.
OnBoard(d) ==
    Day(Last(wh[d].calls).dep) \in (Day(now) - 1)..(Day(now) + 1)

ReadStates ==
    [d \in Deliveries |->
        IF OnBoard(d)
        THEN Assemble(d, Last(wh[d].calls).dep, FactsSince(now), MaxTime + 1, Latest(Day(MaxTime)).loads)
        ELSE Null]

ClockFor(s, profile) ==
    IF profile.usual = Null THEN s.dep ELSE Day(s.dep) * DayLen + profile.usual

-----------------------------------------------------------------------------
(* Writing the rows (delivery_store.py).                                   *)

Open(r) == r.status = "open"
RowsOf(rs, d) == {i \in DOMAIN rs : rs[i].d = d /\ rs[i].status # "deleted"}
HasDay(rs, d, day) == \E i \in RowsOf(rs, d) : rs[i].day = day

NewRow(d, s) ==
    [d |-> d, day |-> Day(s.dep), status |-> "open", state |-> s, usual |-> Null,
     tier |-> None, maxTier |-> None, checked |-> Null, reopened |-> 0,
     outcome |-> Null, closedAt |-> Null, reconstructed |-> FALSE,
     sight |-> TRUE, raced |-> FALSE, reopenedBefore |-> 0]

\* _write_progress: a dock clock once known is kept when the read has none.
WriteProgress(r, s) ==
    [r EXCEPT !.state = [s EXCEPT !.dock = IF @ = Null THEN r.state.dock ELSE @]]

MutantReopens(r, tier) == r.checked # Null /\ tier > r.maxTier

Reopens(r, tier) == r.checked # Null /\ tier > r.checked

WriteTier(r, tier) ==
    IF tier = r.tier THEN r
    ELSE [r EXCEPT !.tier = tier, !.maxTier = Max({@, tier}),
                   !.reopened = IF Reopens(r, tier) THEN @ + 1 ELSE @]

Judge(r, s, p) ==
    LET w == [WriteProgress(r, s) EXCEPT !.day = Day(s.dep), !.usual = ClockFor(s, p.profile)]
    IN WriteTier(w, TierFor(s, p.at, w.usual))

\* Mutant: the open row is found by its departure date.
MutantRowFor(rs, d, day) ==
    LET of == {i \in RowsOf(rs, d) : rs[i].day = day}
    IN IF of = {} THEN 0 ELSE IF Open(rs[Min(of)]) THEN Min(of) ELSE Null

\* The row apply writes for a delivery: its open row, in place even when the
\* departure moved; 0 for a new one; Null when that departure has its row.
RowFor(rs, d, day) ==
    LET open == {i \in RowsOf(rs, d) : Open(rs[i])}
    IN IF open = {} THEN (IF HasDay(rs, d, day) THEN Null ELSE 0)
       ELSE LET i == Min(open)
            IN IF rs[i].day # day /\ HasDay(rs, d, day) THEN Null ELSE i

Apply(rs, p) ==
    LET named == {d \in Deliveries : p.states[d] # Null}
        target == [d \in named |-> RowFor(rs, d, Day(p.states[d].dep))]
        new == SetToSeq({d \in named : target[d] = 0})
    IN [i \in DOMAIN rs |->
           IF rs[i].d \in named /\ target[rs[i].d] = i
           THEN Judge(rs[i], p.states[rs[i].d], p) ELSE rs[i]]
       \o [k \in DOMAIN new |-> Judge(NewRow(new[k], p.states[new[k]]), p.states[new[k]], p)]

Due(r, t) == Open(r) /\ r.state.dep + Grace <= t

\* close_due, one row: the board's state when it still has this departure,
\* the stored progress otherwise; judged by the clock stored with the row.
CloseDue(r, p) ==
    LET s == p.states[r.d]
        sight == s # Null /\ Day(s.dep) = r.day
        w == IF sight THEN WriteProgress(r, s) ELSE r
        t == WriteTier(w, TierFor(w.state, p.at, w.usual))
    IN [t EXCEPT !.status = "closed", !.closedAt = p.at, !.outcome = OutcomeFor(w.state), !.sight = sight]

Sweep(r, t) ==
    IF Open(r) /\ r.state.dep + DayLen <= t
    THEN [r EXCEPT !.status = "closed", !.closedAt = t, !.outcome = "unknown"] ELSE r

EvaluateRows(rs, p) ==
    LET applied == Apply(rs, p)
        closed == [i \in DOMAIN applied |->
                      IF Due(applied[i], p.at) THEN CloseDue(applied[i], p) ELSE applied[i]]
    IN [i \in DOMAIN closed |-> Sweep(closed[i], p.at)]

-----------------------------------------------------------------------------
(* A pass: evaluate_tenant, by the worker for its candidates or by the API.*)

Idle == [pc |-> "idle", at |-> 0, states |-> Null, profile |-> Null]

ReadBoard(e) ==
    /\ pass[e].pc = "idle"
    /\ on.tenant /\ IF e = "worker" THEN on.settlement ELSE left.events > 0
    /\ left' = [left EXCEPT !.events = IF e = "api" THEN @ - 1 ELSE @]
    /\ pass' = [pass EXCEPT ![e] = [Idle EXCEPT !.pc = "read", !.at = now, !.states = ReadStates,
                                                !.profile = Latest(Day(MaxTime))]]
    /\ UNCHANGED <<now, wh, scans, rows, check, fill, profiles, profiled, on>>

\* The write phase, one transaction under the tenant's advisory lock.  A check
\* committed while it runs is as one committed just after it.
WritePass(e) ==
    /\ pass[e].pc = "read"
    /\ rows' = EvaluateRows(rows, pass[e])
    /\ pass' = [pass EXCEPT ![e] = Idle]
    /\ UNCHANGED <<now, wh, scans, check, fill, profiles, profiled, on, left>>

\* A failure is recorded and returned; nothing of the pass is written.
PassFails(e) ==
    /\ pass[e].pc # "idle" /\ left.events > 0
    /\ pass' = [pass EXCEPT ![e] = Idle]
    /\ left' = [left EXCEPT !.events = @ - 1]
    /\ UNCHANGED <<now, wh, scans, rows, check, fill, profiles, profiled, on>>

\* What compute learns from the closed rows up to a day: any time of day, or
\* none below min_days, and whether one of them was loaded.
Learned(rs, asOf) ==
    LET of == {i \in DOMAIN rs : rs[i].status = "closed" /\ rs[i].outcome # "unknown" /\ rs[i].day <= asOf}
    IN IF of = {} THEN {profiles[asOf]}
       ELSE [usual : Rhythms, loads : {\E i \in of : rs[i].state.lastLoad # Null}]

\* The worker's daily profile, of the day before.
ProfileTenant ==
    /\ pass["worker"].pc = "idle" /\ on.tenant /\ on.settlement
    /\ Day(now) - 1 > profiled
    /\ profiled' = Day(now) - 1
    /\ \E p \in Learned(rows, Day(now) - 1) : profiles' = [profiles EXCEPT ![Day(now) - 1] = p]
    /\ UNCHANGED <<now, wh, scans, rows, pass, check, fill, on, left>>

-----------------------------------------------------------------------------
(* Checks (check_store.py): read the row, then write its check columns.    *)

NoCheck == [pc |-> "idle", row |-> 0, tier |-> Null]

\* find: the row of a departure date, or the one open row.
Find(d, day) ==
    {i \in RowsOf(rows, d) : IF day = Null THEN Open(rows[i]) ELSE rows[i].day = day}

ReadForCheck(d, day) ==
    /\ check.pc = "idle" /\ left.events > 0 /\ Cardinality(Find(d, day)) = 1
    /\ \E i \in Find(d, day) : check' = [pc |-> "read", row |-> i, tier |-> rows[i].tier]
    /\ left' = [left EXCEPT !.events = @ - 1]
    /\ UNCHANGED <<now, wh, scans, rows, pass, fill, profiles, profiled, on>>

CommitCheck(undo) ==
    /\ check.pc = "read"
    /\ LET i == check.row
           tier == IF undo THEN Null ELSE check.tier
       IN rows' = IF rows[i].status = "deleted" THEN rows
                  ELSE [rows EXCEPT ![i].checked = tier, ![i].raced = tier # Null /\ rows[i].tier # tier,
                                    ![i].reopenedBefore = rows[i].reopened]
    /\ check' = NoCheck
    /\ UNCHANGED <<now, wh, scans, pass, fill, profiles, profiled, on, left>>

-----------------------------------------------------------------------------
(* The backfill of one past day (backfill.py), run by hand.                *)

NoFill == [pc |-> "idle", day |-> 0, states |-> Null, profile |-> Null, replace |-> FALSE]

\* The routing calls up to the end of the day; the latest one names the departure.
CallsBy(d, day) == {k \in DOMAIN wh[d].calls : wh[d].calls[k].at <= day}

DepartureBy(d, day) == wh[d].calls[Max(CallsBy(d, day))].dep

DepartsOn(d, day) == CallsBy(d, day) # {} /\ Day(DepartureBy(d, day)) = day

ReadDay(day, replace) ==
    LET named == {d \in Deliveries : DepartsOn(d, day)}
        closeAt == Max({DepartureBy(d, day) : d \in named}) + Grace
        profile == Latest(day - 1)
    IN /\ fill.pc = "idle" /\ left.events > 0
       /\ named # {} /\ closeAt <= now
       /\ fill' = [pc |-> "read", day |-> day, profile |-> profile, replace |-> replace,
                   states |-> [d \in Deliveries |->
                       IF d \in named THEN Assemble(d, DepartureBy(d, day), (day - 1) * DayLen, closeAt, profile.loads) ELSE Null]]
       /\ left' = [left EXCEPT !.events = @ - 1]
       /\ UNCHANGED <<now, wh, scans, rows, pass, check, profiles, profiled, on>>

\* Mutant: the line counts are left as they ended.
MutantStateAsOf(s, t) ==
    LET loaded == s.lastLoad = Null \/ t >= s.lastLoad
    IN [s EXCEPT !.loaded = IF loaded THEN @ ELSE 0, !.dock = IF @ = Null THEN @ ELSE Min({@, t})]

StateAsOf(s, t) ==
    LET picked == s.lastPick = Null \/ t >= s.lastPick
        loaded == s.lastLoad = Null \/ t >= s.lastLoad
    IN [s EXCEPT !.confirmed = IF picked THEN @ ELSE 0, !.loaded = IF loaded THEN @ ELSE 0,
                 !.lastPick = IF picked THEN @ ELSE Null, !.lastLoad = IF loaded THEN @ ELSE Null,
                 !.dock = IF @ = Null THEN @ ELSE Min({@, t})]

\* The instants at which a tier can change, each one tick after its crossing.
ReplayInstants(s, usual, closeAt) ==
    LET crossings == {usual - Warn + 1, usual + 1, usual + Gone + 1, closeAt}
        quiet == IF s.dock = Null THEN {} ELSE {s.dock + Gone + 1}
    IN {t \in crossings \cup quiet \cup ({s.lastPick, s.lastLoad} \ {Null}) : t <= closeAt}

ReplayTier(s, usual, t) == TierFor(StateAsOf(s, t), t, usual)

WriteClosed(d, s, usual) ==
    LET closeAt == s.dep + Grace
    IN [NewRow(d, s) EXCEPT
           !.status = "closed", !.usual = usual, !.reconstructed = TRUE, !.closedAt = closeAt,
           !.tier = ReplayTier(s, usual, closeAt),
           !.maxTier = Max({ReplayTier(s, usual, t) : t \in ReplayInstants(s, usual, closeAt)}),
           !.outcome = OutcomeFor(s)]

MutantReplaceable(r) == r.status = "closed"

Replaceable(r) == r.status = "closed" /\ r.reconstructed

BackfillDay(rs, f) ==
    LET kept == [i \in DOMAIN rs |-> IF f.replace /\ rs[i].day = f.day /\ Replaceable(rs[i])
                                     THEN [rs[i] EXCEPT !.status = "deleted"] ELSE rs[i]]
        new == SetToSeq({d \in Deliveries : f.states[d] # Null /\ ~HasDay(kept, d, f.day)})
    IN kept \o [k \in DOMAIN new |->
                   WriteClosed(new[k], f.states[new[k]], ClockFor(f.states[new[k]], f.profile))]

WriteDay ==
    /\ fill.pc = "read"
    /\ rows' = BackfillDay(rows, fill)
    /\ \E p \in Learned(rows', fill.day) : profiles' = [profiles EXCEPT ![fill.day] = p]
    /\ fill' = NoFill
    /\ UNCHANGED <<now, wh, scans, pass, check, profiled, on, left>>

-----------------------------------------------------------------------------
Switch(what) ==
    /\ left.events > 0
    /\ on' = [on EXCEPT ![what] = ~@]
    /\ left' = [left EXCEPT !.events = @ - 1]
    /\ UNCHANGED <<now, wh, scans, rows, pass, check, fill, profiles, profiled>>

Init ==
    /\ now = 0 /\ scans = {} /\ rows = <<>>
    /\ wh \in [Deliveries -> [calls : {<<[at |-> 0, dep |-> t]>> : t \in Departures}, expected : Expected, pickAt : {Null}, loadAt : {Null}]]
    /\ pass = [e \in Evaluators |-> Idle] /\ check = NoCheck /\ fill = NoFill
    /\ profiles = [k \in Days |-> Null] /\ profiled = -1
    /\ on = [tenant |-> TRUE, settlement |-> TRUE]
    /\ left = [scans |-> MaxScans, events |-> MaxEvents]

Warehouse ==
    \/ \E d \in Deliveries :
          \/ \E dep \in Departures : dep > now /\ Announce(d, dep)
          \/ ConfirmPickLine(d)
          \/ LoadDeliveryPackage(d)
    \/ DockScan

Pass(e) == ReadBoard(e) \/ WritePass(e)

People ==
    \/ \E d \in Deliveries, day \in Days \cup {Null} : ReadForCheck(d, day)
    \/ \E undo \in BOOLEAN : CommitCheck(undo)
    \/ \E day \in Days, replace \in BOOLEAN : ReadDay(day, replace)
    \/ WriteDay
    \/ \E what \in {"tenant", "settlement"} : Switch(what)

Next ==
    \/ Warehouse \/ Tick \/ ProfileTenant \/ People
    \/ \E e \in Evaluators : Pass(e) \/ PassFails(e)

Spec == Init /\ [][Next]_vars

-----------------------------------------------------------------------------
(* Properties.                                                             *)

\* The variables keep their types; the fields left out are set together with
\* the ones below.
TypeOK ==
    /\ now \in Instants /\ scans \subseteq Instants /\ profiled \in -1..Day(MaxTime)
    /\ \A i \in DOMAIN rows :
          /\ rows[i].d \in Deliveries /\ rows[i].status \in {"open", "closed", "deleted"}
          /\ {rows[i].tier, rows[i].maxTier} \subseteq Tiers /\ rows[i].checked \in Tiers \cup {Null}
          /\ rows[i].state.dep \in Departures /\ rows[i].reopened \in Nat
    /\ \A e \in Evaluators : pass[e].pc \in {"idle", "read"} /\ pass[e].at \in Instants
    /\ check.pc \in {"idle", "read"} /\ fill.pc \in {"idle", "read"}
    /\ on \in [tenant : BOOLEAN, settlement : BOOLEAN]

\* Whoever evaluates or backfills in whatever order, and when the WMS moves a
\* departure, a delivery has one row per departure date and at most one open
\* row, so a check can name it (delivery_store.apply, check_store.find).
OneOpenRow ==
    \A d \in Deliveries :
        /\ \A i, j \in RowsOf(rows, d) : rows[i].day = rows[j].day => i = j
        /\ \A i, j \in RowsOf(rows, d) : Open(rows[i]) /\ Open(rows[j]) => i = j

\* A row the board watched and closed is history: no later pass, check or
\* backfill removes it or changes its tier, outcome or progress.
ClosedIsFinal ==
    [][\A i \in DOMAIN rows :
          rows[i].status = "closed" /\ ~rows[i].reconstructed =>
             LET same == [rows'[i] EXCEPT !.checked = rows[i].checked, !.raced = rows[i].raced,
                                          !.reopenedBefore = rows[i].reopenedBefore]
             IN same = rows[i]]_vars

Known(t, r) == t # Null /\ t < r.closedAt

\* The warehouse events of a delivery, none of them in the very instant of the
\* close and none older than the pass's lookback.
Readable(t, r) == t = Null \/ (t # r.closedAt /\ t >= r.closedAt - Lookback)

TrueState(r) ==
    LET w == wh[r.d]
    IN [r.state EXCEPT !.confirmed = IF Known(w.pickAt, r) THEN 1 ELSE 0,
                       !.created = IF Known(w.pickAt, r) THEN 1 ELSE 0,
                       !.loaded = IF Known(w.loadAt, r) THEN 1 ELSE 0,
                       !.lastPick = IF Known(w.pickAt, r) THEN w.pickAt ELSE Null,
                       !.lastLoad = IF Known(w.loadAt, r) THEN w.loadAt ELSE Null]

\* The outcome a pass writes is the one the warehouse's events up to the close
\* give, however late, overlapping or stale the passes before it were.  Rows the
\* board had lost sight of and events older than its lookback are set aside.
OutcomeTruthful ==
    \A i \in DOMAIN rows :
        LET r == rows[i] IN
        r.status = "closed" /\ ~r.reconstructed /\ r.sight
           /\ Readable(wh[r.d].pickAt, r) /\ Readable(wh[r.d].loadAt, r)
        => r.outcome = OutcomeFor(TrueState(r))

\* A check that the tier has since passed is counted re-opened, unless the check
\* and a pass overlapped: the API takes no lock (check_store.py, _write_tier).
ReopenedWhenOvertaken ==
    \A i \in DOMAIN rows :
        LET r == rows[i] IN
        r.status # "deleted" /\ r.checked # Null /\ r.tier > r.checked /\ ~r.raced
        => r.reopened > r.reopenedBefore

\* The delivery and its dock as they were at an instant before the close.
AsItWas(r, t) ==
    LET w == wh[r.d]
        seen == {x \in scans : Within(x, (r.day - 1) * DayLen, r.closedAt) /\ x <= t}
    IN [r.state EXCEPT !.confirmed = IF w.pickAt # Null /\ w.pickAt <= t THEN @ ELSE 0,
                       !.loaded = IF w.loadAt # Null /\ w.loadAt <= t THEN @ ELSE 0,
                       !.dock = DockLast(seen, r.day)]

Judged(r, t) == TierFor(AsItWas(r, t), t, r.usual)

\* The dock was quiet for the gone window before its last scan of the day.
DockPaused(r) ==
    r.state.dock # Null /\ \E t \in 0..(r.state.dock - 1) : VanGone(AsItWas(r, t), t, r.usual)

\* A reconstructed row reports the highest tier the minute pass would have seen:
\* no tier that lasted two ticks is missed and none is invented, although the
\* replay looks at a handful of instants only (model.replay_tiers).  A dock that
\* paused is set aside: the replay takes it as busy until its last scan.  A
\* warning of the first day may start before the clock does.
ReplayFaithful ==
    \A i \in DOMAIN rows :
        LET r == rows[i] IN
        r.status # "deleted" /\ r.reconstructed /\ ~DockPaused(r) =>
           /\ \A t \in -Warn..(r.closedAt - 1) : Min({Judged(r, t), Judged(r, t + 1)}) <= r.maxTier
           /\ \E t \in -Warn..r.closedAt : Judged(r, t) = r.maxTier
=============================================================================
