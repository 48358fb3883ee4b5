----------------------------- MODULE Retention -----------------------------
(***************************************************************************)
(* Partition maintenance: the runway the log_partition_worker keeps ahead  *)
(* of ingestion, the partitions it drops, and the three holds that stand   *)
(* in the way of a drop: open stitch windows, the positions that readers   *)
(* publish (consumer_cursors.py, consume.publish_retention_position) and   *)
(* the health of analytics.                                                *)
(*                                                                         *)
(* The clock counts days.  A partition is named by its first day and is    *)
(* Grain[table] days wide.  The notification cursor is a WRITE time: every *)
(* row written before it has been read.  The analytics frontier is a WRITE *)
(* time too, but only the newest a fold has met.                           *)
(***************************************************************************)
EXTENDS Integers, FiniteSets, FiniteSetsExt

CONSTANTS
    Tenants,
    Tables,         \* partitioned tables, "entries" and "txns" among them
    Grain,          \* table -> days one partition spans
    RetentionDays,  \* table -> retention, or Null to keep forever
    Null,
    Ahead,          \* log_partition_precreate_days
    StaleAfter,     \* consumer_cursor_stale_after_seconds, in days
    HoldMax,        \* analytics_retention_hold_max_days
    MaxDay,         \* bound: the clock
    MaxArrivals,    \* bound: arrivals of log lines
    MaxMoves,       \* bound: starts and advances of notification rules, analytics folds
    MaxEvents       \* bound: failed ticks, dead tickets, abandoned windows, tenant switches

Readers == {"notifications", "analytics"}
HealthGated == {"entries", "txns"}
Days == 0 .. MaxDay + Ahead

ASSUME ConstantsAssumption ==
    /\ HealthGated \subseteq Tables /\ Grain \in [Tables -> Nat \ {0}]
    /\ RetentionDays \in [Tables -> Nat \cup {Null}] /\ Null \notin Int
    /\ Null \notin [frontier : (0 .. MaxDay) \cup {Null}, cycle : 0 .. MaxDay]
    /\ \A t \in HealthGated : Grain[t] = 1 /\ RetentionDays[t] # Null
    /\ RetentionDays["entries"] = RetentionDays["txns"]    \* log_partition_retention_days
    /\ {Ahead, StaleAfter, HoldMax, MaxDay, MaxArrivals, MaxMoves, MaxEvents} \subseteq Nat

VARIABLES
    today,      \* the database's day
    parts,      \* table -> first days of its partitions
    stray,      \* table -> days with rows in the DEFAULT partition
    windows,    \* open log_regroup_pending rows
    txns,       \* log_transactions rows: [tenant, day, upd]
    cursor,     \* tenant -> oldest cursor of its rules, Null before their first run
    notify,     \* customers.notifications_enabled
    state,      \* tenant -> [frontier, cycle]: analytics_tenant_state, Null if no row
    dead,       \* tenants with a dead-lettered analytics ticket
    registry,   \* consumer_cursors: reader -> [pos, seen] or Null
    tick,       \* the worker's transaction: what it made and will drop, and, as
                \* history, whose cursors the gate heard and what windows pinned
    budget,     \* bounds left
    ghost       \* history: rows lost unread, tenants not yet reported, last good tick

vars == <<today, parts, stray, windows, txns, cursor, notify, state, dead, registry, tick, budget, ghost>>

-----------------------------------------------------------------------------
(* Grain arithmetic.                                                       *)

PeriodStart(t, d) == (d \div Grain[t]) * Grain[t]
NextPeriodStart(t, s) == s + Grain[t]

PeriodEnd(t, s) == NextPeriodStart(t, s) - 1

(* A bug: the day of lag is given to the wrong table.                      *)
MutantRetentionFor(t) == RetentionDays[t] + IF t = "txns" THEN 1 ELSE 0

(* retention_days_for: entries lag one day.                                *)
RetentionFor(t) == RetentionDays[t] + IF t = "entries" THEN 1 ELSE 0

(* droppable_days / expired_days: the boundary day is kept.                *)
Expired(t) ==
    {s \in parts[t] : RetentionDays[t] # Null /\ PeriodEnd(t, s) < today - RetentionFor(t)}

(* A bug: today is assumed to exist, and the runway is one day short.      *)
MutantCoverage(t) == {PeriodStart(t, d) : d \in today .. today + Ahead - 1}

Coverage(t) == {PeriodStart(t, d) : d \in today .. today + Ahead}

-----------------------------------------------------------------------------
(* The holds.                                                              *)

(* _overlaps.                                                              *)
Overlaps(t, s, w) == w.lo < NextPeriodStart(t, s) /\ w.hi >= s

BlockedByPending(t, s) == \E w \in windows : Overlaps(t, s, w)

(* The tenants the published notification position speaks for.             *)
Speaks == {n \in Tenants : cursor[n] # Null /\ notify[n]}

IsLive(c) == registry[c] # Null /\ today - registry[c].seen <= StaleAfter

(* min_live_position and blocks_until.                                     *)
BlockedByConsumers(t, s) ==
    \E c \in Readers : IsLive(c) /\ registry[c].pos < NextPeriodStart(t, s)

(* analytics_health: a tenant with a dead-lettered ticket holds, until     *)
(* HoldMax days after its last good cycle.                                 *)
AnalyticsHolding == \E n \in dead : state[n] # Null /\ today - state[n].cycle <= HoldMax

Blocked(t, s) ==
    \/ BlockedByPending(t, s) \/ BlockedByConsumers(t, s)
    \/ t \in HealthGated /\ AnalyticsHolding

-----------------------------------------------------------------------------
(* The worker's tick: one transaction for the runway and the drop.         *)

NoTick == [open |-> FALSE, made |-> [t \in Tables |-> {}], drop |-> [t \in Tables |-> {}],
           heard |-> {}, pinned |-> {}]

(* A partition cannot be cut over rows that sit in DEFAULT.                *)
Clashes == \E t \in Tables : \E d \in stray[t] : PeriodStart(t, d) \in Coverage(t) \ parts[t]

(* run_once up to the gates: the runway, the candidates, what holds them.  *)
TickGate ==
    /\ ~tick.open /\ ~Clashes
    /\ tick' = [open |-> TRUE, made |-> [t \in Tables |-> Coverage(t) \ parts[t]],
                drop |-> [t \in Tables |-> {s \in Expired(t) : ~Blocked(t, s)}],
                heard |-> IF IsLive("notifications") THEN Speaks \ ghost.joined ELSE {},
                pinned |-> {s \in Expired("txns") : BlockedByPending("txns", s)}]
    /\ UNCHANGED <<today, parts, stray, windows, txns, cursor, notify, state, dead, registry, budget, ghost>>

(* The drops and the commit.                                               *)
TickCommit ==
    LET gone == {x \in txns : x.day \in tick.drop["txns"]}
    IN  /\ tick.open
        /\ parts' = [t \in Tables |-> (parts[t] \cup tick.made[t]) \ tick.drop[t]]
        /\ txns' = txns \ gone
        /\ ghost' = [ghost EXCEPT !.good = today,
                        !.lost = @ \cup {x \in gone : x.tenant \in tick.heard /\ x.upd >= cursor[x.tenant]}]
        /\ tick' = NoTick
        /\ UNCHANGED <<today, stray, windows, cursor, notify, state, dead, registry, budget>>

(* A statement of the drop fails: the transaction is aborted, the commit   *)
(* rolls it back, and the partitions made in it are gone.                  *)
DropFails ==
    /\ tick.open /\ (\E t \in Tables : tick.drop[t] # {}) /\ budget.events > 0
    /\ tick' = NoTick
    /\ budget' = [budget EXCEPT !.events = @ - 1]
    /\ UNCHANGED <<today, parts, stray, windows, txns, cursor, notify, state, dead, registry, ghost>>

-----------------------------------------------------------------------------
(* Stage 1 and Stage 2: lines arrive on a day, or on a day and the next,   *)
(* and open a window; stitching it writes a transaction and closes it.     *)

Arrive(n, d, tail) ==
    /\ budget.arrivals > 0 /\ d + tail <= today
    /\ windows' = windows \cup {[tenant |-> n, lo |-> d, hi |-> d + tail,
                        kept |-> IF tick.open THEN {} ELSE (d .. d + tail) \cap parts["entries"]]}
    /\ stray' = [stray EXCEPT !["entries"] = @ \cup ((d .. d + tail) \ parts["entries"])]
    /\ budget' = [budget EXCEPT !.arrivals = @ - 1]
    /\ UNCHANGED <<today, parts, txns, cursor, notify, state, dead, registry, tick, ghost>>

Stitch(w) ==
    /\ w \in windows
    /\ windows' = windows \ {w}
    /\ IF w.lo \in parts["txns"]
       THEN /\ txns' = txns \cup {[tenant |-> w.tenant, day |-> w.lo, upd |-> today]}
            /\ UNCHANGED stray
       ELSE /\ stray' = [stray EXCEPT !["txns"] = @ \cup {w.lo}]
            /\ UNCHANGED txns
    /\ UNCHANGED <<today, parts, cursor, notify, state, dead, registry, tick, budget, ghost>>

Abandon(w) ==
    /\ w \in windows /\ budget.events > 0
    /\ windows' = windows \ {w}
    /\ budget' = [budget EXCEPT !.events = @ - 1]
    /\ UNCHANGED <<today, parts, stray, txns, cursor, notify, state, dead, registry, tick, ghost>>

-----------------------------------------------------------------------------
(* The readers: notification rules, and the analytics fold.                *)

(* The first run of a tenant's rules.                                      *)
Start(n) ==
    /\ budget.moves > 0 /\ cursor[n] = Null /\ notify[n]
    /\ cursor' = [cursor EXCEPT ![n] = today]
    /\ budget' = [budget EXCEPT !.moves = @ - 1]
    /\ ghost' = [ghost EXCEPT !.joined = @ \cup {n}]
    /\ UNCHANGED <<today, parts, stray, windows, txns, notify, state, dead, registry, tick>>

(* Its rules read on, some or all of the way to the present.               *)
Read(n) ==
    /\ budget.moves > 0 /\ cursor[n] # Null /\ notify[n]
    /\ \E p \in cursor[n] + 1 .. today : cursor' = [cursor EXCEPT ![n] = p]
    /\ budget' = [budget EXCEPT !.moves = @ - 1]
    /\ UNCHANGED <<today, parts, stray, windows, txns, notify, state, dead, registry, tick, ghost>>

(* A bug: the leader's position is published.                              *)
MutantPosition(ps) == Max(ps)

(* notifications_position, publish_retention_position: the one furthest    *)
(* behind speaks for all.                                                  *)
Position(ps) == Min(ps)

(* report_notifications.                                                   *)
Report ==
    LET row == [pos |-> Position({cursor[n] : n \in Speaks}), seen |-> today]
    IN  /\ Speaks # {} /\ registry["notifications"] # row
        /\ registry' = [registry EXCEPT !["notifications"] = row]
        /\ ghost' = [ghost EXCEPT !.joined = {}]
        /\ UNCHANGED <<today, parts, stray, windows, txns, cursor, notify, state, dead, tick, budget>>

(* One run of _consume_run over a day: it makes the partitions it writes   *)
(* to, moves the frontier to the newest write among the rows it met, and   *)
(* publishes, unless some tenant has met no row yet.                       *)
Fold(n, d) ==
    LET met == {x.upd : x \in {y \in txns : y.tenant = n /\ y.day = d}}
                 \cup (IF state[n] = Null THEN {} ELSE {state[n].frontier} \ {Null})
        row == [frontier |-> IF met = {} THEN Null ELSE Max(met), cycle |-> today]
        fs  == {state'[m].frontier : m \in {k \in Tenants : state'[k] # Null}}
    IN  /\ budget.moves > 0 /\ d <= today
        /\ parts' = [t \in Tables |-> parts[t] \cup
                         (IF t \in HealthGated THEN {} ELSE {PeriodStart(t, e) : e \in Days \cap ((d - 1 .. d + 1) \cup {today})})]
        /\ state' = [state EXCEPT ![n] = row]
        /\ registry' = IF Null \in fs THEN registry
                       ELSE [registry EXCEPT !["analytics"] = [pos |-> Position(fs), seen |-> today]]
        /\ budget' = [budget EXCEPT !.moves = @ - 1]
        /\ UNCHANGED <<today, stray, windows, txns, cursor, notify, dead, tick, ghost>>

(* _record_failure, the last attempt: nothing revives the ticket.          *)
TicketDies(n) ==
    /\ budget.events > 0 /\ n \notin dead
    /\ dead' = dead \cup {n}
    /\ budget' = [budget EXCEPT !.events = @ - 1]
    /\ UNCHANGED <<today, parts, stray, windows, txns, cursor, notify, state, registry, tick, ghost>>

SwitchTenant(n) ==
    /\ budget.events > 0
    /\ notify' = [notify EXCEPT ![n] = ~@]
    /\ ghost' = [ghost EXCEPT !.joined = @ \cup {n}]
    /\ budget' = [budget EXCEPT !.events = @ - 1]
    /\ UNCHANGED <<today, parts, stray, windows, txns, cursor, state, dead, registry, tick>>

Midnight ==
    /\ today < MaxDay /\ ~tick.open
    /\ today' = today + 1
    /\ UNCHANGED <<parts, stray, windows, txns, cursor, notify, state, dead, registry, tick, budget, ghost>>

-----------------------------------------------------------------------------
(* A database just migrated: today and the runway are provisioned, the     *)
(* rules of some tenants have run.                                         *)
Init ==
    /\ today = 0
    /\ parts = [t \in Tables |-> {PeriodStart(t, d) : d \in 0 .. Ahead}]
    /\ stray = [t \in Tables |-> {}]
    /\ windows = {} /\ txns = {}
    /\ cursor \in [Tenants -> {Null, 0}]
    /\ state = [n \in Tenants |-> Null] /\ dead = {}
    /\ notify = [n \in Tenants |-> TRUE]
    /\ registry = [c \in Readers |-> Null]
    /\ tick = NoTick
    /\ budget = [arrivals |-> MaxArrivals, moves |-> MaxMoves, events |-> MaxEvents]
    /\ ghost = [lost |-> {}, joined |-> Tenants, good |-> 0]

Next ==
    \/ TickGate \/ TickCommit \/ DropFails \/ Midnight \/ Report
    \/ \E n \in Tenants : \/ Start(n) \/ Read(n) \/ SwitchTenant(n) \/ TicketDies(n)
                          \/ \E d \in Days : Fold(n, d) \/ \E tail \in {0, 1} : Arrive(n, d, tail)
    \/ \E w \in windows : Stitch(w) \/ Abandon(w)

Spec == Init /\ [][Next]_vars

-----------------------------------------------------------------------------
(* Partitions start on a boundary of their grain; a published position is  *)
(* never ahead of the clock.                                               *)
TypeOK ==
    /\ today \in 0 .. MaxDay
    /\ \A t \in Tables : \A s \in parts[t] : s \in Days /\ PeriodStart(t, s) = s
    /\ \A w \in windows : w.lo <= w.hi /\ w.hi <= today
    /\ \A c \in Readers : registry[c] # Null =>
          registry[c].pos <= registry[c].seen /\ registry[c].seen <= today

(* A drop takes nothing that is still needed.  "Data Stage 2 has not       *)
(* stitched yet is never destroyed": the lines an open window stands for   *)
(* keep their partitions, unless they arrived while a tick was between its *)
(* gate and its drop.  "Every consumer must have finished READING it       *)
(* before it can go": no row stitched on its own day goes before the live  *)
(* rules of its tenant have read it, however far the tenants are apart.    *)
(* Set aside: tenants that joined since the last report, and rows written  *)
(* after their own day.                                                    *)
NeededIsKept ==
    /\ \A w \in windows : w.kept \subseteq parts["entries"]
    /\ \A x \in ghost.lost : x.upd > x.day

(* Partitions go in order.  Only those go whose every day is past the      *)
(* table's retention, never one of a table kept forever; and by the        *)
(* midnight rule the entries of a day go only when its transactions and    *)
(* those of the day before are gone, except the transactions of a day      *)
(* before that an open window alone held past their retention.             *)
DropsInOrder ==
    [][/\ \A t \in Tables : \A s \in parts[t] \ parts'[t] :
             /\ RetentionDays[t] # Null
             /\ \A d \in s .. s + Grain[t] - 1 : d < today - RetentionDays[t]
       /\ \A s \in parts["entries"] \ parts'["entries"] :
             s \notin parts'["txns"] /\ (s - 1 \in parts'["txns"] => s - 1 \in tick.pinned)]_vars

(* The runway: today has a partition in every table, as long as one tick   *)
(* of the last Ahead days committed.                                       *)
RunwayKept ==
    today <= ghost.good + Ahead => \A t \in Tables : PeriodStart(t, today) \in parts[t]

(* "Creation runs FIRST and independently of the drop ... it must never be *)
(* prevented by one": a tick that made its runway leaves it made.          *)
CreationNotPrevented ==
    [][tick.open /\ ~tick'.open => \A t \in Tables : Coverage(t) \subseteq parts'[t]]_vars
=============================================================================
