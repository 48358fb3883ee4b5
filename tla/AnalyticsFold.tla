--------------------------- MODULE AnalyticsFold ---------------------------
(***************************************************************************)
(* The analytics warehouse of ONE tenant: the tickets that say "this range *)
(* of transactions changed" (analytics/pending_windows.py), the worker     *)
(* that turns tickets into facts by a range diff (analytics/consume.py),   *)
(* the record rows, settled rows and three rollup grains derived from the  *)
(* facts in the same transaction (consume.py, settle_store.py, rollups.py) *)
(* and the switches a person flips meanwhile (api/v1/analytics.py).        *)
(*                                                                         *)
(* Time is a row of instants, one hourly bucket each; a window [lo, hi) is *)
(* half open like UtcWindow.  A source row starts at `at' and its response *)
(* is logged at `end'.  A fact keeps the row it was built from (its source *)
(* fingerprint) and whether the response was found.  A rollup bucket is    *)
(* the set of contributions in it.  Every run of the worker reads the      *)
(* source and the switches, then the show switch and the metrics, then     *)
(* commits; everything else interleaves between the three.                 *)
(***************************************************************************)
EXTENDS Integers, FiniteSets, FiniteSetsExt

CONSTANTS
    Txns,           \* transaction ids
    Names,          \* transaction names
    Switched,       \* the names whose switches are flipped
    RecordNames,    \* names whose responses carry records
    Unusable,       \* names whose rows normalise() quarantines
    Rows,           \* the source rows a rebuild may produce: [at, name, end]
    Initial,        \* the settled source states the system starts from
    None,
    LastInstant,    \* instants are 1 .. LastInstant
    DayLength,      \* instants (hours) per business day
    Pad,            \* _regroup_pad, in instants
    MaxSpan,        \* _MAX_TICKET_SPAN
    MaxSlice,       \* analytics_max_window_seconds
    MaxAttempts,    \* analytics_max_attempts
    Metrics,        \* metric definitions
    RecordMetrics,  \* those with source = "record"
    Filter,         \* metric -> the names its filter admits
    Built,          \* the metrics a person builds, which start as drafts
    MaxTickets,     \* bound: tickets open or dead at once
    MaxChanges,     \* bound: source changes
    MaxFlips,       \* bound: registry and metric changes
    MaxEvents       \* bound: failures, passes of retention, reconciliations

Instants == 1 .. LastInstant
DayOf(t) == (t - 1) \div DayLength
Days == {DayOf(t) : t \in Instants}
Ids == 1 .. MaxTickets

ASSUME ConstantsAssumption ==
    /\ IsFiniteSet(Txns) /\ MaxTickets \in Nat
    /\ LastInstant \in Nat /\ DayLength \in Nat \ {0} /\ Pad \in Nat \ {0}
    /\ MaxSpan \in Nat \ {0} /\ MaxSlice \in Nat \ {0} /\ MaxAttempts \in Nat \ {0}
    /\ Switched \subseteq Names /\ RecordNames \subseteq Names /\ Unusable \subseteq Names
    /\ RecordMetrics \subseteq Metrics /\ Built \subseteq Metrics
    /\ Filter \in [Metrics -> SUBSET Names]
    /\ Rows \subseteq [at : Instants, name : Names, end : Instants]
    /\ None \notin Rows
    /\ Initial \subseteq [Txns -> Rows \cup {None}]

VARIABLES
    src,        \* log_transactions: Txns -> row or None
    fact,       \* analytics_facts
    recs,       \* analytics_record_facts, one record per transaction
    settled,    \* analytics_settled_rows: key (the name) -> transactions it sums up
    issues,     \* analytics_quality_issues: transactions ever quarantined
    hourly, daily, monthly,     \* metric -> contributions
    tickets,    \* analytics_pending_windows: Ids -> ticket
    switch,     \* registry: suppressed, hidden, expanded names; approved record field
    metric,     \* analytics_metrics: status and rollups_from
    tstate,     \* analytics_tenant_state
    run,        \* the worker: the tickets claimed and the slice in hand
    view,       \* what the run in hand has read
    rebuild,    \* a rebuild between its delete and its insert
    floor,      \* source partitions of instants <= floor are dropped
    aged,       \* days too old for daily_derivable
    budget,     \* bounds left
    ghost       \* history: what the properties must set aside

warehouse == <<fact, recs, settled, issues, hourly, daily, monthly, tstate>>
vars == <<src, warehouse, tickets, switch, metric, run, view, rebuild, floor, aged, budget, ghost>>

-----------------------------------------------------------------------------
(* Tickets.                                                                *)

NoTicket == [st |-> "free", lo |-> 0, hi |-> 0, refold |-> FALSE, attempts |-> 0]
Open == {i \in Ids : tickets[i].st = "open"}
Dead == {i \in Ids : tickets[i].st = "dead"}
Free == {i \in Ids : tickets[i].st = "free"}
Covers(k, t) == k.lo <= t /\ t < k.hi
CoveredBy(S, t) == \E i \in S : Covers(tickets[i], t)

(* publish(): pad the range and cut it into tickets of at most MaxSpan.    *)
Pieces(lo, hi, refold) ==
    LET start == lo - Pad
        end == hi + Pad
        count == IF start > end THEN 0 ELSE Max({1, (end - start + MaxSpan - 1) \div MaxSpan})
    IN  [k \in 1 .. count |->
            [st |-> "open", lo |-> start + (k - 1) * MaxSpan,
             hi |-> Min({start + k * MaxSpan, end}), refold |-> refold, attempts |-> 0]]

CanPublish(pieces) == Cardinality(DOMAIN pieces) <= Cardinality(Free)

Publish(pieces) ==
    [i \in Ids |->
        LET rank == Cardinality({j \in Free : j <= i})
        IN  IF i \in Free /\ rank \in DOMAIN pieces THEN pieces[rank] ELSE tickets[i]]

-----------------------------------------------------------------------------
(* The source.  Every path that frees transactions publishes its ticket in *)
(* the transaction that frees them.                                        *)

Live(x) == src[x] # None
Starts(f) == {f[x].at : x \in {y \in Txns : f[y] # None}}

(* One rebuilt window: regroup_window, the head lane's apply_plan, a       *)
(* date-range delete, a wipe.                                              *)
RebuildWindow(x, r) ==
    LET span == {row.at : row \in {src[x], r} \ {None}}
        pieces == Pieces(Min(span), Max(span), FALSE)
    IN  /\ budget.changes > 0 /\ rebuild.st = "none"
        /\ r # src[x]
        /\ r # None => r.at > floor
        /\ CanPublish(pieces)
        /\ src' = [src EXCEPT ![x] = r]
        /\ tickets' = Publish(pieces)
        /\ budget' = [budget EXCEPT !.changes = @ - 1]
        /\ ghost' = [ghost EXCEPT !.straddled = @ \cup
                        {y \in {x} : r # None /\ r.at # r.end}]
        /\ UNCHANGED <<warehouse, switch, metric, run, view, rebuild, floor, aged>>

(* A rebuild in two commits: the delete with its ticket, the insert with   *)
(* none.  regroup_all takes every row, raises the maintenance flag and     *)
(* tickets the span of all entries; regroup_incremental takes the          *)
(* unsealed rows and raises no flag.                                       *)
FreeForRebuild(S, full) ==
    LET pieces == IF full THEN Pieces(floor + 1, LastInstant, FALSE)
                  ELSE Pieces(Min({src[x].at : x \in S}), Max({src[x].at : x \in S}), FALSE)
    IN  /\ budget.changes > 0 /\ rebuild.st = "none"
        /\ S # {} /\ \A x \in S : Live(x)
        /\ full => S = {x \in Txns : Live(x)}
        /\ CanPublish(pieces)
        /\ src' = [x \in Txns |-> IF x \in S THEN None ELSE src[x]]
        /\ rebuild' = [st |-> IF full THEN "flagged" ELSE "bare", rows |-> [x \in S |-> src[x]]]
        /\ tickets' = Publish(pieces)
        /\ budget' = [budget EXCEPT !.changes = @ - 1]
        /\ UNCHANGED <<warehouse, switch, metric, run, view, floor, aged, ghost>>

(* The insert.  Ids are deterministic, so the same rows come back.         *)
FinishRebuild ==
    LET back == {x \in DOMAIN rebuild.rows : rebuild.rows[x].at > floor}
        toRead(t) == \/ CoveredBy(Open \ run.ids, t)
                     \/ CoveredBy(run.ids, t) /\ t >= (IF run.phase = "claimed" THEN run.lo ELSE run.hi)
    IN  /\ rebuild.st # "none"
        /\ src' = [x \in Txns |-> IF x \in back THEN rebuild.rows[x] ELSE src[x]]
        /\ rebuild' = [st |-> "none", rows |-> <<>>]
        /\ ghost' = [ghost EXCEPT !.unticketed = @ \cup
                        {x \in back : ~toRead(rebuild.rows[x].at)}]
        /\ UNCHANGED <<warehouse, tickets, switch, metric, run, view, floor, aged, budget>>

(* A flag nobody refreshes stops excluding the tenant (maintenance.py).    *)
FlagGoesStale ==
    /\ rebuild.st = "flagged"
    /\ rebuild' = [rebuild EXCEPT !.st = "stale"]
    /\ UNCHANGED <<src, warehouse, tickets, switch, metric, run, view, floor, aged, budget, ghost>>

(* Retention drops the oldest source partition; facts are kept forever.    *)
DropPartition ==
    /\ budget.events > 0 /\ floor < LastInstant
    /\ floor' = floor + 1
    /\ src' = [x \in Txns |-> IF Live(x) /\ src[x].at = floor + 1 THEN None ELSE src[x]]
    /\ budget' = [budget EXCEPT !.events = @ - 1]
    /\ UNCHANGED <<warehouse, tickets, switch, metric, run, view, rebuild, aged, ghost>>

(* A day passes the derive margin, and its hourly partition goes later.    *)
AgeDay ==
    LET d == Min(Days \ aged)
    IN  /\ budget.events > 0 /\ aged # Days
        /\ aged' = aged \cup {d}
        /\ hourly' = [m \in Metrics |-> {c \in hourly[m] : DayOf(c.at) # d}]
        /\ budget' = [budget EXCEPT !.events = @ - 1]
        /\ UNCHANGED <<src, fact, recs, settled, issues, daily, monthly, tstate, tickets, switch,
                       metric, run, view, rebuild, floor, ghost>>

-----------------------------------------------------------------------------
(* The switches.  A switch and its ticket commit together; the ticket      *)
(* spans the history the tenant row knows of.                              *)

SwitchPieces(refold) ==
    IF tstate.wm = 0 THEN <<>>
    ELSE Pieces(IF tstate.history = 0 THEN 1 ELSE tstate.history, tstate.wm, refold)

(* Rows the ticket of a switch does not reach: those beyond the newest     *)
(* start the last run saw.                                                 *)
Unreached(pieces) ==
    {t \in {f.at : f \in fact} \cup {c.at : c \in recs} :
        ~\E k \in DOMAIN pieces : Covers(pieces[k], t)}

Flip(sw, pieces) ==
    /\ budget.flips > 0
    /\ CanPublish(pieces)
    /\ switch' = sw
    /\ tickets' = Publish(pieces)
    /\ budget' = [budget EXCEPT !.flips = @ - 1]
    /\ UNCHANGED <<src, warehouse, metric, run, view, rebuild, floor, aged>>

SetCapture(n) ==
    IF n \in switch.suppressed
    THEN /\ Flip([switch EXCEPT !.suppressed = @ \ {n}], SwitchPieces(FALSE))
         /\ UNCHANGED ghost
    ELSE /\ Flip([switch EXCEPT !.suppressed = @ \cup {n}], <<>>)
         /\ ghost' = [ghost EXCEPT !.everOff = @ \cup {n}]

SetShow(n) ==
    /\ Flip([switch EXCEPT !.hidden = (@ \ {n}) \cup ({n} \ @)], SwitchPieces(TRUE))
    /\ ghost' = [ghost EXCEPT !.owed = @ \cup Unreached(SwitchPieces(TRUE))]

SetExpand(n) ==
    IF n \in switch.expanded
    THEN /\ Flip([switch EXCEPT !.expanded = @ \ {n}], <<>>)
         /\ UNCHANGED ghost
    ELSE /\ Flip([switch EXCEPT !.expanded = @ \cup {n}], SwitchPieces(FALSE))
         /\ ghost' = [ghost EXCEPT !.owed = @ \cup Unreached(SwitchPieces(FALSE))]

(* set_field_capture for a field of the record grain.                      *)
SetFieldCapture ==
    /\ Flip([switch EXCEPT !.approved = ~@], SwitchPieces(FALSE))
    /\ ghost' = [ghost EXCEPT !.owed = @ \cup Unreached(SwitchPieces(FALSE))]

(* update_metric: a draft goes live from an instant and tickets what is    *)
(* already folded; a pause and a resume publish nothing.                   *)
ActivateMetric(m, from) ==
    LET pieces == IF tstate.wm # 0 /\ from < tstate.wm
                  THEN Pieces(from, tstate.wm, TRUE) ELSE <<>>
    IN  /\ budget.flips > 0
        /\ metric[m].status = "draft"
        /\ CanPublish(pieces)
        /\ metric' = [metric EXCEPT ![m] = [status |-> "active", from |-> from]]
        /\ tickets' = Publish(pieces)
        /\ budget' = [budget EXCEPT !.flips = @ - 1]
        /\ ghost' = [ghost EXCEPT !.owed = @ \cup {t \in Unreached(pieces) : t >= from}]
        /\ UNCHANGED <<src, warehouse, switch, run, view, rebuild, floor, aged>>

PauseMetric(m) ==
    /\ budget.flips > 0
    /\ metric[m].status \in {"active", "inactive"}
    /\ metric' = [metric EXCEPT ![m].status = IF @ = "active" THEN "inactive" ELSE "active"]
    /\ budget' = [budget EXCEPT !.flips = @ - 1]
    /\ UNCHANGED <<src, warehouse, tickets, switch, run, view, rebuild, floor, aged, ghost>>

(* reconcile_tenant(repair=True): a transaction with neither a fact nor a  *)
(* quality issue is what a missed ticket looks like; re-ticket its range.  *)
FactsVsTransactions ==
    {src[x].at : x \in {y \in Txns :
        /\ Live(y) /\ src[y].name \notin switch.suppressed /\ y \notin issues
        /\ ~\E f \in fact : f.txn = y /\ f.at = src[y].at}}

Reconcile ==
    LET pieces == Pieces(Min(FactsVsTransactions), Max(FactsVsTransactions), FALSE)
    IN  /\ budget.events > 0
        /\ FactsVsTransactions # {}
        /\ CanPublish(pieces)
        /\ tickets' = Publish(pieces)
        /\ budget' = [budget EXCEPT !.events = @ - 1]
        /\ ghost' = [ghost EXCEPT !.unticketed = {x \in @ : ~Live(x)
                        \/ src[x].at \notin FactsVsTransactions}]
        /\ UNCHANGED <<src, warehouse, switch, metric, run, view, rebuild, floor, aged>>

-----------------------------------------------------------------------------
(* The worker: claim, coalesce, slice.                                     *)

Idle == [phase |-> "idle", ids |-> {}, rest |-> {}, refold |-> FALSE, lo |-> 0, hi |-> 0, end |-> 0]
NoView == [src |-> [x \in Txns |-> None], suppressed |-> {}, expanded |-> {}, approved |-> FALSE,
           hidden |-> {}, metric |-> <<>>, wm |-> 0]

(* _coalesce: a run starts at a ticket no earlier ticket reaches.          *)
RunStarts(S) ==
    {tickets[i].lo : i \in {j \in S :
        ~\E k \in S : tickets[k].lo < tickets[j].lo /\ tickets[k].hi >= tickets[j].lo}}

(* The tickets of the first of the coalesced runs.                         *)
FirstRun(S) ==
    LET first == Min(RunStarts(S))
    IN  {i \in S : \A s \in RunStarts(S) \ {first} : tickets[i].lo < s}

(* _split_run: the next bounded sub-window of [lo, end).                   *)
SliceEnd(lo, end) == Min({lo + MaxSlice, end})

StartRun(S) ==
    LET ids == FirstRun(S)
        lo == Min({tickets[i].lo : i \in ids})
        end == Max({tickets[i].hi : i \in ids})
    IN  [phase |-> "claimed", ids |-> ids, rest |-> S \ ids,
         refold |-> \E i \in ids : tickets[i].refold,
         lo |-> lo, hi |-> SliceEnd(lo, end), end |-> end]

NextRun(S) == IF S = {} THEN Idle ELSE StartRun(S)

(* drain_once: every due ticket of a tenant that is not under maintenance; *)
(* a ticket that has failed is due again after its backoff.                *)
Claim ==
    \E backedOff \in SUBSET {i \in Open : tickets[i].attempts > 0} :
        LET due == {i \in Open : tickets[i].attempts = 0} \cup backedOff
        IN  /\ run.phase = "idle" /\ rebuild.st # "flagged"
            /\ due # {}
            /\ run' = StartRun(due)
            /\ UNCHANGED <<src, warehouse, tickets, switch, metric, view, rebuild, floor, aged, budget,
                           ghost>>

(* The reads that build the facts: capture, source, expand, approvals.     *)
ReadSource ==
    /\ run.phase = "claimed"
    /\ run' = [run EXCEPT !.phase = "read"]
    /\ view' = [NoView EXCEPT !.src = src, !.suppressed = switch.suppressed,
                              !.expanded = switch.expanded, !.approved = switch.approved]
    /\ UNCHANGED <<src, warehouse, tickets, switch, metric, rebuild, floor, aged, budget, ghost>>

(* The reads of the roll-up and of the tenant state, later in the run.     *)
ReadRegistry ==
    /\ run.phase = "read"
    /\ run' = [run EXCEPT !.phase = "folded"]
    /\ view' = [view EXCEPT !.hidden = switch.hidden, !.metric = metric,
                            !.wm = IF Starts(src) = {} THEN 0 ELSE Max(Starts(src))]
    /\ UNCHANGED <<src, warehouse, tickets, switch, metric, rebuild, floor, aged, budget, ghost>>

-----------------------------------------------------------------------------
(* What one run computes from what it read.                                *)

InSlice(t) == run.lo <= t /\ t < run.hi
SameKey(f, g) == f.txn = g.txn /\ f.at = g.at

(* _read_source and _read_stored: the same range, the same capture gate.   *)
ReadIn == {x \in Txns : /\ view.src[x] # None /\ InSlice(view.src[x].at)
                        /\ view.src[x].name \notin view.suppressed}
Stored == {f \in fact : InSlice(f.at) /\ f.name \notin view.suppressed}

(* stored_by_txn, a dict: of two stored facts of a transaction it holds    *)
(* either, by the order the rows came in.                                  *)
StoredByTxn ==
    {S \in SUBSET Stored : \A f \in Stored : Cardinality({g \in S : g.txn = f.txn}) = 1}

(* A bug: the record grain follows the fact diff alone.                    *)
MutantRefresh(byTxn) == {}

(* _records_needing_expansion: record rows missing or of another version.  *)
Refresh(byTxn) ==
    {f.txn : f \in {g \in byTxn :
        /\ g.name \in view.expanded \cap RecordNames /\ g.resp
        /\ LET present == {c \in recs : c.txn = g.txn /\ InSlice(c.at)}
           IN  present = {} \/ \E c \in present : c.ver # view.approved}}

(* _needs_entries: no stored fact was built from this very row.            *)
BuiltFrom(f, x) == f.txn = x /\ [at |-> f.at, name |-> f.name, end |-> f.end] = view.src[x]
NeedsEntries(x, byTxn) == ~\E f \in byTxn : BuiltFrom(f, x)

(* The entries read is bounded by the slice, like the source read.         *)
EntriesFound(needs) == {x \in needs : view.src[x] # None /\ InSlice(view.src[x].end)}

(* A fact is carried verbatim when its row did not move, else rebuilt.     *)
Facts(byTxn, needs, usable) ==
    {f \in byTxn : f.txn \in ReadIn \ needs}
    \cup {[txn |-> x, at |-> view.src[x].at, name |-> view.src[x].name, end |-> view.src[x].end,
           resp |-> x \in EntriesFound(needs)] : x \in usable}

(* diff(): by the key (source_transaction_id, event_time).                 *)
Diff(stored, facts) ==
    [inserted |-> {f \in facts : ~\E g \in stored : SameKey(f, g)},
     updated  |-> {f \in facts \ stored : \E g \in stored : SameKey(f, g)},
     replaced |-> {g \in stored \ facts : \E f \in facts : SameKey(f, g)},
     reversed |-> {g \in stored : ~\E f \in facts : SameKey(f, g)}]

Writes(d) == d.inserted \cup d.updated \cup d.replaced \cup d.reversed

(* _expand_records: the facts whose record rows are written again.         *)
Expanding(byTxn, d, refresh, found) ==
    LET changed == d.inserted \cup d.updated
        settledFacts == {g \in byTxn : g.txn \in refresh \ {f.txn : f \in changed}}
    IN  {f \in changed \cup settledFacts :
            f.name \in view.expanded /\ f.txn \in found /\ view.src[f.txn].name \in RecordNames}

(* Everything the run derives before it writes.                            *)
Plan(byTxn) ==
    LET refresh == Refresh(byTxn)
        needs == {x \in ReadIn : NeedsEntries(x, byTxn)} \cup refresh
        bad == {x \in ReadIn \cap needs : view.src[x].name \in Unusable}
        facts == Facts(byTxn, needs, (ReadIn \cap needs) \ bad)
        d == Diff(Stored, facts)
    IN  [facts |-> facts, diff |-> d, quarantined |-> bad,
         expanding |-> Expanding(byTxn, d, refresh, EntriesFound(needs)),
         orphaned |-> {c \in recs : \E g \in d.reversed : SameKey(c, g)}]

(* uq_analytics_facts: an insert meets a fact the capture gate hides.      *)
Conflict(p) == \E f \in p.diff.inserted, g \in fact : SameKey(f, g)

(* _apply.                                                                 *)
FactAfter(p) == (fact \ (p.diff.reversed \cup p.diff.replaced)) \cup p.diff.inserted \cup p.diff.updated

(* A reversed fact takes its record rows with it; an expansion replaces    *)
(* the rows of its transaction.                                            *)
RecsReplaced(p) == {c \in recs : \E f \in p.expanding : SameKey(c, f)} \cup p.orphaned

RecsWritten(p) ==
    {[txn |-> f.txn, at |-> f.at, name |-> f.name, ver |-> view.approved] : f \in p.expanding}
RecsAfter(p) == (recs \ RecsReplaced(p)) \cup RecsWritten(p)

(* settle_touched: the keys of this window's facts, from all their calls.  *)
SettledAfter(p) ==
    [n \in Names |-> IF n \in {f.name : f \in p.facts}
                     THEN {f.txn : f \in {g \in FactAfter(p) : g.name = n}} ELSE settled[n]]

-----------------------------------------------------------------------------
(* The roll-up: which buckets are dirty, for which definitions.            *)

(* A bug: only the buckets written into are dirty, not the ones left.      *)
MutantDirtyHours(p) ==
    {f.at : f \in p.diff.inserted \cup p.diff.updated} \cup
        (IF run.refold THEN {t \in Instants : run.lo <= t /\ t <= run.hi} ELSE {})

(* dirty_buckets: both sides of every outcome; a refold dirties the range. *)
DirtyHours(p) ==
    {f.at : f \in Writes(p.diff)} \cup
        (IF run.refold THEN {t \in Instants : run.lo <= t /\ t <= run.hi} ELSE {})

(* A record definition also follows the expansion's own buckets.           *)
HoursOf(m, p) ==
    DirtyHours(p) \cup
        (IF m \in RecordMetrics THEN {c.at : c \in p.orphaned \cup RecsWritten(p)} ELSE {})
DaysOf(m, p) == {DayOf(t) : t \in HoursOf(m, p)}

(* concerns(): some changed fact can be inside the definition's filter.    *)
Concerns(m, p) ==
    m \in RecordMetrics \/ run.refold \/ Filter[m] \cap {f.name : f \in Writes(p.diff)} # {}

Dirties(m, p) == HoursOf(m, p) # {} /\ Concerns(m, p)
Folded(p) == {m \in Metrics : view.metric[m].status = "active" /\ Dirties(m, p)}

(* The facts or records that count towards a definition.                   *)
Contributions(m, p) ==
    {[txn |-> f.txn, at |-> f.at, name |-> f.name] : f \in
        {g \in IF m \in RecordMetrics THEN RecsAfter(p) ELSE FactAfter(p) :
            g.name \in Filter[m] \ view.hidden /\ g.at >= view.metric[m].from}}

HourlyAfter(p) ==
    [m \in Metrics |-> IF m \notin Folded(p) THEN hourly[m]
        ELSE {c \in hourly[m] : c.at \notin HoursOf(m, p)}
                \cup {c \in Contributions(m, p) : c.at \in HoursOf(m, p)}]

(* A day young enough is merged from its hours, an older one from facts.   *)
DailyDerivable(d) == d \notin aged

DailyAfter(p) ==
    LET hours == HourlyAfter(p)
    IN  [m \in Metrics |-> IF m \notin Folded(p) THEN daily[m]
            ELSE {c \in daily[m] : DayOf(c.at) \notin DaysOf(m, p)}
                \cup {c \in hours[m] : DayOf(c.at) \in DaysOf(m, p) /\ DailyDerivable(DayOf(c.at))}
                \cup {c \in Contributions(m, p) :
                        DayOf(c.at) \in DaysOf(m, p) /\ ~DailyDerivable(DayOf(c.at))}]

(* Monthly is merged from daily; the days of the model are of one month.   *)
MonthlyAfter(p) == [m \in Metrics |-> IF m \in Folded(p) THEN DailyAfter(p)[m] ELSE monthly[m]]

(* A bug: deleted record rows are not taken off the total.                 *)
MutantStateAfter(p) ==
    LET starts == {f.at : f \in p.facts} \cup ({tstate.history} \ {0})
    IN  [history |-> IF starts = {} THEN 0 ELSE Min(starts),
         wm |-> view.wm,
         facts |-> tstate.facts + Cardinality(p.diff.inserted) - Cardinality(p.diff.reversed),
         records |-> tstate.records + Cardinality(RecsWritten(p))]

(* _update_state: history only widens, the source watermark is what it is, *)
(* the totals move by the diff's own counters.                             *)
StateAfter(p) ==
    LET starts == {f.at : f \in p.facts} \cup ({tstate.history} \ {0})
    IN  [history |-> IF starts = {} THEN 0 ELSE Min(starts),
         wm |-> view.wm,
         facts |-> tstate.facts + Cardinality(p.diff.inserted) - Cardinality(p.diff.reversed),
         records |-> tstate.records + Cardinality(RecsWritten(p)) - Cardinality(RecsReplaced(p))]

(* A bug: the tickets are stamped with the first slice.                    *)
MutantLastSlice == TRUE

(* The last slice stamps the tickets of the run, in the same transaction.  *)
LastSlice == run.hi = run.end

Consume(S) == [i \in Ids |-> IF i \in S THEN NoTicket ELSE tickets[i]]

(* Buckets this run left behind a switch that moved since it was read, and *)
(* that no open ticket will fold again.                                    *)
LeftBehind(p) ==
    LET rollupsMoved == view.hidden # switch.hidden \/ view.metric # metric
        recordsMoved == view.expanded # switch.expanded \/ view.approved # switch.approved
        coming == {i \in Open \ run.ids : tickets[i].refold \/ ~rollupsMoved}
    IN  {t \in DirtyHours(p) \cup {c.at : c \in RecsWritten(p)} :
            (rollupsMoved \/ recordsMoved) /\ ~CoveredBy(coming, t)}

(* Transactions whose record rows this run leaves without their fact, or   *)
(* under its old name: refresh_facts are written again though the diff     *)
(* reversed them, and an update to a name that is not expanded is skipped. *)
Strayed(p) ==
    {f.txn : f \in p.expanding \cap p.diff.reversed}
    \cup {f.txn : f \in {g \in p.diff.updated \ p.expanding :
                            \E c \in recs : SameKey(c, g) /\ c.name # g.name}}

Commit(p) ==
    /\ run.phase = "folded" /\ ~Conflict(p)
    /\ fact' = FactAfter(p)
    /\ issues' = issues \cup p.quarantined
    /\ recs' = RecsAfter(p)
    /\ settled' = SettledAfter(p)
    /\ hourly' = HourlyAfter(p)
    /\ daily' = DailyAfter(p)
    /\ monthly' = MonthlyAfter(p)
    /\ tstate' = StateAfter(p)
    /\ tickets' = Consume(IF LastSlice THEN run.ids ELSE {})
    /\ run' = IF LastSlice THEN NextRun(run.rest)
              ELSE [run EXCEPT !.phase = "claimed", !.lo = run.hi,
                               !.hi = SliceEnd(run.hi, run.end)]
    /\ view' = NoView
    /\ ghost' = [ghost EXCEPT !.owed = @ \cup LeftBehind(p), !.paused = @ \cup
                    {m \in Metrics : view.metric[m].status = "inactive" /\ Dirties(m, p)},
                  !.split = @ \cup {x \in Txns : \E f, g \in FactAfter(p) :
                                        f.txn = x /\ g.txn = x /\ f # g},
                  !.stray = @ \cup Strayed(p)]
    /\ UNCHANGED <<src, switch, metric, rebuild, floor, aged, budget>>

(* A run that raises rolls back; _record_failure counts the attempt in its *)
(* own transaction and dead-letters at the cap, and the rest of this run's *)
(* slices are not tried.  That second transaction may fail too.            *)
AfterFailure(i) ==
    [tickets[i] EXCEPT !.attempts = @ + 1,
                       !.st = IF tickets[i].attempts + 1 >= MaxAttempts THEN "dead" ELSE "open"]

Rollback(recorded) ==
    /\ tickets' = [i \in Ids |-> IF recorded /\ i \in run.ids THEN AfterFailure(i) ELSE tickets[i]]
    /\ run' = NextRun(run.rest)
    /\ view' = NoView
    /\ UNCHANGED <<src, warehouse, switch, metric, rebuild, floor, aged, ghost>>

(* Any statement of the run may fail: a timeout, a lost connection.        *)
Fail(recorded) ==
    /\ run.phase # "idle" /\ budget.events > 0
    /\ Rollback(recorded)
    /\ budget' = [budget EXCEPT !.events = @ - 1]

(* The insert that meets the unique key always fails.                      *)
FailOnConflict(p) ==
    /\ run.phase = "folded" /\ Conflict(p)
    /\ Rollback(TRUE)
    /\ UNCHANGED budget

(* The process dies: everything uncommitted goes, the tickets stay open.   *)
Crash ==
    /\ run.phase # "idle" /\ budget.events > 0
    /\ run' = Idle /\ view' = NoView
    /\ budget' = [budget EXCEPT !.events = @ - 1]
    /\ UNCHANGED <<src, warehouse, tickets, switch, metric, rebuild, floor, aged, ghost>>

-----------------------------------------------------------------------------
Fold(S) == [m \in Metrics |-> {[txn |-> f.txn, at |-> f.at, name |-> f.name] :
                f \in {g \in S : g.name \in Filter[m] /\ m \notin RecordMetrics /\ metric[m].status = "active"}}]

Init ==
    /\ src \in Initial
    /\ fact = {[txn |-> x, at |-> src[x].at, name |-> src[x].name, end |-> src[x].end, resp |-> TRUE] :
                    x \in {y \in Txns : Live(y) /\ src[y].name \notin Unusable}}
    /\ recs = {}
    /\ issues = {y \in Txns : Live(y) /\ src[y].name \in Unusable}
    /\ settled = [n \in Names |-> {f.txn : f \in {g \in fact : g.name = n}}]
    /\ tickets = [i \in Ids |-> NoTicket]
    /\ switch = [suppressed |-> {}, hidden |-> {}, expanded |-> {}, approved |-> FALSE]
    /\ \E status \in {"draft", "active"} :
            metric = [m \in Metrics |-> [status |-> IF m \in Built THEN status ELSE "active", from |-> 1]]
    /\ hourly = Fold(fact) /\ daily = Fold(fact) /\ monthly = Fold(fact)
    /\ tstate = [history |-> IF fact = {} THEN 0 ELSE Min({f.at : f \in fact}),
                 wm |-> IF Starts(src) = {} THEN 0 ELSE Max(Starts(src)),
                 facts |-> Cardinality(fact), records |-> 0]
    /\ run = Idle /\ view = NoView
    /\ rebuild = [st |-> "none", rows |-> <<>>]
    /\ floor = 0
    /\ aged = {}
    /\ budget = [changes |-> MaxChanges, flips |-> MaxFlips, events |-> MaxEvents]
    /\ ghost = [everOff |-> {}, owed |-> {}, paused |-> {}, unticketed |-> {},
                split |-> {}, stray |-> {}, straddled |-> {y \in Txns : Live(y) /\ src[y].at # src[y].end}]

EndRun ==
    /\ run.phase = "folded"
    /\ \E p \in {Plan(byTxn) : byTxn \in StoredByTxn} : Commit(p) \/ FailOnConflict(p)

Worker == Claim \/ ReadSource \/ ReadRegistry \/ EndRun \/ (\E recorded \in BOOLEAN : Fail(recorded)) \/ Crash

Switches ==
    \/ \E n \in Switched : SetCapture(n) \/ SetShow(n) \/ SetExpand(n)
    \/ SetFieldCapture
    \/ \E m \in Built : (\E from \in Instants : ActivateMetric(m, from)) \/ PauseMetric(m)
    \/ Reconcile

Source ==
    \/ \E x \in Txns, r \in Rows \cup {None} : RebuildWindow(x, r)
    \/ \E S \in SUBSET Txns, full \in BOOLEAN : FreeForRebuild(S, full)
    \/ FinishRebuild \/ FlagGoesStale \/ DropPartition \/ AgeDay

Next == Worker \/ Switches \/ Source

Spec == Init /\ [][Next]_vars

-----------------------------------------------------------------------------
FactRecord == [txn : Txns, at : Instants, name : Names, end : Instants, resp : BOOLEAN]
Contribution == [txn : Txns, at : Instants, name : Names]

(* Every table holds rows of its shape, and the worker's phases are those  *)
(* of _consume_run.                                                        *)
TypeOK ==
    /\ src \in [Txns -> Rows \cup {None}]
    /\ fact \subseteq FactRecord
    /\ recs \subseteq [txn : Txns, at : Instants, name : Names, ver : BOOLEAN]
    /\ settled \in [Names -> SUBSET Txns] /\ issues \subseteq Txns
    /\ {hourly, daily, monthly} \subseteq [Metrics -> SUBSET Contribution]
    /\ \A i \in Ids : tickets[i].st \in {"free", "open", "dead"} /\ tickets[i].attempts <= MaxAttempts
    /\ run.phase \in {"idle", "claimed", "read", "folded"}
    /\ run.ids \cup run.rest \subseteq Open
    /\ tstate.facts \in Nat /\ tstate.records \in Nat

Outstanding(t) == CoveredBy(Open \cup Dead, t)

(* Invariant 2 of pending_windows.py at work: wherever no ticket is open   *)
(* or dead-lettered and the source still exists, the facts are exactly the *)
(* usable source rows.  Set aside: names whose capture was ever off, and   *)
(* rows a two-commit rebuild inserted with no ticket over them, until a    *)
(* reconciliation tickets them.                                            *)
FactsFollowSource ==
    \A t \in Instants : t > floor /\ ~Outstanding(t) =>
        {<<f.txn, f.name>> : f \in {g \in fact :
            g.at = t /\ g.txn \notin ghost.unticketed /\ g.name \notin ghost.everOff}}
        = {<<x, src[x].name>> : x \in {y \in Txns \ ghost.unticketed :
            Live(y) /\ src[y].at = t /\ src[y].name \notin ghost.everOff \cup Unusable}}

Expected(m, t) ==
    {[txn |-> f.txn, at |-> f.at, name |-> f.name] : f \in
        {g \in IF m \in RecordMetrics THEN recs ELSE fact :
            g.at = t /\ t >= metric[m].from /\ g.name \in Filter[m] \ switch.hidden}}
At(S, t) == {c \in S : c.at = t}

(* A chart agrees with the fact table: a month is its days and a day young *)
(* enough to be derived is its hours, whatever is pending; and every grain *)
(* of an active metric holds exactly the shown facts of each bucket that   *)
(* no refold ticket still covers.  Set aside from the latter: buckets a    *)
(* switch flip raced or did not reach, and metrics whose folds were missed *)
(* while they were paused.                                                 *)
RollupsFollowFacts ==
    \A m \in Metrics :
        /\ monthly[m] = daily[m]
        /\ \A t \in Instants : DayOf(t) \notin aged => At(daily[m], t) = At(hourly[m], t)
        /\ \A t \in Instants \ ghost.owed :
              (/\ metric[m].status = "active" /\ m \notin ghost.paused
               /\ ~CoveredBy({i \in Open \cup Dead : tickets[i].refold}, t)) =>
              At(daily[m], t) = Expected(m, t)

(* What is derived from a fact follows it: it is summed up in the settled  *)
(* row of its key, and its record rows follow it.  A parent that vanishes  *)
(* takes its records with it (invariant 5, one grain down), a parent that  *)
(* is renamed renames them, and a late expand flip or field approval       *)
(* backfills through ordinary tickets: with none outstanding, every fact   *)
(* of an expanded name that predicts records has them at the approved      *)
(* version.  Set aside: the rows a run strays with, transactions whose     *)
(* entries lie in two hours or that ever had two facts, because a move was *)
(* folded in parts, and raced instants.                                    *)
RecordsFollowFacts ==
    /\ \A f \in fact : f.txn \in settled[f.name]
    /\ \A c \in recs :
          c.txn \notin ghost.stray => \E f \in fact : SameKey(c, f) /\ c.name = f.name
    /\ \A f \in fact :
          (/\ ~Outstanding(f.at) /\ f.at \notin ghost.owed /\ f.resp
           /\ f.name \in (switch.expanded \cap RecordNames) \ ghost.everOff
           /\ f.txn \notin ghost.straddled \cup ghost.split \cup ghost.stray) =>
          \E c \in recs : SameKey(c, f) /\ c.ver = switch.approved

(* The status card's incremental totals are exact across retries, crashes  *)
(* and re-expansions (_update_state: "the increment is exact").            *)
TotalsExact == tstate.facts = Cardinality(fact) /\ tstate.records = Cardinality(recs)
=============================================================================
