------------------------------- MODULE Outbox -------------------------------
(***************************************************************************)
(* The delivery half of the notifications subsystem: what the notification *)
(* worker does in one tick (notification_worker.py), the outbox and its    *)
(* drain (notifications/dispatcher.py), the pacing and fairness rules      *)
(* (pacing.py), the burst cap and its summary cards (rollup.py), and a     *)
(* manual publish that sends at once from the API process.                 *)
(*                                                                         *)
(* The worker is sequential: rules, rollup, claim, then one send after     *)
(* another, each loading, sending and committing in a session of its own.  *)
(* Retry times are a flag, due, that time sets again; the clock counts     *)
(* fractions of a rollup window.                                           *)
(***************************************************************************)
EXTENDS Integers, FiniteSets, Sequences, SequencesExt

CONSTANTS
    Tenants, Rules, Channels,
    RuleOf,         \* rule -> its tenant
    Owner,          \* channel -> its tenant
    Stub,           \* channels whose adapter raises NotImplementedError
    Null,
    Window,         \* notification_rollup_window_seconds, in clock units
    BurstCap,       \* notification_rule_burst_cap
    RateLimit,      \* notification_channel_max_per_minute
    Batch,          \* notification_delivery_batch
    MaxAttempts,    \* notification_max_attempts
    MaxTime,        \* bound: the clock
    MaxAlerts,      \* bound: alerts of rules
    MaxRows,        \* bound: deliveries the other bounds allow
    MaxEvents       \* bound: failed sends, 429s, crashes, manual publishes, and changes
                    \* a person makes

ASSUME ConstantsAssumption ==
    /\ IsFiniteSet(Tenants) /\ IsFiniteSet(Channels) /\ Null \notin Rules \cup Channels
    /\ RuleOf \in [Rules -> Tenants] /\ Owner \in [Channels -> Tenants] /\ Stub \subseteq Channels
    /\ Window \in Nat \ {0} /\ BurstCap \in Nat /\ RateLimit \in Nat \ {0}
    /\ Batch \in Nat \ {0} /\ MaxAttempts \in Nat \ {0}
    /\ {MaxTime, MaxAlerts, MaxEvents} \subseteq Nat

VARIABLES
    now,        \* the clock
    events,     \* notification_events, in creation order
    rows,       \* notification_deliveries, in creation order
    chan,       \* customer_notification_channels: "on", "off", "gone"
    tenantOn,   \* customers.notifications_enabled
    ruleLive,   \* notification_rules that exist
    recent,     \* channel -> deliveries whose delivered_at is in the rate window
    worker,     \* the notification worker's tick
    api,        \* a manual publish under way
    budget,     \* bounds left
    ghost       \* history: accepted sends, counted failures, what a crash touched

vars == <<now, events, rows, chan, tenantOn, ruleLive, recent, worker, api, budget, ghost>>

TenantOf(d) == events[rows[d].ev].tenant
WindowIndex(t) == t \div Window

-----------------------------------------------------------------------------
(* Publishing: enqueue, one commit for the event and its deliveries.       *)

ResolveChannels(t) == {c \in Channels : Owner[c] = t /\ chan[c] = "on"}

(* A bug: only cards already delivered consume the allowance.              *)
MutantCountThisWindow(r) ==
    Cardinality({d \in DOMAIN rows : /\ events[rows[d].ev].rule = r
                                     /\ events[rows[d].ev].at >= now - Window
                                     /\ rows[d].status = "delivered"})

(* count_delivered_this_window: everything of the rule not suppressed.     *)
CountThisWindow(r) ==
    Cardinality({d \in DOMAIN rows : /\ events[rows[d].ev].rule = r
                                     /\ events[rows[d].ev].at >= now - Window
                                     /\ rows[d].status # "suppressed"})

(* _delivery_status_for: no rule and summary cards are exempt.             *)
StatusFor(r, kind) ==
    IF r # Null /\ kind # "rollup" /\ CountThisWindow(r) >= BurstCap
    THEN "suppressed" ELSE "pending"

NewRows(r, kind, t) ==
    LET row(c) == [ev |-> Len(events) + 1, ch |-> c, status |-> StatusFor(r, kind),
                   attempts |-> 0, due |-> TRUE]
        chans == SetToSeq(ResolveChannels(t))
    IN  [i \in 1 .. Len(chans) |-> row(chans[i])]

Enqueue(r, kind, t, idx, covers) ==
    /\ events' = Append(events, [rule |-> r, kind |-> kind, tenant |-> t, at |-> now,
                                 idx |-> idx, covers |-> covers])
    /\ rows' = rows \o NewRows(r, kind, t)
    /\ ghost' = [ghost EXCEPT !.accepted = @ \o [i \in 1 .. Len(NewRows(r, kind, t)) |-> 0],
                              !.failures = @ \o [i \in 1 .. Len(NewRows(r, kind, t)) |-> 0]]

-----------------------------------------------------------------------------
(* The worker's tick.                                                      *)

(* run_rules_once: an active rule of an enabled tenant publishes an event. *)
Alert(r) ==
    /\ worker.phase = "rules" /\ budget.alerts > 0
    /\ r \in ruleLive /\ tenantOn[RuleOf[r]]
    /\ Enqueue(r, "alert", RuleOf[r], Null, {})
    /\ budget' = [budget EXCEPT !.alerts = @ - 1]
    /\ UNCHANGED <<now, chan, tenantOn, ruleLive, recent, worker, api>>

(* A bug: the end of the window is taken to be inside it.                  *)
MutantSuppressedIn(r, idx) ==
    {e \in DOMAIN events : /\ events[e].rule = r
                           /\ idx * Window <= events[e].at /\ events[e].at <= (idx + 1) * Window
                           /\ \E d \in DOMAIN rows : rows[d].ev = e /\ rows[d].status = "suppressed"}

(* _windows_to_summarise.                                                  *)
SuppressedIn(r, idx) ==
    {e \in DOMAIN events : /\ events[e].rule = r
                           /\ idx * Window <= events[e].at /\ events[e].at < (idx + 1) * Window
                           /\ \E d \in DOMAIN rows : rows[d].ev = e /\ rows[d].status = "suppressed"}

(* The most recent completed window.                                       *)
CompletedWindow == WindowIndex(now) - 1

(* run_once reads what the completed window suppressed.                    *)
StartRollup ==
    /\ worker.phase = "rules"
    /\ worker' = [worker EXCEPT
                    !.phase = "rollup",
                    !.todo = {[rule |-> r, idx |-> CompletedWindow,
                               covers |-> SuppressedIn(r, CompletedWindow)] :
                                r \in {q \in Rules : SuppressedIn(q, CompletedWindow) # {}}}]
    /\ UNCHANGED <<now, events, rows, chan, tenantOn, ruleLive, recent, api, budget, ghost>>

Summarised(r, idx) ==
    \E e \in DOMAIN events :
        events[e].kind = "rollup" /\ events[e].rule = r /\ events[e].idx = idx

(* _summarise_rule: nothing for a deleted rule or a window that has its    *)
(* card.  A card whose publish fails is tried again next tick.             *)
Summarise(job) ==
    /\ worker.phase = "rollup" /\ job \in worker.todo
    /\ worker' = [worker EXCEPT !.todo = @ \ {job}]
    /\ \/ /\ job.rule \in ruleLive /\ ~Summarised(job.rule, job.idx)
          /\ Enqueue(job.rule, "rollup", RuleOf[job.rule], job.idx, job.covers)
          /\ UNCHANGED budget
       \/ /\ job.rule \notin ruleLive \/ Summarised(job.rule, job.idx)
          /\ UNCHANGED <<events, rows, ghost, budget>>
       \/ /\ budget.events > 0
          /\ budget' = [budget EXCEPT !.events = @ - 1]
          /\ UNCHANGED <<events, rows, ghost>>
    /\ UNCHANGED <<now, chan, tenantOn, ruleLive, recent, api>>

-----------------------------------------------------------------------------
(* The claim: _claim_due, round_robin, _channel_budgets, _spend_budgets in *)
(* one transaction.                                                        *)

(* A bug: suppressed rows are drained too.                                 *)
MutantClaimable(d) == tenantOn[TenantOf(d)] /\ rows[d].status \notin {"delivered", "dead"}

(* A bug: only rows never attempted are drained.                           *)
MutantPendingOnly(d) == tenantOn[TenantOf(d)] /\ rows[d].status = "pending"

Claimable(d) == tenantOn[TenantOf(d)] /\ rows[d].status \in {"pending", "failed"}

Due == {d \in DOMAIN rows : Claimable(d) /\ rows[d].due}

(* The first Batch rows of the due ones, in the order given.               *)
Cut(due, before(_, _)) ==
    LET n == IF Cardinality(due) < Batch THEN Cardinality(due) ELSE Batch
    IN  {s \in Injection(1 .. n, due) :
            /\ \A i, j \in 1 .. n : i < j => before(s[i], s[j])
            /\ \A d \in due \ Range(s) : \A i \in 1 .. n : before(s[i], d)}

(* A bug: the oldest rows first, whoever owns them.                        *)
MutantRoundRobin(due) == Cut(due, <)

(* round_robin: the first row of every tenant, then the second of every    *)
(* tenant, tenants in the order they first appear; cut at the batch.       *)
RoundRobin(due) ==
    LET same(d) == {e \in due : TenantOf(e) = TenantOf(d)}
        turn(d) == Cardinality({e \in same(d) : e < d})
        first(d) == CHOOSE e \in same(d) : \A f \in same(d) : e <= f
        before(d, e) == turn(d) < turn(e) \/ (turn(d) = turn(e) /\ first(d) < first(e))
    IN  Cut(due, before)

(* A bug: the allowance ignores what was sent already.                     *)
MutantAllowance(c) == IF c = Null THEN 0 ELSE RateLimit

(* A removed channel has no budget at all.                                 *)
Allowance(c) ==
    IF c = Null \/ Cardinality(recent[c]) >= RateLimit THEN 0 ELSE RateLimit - Cardinality(recent[c])

(* _spend_budgets: the places of the batch that fit their channel's        *)
(* allowance, in order.                                                    *)
Spend(selected) ==
    LET earlier(i) == {j \in 1 .. i - 1 : rows[selected[j]].ch = rows[selected[i]].ch}
    IN  {i \in DOMAIN selected : Cardinality(earlier(i)) < Allowance(rows[selected[i]].ch)}

(* Rows claimed are leased, the others of the batch held back: neither is  *)
(* due any more.                                                           *)
Claim ==
    /\ worker.phase = "rollup" /\ worker.todo = {}
    /\ \E selected \in RoundRobin(Due) :
          /\ rows' = [d \in DOMAIN rows |-> [rows[d] EXCEPT !.due = @ /\ d \notin Range(selected)]]
          /\ worker' = [worker EXCEPT !.phase = "send", !.batch = selected,
                                      !.queue = Spend(selected)]
    /\ UNCHANGED <<now, events, chan, tenantOn, ruleLive, recent, api, budget, ghost>>

(* A retry time or a lease runs out, or a delivery leaves the rate window. *)
Elapse(d) ==
    /\ d \in DOMAIN rows
    /\ \/ /\ ~rows[d].due /\ rows[d].status \in {"pending", "failed"}
          /\ rows' = [rows EXCEPT ![d].due = TRUE] /\ UNCHANGED recent
       \/ /\ d \in UNION Range(recent)
          /\ recent' = [c \in Channels |-> recent[c] \ {d}] /\ UNCHANGED rows
    /\ UNCHANGED <<now, events, chan, tenantOn, ruleLive, worker, api, budget, ghost>>

-----------------------------------------------------------------------------
(* One attempt, by the worker or by the API's manual publish.              *)

LoadOf(d) == [row |-> d, ch |-> rows[d].ch, attempts |-> rows[d].attempts,
              chan |-> IF rows[d].ch = Null THEN "gone" ELSE chan[rows[d].ch]]

(* _load_for_send: a row already delivered is left alone.                  *)
WorkerLoad ==
    LET i == Min(worker.queue)
        d == worker.batch[i]
    IN  /\ worker.phase = "send" /\ worker.load = Null /\ worker.queue # {}
        /\ worker' = [worker EXCEPT !.queue = @ \ {i},
                        !.load = IF rows[d].status = "delivered" THEN Null ELSE LoadOf(d)]
        /\ UNCHANGED <<now, events, rows, chan, tenantOn, ruleLive, recent, api, budget, ghost>>

(* What _send may do with what was loaded; an outage spends a fault.       *)
Outcomes(l) ==
    IF l.chan # "on" THEN {"refused"}
    ELSE IF l.ch \in Stub THEN {"permanent"}
    ELSE {"ok"} \cup (IF budget.events > 0 THEN {"error", "throttled"} ELSE {})

Counted(outcome) == outcome \in {"refused", "error", "permanent"}

Dies(outcome, n) == outcome = "permanent" \/ n >= MaxAttempts

Failed(l, outcome) ==
    [rows[l.row] EXCEPT !.attempts = l.attempts + 1, !.due = FALSE,
                        !.status = IF Dies(outcome, l.attempts + 1) THEN "dead" ELSE "failed"]

(* A bug: a 429 is a failed attempt.                                       *)
MutantRecord(l, outcome) ==
    IF outcome = "ok" THEN [rows[l.row] EXCEPT !.status = "delivered", !.due = FALSE]
    ELSE Failed(l, outcome)

(* _record_success, _record_throttled, _record_failure, on the row as it   *)
(* was loaded.                                                             *)
Record(l, outcome) ==
    CASE outcome = "ok" -> [rows[l.row] EXCEPT !.status = "delivered", !.due = FALSE]
      [] outcome = "throttled" -> [rows[l.row] EXCEPT !.due = FALSE]
      [] OTHER -> Failed(l, outcome)

Attempt(l, outcome) ==
    /\ outcome \in Outcomes(l)
    /\ rows' = [rows EXCEPT ![l.row] = Record(l, outcome)]
    /\ recent' = IF outcome = "ok" /\ rows[l.row].ch # Null
                 THEN [recent EXCEPT ![rows[l.row].ch] = @ \cup {l.row}] ELSE recent
    /\ budget' = IF outcome \in {"error", "throttled"} THEN [budget EXCEPT !.events = @ - 1] ELSE budget
    /\ ghost' = [ghost EXCEPT !.accepted[l.row] = @ + IF outcome = "ok" THEN 1 ELSE 0,
                              !.failures[l.row] = @ + IF Counted(outcome) THEN 1 ELSE 0]

WorkerSend(outcome) ==
    /\ worker.load # Null
    /\ Attempt(worker.load, outcome)
    /\ worker' = [worker EXCEPT !.load = Null]
    /\ UNCHANGED <<now, events, chan, tenantOn, ruleLive, api>>

Idle == [phase |-> "rules", todo |-> {}, batch |-> <<>>, queue |-> {}, load |-> Null]

EndTick ==
    /\ worker.phase = "send" /\ worker.load = Null /\ worker.queue = {}
    /\ worker' = Idle
    /\ UNCHANGED <<now, events, rows, chan, tenantOn, ruleLive, recent, api, budget, ghost>>

(* The process dies; a send under way may have been accepted and is not    *)
(* recorded.  Leased rows come back when the lease runs out.               *)
Crash(accepted) ==
    /\ worker # Idle /\ budget.events > 0
    /\ accepted => worker.load # Null /\ "ok" \in Outcomes(worker.load)
    /\ worker' = Idle
    /\ ghost' = IF accepted THEN [ghost EXCEPT !.accepted[worker.load.row] = @ + 1,
                                               !.torn = @ \cup {worker.load.row}]
                ELSE ghost
    /\ budget' = [budget EXCEPT !.events = @ - 1]
    /\ UNCHANGED <<now, events, rows, chan, tenantOn, ruleLive, recent, api>>

-----------------------------------------------------------------------------
(* A manual publish: enqueue without a rule, then deliver_now.             *)

ManualPublish(t) ==
    /\ api.todo = {} /\ api.load = Null /\ budget.events > 0
    /\ Enqueue(Null, "manual", t, Null, {})
    /\ api' = [api EXCEPT !.todo = {Len(rows) + i : i \in 1 .. Len(NewRows(Null, "manual", t))}]
    /\ budget' = [budget EXCEPT !.events = @ - 1]
    /\ UNCHANGED <<now, chan, tenantOn, ruleLive, recent, worker>>

ManualLoad(d) ==
    /\ api.load = Null /\ d \in api.todo
    /\ api' = [todo |-> api.todo \ {d},
               load |-> IF rows[d].status = "delivered" THEN Null ELSE LoadOf(d)]
    /\ UNCHANGED <<now, events, rows, chan, tenantOn, ruleLive, recent, worker, budget, ghost>>

ManualSend(outcome) ==
    /\ api.load # Null
    /\ Attempt(api.load, outcome)
    /\ api' = [api EXCEPT !.load = Null]
    /\ UNCHANGED <<now, events, chan, tenantOn, ruleLive, worker>>

-----------------------------------------------------------------------------
(* The clock is read by the rules and by the rollup that follows them.     *)

Pass ==
    /\ worker.phase = "rules" /\ now < MaxTime
    /\ now' = now + 1
    /\ UNCHANGED <<events, rows, chan, tenantOn, ruleLive, recent, worker, api, budget, ghost>>

-----------------------------------------------------------------------------
(* Changes a person makes.                                                 *)

Change == budget.events > 0 /\ budget' = [budget EXCEPT !.events = @ - 1]

(* The foreign key of the channel's deliveries is set to NULL.             *)
DeleteChannel(c) ==
    /\ Change /\ chan[c] # "gone"
    /\ chan' = [chan EXCEPT ![c] = "gone"]
    /\ rows' = [d \in DOMAIN rows |-> [rows[d] EXCEPT !.ch = IF @ = c THEN Null ELSE @]]
    /\ UNCHANGED <<now, events, tenantOn, ruleLive, recent, worker, api, ghost>>

DisableChannel(c) ==
    /\ Change /\ chan[c] = "on"
    /\ chan' = [chan EXCEPT ![c] = "off"]
    /\ UNCHANGED <<now, events, rows, tenantOn, ruleLive, recent, worker, api, ghost>>

SwitchTenant(t) ==
    /\ Change
    /\ tenantOn' = [tenantOn EXCEPT ![t] = ~@]
    /\ UNCHANGED <<now, events, rows, chan, ruleLive, recent, worker, api, ghost>>

DeleteRule(r) ==
    /\ Change /\ r \in ruleLive
    /\ ruleLive' = ruleLive \ {r}
    /\ UNCHANGED <<now, events, rows, chan, tenantOn, recent, worker, api, ghost>>

-----------------------------------------------------------------------------
Init ==
    /\ now = 0 /\ events = <<>> /\ rows = <<>>
    /\ chan = [c \in Channels |-> "on"] /\ tenantOn = [t \in Tenants |-> TRUE]
    /\ ruleLive = Rules /\ recent = [c \in Channels |-> {}]
    /\ worker = Idle /\ api = [todo |-> {}, load |-> Null]
    /\ budget = [alerts |-> MaxAlerts, events |-> MaxEvents]
    /\ ghost = [accepted |-> <<>>, failures |-> <<>>, torn |-> {}]

AllOutcomes == {"ok", "error", "throttled", "refused", "permanent"}

Worker ==
    \/ StartRollup \/ Claim \/ WorkerLoad \/ EndTick
    \/ \E job \in worker.todo : Summarise(job)
    \/ \E outcome \in AllOutcomes : WorkerSend(outcome)

Api == (\E d \in api.todo : ManualLoad(d)) \/ \E outcome \in AllOutcomes : ManualSend(outcome)

People ==
    \/ \E t \in Tenants : ManualPublish(t) \/ SwitchTenant(t)
    \/ \E c \in Channels : DeleteChannel(c) \/ DisableChannel(c)
    \/ \E r \in Rules : DeleteRule(r)

Next ==
    \/ Worker \/ Api \/ People \/ Pass
    \/ \E r \in Rules : Alert(r)
    \/ \E accepted \in BOOLEAN : Crash(accepted)
    \/ \E d \in DOMAIN rows : Elapse(d)

Spec == Init /\ [][Next]_vars

(* The worker loop runs again after every tick and every restart; every    *)
(* retry time comes and every delivery leaves the rate window.             *)
FairSpec ==
    /\ Spec /\ WF_vars(Worker) /\ WF_vars(Api)
    /\ \A d \in 1 .. MaxRows : WF_vars(Elapse(d))

-----------------------------------------------------------------------------
Outcome == {"pending", "failed", "delivered", "dead", "suppressed"}

Manual(d) == events[rows[d].ev].kind = "manual"

(* Every event has the deliveries of its own tenant; attempts stay within  *)
(* the cap, which only a manual send, blind to dead rows, passes; one send *)
(* at a time is under way in the worker.                                   *)
TypeOK ==
    /\ now \in 0 .. MaxTime
    /\ \A d \in DOMAIN rows :
          /\ rows[d].ev \in DOMAIN events /\ rows[d].status \in Outcome
          /\ rows[d].ch # Null => Owner[rows[d].ch] = TenantOf(d)
          /\ rows[d].attempts \in 0 .. MaxAttempts + IF Manual(d) THEN 1 ELSE 0
    /\ worker.phase \in {"rules", "rollup", "send"}
    /\ worker.load # Null => worker.phase = "send" /\ worker.load.row \in DOMAIN rows

(* An alert goes out once: a delivery of a rule is accepted at most once   *)
(* unless a crash fell between the send and its commit, and a suppressed   *)
(* one never is.  (A manual publish races the drain and is set aside.)     *)
AtMostOnce ==
    \A d \in DOMAIN rows : ~Manual(d) =>
        /\ d \notin ghost.torn => ghost.accepted[d] <= 1
        /\ rows[d].status = "suppressed" => ghost.accepted[d] = 0

(* "A delivery held back for budget is NOT a failure", and neither is a    *)
(* 429: only real failures count towards the dead letter.                  *)
DeadIsEarned ==
    \A d \in DOMAIN rows : ~Manual(d) =>
        /\ rows[d].attempts = ghost.failures[d]
        /\ rows[d].status = "dead" => \/ rows[d].attempts = MaxAttempts
                                      \/ ghost.failures[d] > 0 /\ ghost.accepted[d] = 0
        /\ rows[d].status = "delivered" => ghost.accepted[d] > 0

(* The outbox implements the delivery ledger, manual publishes set aside.  *)
RuleStatus == [d \in {f \in DOMAIN rows : ~Manual(f)} |-> rows[d].status]

Ledger == INSTANCE DeliveryLedger WITH ledger <- RuleStatus

(* Every step of the worker, the API and the people is a step of the       *)
(* ledger or changes nothing in it: no delivery of a rule is rewritten     *)
(* once it is delivered, dead or suppressed.                               *)
ImplementsLedger == Ledger!Spec

(* However many rows are due, the drain never puts more than the limit     *)
(* into one rate window of a channel, restarts included.                   *)
Paced == \A c \in Channels : Cardinality({d \in recent[c] : ~Manual(d)}) <= RateLimit

(* The cards of a rule's own alerts that a window of time let out.         *)
OwnCards(r, t) ==
    {d \in DOMAIN rows :
        LET e == events[rows[d].ev]
        IN  /\ e.rule = r /\ e.kind = "alert" /\ rows[d].status # "suppressed"
            /\ t <= e.at /\ e.at <= t + Window}

(* A rule's own cards in any window stay within its cap, however slowly    *)
(* they drain; the last event within it may go to several channels, and a  *)
(* cap of zero lets none out.                                              *)
BurstCapped ==
    \A r \in Rules, t \in 0 .. MaxTime :
        OwnCards(r, t) # {} =>
            /\ BurstCap > 0
            /\ Cardinality(OwnCards(r, t))
                 < BurstCap + Cardinality({c \in Channels : Owner[c] = RuleOf[r]})

(* rollup.py: "Only completed windows are summarised": a summary card      *)
(* counts every alert its window ever suppressed.                          *)
SummaryComplete ==
    \A e \in DOMAIN events : events[e].kind = "rollup" =>
        events[e].covers =
            {rows[d].ev : d \in {f \in DOMAIN rows :
                LET v == events[rows[f].ev]
                IN  /\ rows[f].status = "suppressed" /\ v.rule = events[e].rule
                    /\ WindowIndex(v.at) = events[e].idx}}

(* "A flood delays itself rather than everyone": a claim with room for one *)
(* row of every tenant takes the oldest due row of each.                   *)
QuietTenantServed ==
    [][worker.phase = "rollup" /\ worker'.phase = "send" /\ Batch >= Cardinality(Tenants) =>
         \A t \in Tenants :
            LET waiting == {d \in DOMAIN rows : /\ rows[d].due /\ TenantOf(d) = t /\ tenantOn[t]
                                               /\ rows[d].status \in {"pending", "failed"}}
            IN  waiting # {} => \E d \in Range(worker'.batch) :
                                    TenantOf(d) = t /\ \A e \in waiting : d <= e]_vars

(* dispatcher.py: an outage "delays alerts but never drops them": every    *)
(* delivery whose channel and tenant stay is delivered or dead-lettered.   *)
Resolves ==
    \A d \in 1 .. MaxRows :
        d \in DOMAIN rows ~>
            (d \in DOMAIN rows /\ (\/ rows[d].status \in {"delivered", "dead", "suppressed"}
                                  \/ rows[d].ch = Null \/ ~tenantOn[TenantOf(d)]))
=============================================================================
