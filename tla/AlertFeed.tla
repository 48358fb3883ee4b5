----------------------------- MODULE AlertFeed -----------------------------
(***************************************************************************)
(* The rule engine of the notifications subsystem for ONE tenant: how the  *)
(* streaming rules read the transaction table incrementally, one shared    *)
(* query per tick, and move their cursors (notifications/cursor.py,        *)
(* rules/engine.py, rules/stability.py, rules/evaluators.py, bus.py).      *)
(*                                                                         *)
(* A row carries the instant Python stamped it with (updated_at) and is    *)
(* visible only when its transaction commits.  A tick reads the rules and  *)
(* one page of rows, publishes the events one by one, each in a commit of  *)
(* its own that may fail and be swallowed by the bus, and then commits the *)
(* cursors.                                                                *)
(***************************************************************************)
EXTENDS Integers, FiniteSets, FiniteSetsExt

CONSTANTS
    Txns,           \* transactions
    Rules,          \* streaming rules
    Match,          \* rule -> the statuses it alerts on
    Live,           \* the sets of rules that may be active at the start
    Kinds,          \* the <<status, sealed>> pairs Stage 2 writes
    Null,           \* a cursor that never ran, a row that does not exist
    Lag,            \* notification_cursor_lag_seconds
    Lookback,       \* notification_lookback_seconds
    Limit,          \* notification_candidate_limit
    CommitDelay,    \* how long a writer may hold a stamped row uncommitted
    MaxTime,        \* bound: the clock
    MaxWrites,      \* bound: writes by Stage 2
    MaxEvents       \* bound: failed publishes, crashes, and changes by a person

Statuses == {"success", "error", "incomplete"}
Times == 1 .. MaxTime

ASSUME ConstantsAssumption ==
    /\ IsFiniteSet(Txns) /\ Match \in [Rules -> SUBSET Statuses] /\ Kinds \subseteq Statuses \X BOOLEAN
    /\ Live \subseteq SUBSET Rules
    /\ Lag \in Nat /\ Lookback \in Nat /\ Limit \in Nat \ {0}
    /\ CommitDelay \in Nat /\ CommitDelay <= Lag /\ Lag < Lookback
    /\ MaxTime \in Nat \ {0} /\ Null \notin Int

VARIABLES
    now,        \* the clock
    rows,       \* log_transactions: Txns -> committed row or Null
    writing,    \* Txns -> row stamped and not yet committed, or Null
    rule,       \* notification_rules: Rules -> [status, cursor]
    tenantOn,   \* customers.notifications_enabled
    outbox,     \* notification_events: the dedup keys persisted
    tick,       \* the engine's tick: its window, page and candidates
    budget,     \* bounds left
    ghost       \* history: what was lost, stepped over, and where rules began

vars == <<now, rows, writing, rule, tenantOn, outbox, tick, budget, ghost>>

-----------------------------------------------------------------------------
(* Stage 2 and the sealer write rows; a transaction stamps and then        *)
(* commits, at most CommitDelay later.                                     *)

Row(status, sealed) == [status |-> status, sealed |-> sealed, upd |-> now]

Write(x, status, sealed) ==
    /\ budget.writes > 0 /\ writing[x] = Null
    /\ rows[x] # Null => ~rows[x].sealed
    /\ writing' = [writing EXCEPT ![x] = Row(status, sealed)]
    /\ budget' = [budget EXCEPT !.writes = @ - 1]
    /\ UNCHANGED <<now, rows, rule, tenantOn, outbox, tick, ghost>>

CommitWrite(x) ==
    /\ writing[x] # Null
    /\ rows' = [rows EXCEPT ![x] = writing[x]]
    /\ writing' = [writing EXCEPT ![x] = Null]
    /\ UNCHANGED <<now, rule, tenantOn, outbox, tick, budget, ghost>>

Pass ==
    /\ now < MaxTime
    /\ \A x \in Txns : writing[x] # Null => now < writing[x].upd + CommitDelay
    /\ now' = now + 1
    /\ UNCHANGED <<rows, writing, rule, tenantOn, outbox, tick, budget, ghost>>

-----------------------------------------------------------------------------
(* The cursor arithmetic.                                                  *)

(* A NULL cursor stands for the lookback.                                  *)
Resolved(cursor) == IF cursor = Null THEN now - Lookback ELSE cursor

(* A bug: the window ends now.                                             *)
MutantWindowHi == now

(* read_window_for_group: from the oldest cursor to the lag.               *)
GroupLo(active) == Min({Resolved(rule[r].cursor) : r \in active})

WindowHi == now - Lag

(* is_after: rows behind a rule's own cursor are not evaluated again.      *)
IsAfter(upd, cursor) == cursor = Null \/ upd >= cursor

(* A bug: a full page of one instant leaves the cursor where it is.        *)
MutantStall(lo, hi, page) ==
    IF Cardinality(page) < Limit THEN hi ELSE Max({p.upd : p \in page})

(* advance: to the end of a window read whole, to the newest row of a full *)
(* page, and one step when the page is one instant.                        *)
Advance(lo, hi, page) ==
    LET newest == Max({p.upd : p \in page})
    IN  IF Cardinality(page) < Limit THEN hi
        ELSE IF newest > lo THEN newest ELSE lo + 1

(* The tied rows that the step past a full page of one instant leaves out. *)
SteppedOver(lo, page) ==
    IF Cardinality(page) >= Limit /\ \A p \in page : p.upd <= lo
    THEN {x \in Txns : rows[x] # Null /\ rows[x].upd = lo} \ {p.txn : p \in page}
    ELSE {}

ForwardOnly(current, proposed) ==
    IF current = Null THEN proposed ELSE Max({current, proposed})

-----------------------------------------------------------------------------
(* The tick.                                                               *)

NoTick == [phase |-> "idle", rules |-> {}, cursors |-> [r \in Rules |-> Null], lo |-> 0, hi |-> 0,
           page |-> {}, todo |-> {}]

(* alertable_predicate: an unsealed incomplete row is still in flight.     *)
Alertable(row) == row.sealed \/ row.status # "incomplete"

(* window_stmt: the pages the query may return, a prefix in updated_at     *)
(* order of at most Limit rows; ties come in any order.                    *)
Pages(lo, hi) ==
    LET in == {[txn |-> x, status |-> rows[x].status, upd |-> rows[x].upd] :
                x \in {y \in Txns : /\ rows[y] # Null /\ Alertable(rows[y])
                                    /\ lo <= rows[y].upd /\ rows[y].upd < hi}}
    IN  {P \in SUBSET in : /\ Cardinality(P) = Min({Limit, Cardinality(in)})
                           /\ \A p \in P, q \in in \ P : p.upd <= q.upd}

(* _candidates_for: a dedup key names the rule, the transaction and the    *)
(* status.                                                                 *)
Candidates(active, cursors, page) ==
    {k \in [rule : active, txn : Txns, status : Statuses] :
        /\ k.status \in Match[k.rule]
        /\ \E p \in page : /\ p.txn = k.txn /\ p.status = k.status
                           /\ IsAfter(p.upd, cursors[k.rule])}

ActiveRules == {r \in Rules : tenantOn /\ rule[r].status = "active"}

ReadFeed ==
    LET active == ActiveRules
        cursors == [r \in Rules |-> rule[r].cursor]
    IN  /\ tick.phase = "idle" /\ active # {}
        /\ GroupLo(active) < WindowHi
        /\ \E page \in Pages(GroupLo(active), WindowHi) :
              tick' = [phase |-> "publishing", rules |-> active, cursors |-> cursors,
                       lo |-> GroupLo(active), hi |-> WindowHi, page |-> page,
                       todo |-> Candidates(active, cursors, page) \ outbox]
        /\ UNCHANGED <<now, rows, writing, rule, tenantOn, outbox, budget, ghost>>

(* bus.publish -> dispatcher.enqueue, durable by its own commit.           *)
Publish(e) ==
    /\ tick.phase = "publishing" /\ e \in tick.todo
    /\ outbox' = outbox \cup {e}
    /\ tick' = [tick EXCEPT !.todo = @ \ {e}]
    /\ UNCHANGED <<now, rows, writing, rule, tenantOn, budget, ghost>>

(* The subscriber raises; the bus logs it and the batch goes on.           *)
PublishFails(e) ==
    /\ tick.phase = "publishing" /\ e \in tick.todo
    /\ budget.events > 0
    /\ tick' = [tick EXCEPT !.todo = @ \ {e}]
    /\ budget' = [budget EXCEPT !.events = @ - 1]
    /\ ghost' = [ghost EXCEPT !.lost = @ \cup {e}]
    /\ UNCHANGED <<now, rows, writing, rule, tenantOn, outbox>>

Exists(r) == rule[r].status # "deleted"

(* Every rule of the tick advances in one commit.                          *)
CommitCursors ==
    LET moved == Advance(tick.lo, tick.hi, tick.page)
    IN  /\ tick.phase = "publishing" /\ tick.todo = {}
        /\ \A r \in tick.rules : Exists(r)
        /\ rule' = [r \in Rules |-> IF r \in tick.rules
                        THEN [rule[r] EXCEPT !.cursor = ForwardOnly(tick.cursors[r], moved)]
                        ELSE rule[r]]
        /\ tick' = NoTick
        /\ ghost' = [ghost EXCEPT
                        !.begin = [r \in Rules |-> IF r \in tick.rules /\ @[r] = Null
                                                   THEN tick.lo ELSE @[r]],
                        !.tied = @ \cup ({tick.lo} \X SteppedOver(tick.lo, tick.page))]
        /\ UNCHANGED <<now, rows, writing, tenantOn, outbox, budget>>

(* The update of a rule deleted meanwhile matches no row: the flush raises *)
(* and no cursor of the tenant moves.                                      *)
CommitRefused ==
    /\ tick.phase = "publishing" /\ tick.todo = {}
    /\ \E r \in tick.rules : ~Exists(r)
    /\ tick' = NoTick
    /\ UNCHANGED <<now, rows, writing, rule, tenantOn, outbox, budget, ghost>>

Crash ==
    /\ tick.phase = "publishing" /\ budget.events > 0
    /\ tick' = NoTick
    /\ budget' = [budget EXCEPT !.events = @ - 1]
    /\ UNCHANGED <<now, rows, writing, rule, tenantOn, outbox, ghost>>

-----------------------------------------------------------------------------
(* A person publishes, deactivates and deletes rules and switches the      *)
(* tenant off and on.  No change touches a cursor.                         *)

SetRule(r, status) ==
    /\ budget.events > 0 /\ Exists(r) /\ rule[r].status # status
    /\ rule' = [rule EXCEPT ![r].status = status]
    /\ budget' = [budget EXCEPT !.events = @ - 1]
    /\ UNCHANGED <<now, rows, writing, tenantOn, outbox, tick, ghost>>

SwitchTenant ==
    /\ budget.events > 0
    /\ tenantOn' = ~tenantOn
    /\ budget' = [budget EXCEPT !.events = @ - 1]
    /\ UNCHANGED <<now, rows, writing, rule, outbox, tick, ghost>>

-----------------------------------------------------------------------------
Init ==
    /\ now = 1
    /\ rows = [x \in Txns |-> Null] /\ writing = [x \in Txns |-> Null]
    /\ \E live \in Live :
          rule = [r \in Rules |-> [status |-> IF r \in live THEN "active" ELSE "draft",
                                   cursor |-> Null]]
    /\ tenantOn = TRUE
    /\ outbox = {} /\ tick = NoTick
    /\ budget = [writes |-> MaxWrites, events |-> MaxEvents]
    /\ ghost = [lost |-> {}, tied |-> {}, begin |-> [r \in Rules |-> Null]]

Engine == ReadFeed \/ CommitCursors \/ CommitRefused \/ (\E e \in tick.todo : Publish(e))

Next ==
    \/ \E x \in Txns : CommitWrite(x) \/ \E k \in Kinds : Write(x, k[1], k[2])
    \/ Pass \/ Engine \/ Crash
    \/ \E e \in tick.todo : PublishFails(e)
    \/ \E r \in Rules, s \in {"active", "inactive", "deleted"} : SetRule(r, s)
    \/ SwitchTenant

Spec == Init /\ [][Next]_vars

(* The worker loops forever and the clock moves.                           *)
FairSpec == Spec /\ WF_vars(Engine) /\ WF_vars(Pass)
                 /\ \A x \in Txns : WF_vars(CommitWrite(x))

-----------------------------------------------------------------------------
RowRecord == [status : Statuses, sealed : BOOLEAN, upd : Times]

(* Rows, rules and the tick have the shape of their tables; a cursor never *)
(* passes the lag.                                                         *)
TypeOK ==
    /\ rows \in [Txns -> RowRecord \cup {Null}] /\ writing \in [Txns -> RowRecord \cup {Null}]
    /\ \A r \in Rules : rule[r].status \in {"draft", "active", "inactive", "deleted"}
    /\ \A r \in Rules : rule[r].cursor # Null => rule[r].cursor <= now - Lag
    /\ tick.phase \in {"idle", "publishing"} /\ tick.rules \subseteq Rules
    /\ outbox \subseteq [rule : Rules, txn : Txns, status : Statuses]

Key(r, x) == [rule |-> r, txn |-> x, status |-> rows[x].status]

(* A row that a rule has read past: alertable, matching, and behind its cursor.  *)
Passed(r, x) ==
    /\ rule[r].cursor # Null /\ rows[x] # Null
    /\ ghost.begin[r] <= rows[x].upd /\ rows[x].upd < rule[r].cursor
    /\ Alertable(rows[x]) /\ rows[x].status \in Match[r]

(* cursor.py: "NO ROW IS EVER SKIPPED": every row behind a rule's cursor   *)
(* has its event, through shared pages, ties, truncation, late commits,    *)
(* crashes and rules that pause and resume.  Set aside: events whose       *)
(* publish failed, and rows a step past a full page of ties left out.      *)
NoRowSkipped ==
    \A r \in Rules, x \in Txns :
        Passed(r, x) => \/ Key(r, x) \in outbox \cup ghost.lost
                        \/ <<rows[x].upd, x>> \in ghost.tied

Due(r, x) ==
    /\ rule[r].status = "active" /\ tenantOn
    /\ rows[x] # Null /\ Alertable(rows[x]) /\ rows[x].status \in Match[r]
    /\ rows[x].upd < MaxTime - Lag /\ <<rows[x].upd, x>> \notin ghost.tied
    /\ ghost.begin[r] # Null => ghost.begin[r] <= rows[x].upd

(* Every settled row a live rule matches is alerted on, as long as nobody  *)
(* changes the rule, the tenant or the row: an idle or a tied window does  *)
(* not stall the cursor.                                                   *)
EventuallyAlerted ==
    \A r \in Rules, x \in Txns :
        Due(r, x) ~> (writing[x] # Null \/ ~Due(r, x) \/ Key(r, x) \in outbox \cup ghost.lost)
=============================================================================
