----------------------------- MODULE OutboxProofs -----------------------------
(***************************************************************************)
(* Theorems about Outbox for any tenants, rules, channels, caps, limits    *)
(* and batch: an alert goes out at most once, a dead letter is earned, the *)
(* drain keeps to the rate limit and the burst cap, a summary is complete, *)
(* a quiet tenant is served in every claim, and what is final stays.       *)
(***************************************************************************)
EXTENDS Outbox, SetFacts, TLAPS

EventRec == [rule : Rules \cup {Null}, kind : {"alert", "rollup", "manual"}, tenant : Tenants,
             at : Nat, idx : Int \cup {Null}, covers : SUBSET Nat]
RowRec   == [ev : Nat, ch : Channels \cup {Null}, status : Outcome, attempts : Nat, due : BOOLEAN]
LoadRec  == [row : Nat, ch : Channels \cup {Null}, attempts : Nat, chan : {"on", "off", "gone"}]
JobRec   == [rule : Rules, idx : Int, covers : SUBSET Nat]

WorkerRec == [phase : {"rules", "rollup", "send"}, todo : SUBSET JobRec, batch : Seq(Nat),
              queue : SUBSET Nat, load : LoadRec \cup {Null}]

\* The shape of the tables and of what the worker and the API hold.
Shape ==
    /\ now \in 0 .. MaxTime
    /\ events \in Seq(EventRec) /\ rows \in Seq(RowRec)
    /\ \A d \in DOMAIN rows :
          /\ rows[d].ev \in DOMAIN events
          /\ rows[d].ch # Null => Owner[rows[d].ch] = TenantOf(d)
    /\ chan \in [Channels -> {"on", "off", "gone"}] /\ tenantOn \in [Tenants -> BOOLEAN]
    /\ ruleLive \subseteq Rules
    /\ recent \in [Channels -> SUBSET (DOMAIN rows)]
    /\ worker \in WorkerRec
    /\ api \in [todo : SUBSET (DOMAIN rows), load : LoadRec \cup {Null}]
    /\ ghost \in [accepted : Seq(Nat), failures : Seq(Nat), torn : SUBSET Nat]
    /\ Len(ghost.accepted) = Len(rows) /\ Len(ghost.failures) = Len(rows)

\* A row that may be attempted: one of a rule is neither final nor held back.
Open(d) ==
    /\ d \in DOMAIN rows /\ rows[d].status # "suppressed"
    /\ ~Manual(d) => rows[d].status \in {"pending", "failed"}

\* The places still to be sent and the row in hand are open and distinct; what
\* was loaded of a rule's row still holds, but for a channel deleted meanwhile.
WorkInv ==
    /\ worker.phase # "send" => worker.queue = {} /\ worker.load = Null
    /\ worker.queue \subseteq DOMAIN worker.batch
    /\ \A i, j \in worker.queue : worker.batch[i] = worker.batch[j] => i = j
    /\ \A i \in worker.queue : Open(worker.batch[i])
    /\ worker.load # Null =>
          /\ Open(worker.load.row)
          /\ \A i \in worker.queue : worker.batch[i] # worker.load.row
          /\ rows[worker.load.row].ch \in {worker.load.ch, Null}
          /\ ~Manual(worker.load.row) =>
                /\ worker.load.attempts = rows[worker.load.row].attempts
                /\ worker.load.ch \in Stub => ghost.accepted[worker.load.row] = 0

\* The API only handles what people published, which is never held back.
ApiInv ==
    /\ \A d \in api.todo : Manual(d)
    /\ api.load # Null => api.load.row \in DOMAIN rows /\ Manual(api.load.row)
    /\ \A d \in DOMAIN rows : Manual(d) => rows[d].status # "suppressed"

\* What a delivery of a rule records is what happened to it.
RowInv ==
    \A d \in DOMAIN rows : ~Manual(d) =>
        /\ rows[d].attempts = ghost.failures[d] /\ rows[d].attempts <= MaxAttempts
        /\ rows[d].status \in {"pending", "failed"} => rows[d].attempts < MaxAttempts
        /\ d \notin ghost.torn =>
              ghost.accepted[d] = IF rows[d].status = "delivered" THEN 1 ELSE 0
        /\ rows[d].status = "suppressed" => ghost.accepted[d] = 0
        /\ rows[d].status = "delivered" => ghost.accepted[d] > 0
        /\ rows[d].status = "dead" => \/ rows[d].attempts = MaxAttempts
                                      \/ ghost.failures[d] > 0 /\ ghost.accepted[d] = 0
        /\ ghost.accepted[d] > 0 => rows[d].ch \notin Stub

\* The rate a channel may still be asked to carry is set aside for the rows claimed.
InLine(c) ==
    {d \in DOMAIN rows : /\ rows[d].ch = c
                         /\ \/ \E i \in worker.queue : worker.batch[i] = d
                            \/ worker.load # Null /\ worker.load.row = d}
Booked(c) == {d \in recent[c] \cup InLine(c) : ~Manual(d)}

PaceInv == \A c \in Channels : Cardinality(Booked(c)) <= RateLimit

\* A summary, written or about to be, covers a window that is over.
Covers(r, idx, covers) == idx < WindowIndex(now) /\ covers = SuppressedIn(r, idx)

SummaryInv ==
    /\ \A e \in DOMAIN events :
          /\ events[e].at <= now
          /\ events[e].kind = "rollup" =>
                /\ events[e].idx \in Int /\ events[e].rule \in Rules
                /\ Covers(events[e].rule, events[e].idx, events[e].covers)
    /\ \A job \in worker.todo : Covers(job.rule, job.idx, job.covers)

-----------------------------------------------------------------------------
(* What enqueueing and an attempt do to the outbox.                        *)

\* enqueue appends one event and one row for every channel of the tenant.
Enqueued(r, kind, t, idx, covers) ==
    /\ events' \in Seq(EventRec) /\ Len(events') = Len(events) + 1
    /\ \A e \in 1 .. Len(events) : events'[e] = events[e]
    /\ events'[Len(events) + 1] = [rule |-> r, kind |-> kind, tenant |-> t, at |-> now,
                                   idx |-> idx, covers |-> covers]
    /\ rows' \in Seq(RowRec) /\ Len(rows') = Len(rows) + Cardinality(ResolveChannels(t))
    /\ Cardinality(ResolveChannels(t)) \in Nat
    /\ Len(NewRows(r, kind, t)) = Cardinality(ResolveChannels(t))
    /\ \A d \in 1 .. Len(rows) : rows'[d] = rows[d]
    /\ \A d \in Len(rows) + 1 .. Len(rows') :
          /\ rows'[d].ev = Len(events) + 1 /\ rows'[d].status = StatusFor(r, kind)
          /\ rows'[d].attempts = 0 /\ rows'[d].ch \in ResolveChannels(t)
    /\ ghost' \in [accepted : Seq(Nat), failures : Seq(Nat), torn : SUBSET Nat]
    /\ Len(ghost'.accepted) = Len(rows') /\ Len(ghost'.failures) = Len(rows')
    /\ ghost'.torn = ghost.torn
    /\ \A d \in 1 .. Len(rows) : /\ ghost'.accepted[d] = ghost.accepted[d]
                                 /\ ghost'.failures[d] = ghost.failures[d]
    /\ \A d \in Len(rows) + 1 .. Len(rows') : ghost'.accepted[d] = 0 /\ ghost'.failures[d] = 0

\* A sequence of zeros extends a history.
LEMMA ZerosAppended ==
  ASSUME NEW h \in Seq(Nat), NEW n \in Nat
  PROVE  /\ h \o [i \in 1 .. n |-> 0] \in Seq(Nat) /\ Len(h \o [i \in 1 .. n |-> 0]) = Len(h) + n
         /\ \A d \in 1 .. Len(h) : (h \o [i \in 1 .. n |-> 0])[d] = h[d]
         /\ \A d \in Len(h) + 1 .. Len(h) + n : (h \o [i \in 1 .. n |-> 0])[d] = 0
<1> DEFINE z == [i \in 1 .. n |-> 0]
<1>1. z \in Seq(Nat) /\ Len(z) = n /\ \A i \in 1 .. n : z[i] = 0
  OBVIOUS
<1> HIDE DEF z
<1> QED
  BY <1>1

\* What enqueue appends: one event, and one row for every active channel of its tenant.
LEMMA EnqueueFacts ==
  ASSUME Shape, NEW r \in Rules \cup {Null}, NEW kind \in {"alert", "rollup", "manual"},
         NEW t \in Tenants, NEW idx \in Int \cup {Null}, NEW covers \in SUBSET Nat,
         Enqueue(r, kind, t, idx, covers)
  PROVE  Enqueued(r, kind, t, idx, covers)
<1> DEFINE C == ResolveChannels(t)
           q == SetToSeq(C)
           new == NewRows(r, kind, t)
           m == Len(events) + 1
           st == StatusFor(r, kind)
           e1 == [rule |-> r, kind |-> kind, tenant |-> t, at |-> now, idx |-> idx, covers |-> covers]
<1>1. q \in Seq(C) /\ Len(q) = Cardinality(C) /\ Cardinality(C) \in Nat /\ C \subseteq Channels
  <2>1. C \subseteq Channels
    BY DEF ResolveChannels
  <2>2. IsFiniteSet(C)
    BY <2>1, FS_Subset, ConstantsAssumption
  <2> QED
    BY <2>1, <2>2, SetHasSequence
<1>2. st \in Outcome /\ m \in Nat
  BY DEF StatusFor, Outcome, Shape
<1>3. new = [i \in 1 .. Len(q) |-> [ev |-> m, ch |-> q[i], status |-> st, attempts |-> 0, due |-> TRUE]]
  BY DEF NewRows
<1> HIDE DEF q, st, m, new, C
<1>4. /\ new \in Seq(RowRec) /\ Len(new) = Cardinality(C)
      /\ \A i \in 1 .. Cardinality(C) : /\ new[i].ev = m /\ new[i].status = st
                                        /\ new[i].attempts = 0 /\ new[i].ch \in C
  <2>1. \A i \in 1 .. Len(q) : q[i] \in C /\ q[i] \in Channels
    BY <1>1
  <2>2. \A i \in 1 .. Len(q) :
           [ev |-> m, ch |-> q[i], status |-> st, attempts |-> 0, due |-> TRUE] \in RowRec
    BY <1>2, <2>1 DEF RowRec
  <2> QED
    BY <1>1, <1>3, <2>1, <2>2
<1>5. /\ events' = Append(events, e1) /\ rows' = rows \o new
      /\ ghost' = [ghost EXCEPT !.accepted = @ \o [i \in 1 .. Len(new) |-> 0],
                                !.failures = @ \o [i \in 1 .. Len(new) |-> 0]]
  BY DEF Enqueue, new
<1>6. /\ rows' \in Seq(RowRec) /\ Len(rows') = Len(rows) + Cardinality(C)
      /\ \A d \in 1 .. Len(rows) : rows'[d] = rows[d]
      /\ \A d \in Len(rows) + 1 .. Len(rows') :
            /\ rows'[d].ev = m /\ rows'[d].status = st
            /\ rows'[d].attempts = 0 /\ rows'[d].ch \in C
  <2>1. rows \in Seq(RowRec)
    BY DEF Shape
  <2>a. /\ rows \o new \in Seq(RowRec) /\ Len(rows \o new) = Len(rows) + Len(new)
        /\ \A d \in 1 .. Len(rows) : (rows \o new)[d] = rows[d]
        /\ \A d \in Len(rows) + 1 .. Len(rows) + Len(new) : (rows \o new)[d] = new[d - Len(rows)]
    <3>1. new \in Seq(RowRec)
      BY <1>4
    <3> QED
      BY <3>1, <2>1, Appended
  <2>b. rows' = rows \o new /\ Len(new) = Cardinality(C)
    BY <1>4, <1>5
  <2>2. /\ rows' \in Seq(RowRec) /\ Len(rows') = Len(rows) + Cardinality(C)
        /\ \A d \in 1 .. Len(rows) : rows'[d] = rows[d]
        /\ \A d \in Len(rows) + 1 .. Len(rows') : rows'[d] = new[d - Len(rows)]
    BY <2>a, <2>b
  <2>3. \A d \in Len(rows) + 1 .. Len(rows') : d - Len(rows) \in 1 .. Cardinality(C)
    BY <1>1, <2>1, <2>2
  <2> SUFFICES ASSUME NEW d \in Len(rows) + 1 .. Len(rows')
               PROVE  /\ rows'[d].ev = m /\ rows'[d].status = st
                      /\ rows'[d].attempts = 0 /\ rows'[d].ch \in C
    BY <2>2
  <2>4. rows'[d] = new[d - Len(rows)] /\ d - Len(rows) \in 1 .. Cardinality(C)
    BY <2>2, <2>3
  <2> QED
    BY <1>4, <2>4
<1>7. e1 \in EventRec
  BY DEF Shape, EventRec
<1>8. /\ events' \in Seq(EventRec) /\ Len(events') = Len(events) + 1
      /\ \A e \in 1 .. Len(events) : events'[e] = events[e]
      /\ events'[Len(events) + 1] = e1
  <2> HIDE DEF e1
  <2>1. events \in Seq(EventRec)
    BY DEF Shape
  <2> QED
    BY <1>5, <1>7, <2>1
<1>9. /\ ghost.accepted \in Seq(Nat) /\ ghost.failures \in Seq(Nat) /\ ghost.torn \in SUBSET Nat
      /\ Len(ghost.accepted) = Len(rows) /\ Len(ghost.failures) = Len(rows)
      /\ ghost \in [accepted : Seq(Nat), failures : Seq(Nat), torn : SUBSET Nat]
  BY DEF Shape
<1>10. PICK z : z = [i \in 1 .. Len(new) |-> 0]
  OBVIOUS
<1>11. ghost' = [ghost EXCEPT !.accepted = @ \o z, !.failures = @ \o z]
  BY <1>5, <1>10
<1>12. /\ ghost'.accepted = ghost.accepted \o z /\ ghost'.failures = ghost.failures \o z
       /\ ghost'.torn = ghost.torn
       /\ ghost.accepted \o z \in Seq(Nat) /\ ghost.failures \o z \in Seq(Nat)
       => ghost' \in [accepted : Seq(Nat), failures : Seq(Nat), torn : SUBSET Nat]
  BY <1>9, <1>11
<1>13. /\ ghost'.accepted = ghost.accepted \o z /\ ghost'.failures = ghost.failures \o z
       /\ ghost'.torn = ghost.torn
  BY <1>9, <1>11
<1>14. /\ ghost.accepted \o z \in Seq(Nat) /\ Len(ghost.accepted \o z) = Len(rows')
       /\ ghost.failures \o z \in Seq(Nat) /\ Len(ghost.failures \o z) = Len(rows')
       /\ \A d \in 1 .. Len(rows) : /\ (ghost.accepted \o z)[d] = ghost.accepted[d]
                                    /\ (ghost.failures \o z)[d] = ghost.failures[d]
       /\ \A d \in Len(rows) + 1 .. Len(rows') : /\ (ghost.accepted \o z)[d] = 0
                                                 /\ (ghost.failures \o z)[d] = 0
  BY <1>1, <1>4, <1>6, <1>9, <1>10, ZerosAppended
<1> QED
  BY <1>1, <1>4, <1>6, <1>8, <1>12, <1>13, <1>14 DEF Enqueued, C, m, st, new

\* An attempt records its outcome in one row and in the history of that row.
Attempted(l, outcome) ==
    /\ rows' \in Seq(RowRec) /\ Len(rows') = Len(rows)
    /\ \A d \in 1 .. Len(rows) : d # l.row => rows'[d] = rows[d]
    /\ rows'[l.row].ev = rows[l.row].ev /\ rows'[l.row].ch = rows[l.row].ch
    /\ outcome = "ok" => /\ rows'[l.row].status = "delivered"
                         /\ rows'[l.row].attempts = rows[l.row].attempts
                         /\ l.ch \notin Stub
    /\ outcome = "throttled" => /\ rows'[l.row].status = rows[l.row].status
                                /\ rows'[l.row].attempts = rows[l.row].attempts
    /\ outcome = "permanent" => l.ch \in Stub
    /\ outcome \in {"refused", "error", "permanent"} =>
          /\ rows'[l.row].attempts = l.attempts + 1
          /\ rows'[l.row].status = IF Dies(outcome, l.attempts + 1) THEN "dead" ELSE "failed"
    /\ outcome \in {"ok", "throttled", "refused", "error", "permanent"}
    /\ ghost' \in [accepted : Seq(Nat), failures : Seq(Nat), torn : SUBSET Nat]
    /\ Len(ghost'.accepted) = Len(rows) /\ Len(ghost'.failures) = Len(rows)
    /\ ghost'.torn = ghost.torn
    /\ \A d \in 1 .. Len(rows) : d # l.row => /\ ghost'.accepted[d] = ghost.accepted[d]
                                              /\ ghost'.failures[d] = ghost.failures[d]
    /\ ghost'.accepted[l.row] = ghost.accepted[l.row] + IF outcome = "ok" THEN 1 ELSE 0
    /\ ghost'.failures[l.row] = ghost.failures[l.row] + IF Counted(outcome) THEN 1 ELSE 0
    /\ recent' \in [Channels -> SUBSET (DOMAIN rows)]
    /\ \A c \in Channels : recent'[c] \in {recent[c], recent[c] \cup {l.row}}
    /\ \A c \in Channels : rows[l.row].ch # c => recent'[c] = recent[c]

\* One entry of a history is counted up.
LEMMA HistoryCounted ==
  ASSUME NEW h \in Seq(Nat), NEW d \in 1 .. Len(h), NEW a \in Nat
  PROVE  [h EXCEPT ![d] = @ + a] \in Seq(Nat)
<1>1. h[d] + a \in Nat /\ h \in [1 .. Len(h) -> Nat] /\ Len(h) \in Nat
  OBVIOUS
<1>2. [h EXCEPT ![d] = @ + a] \in [1 .. Len(h) -> Nat]
  BY <1>1
<1> QED
  BY <1>1, <1>2

\* What an attempt changes: the row it loaded, the rate window of its channel and the
\* history of that row.
LEMMA AttemptFacts ==
  ASSUME Shape, NEW l \in LoadRec, l.row \in DOMAIN rows, NEW outcome, Attempt(l, outcome)
  PROVE  Attempted(l, outcome)
<1>1. rows \in Seq(RowRec) /\ DOMAIN rows = 1 .. Len(rows) /\ Len(rows) \in Nat
  BY DEF Shape
<1>2. rows[l.row] \in RowRec /\ l.row \in 1 .. Len(rows)
  BY <1>1
<1>3. /\ outcome \in Outcomes(l)
      /\ rows' = [rows EXCEPT ![l.row] = Record(l, outcome)]
      /\ recent' = IF outcome = "ok" /\ rows[l.row].ch # Null
                 THEN [recent EXCEPT ![rows[l.row].ch] = @ \cup {l.row}] ELSE recent
      /\ ghost' = [ghost EXCEPT !.accepted[l.row] = @ + IF outcome = "ok" THEN 1 ELSE 0,
                              !.failures[l.row] = @ + IF Counted(outcome) THEN 1 ELSE 0]
  BY DEF Attempt
<1>4. /\ outcome \in {"ok", "throttled", "refused", "error", "permanent"}
      /\ outcome = "ok" => l.ch \notin Stub
      /\ outcome = "permanent" => l.ch \in Stub
  BY <1>3 DEF Outcomes
<1>5. PICK new : new = Record(l, outcome)
  OBVIOUS
<1>6. /\ new.ev = rows[l.row].ev /\ new.ch = rows[l.row].ch
      /\ new \in RowRec
      /\ outcome = "ok" => new.status = "delivered" /\ new.attempts = rows[l.row].attempts
      /\ outcome = "throttled" => new.status = rows[l.row].status /\ new.attempts = rows[l.row].attempts
      /\ outcome \in {"refused", "error", "permanent"} =>
            /\ new.attempts = l.attempts + 1
            /\ new.status = IF Dies(outcome, l.attempts + 1) THEN "dead" ELSE "failed"
  <2>1. rows[l.row] \in RowRec /\ l.attempts \in Nat
    BY <1>2 DEF LoadRec
  <2>2. CASE outcome = "ok"
    BY <1>5, <2>1, <2>2 DEF Record, RowRec, Outcome
  <2>3. CASE outcome = "throttled"
    BY <1>5, <2>1, <2>3 DEF Record, RowRec, Outcome
  <2>4. CASE outcome \in {"refused", "error", "permanent"}
    <3>1. new = Failed(l, outcome)
      BY <1>5, <2>4 DEF Record
    <3> QED
      <4> DEFINE st == IF Dies(outcome, l.attempts + 1) THEN "dead" ELSE "failed"
      <4>1. new = [rows[l.row] EXCEPT !.attempts = l.attempts + 1, !.due = FALSE, !.status = st]
        BY <3>1 DEF Failed
      <4>2. st \in Outcome /\ l.attempts + 1 \in Nat
        BY <2>1 DEF Outcome
      <4> HIDE DEF st
      <4>3. /\ new \in RowRec /\ new.ev = rows[l.row].ev /\ new.ch = rows[l.row].ch
            /\ new.attempts = l.attempts + 1 /\ new.status = st
        BY <2>1, <4>1, <4>2 DEF RowRec
      <4> QED
        BY <2>4, <4>3 DEF st
  <2> QED
    BY <1>4, <2>2, <2>3, <2>4
<1>7. /\ rows' \in Seq(RowRec) /\ Len(rows') = Len(rows) /\ rows'[l.row] = new
      /\ \A d \in 1 .. Len(rows) : d # l.row => rows'[d] = rows[d]
  <2>1. rows' = [rows EXCEPT ![l.row] = new] /\ new \in RowRec
    BY <1>3, <1>5, <1>6
  <2> QED
    BY <1>1, <1>2, <2>1
<1>8. /\ recent' \in [Channels -> SUBSET (DOMAIN rows)]
      /\ \A c \in Channels : recent'[c] \in {recent[c], recent[c] \cup {l.row}}
      /\ \A c \in Channels : rows[l.row].ch # c => recent'[c] = recent[c]
  <2>1. recent \in [Channels -> SUBSET (DOMAIN rows)] /\ rows[l.row].ch \in Channels \cup {Null}
    BY <1>2 DEF Shape, RowRec
  <2> QED
    BY <1>3, <2>1
<1>9. /\ ghost' \in [accepted : Seq(Nat), failures : Seq(Nat), torn : SUBSET Nat]
      /\ Len(ghost'.accepted) = Len(rows) /\ Len(ghost'.failures) = Len(rows)
      /\ ghost'.torn = ghost.torn
      /\ \A d \in 1 .. Len(rows) : d # l.row => /\ ghost'.accepted[d] = ghost.accepted[d]
                                                /\ ghost'.failures[d] = ghost.failures[d]
      /\ ghost'.accepted[l.row] = ghost.accepted[l.row] + IF outcome = "ok" THEN 1 ELSE 0
      /\ ghost'.failures[l.row] = ghost.failures[l.row] + IF Counted(outcome) THEN 1 ELSE 0
  <2>1. PICK a \in Nat, f \in Nat : /\ a = IF outcome = "ok" THEN 1 ELSE 0
                                    /\ f = IF Counted(outcome) THEN 1 ELSE 0
    OBVIOUS
  <2>2. /\ ghost.accepted \in Seq(Nat) /\ ghost.failures \in Seq(Nat) /\ ghost.torn \in SUBSET Nat
        /\ Len(ghost.accepted) = Len(rows) /\ Len(ghost.failures) = Len(rows)
        /\ ghost \in [accepted : Seq(Nat), failures : Seq(Nat), torn : SUBSET Nat]
    BY DEF Shape
  <2>3. ghost' = [ghost EXCEPT !.accepted = [ghost.accepted EXCEPT ![l.row] = @ + a],
                               !.failures = [ghost.failures EXCEPT ![l.row] = @ + f]]
    <3>1. ghost' = [ghost EXCEPT !.accepted[l.row] = @ + a, !.failures[l.row] = @ + f]
      BY <1>3, <2>1
    <3> QED
      BY <2>2, <3>1
  <2>4. /\ [ghost.accepted EXCEPT ![l.row] = @ + a] \in Seq(Nat)
        /\ [ghost.failures EXCEPT ![l.row] = @ + f] \in Seq(Nat)
    <3>1. /\ l.row \in 1 .. Len(ghost.accepted) /\ ghost.accepted \in Seq(Nat)
          /\ l.row \in 1 .. Len(ghost.failures) /\ ghost.failures \in Seq(Nat)
      BY <1>2, <2>2
    <3> QED
      BY <3>1, HistoryCounted
  <2>5. /\ ghost'.accepted = [ghost.accepted EXCEPT ![l.row] = @ + a]
        /\ ghost'.failures = [ghost.failures EXCEPT ![l.row] = @ + f]
        /\ ghost'.torn = ghost.torn
        /\ ghost' \in [accepted : Seq(Nat), failures : Seq(Nat), torn : SUBSET Nat]
    BY <2>2, <2>3, <2>4
  <2> QED
    BY <1>1, <1>2, <2>1, <2>2, <2>5
<1> QED
  BY <1>4, <1>6, <1>7, <1>8, <1>9 DEF Attempted

\* Every other step leaves the history and the outcome of each row alone: it
\* changes when a row is due, or removes its channel.
Quiet ==
    /\ events' = events
    /\ rows' \in Seq(RowRec) /\ Len(rows') = Len(rows)
    /\ \A d \in 1 .. Len(rows) : /\ rows'[d].ev = rows[d].ev /\ rows'[d].status = rows[d].status
                                 /\ rows'[d].attempts = rows[d].attempts
                                 /\ rows'[d].ch \in {rows[d].ch, Null}

\* The tables as sequences, and the types of their rows.
LEMMA ShapeRows ==
  ASSUME Shape
  PROVE  /\ rows \in Seq(RowRec) /\ events \in Seq(EventRec)
         /\ DOMAIN rows = 1 .. Len(rows) /\ Len(rows) \in Nat
         /\ DOMAIN events = 1 .. Len(events) /\ Len(events) \in Nat
         /\ \A d \in 1 .. Len(rows) : rows[d] \in RowRec /\ rows[d].ev \in 1 .. Len(events)
         /\ \A e \in 1 .. Len(events) : events[e] \in EventRec
<1>1. rows \in Seq(RowRec) /\ events \in Seq(EventRec)
  BY DEF Shape
<1>2. /\ DOMAIN rows = 1 .. Len(rows) /\ Len(rows) \in Nat
      /\ \A d \in 1 .. Len(rows) : rows[d] \in RowRec
  BY <1>1
<1>3. /\ DOMAIN events = 1 .. Len(events) /\ Len(events) \in Nat
      /\ \A e \in 1 .. Len(events) : events[e] \in EventRec
  BY <1>1
<1>4. \A d \in 1 .. Len(rows) : rows[d].ev \in 1 .. Len(events)
  BY <1>2, <1>3 DEF Shape
<1> QED
  BY <1>1, <1>2, <1>3, <1>4

\* The steps that publish and send nothing keep every row's event, status and count.
LEMMA QuietFacts ==
  ASSUME Shape, \/ Claim \/ (\E c \in Channels : DeleteChannel(c)) \/ (\E d \in DOMAIN rows : Elapse(d))
                \/ UNCHANGED <<events, rows>>
  PROVE  Quiet
<1>0. /\ rows \in Seq(RowRec) /\ DOMAIN rows = 1 .. Len(rows) /\ Len(rows) \in Nat
      /\ \A d \in 1 .. Len(rows) : rows[d] \in RowRec
  BY ShapeRows
<1>1. CASE UNCHANGED <<events, rows>>
  BY <1>0, <1>1 DEF Quiet
<1>2. CASE Claim
  <2>1. PICK selected \in RoundRobin(Due) :
          rows' = [d \in DOMAIN rows |-> [rows[d] EXCEPT !.due = @ /\ d \notin Range(selected)]]
    BY <1>2 DEF Claim
  <2>2. events' = events
    BY <1>2 DEF Claim
  <2>3. PICK b : b = [d \in 1 .. Len(rows) |-> rows[d].due /\ d \notin Range(selected)]
    OBVIOUS
  <2>4. \A d \in 1 .. Len(rows) : b[d] \in BOOLEAN
    BY <2>3
  <2>5. rows' = [d \in 1 .. Len(rows) |-> [rows[d] EXCEPT !.due = b[d]]]
    BY <1>0, <2>1, <2>3
  <2>6. \A d \in 1 .. Len(rows) : [rows[d] EXCEPT !.due = b[d]] \in RowRec
    BY <1>0, <2>4 DEF RowRec
  <2>7. rows' \in Seq(RowRec) /\ Len(rows') = Len(rows)
    BY <1>0, <2>5, <2>6
  <2> QED
    BY <1>0, <2>2, <2>5, <2>7 DEF Quiet, RowRec
<1>3. ASSUME NEW c \in Channels, DeleteChannel(c) PROVE Quiet
  <2>1. /\ rows' = [d \in 1 .. Len(rows) |-> [rows[d] EXCEPT !.ch = IF @ = c THEN Null ELSE @]]
        /\ events' = events
    BY <1>0, <1>3 DEF DeleteChannel
  <2>2. \A d \in 1 .. Len(rows) : [rows[d] EXCEPT !.ch = IF @ = c THEN Null ELSE @] \in RowRec
    BY <1>0 DEF RowRec
  <2>3. rows' \in Seq(RowRec) /\ Len(rows') = Len(rows)
    BY <1>0, <2>1, <2>2
  <2> QED
    BY <1>0, <2>1, <2>3 DEF Quiet, RowRec
<1>4. ASSUME NEW d \in DOMAIN rows, Elapse(d) PROVE Quiet
  <2>1. events' = events /\ (rows' = rows \/ rows' = [rows EXCEPT ![d].due = TRUE])
    BY <1>4 DEF Elapse
  <2>2. CASE rows' = rows
    BY <1>0, <2>1, <2>2 DEF Quiet
  <2>3. CASE rows' = [rows EXCEPT ![d].due = TRUE]
    <3>0. PICK b : b = [f \in 1 .. Len(rows) |-> IF f = d THEN TRUE ELSE rows[f].due]
      OBVIOUS
    <3>1. rows' = [f \in 1 .. Len(rows) |-> [rows[f] EXCEPT !.due = b[f]]]
      BY <1>0, <2>3, <3>0 DEF RowRec
    <3>2. \A f \in 1 .. Len(rows) : [rows[f] EXCEPT !.due = b[f]] \in RowRec
      BY <1>0, <3>0 DEF RowRec
    <3>3. rows' \in Seq(RowRec) /\ Len(rows') = Len(rows)
      BY <1>0, <3>1, <3>2
    <3>4. ASSUME NEW f \in 1 .. Len(rows)
          PROVE  /\ rows'[f].ev = rows[f].ev /\ rows'[f].status = rows[f].status
                 /\ rows'[f].attempts = rows[f].attempts /\ rows'[f].ch = rows[f].ch
      <4>1. rows'[f] = [rows[f] EXCEPT !.due = b[f]] /\ rows[f] \in RowRec
        BY <1>0, <3>1
      <4> QED
        BY <4>1 DEF RowRec
    <3> QED
      BY <2>1, <3>3, <3>4 DEF Quiet
  <2> QED
    BY <2>1, <2>2, <2>3
<1> QED
  BY <1>1, <1>2, <1>3, <1>4

\* Rows and events stay where they are: whose a row is, and what caused it.
Kept ==
    /\ \A e \in DOMAIN events : e \in DOMAIN events' /\ events'[e] = events[e]
    /\ \A d \in DOMAIN rows : /\ d \in DOMAIN rows' /\ rows'[d].ev = rows[d].ev
                              /\ rows'[d].ch \in {rows[d].ch, Null}

\* A quiet step keeps what a row is for ever.
LEMMA QuietKeeps == ASSUME Shape, Quiet PROVE Kept /\ DOMAIN rows' = DOMAIN rows
  BY ShapeRows DEF Quiet, Kept

\* An attempt keeps what a row is for ever.
LEMMA AttemptKeeps ==
  ASSUME Shape, NEW l \in LoadRec, l.row \in DOMAIN rows, NEW outcome, Attempted(l, outcome), events' = events
  PROVE  Kept /\ DOMAIN rows' = DOMAIN rows
<1>1. /\ rows \in Seq(RowRec) /\ DOMAIN rows = 1 .. Len(rows) /\ Len(rows) \in Nat
  BY ShapeRows
<1>2. DOMAIN rows' = 1 .. Len(rows)
  BY <1>1 DEF Attempted
<1>3. \A d \in 1 .. Len(rows) : rows'[d].ev = rows[d].ev /\ rows'[d].ch = rows[d].ch
  BY DEF Attempted
<1> QED
  BY <1>1, <1>2, <1>3 DEF Kept

\* Publishing keeps what the earlier rows and events are and appends after them.
LEMMA EnqueueKeeps ==
  ASSUME Shape, NEW r, NEW kind, NEW t, NEW idx, NEW covers, Enqueued(r, kind, t, idx, covers)
  PROVE  /\ Kept /\ DOMAIN rows' = 1 .. Len(rows') /\ DOMAIN events' = 1 .. Len(events) + 1
         /\ Len(rows') \in Nat /\ Len(rows) <= Len(rows')
<1>1. /\ rows \in Seq(RowRec) /\ DOMAIN rows = 1 .. Len(rows) /\ Len(rows) \in Nat
      /\ DOMAIN events = 1 .. Len(events) /\ Len(events) \in Nat
  BY ShapeRows
<1>2. /\ DOMAIN rows' = 1 .. Len(rows') /\ Len(rows') \in Nat /\ Len(rows) <= Len(rows')
      /\ DOMAIN events' = 1 .. Len(events) + 1
  BY <1>1 DEF Enqueued
<1>3. /\ \A d \in 1 .. Len(rows) : rows'[d] = rows[d]
      /\ \A e \in 1 .. Len(events) : events'[e] = events[e]
  BY DEF Enqueued
<1> QED
  BY <1>1, <1>2, <1>3 DEF Kept

\* A row keeps its tenant, and stays a rule's or a person's.
LEMMA OriginStays ==
  ASSUME Shape, Kept
  PROVE  \A d \in DOMAIN rows : (Manual(d)' <=> Manual(d)) /\ TenantOf(d)' = TenantOf(d)
<1> SUFFICES ASSUME NEW d \in DOMAIN rows
             PROVE  (Manual(d)' <=> Manual(d)) /\ TenantOf(d)' = TenantOf(d)
  OBVIOUS
<1>1. rows[d].ev \in DOMAIN events
  BY DEF Shape
<1>2. rows'[d].ev = rows[d].ev /\ events'[rows[d].ev] = events[rows[d].ev]
  BY <1>1 DEF Kept
<1> QED
  BY <1>2 DEF Manual, TenantOf

-----------------------------------------------------------------------------
(* The shape of the tables.                                                *)

\* The tables keep their shape when an event is published.
LEMMA ShapeEnqueued ==
  ASSUME Shape, NEW r \in Rules \cup {Null}, NEW kind \in {"alert", "rollup", "manual"},
         NEW t \in Tenants, NEW idx \in Int \cup {Null}, NEW covers \in SUBSET Nat,
         Enqueued(r, kind, t, idx, covers), UNCHANGED <<now, chan, tenantOn, ruleLive, recent>>,
         worker' \in WorkerRec, api' \in [todo : SUBSET (DOMAIN rows'), load : LoadRec \cup {Null}]
  PROVE  Shape'
<1>1. /\ DOMAIN rows = 1 .. Len(rows) /\ DOMAIN events = 1 .. Len(events)
      /\ Len(rows) \in Nat /\ Len(events) \in Nat
  BY ShapeRows
<1>2. /\ Kept /\ DOMAIN rows' = 1 .. Len(rows') /\ DOMAIN events' = 1 .. Len(events) + 1
      /\ Len(rows') \in Nat /\ Len(rows) <= Len(rows')
  BY EnqueueKeeps
<1>3. \A d \in DOMAIN rows' :
          /\ rows'[d].ev \in DOMAIN events'
          /\ rows'[d].ch # Null => Owner[rows'[d].ch] = TenantOf(d)'
  <2> SUFFICES ASSUME NEW d \in DOMAIN rows'
               PROVE  /\ rows'[d].ev \in DOMAIN events'
                      /\ rows'[d].ch # Null => Owner[rows'[d].ch] = TenantOf(d)'
    OBVIOUS
  <2>1. CASE d \in DOMAIN rows
    <3>1. TenantOf(d)' = TenantOf(d)
      BY <1>2, <2>1, OriginStays
    <3>2. rows[d].ev \in DOMAIN events /\ (rows[d].ch # Null => Owner[rows[d].ch] = TenantOf(d))
      BY <2>1 DEF Shape
    <3> QED
      BY <1>2, <2>1, <3>1, <3>2 DEF Kept
  <2>2. CASE d \notin DOMAIN rows
    <3>1. d \in Len(rows) + 1 .. Len(rows')
      BY <1>1, <1>2, <2>2
    <3>2. /\ rows'[d].ev = Len(events) + 1 /\ rows'[d].ch \in ResolveChannels(t)
          /\ events'[Len(events) + 1].tenant = t
      BY <3>1 DEF Enqueued
    <3> QED
      BY <1>1, <1>2, <3>2 DEF TenantOf, ResolveChannels
  <2> QED
    BY <2>1, <2>2
<1>4. recent' \in [Channels -> SUBSET (DOMAIN rows')]
  BY <1>1, <1>2 DEF Shape
<1>5. /\ events' \in Seq(EventRec) /\ rows' \in Seq(RowRec)
      /\ ghost' \in [accepted : Seq(Nat), failures : Seq(Nat), torn : SUBSET Nat]
      /\ Len(ghost'.accepted) = Len(rows') /\ Len(ghost'.failures) = Len(rows')
  BY DEF Enqueued
<1> QED
  BY <1>3, <1>4, <1>5 DEF Shape

\* The tables keep their shape when a delivery is attempted.
LEMMA ShapeAttempted ==
  ASSUME Shape, NEW l \in LoadRec, l.row \in DOMAIN rows, NEW outcome, Attempted(l, outcome),
         UNCHANGED <<now, events, chan, tenantOn, ruleLive>>, worker' \in WorkerRec,
         api' \in [todo : SUBSET (DOMAIN rows), load : LoadRec \cup {Null}]
  PROVE  Shape'
<1>1. Kept /\ DOMAIN rows' = DOMAIN rows
  BY AttemptKeeps
<1>2. \A d \in DOMAIN rows : rows'[d].ev = rows[d].ev /\ rows'[d].ch = rows[d].ch
  BY ShapeRows DEF Attempted
<1>3. \A d \in DOMAIN rows' :
          /\ rows'[d].ev \in DOMAIN events'
          /\ rows'[d].ch # Null => Owner[rows'[d].ch] = TenantOf(d)'
  BY <1>1, <1>2 DEF Shape, TenantOf
<1>4. /\ rows' \in Seq(RowRec) /\ recent' \in [Channels -> SUBSET (DOMAIN rows)]
      /\ ghost' \in [accepted : Seq(Nat), failures : Seq(Nat), torn : SUBSET Nat]
      /\ Len(ghost'.accepted) = Len(rows') /\ Len(ghost'.failures) = Len(rows')
  BY DEF Attempted
<1> QED
  BY <1>1, <1>3, <1>4 DEF Shape

\* The tables keep their shape in a quiet step.
LEMMA ShapeQuiet ==
  ASSUME Shape, Quiet, now' \in 0 .. MaxTime,
         chan' \in [Channels -> {"on", "off", "gone"}], tenantOn' \in [Tenants -> BOOLEAN],
         ruleLive' \subseteq ruleLive, recent' \in [Channels -> SUBSET (DOMAIN rows)],
         worker' \in WorkerRec, api' \in [todo : SUBSET (DOMAIN rows), load : LoadRec \cup {Null}],
         ghost' \in [accepted : Seq(Nat), failures : Seq(Nat), torn : SUBSET Nat],
         Len(ghost'.accepted) = Len(rows), Len(ghost'.failures) = Len(rows)
  PROVE  Shape'
<1>1. Kept /\ DOMAIN rows' = DOMAIN rows
  BY QuietKeeps
<1>2. \A d \in DOMAIN rows : rows'[d].ev = rows[d].ev /\ rows'[d].ch \in {rows[d].ch, Null}
  BY <1>1 DEF Kept
<1>3. \A d \in DOMAIN rows' :
          /\ rows'[d].ev \in DOMAIN events'
          /\ rows'[d].ch # Null => Owner[rows'[d].ch] = TenantOf(d)'
  BY <1>1, <1>2 DEF Shape, TenantOf, Quiet
<1>4. rows' \in Seq(RowRec) /\ Len(rows') = Len(rows) /\ events' = events
  BY DEF Quiet
<1> QED
  BY <1>1, <1>3, <1>4 DEF Shape

-----------------------------------------------------------------------------
(* What each step of the worker and of the API does.                       *)

\* A rule's alert publishes one event of that rule and nothing else.
LEMMA AlertFacts ==
  ASSUME Shape, NEW r \in Rules, Alert(r)
  PROVE  /\ Enqueued(r, "alert", RuleOf[r], Null, {})
         /\ UNCHANGED <<now, chan, tenantOn, ruleLive, recent, worker, api>>
<1>1. RuleOf[r] \in Tenants
  BY ConstantsAssumption
<1>2. Enqueue(r, "alert", RuleOf[r], Null, {})
  BY DEF Alert
<1>3. Enqueued(r, "alert", RuleOf[r], Null, {})
  BY <1>1, <1>2, EnqueueFacts
<1> QED
  BY <1>3 DEF Alert

\* A summary card is published for a job of the rollup, or the job is dropped.
LEMMA SummariseFacts ==
  ASSUME Shape, NEW job \in worker.todo, Summarise(job)
  PROVE  /\ job \in JobRec /\ RuleOf[job.rule] \in Tenants
         /\ worker' = [worker EXCEPT !.todo = @ \ {job}] /\ worker' \in WorkerRec
         /\ worker.phase = "rollup"
         /\ UNCHANGED <<now, chan, tenantOn, ruleLive, recent, api>>
         /\ \/ Enqueued(job.rule, "rollup", RuleOf[job.rule], job.idx, job.covers)
            \/ UNCHANGED <<events, rows, ghost>>
<1>1. job \in JobRec /\ worker \in WorkerRec
  BY DEF Shape, WorkerRec
<1>2. RuleOf[job.rule] \in Tenants /\ job.rule \in Rules /\ job.idx \in Int /\ job.covers \in SUBSET Nat
  BY <1>1, ConstantsAssumption DEF JobRec
<1>3. worker' = [worker EXCEPT !.todo = @ \ {job}] /\ worker' \in WorkerRec
  BY <1>1 DEF Summarise, WorkerRec
<1>4. \/ Enqueue(job.rule, "rollup", RuleOf[job.rule], job.idx, job.covers)
      \/ UNCHANGED <<events, rows, ghost>>
  BY DEF Summarise
<1>5. \/ Enqueued(job.rule, "rollup", RuleOf[job.rule], job.idx, job.covers)
      \/ UNCHANGED <<events, rows, ghost>>
  BY <1>2, <1>4, EnqueueFacts
<1> QED
  BY <1>1, <1>2, <1>3, <1>5 DEF Summarise

\* A manual publish has exactly the rows it created in hand.
LEMMA PublishFacts ==
  ASSUME Shape, NEW t \in Tenants, ManualPublish(t)
  PROVE  /\ Enqueued(Null, "manual", t, Null, {})
         /\ api' = [api EXCEPT !.todo = Len(rows) + 1 .. Len(rows')]
         /\ api'.todo = Len(rows) + 1 .. Len(rows') /\ api'.load = Null /\ api.load = Null
         /\ UNCHANGED <<now, chan, tenantOn, ruleLive, recent, worker>>
<1>1. Enqueue(Null, "manual", t, Null, {})
  BY DEF ManualPublish
<1>2. Enqueued(Null, "manual", t, Null, {})
  BY <1>1, EnqueueFacts
<1>3. api' = [api EXCEPT !.todo = {Len(rows) + i : i \in 1 .. Len(NewRows(Null, "manual", t))}]
  BY DEF ManualPublish
<1>4. {Len(rows) + i : i \in 1 .. Len(NewRows(Null, "manual", t))} = Len(rows) + 1 .. Len(rows')
  <2>1. PICK n \in Nat : n = Cardinality(ResolveChannels(t))
    BY <1>2 DEF Enqueued
  <2>2. /\ Len(NewRows(Null, "manual", t)) = n /\ Len(rows') = Len(rows) + n
        /\ Len(rows) \in Nat
    BY <1>2, <2>1, ShapeRows DEF Enqueued
  <2>3. \A k \in Len(rows) + 1 .. Len(rows) + n : k - Len(rows) \in 1 .. n /\ k = Len(rows) + (k - Len(rows))
    BY <2>2
  <2>4. \A i \in 1 .. n : Len(rows) + i \in Len(rows) + 1 .. Len(rows) + n
    BY <2>2
  <2>5. {Len(rows) + i : i \in 1 .. n} = Len(rows) + 1 .. Len(rows) + n
    BY <2>3, <2>4
  <2> QED
    BY <2>2, <2>5
<1>5. api' = [api EXCEPT !.todo = Len(rows) + 1 .. Len(rows')]
  BY <1>3, <1>4
<1>6. api'.todo = Len(rows) + 1 .. Len(rows') /\ api'.load = api.load /\ api.load = Null
  BY <1>5 DEF Shape, ManualPublish
<1> QED
  BY <1>2, <1>5, <1>6 DEF ManualPublish

\* What is loaded of a row.
LEMMA LoadShape ==
  ASSUME Shape, NEW d \in DOMAIN rows
  PROVE  LoadOf(d) \in LoadRec /\ LoadOf(d).row = d /\ LoadOf(d).ch = rows[d].ch
         /\ LoadOf(d).attempts = rows[d].attempts
<1>1. rows[d] \in RowRec /\ d \in Nat
  BY ShapeRows
<1> QED
  BY <1>1 DEF LoadOf, LoadRec, RowRec, Shape

\* The worker loads a row of its batch and takes its place off the queue.
LEMMA WorkerLoadFacts ==
  ASSUME Shape, WorkInv, WorkerLoad
  PROVE  \E i \in worker.queue :
            LET d == worker.batch[i]
            IN  /\ d \in DOMAIN rows
                /\ worker'.queue = worker.queue \ {i} /\ worker'.batch = worker.batch
                /\ worker'.phase = "send" /\ worker.phase = "send" /\ worker'.todo = worker.todo
                /\ worker.load = Null
                /\ worker'.load = IF rows[d].status = "delivered" THEN Null ELSE LoadOf(d)
                /\ worker' \in WorkerRec
                /\ UNCHANGED <<now, events, rows, chan, tenantOn, ruleLive, recent, api, ghost>>
<1>1. worker.queue \in SUBSET Nat /\ worker.queue # {} /\ worker \in WorkerRec
  BY DEF Shape, WorkerRec, WorkerLoad
<1>2. Min(worker.queue) \in worker.queue
  <2>1. worker.queue \in SUBSET Int /\ 0 \in Int /\ \A x \in worker.queue : 0 <= x
    BY <1>1
  <2> QED
    BY <1>1, <2>1, MinIsLeast
<1>3. PICK i \in worker.queue : i = Min(worker.queue)
  BY <1>2
<1>4. PICK d : d = worker.batch[i]
  OBVIOUS
<1>5. d \in DOMAIN rows
  BY <1>3, <1>4 DEF WorkInv, Open
<1>6. PICK load : load = IF rows[d].status = "delivered" THEN Null ELSE LoadOf(d)
  OBVIOUS
<1>7. load \in LoadRec \cup {Null}
  BY <1>5, <1>6, LoadShape
<1>8. worker' = [worker EXCEPT !.queue = @ \ {i}, !.load = load]
  BY <1>3, <1>4, <1>6 DEF WorkerLoad
<1>9. /\ worker'.queue = worker.queue \ {i} /\ worker'.batch = worker.batch
      /\ worker'.phase = worker.phase /\ worker'.todo = worker.todo /\ worker'.load = load
      /\ worker' \in WorkerRec
  BY <1>1, <1>7, <1>8 DEF WorkerRec
<1> QED
  BY <1>4, <1>5, <1>6, <1>9 DEF WorkerLoad

\* The batch of a claim: distinct rows, each due and claimable.
LEMMA BatchShape ==
  ASSUME Shape, NEW selected \in RoundRobin(Due)
  PROVE  /\ selected \in Seq(Nat) /\ \A i \in DOMAIN selected : selected[i] \in Due
         /\ \A i, j \in DOMAIN selected : selected[i] = selected[j] => i = j
         /\ Due \subseteq DOMAIN rows /\ IsFiniteSet(Due) /\ IsFiniteSet(DOMAIN rows)
<1>1. Due \subseteq DOMAIN rows /\ DOMAIN rows = 1 .. Len(rows) /\ Len(rows) \in Nat
  BY ShapeRows DEF Due
<1>2. IsFiniteSet(DOMAIN rows) /\ IsFiniteSet(Due)
  <2>1. \A k \in Int : IsFiniteSet(1 .. k)
    BY FS_Interval
  <2>2. IsFiniteSet(DOMAIN rows)
    BY <1>1, <2>1
  <2> QED
    BY <1>1, <2>2, FS_Subset
<1>3. PICK n : n = IF Cardinality(Due) < Batch THEN Cardinality(Due) ELSE Batch
  OBVIOUS
<1>4. n \in Nat
  BY <1>2, <1>3, FS_CardinalityType, ConstantsAssumption
<1>5. selected \in Injection(1 .. n, Due)
  <2>1. RoundRobin(Due) \subseteq
          Injection(1 .. (IF Cardinality(Due) < Batch THEN Cardinality(Due) ELSE Batch), Due)
    BY DEF RoundRobin, Cut
  <2> QED
    BY <1>3, <2>1
<1>6. /\ selected \in [1 .. n -> Due]
      /\ \A i, j \in 1 .. n : selected[i] = selected[j] => i = j
  BY <1>5 DEF Injection, IsInjective
<1>7. Due \subseteq Nat
  BY <1>1
<1>8. selected \in [1 .. n -> Nat] /\ DOMAIN selected = 1 .. n
  BY <1>6, <1>7
<1>9. selected \in Seq(Nat)
  BY <1>4, <1>8
<1> QED
  BY <1>1, <1>2, <1>6, <1>8, <1>9

\* A claim takes a fair batch of due rows, and queues the places that fit the allowance.
LEMMA ClaimFacts ==
  ASSUME Shape, Claim
  PROVE  \E selected \in RoundRobin(Due) :
            /\ worker'.batch = selected /\ worker'.queue = Spend(selected)
            /\ worker'.phase = "send" /\ worker'.load = worker.load /\ worker'.todo = worker.todo
            /\ worker.phase = "rollup" /\ worker.todo = {}
            /\ Spend(selected) \subseteq DOMAIN selected
            /\ worker' \in WorkerRec
            /\ UNCHANGED <<now, events, chan, tenantOn, ruleLive, recent, api, ghost>>
<1>1. PICK selected \in RoundRobin(Due) :
          worker' = [worker EXCEPT !.phase = "send", !.batch = selected, !.queue = Spend(selected)]
  BY DEF Claim
<1>2. Spend(selected) \subseteq DOMAIN selected
  BY DEF Spend
<1>3. selected \in Seq(Nat) /\ DOMAIN selected \subseteq Nat
  BY BatchShape
<1>4. worker \in WorkerRec
  BY DEF Shape
<1>5. /\ worker'.batch = selected /\ worker'.queue = Spend(selected)
      /\ worker'.phase = "send" /\ worker'.load = worker.load /\ worker'.todo = worker.todo
      /\ worker' \in WorkerRec
  <2>1. Spend(selected) \in SUBSET Nat
    BY <1>2, <1>3
  <2> QED
    BY <1>1, <1>3, <1>4, <2>1 DEF WorkerRec
<1> QED
  BY <1>2, <1>5 DEF Claim

\* A step that leaves the outbox, its history and the deliveries in hand alone.
Calm ==
    /\ UNCHANGED <<events, rows, recent, api, ghost>>
    /\ worker' \in WorkerRec /\ worker'.load = worker.load /\ worker'.queue = worker.queue
    /\ worker'.batch = worker.batch \/ worker.queue = {}
    /\ worker'.phase = worker.phase \/ (worker.queue = {} /\ worker.load = Null)
    /\ now <= now' /\ now' \in 0 .. MaxTime
    /\ chan' \in [Channels -> {"on", "off", "gone"}] /\ tenantOn' \in [Tenants -> BOOLEAN]
    /\ ruleLive' \subseteq ruleLive

\* A step that publishes an event: an alert, a summary card, or a person's message.
Publishes(r, kind, t, idx, covers) ==
    /\ Enqueued(r, kind, t, idx, covers)
    /\ UNCHANGED <<now, chan, tenantOn, ruleLive, recent>>
    /\ worker' \in WorkerRec /\ worker'.load = worker.load /\ worker'.queue = worker.queue
    /\ worker'.batch = worker.batch /\ worker'.phase = worker.phase
    /\ worker'.todo \subseteq worker.todo
    /\ api' \in [todo : SUBSET (DOMAIN rows'), load : LoadRec \cup {Null}] /\ api'.load = api.load
    /\ \/ kind = "manual" /\ r = Null /\ api'.todo = Len(rows) + 1 .. Len(rows')
       \/ kind = "alert" /\ r \in Rules /\ t = RuleOf[r] /\ api' = api
       \/ /\ kind = "rollup" /\ r \in Rules /\ t = RuleOf[r] /\ api' = api
          /\ [rule |-> r, idx |-> idx, covers |-> covers] \in worker.todo

\* The idle worker holds nothing.
LEMMA IdleShape == Idle \in WorkerRec
  BY DEF Idle, WorkerRec

\* The steps that only move the worker's phase, the clock or a setting.
LEMMA CalmSteps ==
  ASSUME Shape, WorkInv,
         \/ StartRollup \/ EndTick \/ Pass \/ UNCHANGED vars
         \/ \E c \in Channels : DisableChannel(c)
         \/ \E t \in Tenants : SwitchTenant(t)
         \/ \E r \in Rules : DeleteRule(r)
         \/ \E job \in worker.todo : Summarise(job) /\ UNCHANGED <<events, rows, ghost>>
  PROVE  Calm
<1>0. /\ worker \in WorkerRec /\ now \in 0 .. MaxTime /\ MaxTime \in Nat
      /\ chan \in [Channels -> {"on", "off", "gone"}] /\ tenantOn \in [Tenants -> BOOLEAN]
  BY ConstantsAssumption DEF Shape
<1>1. CASE StartRollup
  <2>1. PICK td : td = {[rule |-> r, idx |-> CompletedWindow, covers |-> SuppressedIn(r, CompletedWindow)] :
                           r \in {q \in Rules : SuppressedIn(q, CompletedWindow) # {}}}
    OBVIOUS
  <2>2. td \in SUBSET JobRec
    <3>1. CompletedWindow \in Int
      BY <1>0, ConstantsAssumption DEF CompletedWindow, WindowIndex
    <3>2. \A r : SuppressedIn(r, CompletedWindow) \in SUBSET Nat
      BY ShapeRows DEF SuppressedIn
    <3> QED
      BY <2>1, <3>1, <3>2 DEF JobRec
  <2>3. worker' = [worker EXCEPT !.phase = "rollup", !.todo = td] /\ worker.phase = "rules"
    BY <1>1, <2>1 DEF StartRollup
  <2>4. /\ worker' \in WorkerRec /\ worker'.load = worker.load /\ worker'.queue = worker.queue
        /\ worker'.batch = worker.batch /\ worker.queue = {} /\ worker.load = Null
    BY <1>0, <2>2, <2>3 DEF WorkerRec, WorkInv
  <2> QED
    BY <1>0, <1>1, <2>4 DEF StartRollup, Calm
<1>2. CASE EndTick
  BY <1>0, <1>2, IdleShape DEF EndTick, Calm, Idle
<1>3. CASE Pass
  BY <1>0, <1>3 DEF Pass, Calm
<1>4. CASE UNCHANGED vars
  BY <1>0, <1>4 DEF vars, Calm
<1>5. ASSUME NEW c \in Channels, DisableChannel(c) PROVE Calm
  BY <1>0, <1>5 DEF DisableChannel, Calm
<1>6. ASSUME NEW t \in Tenants, SwitchTenant(t) PROVE Calm
  BY <1>0, <1>6 DEF SwitchTenant, Calm
<1>7. ASSUME NEW r \in Rules, DeleteRule(r) PROVE Calm
  BY <1>0, <1>7 DEF DeleteRule, Calm
<1>8. ASSUME NEW job \in worker.todo, Summarise(job), UNCHANGED <<events, rows, ghost>> PROVE Calm
  <2>1. /\ worker' = [worker EXCEPT !.todo = @ \ {job}] /\ worker' \in WorkerRec
        /\ UNCHANGED <<now, chan, tenantOn, ruleLive, recent, api>>
    BY <1>8, SummariseFacts
  <2>2. /\ worker'.load = worker.load /\ worker'.queue = worker.queue
        /\ worker'.batch = worker.batch /\ worker'.phase = worker.phase
    BY <1>0, <2>1 DEF WorkerRec
  <2> QED
    BY <1>0, <1>8, <2>1, <2>2 DEF Calm
<1> QED
  BY <1>1, <1>2, <1>3, <1>4, <1>5, <1>6, <1>7, <1>8

\* The steps that publish.
LEMMA PublishingSteps ==
  ASSUME Shape,
         \/ \E r \in Rules : Alert(r)
         \/ \E t \in Tenants : ManualPublish(t)
         \/ \E job \in worker.todo : Summarise(job) /\ ~UNCHANGED <<events, rows, ghost>>
  PROVE  \E r \in Rules \cup {Null}, kind \in {"alert", "rollup", "manual"}, t \in Tenants,
            idx \in Int \cup {Null}, covers \in SUBSET Nat : Publishes(r, kind, t, idx, covers)
<1>0. worker \in WorkerRec /\ api \in [todo : SUBSET (DOMAIN rows), load : LoadRec \cup {Null}]
  BY DEF Shape
<1>1. ASSUME NEW r \in Rules, Alert(r) PROVE Publishes(r, "alert", RuleOf[r], Null, {}) /\ RuleOf[r] \in Tenants
  <2>1. /\ Enqueued(r, "alert", RuleOf[r], Null, {})
        /\ UNCHANGED <<now, chan, tenantOn, ruleLive, recent, worker, api>>
    BY <1>1, AlertFacts
  <2>2. DOMAIN rows \subseteq DOMAIN rows'
    BY <2>1, EnqueueKeeps DEF Kept
  <2> QED
    BY <1>0, <2>1, <2>2, ConstantsAssumption DEF Publishes
<1>2. ASSUME NEW t \in Tenants, ManualPublish(t) PROVE Publishes(Null, "manual", t, Null, {})
  <2>1. /\ Enqueued(Null, "manual", t, Null, {})
        /\ api' = [api EXCEPT !.todo = Len(rows) + 1 .. Len(rows')]
        /\ api'.todo = Len(rows) + 1 .. Len(rows') /\ api'.load = Null /\ api.load = Null
        /\ UNCHANGED <<now, chan, tenantOn, ruleLive, recent, worker>>
    BY <1>2, PublishFacts
  <2>2. DOMAIN rows' = 1 .. Len(rows') /\ Len(rows') \in Nat /\ Len(rows) \in Nat
    BY <2>1, ShapeRows, EnqueueKeeps
  <2>3. api' \in [todo : SUBSET (DOMAIN rows'), load : LoadRec \cup {Null}]
    BY <1>0, <2>1, <2>2
  <2> QED
    BY <1>0, <2>1, <2>3 DEF Publishes
<1>3. ASSUME NEW job \in worker.todo, Summarise(job), ~UNCHANGED <<events, rows, ghost>>
      PROVE  /\ Publishes(job.rule, "rollup", RuleOf[job.rule], job.idx, job.covers)
             /\ job \in JobRec /\ RuleOf[job.rule] \in Tenants
  <2>1. /\ job \in JobRec /\ RuleOf[job.rule] \in Tenants
        /\ worker' = [worker EXCEPT !.todo = @ \ {job}] /\ worker' \in WorkerRec
        /\ UNCHANGED <<now, chan, tenantOn, ruleLive, recent, api>>
        /\ Enqueued(job.rule, "rollup", RuleOf[job.rule], job.idx, job.covers)
    BY <1>3, SummariseFacts
  <2>2. DOMAIN rows \subseteq DOMAIN rows'
    BY <2>1, EnqueueKeeps DEF Kept
  <2>3. job = [rule |-> job.rule, idx |-> job.idx, covers |-> job.covers] /\ job.rule \in Rules
    BY <2>1 DEF JobRec
  <2>4. /\ worker'.load = worker.load /\ worker'.queue = worker.queue
        /\ worker'.batch = worker.batch /\ worker'.phase = worker.phase
        /\ worker'.todo \subseteq worker.todo
    BY <1>0, <2>1 DEF WorkerRec
  <2> QED
    BY <1>0, <1>3, <2>1, <2>2, <2>3, <2>4 DEF Publishes
<1> QED
  <2>1. ASSUME NEW job \in JobRec PROVE job.rule \in Rules /\ job.idx \in Int /\ job.covers \in SUBSET Nat
    BY DEF JobRec
  <2> QED
    BY <1>1, <1>2, <1>3, <2>1

\* A send of the worker.
WorkerSends(outcome) ==
    /\ worker.load # Null /\ worker.load.row \in DOMAIN rows /\ Attempted(worker.load, outcome)
    /\ worker' \in WorkerRec /\ worker'.load = Null /\ worker'.queue = worker.queue
    /\ worker'.batch = worker.batch /\ worker'.phase = worker.phase /\ worker'.todo = worker.todo
    /\ UNCHANGED <<now, events, chan, tenantOn, ruleLive, api>>

\* A send of a manual publish.
ManualSends(outcome) ==
    /\ api.load # Null /\ api.load.row \in DOMAIN rows /\ Attempted(api.load, outcome)
    /\ api'.load = Null /\ api'.todo = api.todo
    /\ api' \in [todo : SUBSET (DOMAIN rows), load : LoadRec \cup {Null}]
    /\ UNCHANGED <<now, events, chan, tenantOn, ruleLive, worker>>

\* The worker's send is an attempt of the row it has loaded.
LEMMA WorkerSendFacts ==
  ASSUME Shape, WorkInv, NEW outcome, WorkerSend(outcome)
  PROVE  WorkerSends(outcome) /\ worker.load \in LoadRec
<1>1. worker.load # Null /\ worker \in WorkerRec
  BY DEF WorkerSend, Shape
<1>2. worker.load \in LoadRec /\ worker.load.row \in DOMAIN rows
  BY <1>1 DEF WorkInv, Open, WorkerRec
<1>3. PICK l \in LoadRec : l = worker.load
  BY <1>2
<1>4. Attempted(l, outcome)
  BY <1>2, <1>3, AttemptFacts DEF WorkerSend
<1>5. /\ worker' \in WorkerRec /\ worker'.load = Null /\ worker'.queue = worker.queue
      /\ worker'.batch = worker.batch /\ worker'.phase = worker.phase /\ worker'.todo = worker.todo
  BY <1>1 DEF WorkerSend, WorkerRec
<1> QED
  BY <1>1, <1>2, <1>3, <1>4, <1>5 DEF WorkerSend, WorkerSends

\* A manual send is an attempt of the row it has loaded.
LEMMA ManualSendFacts ==
  ASSUME Shape, ApiInv, NEW outcome, ManualSend(outcome)
  PROVE  ManualSends(outcome) /\ api.load \in LoadRec
<1>1. api.load # Null /\ api \in [todo : SUBSET (DOMAIN rows), load : LoadRec \cup {Null}]
  BY DEF ManualSend, Shape
<1>2. api.load \in LoadRec /\ api.load.row \in DOMAIN rows
  BY <1>1 DEF ApiInv
<1>3. PICK l \in LoadRec : l = api.load
  BY <1>2
<1>4. Attempted(l, outcome)
  BY <1>2, <1>3, AttemptFacts DEF ManualSend
<1>5. /\ api'.load = Null /\ api'.todo = api.todo
      /\ api' \in [todo : SUBSET (DOMAIN rows), load : LoadRec \cup {Null}]
  BY <1>1 DEF ManualSend
<1> QED
  BY <1>1, <1>2, <1>3, <1>4, <1>5 DEF ManualSend, ManualSends

\* The API takes up a delivery it published.
LEMMA ManualLoadFacts ==
  ASSUME Shape, NEW d \in api.todo, ManualLoad(d)
  PROVE  /\ d \in DOMAIN rows /\ api'.todo = api.todo \ {d}
         /\ api'.load = IF rows[d].status = "delivered" THEN Null ELSE LoadOf(d)
         /\ api' \in [todo : SUBSET (DOMAIN rows), load : LoadRec \cup {Null}]
         /\ UNCHANGED <<now, events, rows, chan, tenantOn, ruleLive, recent, worker, ghost>>
<1>1. d \in DOMAIN rows /\ api.todo \in SUBSET (DOMAIN rows)
  BY DEF Shape
<1>2. PICK load : load = IF rows[d].status = "delivered" THEN Null ELSE LoadOf(d)
  OBVIOUS
<1>3. load \in LoadRec \cup {Null}
  BY <1>1, <1>2, LoadShape
<1>4. api' = [todo |-> api.todo \ {d}, load |-> load]
  BY <1>2 DEF ManualLoad
<1> QED
  BY <1>1, <1>2, <1>3, <1>4 DEF ManualLoad

\* A crash empties the worker's hands; what it was sending may have gone out.
Crashes ==
    /\ worker' \in WorkerRec /\ worker'.load = Null /\ worker'.queue = {} /\ worker'.todo = {}
    /\ worker'.phase = "rules"
    /\ ghost' \in [accepted : Seq(Nat), failures : Seq(Nat), torn : SUBSET Nat]
    /\ Len(ghost'.accepted) = Len(rows) /\ Len(ghost'.failures) = Len(rows)
    /\ ghost'.failures = ghost.failures /\ ghost.torn \subseteq ghost'.torn
    /\ \/ ghost' = ghost
       \/ /\ worker.load # Null /\ worker.load.row \in DOMAIN rows /\ worker.load.ch \notin Stub
          /\ ghost'.torn = ghost.torn \cup {worker.load.row}
          /\ ghost'.accepted[worker.load.row] = ghost.accepted[worker.load.row] + 1
          /\ \A d \in DOMAIN rows : d # worker.load.row => ghost'.accepted[d] = ghost.accepted[d]
    /\ UNCHANGED <<now, events, rows, chan, tenantOn, ruleLive, recent, api>>

\* A crash forgets the tick and at most leaves a send accepted and unrecorded.
LEMMA CrashFacts ==
  ASSUME Shape, WorkInv, NEW accepted \in BOOLEAN, Crash(accepted)
  PROVE  Crashes
<1>0. /\ ghost \in [accepted : Seq(Nat), failures : Seq(Nat), torn : SUBSET Nat]
      /\ Len(ghost.accepted) = Len(rows) /\ Len(ghost.failures) = Len(rows)
      /\ worker \in WorkerRec /\ DOMAIN rows = 1 .. Len(rows) /\ Len(rows) \in Nat
  BY ShapeRows DEF Shape
<1>1. worker' = Idle /\ UNCHANGED <<now, events, rows, chan, tenantOn, ruleLive, recent, api>>
  BY DEF Crash
<1>2. CASE ~accepted
  <2>1. ghost' = ghost
    BY <1>2 DEF Crash
  <2> QED
    BY <1>0, <1>1, <2>1, IdleShape DEF Idle, Crashes
<1>3. CASE accepted
  <2>1. worker.load # Null /\ "ok" \in Outcomes(worker.load)
    BY <1>3 DEF Crash
  <2>2. worker.load.ch \notin Stub
    BY <2>1 DEF Outcomes
  <2>3. worker.load.row \in DOMAIN rows
    BY <2>1 DEF WorkInv, Open
  <2>4. PICK n \in Nat : n = worker.load.row
    BY <1>0, <2>3
  <2>5. ghost' = [ghost EXCEPT !.accepted[n] = @ + 1, !.torn = @ \cup {n}]
    BY <1>3, <2>4 DEF Crash
  <2>6. /\ ghost'.accepted = [ghost.accepted EXCEPT ![n] = @ + 1]
        /\ ghost'.torn = ghost.torn \cup {n} /\ ghost'.failures = ghost.failures
    BY <1>0, <2>5
  <2>7. [ghost.accepted EXCEPT ![n] = @ + 1] \in Seq(Nat) /\ n \in 1 .. Len(ghost.accepted)
    BY <1>0, <2>3, <2>4, HistoryCounted
  <2>8. ghost' \in [accepted : Seq(Nat), failures : Seq(Nat), torn : SUBSET Nat]
    BY <1>0, <2>5, <2>6, <2>7
  <2>9. /\ Len(ghost'.accepted) = Len(rows) /\ ghost'.accepted[n] = ghost.accepted[n] + 1
        /\ \A d \in DOMAIN rows : d # n => ghost'.accepted[d] = ghost.accepted[d]
    BY <1>0, <2>6, <2>7
  <2> QED
    BY <1>0, <1>1, <2>1, <2>2, <2>3, <2>4, <2>6, <2>8, <2>9, IdleShape DEF Idle, Crashes
<1> QED
  BY <1>2, <1>3

\* Every step, by what it does to the outbox.
LEMMA StepCases ==
  ASSUME Shape, WorkInv, ApiInv, [Next]_vars
  PROVE  \/ Calm
         \/ \E r \in Rules \cup {Null}, kind \in {"alert", "rollup", "manual"}, t \in Tenants,
               idx \in Int \cup {Null}, covers \in SUBSET Nat : Publishes(r, kind, t, idx, covers)
         \/ \E outcome : WorkerSends(outcome) /\ worker.load \in LoadRec
         \/ \E outcome : ManualSends(outcome) /\ api.load \in LoadRec
         \/ Claim \/ WorkerLoad \/ Crashes
         \/ \E d \in api.todo : ManualLoad(d)
         \/ \E c \in Channels : DeleteChannel(c)
         \/ \E d \in DOMAIN rows : Elapse(d)
<1>1. \/ StartRollup \/ EndTick \/ Pass \/ UNCHANGED vars
      \/ \E c \in Channels : DisableChannel(c)
      \/ \E t \in Tenants : SwitchTenant(t)
      \/ \E r \in Rules : DeleteRule(r)
      \/ \E job \in worker.todo : Summarise(job)
      \/ \E r \in Rules : Alert(r)
      \/ \E t \in Tenants : ManualPublish(t)
      \/ \E outcome : WorkerSend(outcome)
      \/ \E outcome : ManualSend(outcome)
      \/ Claim \/ WorkerLoad
      \/ \E accepted \in BOOLEAN : Crash(accepted)
      \/ \E d \in api.todo : ManualLoad(d)
      \/ \E c \in Channels : DeleteChannel(c)
      \/ \E d \in DOMAIN rows : Elapse(d)
  BY DEF Next, Worker, Api, People
<1>2. \/ StartRollup \/ EndTick \/ Pass \/ UNCHANGED vars
      \/ \E c \in Channels : DisableChannel(c)
      \/ \E t \in Tenants : SwitchTenant(t)
      \/ \E r \in Rules : DeleteRule(r)
      \/ \E job \in worker.todo : Summarise(job) /\ UNCHANGED <<events, rows, ghost>>
      => Calm
  BY CalmSteps
<1>3. \/ \E r \in Rules : Alert(r)
      \/ \E t \in Tenants : ManualPublish(t)
      \/ \E job \in worker.todo : Summarise(job) /\ ~UNCHANGED <<events, rows, ghost>>
      => \E r \in Rules \cup {Null}, kind \in {"alert", "rollup", "manual"}, t \in Tenants,
            idx \in Int \cup {Null}, covers \in SUBSET Nat : Publishes(r, kind, t, idx, covers)
  BY PublishingSteps
<1>4. (\E outcome : WorkerSend(outcome)) => \E outcome : WorkerSends(outcome) /\ worker.load \in LoadRec
  BY WorkerSendFacts
<1>5. (\E outcome : ManualSend(outcome)) => \E outcome : ManualSends(outcome) /\ api.load \in LoadRec
  BY ManualSendFacts
<1>6. (\E accepted \in BOOLEAN : Crash(accepted)) => Crashes
  BY CrashFacts
<1> QED
  BY <1>1, <1>2, <1>3, <1>4, <1>5, <1>6

\* Every step keeps the shape of the tables.
LEMMA ShapeNext ==
  ASSUME Shape, WorkInv, ApiInv, [Next]_vars
  PROVE  Shape'
<1>0. /\ worker \in WorkerRec /\ now \in 0 .. MaxTime
      /\ chan \in [Channels -> {"on", "off", "gone"}] /\ tenantOn \in [Tenants -> BOOLEAN]
      /\ ruleLive \subseteq Rules /\ recent \in [Channels -> SUBSET (DOMAIN rows)]
      /\ api \in [todo : SUBSET (DOMAIN rows), load : LoadRec \cup {Null}]
      /\ ghost \in [accepted : Seq(Nat), failures : Seq(Nat), torn : SUBSET Nat]
      /\ Len(ghost.accepted) = Len(rows) /\ Len(ghost.failures) = Len(rows)
  BY DEF Shape
<1>1. CASE Calm
  <2>1. Quiet
    BY <1>1, QuietFacts DEF Calm
  <2> QED
    BY <1>0, <1>1, <2>1, ShapeQuiet DEF Calm
<1>2. ASSUME NEW r \in Rules \cup {Null}, NEW kind \in {"alert", "rollup", "manual"},
             NEW t \in Tenants, NEW idx \in Int \cup {Null}, NEW covers \in SUBSET Nat,
             Publishes(r, kind, t, idx, covers)
      PROVE  Shape'
  BY <1>2, ShapeEnqueued DEF Publishes
<1>3. ASSUME NEW outcome, WorkerSends(outcome), worker.load \in LoadRec PROVE Shape'
  <2>1. PICK l \in LoadRec : l = worker.load
    BY <1>3
  <2> QED
    BY <1>0, <1>3, <2>1, ShapeAttempted DEF WorkerSends
<1>4. ASSUME NEW outcome, ManualSends(outcome), api.load \in LoadRec PROVE Shape'
  <2>1. PICK l \in LoadRec : l = api.load
    BY <1>4
  <2> QED
    BY <1>0, <1>4, <2>1, ShapeAttempted DEF ManualSends
<1>5. CASE Claim
  <2>1. Quiet
    BY <1>5, QuietFacts
  <2>2. worker' \in WorkerRec /\ UNCHANGED <<now, events, chan, tenantOn, ruleLive, recent, api, ghost>>
    BY <1>5, ClaimFacts
  <2> QED
    BY <1>0, <2>1, <2>2, ShapeQuiet
<1>6. CASE WorkerLoad
  <2>1. /\ worker' \in WorkerRec
        /\ UNCHANGED <<now, events, rows, chan, tenantOn, ruleLive, recent, api, ghost>>
    BY <1>6, WorkerLoadFacts
  <2>2. Quiet
    BY <2>1, QuietFacts
  <2> QED
    BY <1>0, <2>1, <2>2, ShapeQuiet
<1>7. CASE Crashes
  <2>1. Quiet
    BY <1>7, QuietFacts DEF Crashes
  <2> QED
    BY <1>0, <1>7, <2>1, ShapeQuiet DEF Crashes
<1>8. ASSUME NEW d \in api.todo, ManualLoad(d) PROVE Shape'
  <2>1. /\ api' \in [todo : SUBSET (DOMAIN rows), load : LoadRec \cup {Null}]
        /\ UNCHANGED <<now, events, rows, chan, tenantOn, ruleLive, recent, worker, ghost>>
    BY <1>8, ManualLoadFacts
  <2>2. Quiet
    BY <2>1, QuietFacts
  <2> QED
    BY <1>0, <2>1, <2>2, ShapeQuiet
<1>9. ASSUME NEW c \in Channels, DeleteChannel(c) PROVE Shape'
  <2>1. Quiet
    BY <1>9, QuietFacts
  <2>2. /\ chan' \in [Channels -> {"on", "off", "gone"}]
        /\ UNCHANGED <<now, events, tenantOn, ruleLive, recent, worker, api, ghost>>
    BY <1>0, <1>9 DEF DeleteChannel
  <2> QED
    BY <1>0, <2>1, <2>2, ShapeQuiet
<1>10. ASSUME NEW d \in DOMAIN rows, Elapse(d) PROVE Shape'
  <2>1. Quiet
    BY <1>10, QuietFacts
  <2>2. /\ recent' \in [Channels -> SUBSET (DOMAIN rows)]
        /\ UNCHANGED <<now, events, chan, tenantOn, ruleLive, worker, api, ghost>>
    BY <1>0, <1>10 DEF Elapse
  <2> QED
    BY <1>0, <2>1, <2>2, ShapeQuiet
<1> QED
  BY <1>1, <1>2, <1>3, <1>4, <1>5, <1>6, <1>7, <1>8, <1>9, <1>10, StepCases

-----------------------------------------------------------------------------
(* What is in hand, and what each row records.                             *)

\* Whose a new row is.
LEMMA FreshRows ==
  ASSUME Shape, NEW r, NEW kind, NEW t, NEW idx, NEW covers, Enqueued(r, kind, t, idx, covers)
  PROVE  \A d \in DOMAIN rows' \ DOMAIN rows :
            /\ d \in Len(rows) + 1 .. Len(rows') /\ rows'[d].status = StatusFor(r, kind)
            /\ rows'[d].attempts = 0 /\ ghost'.accepted[d] = 0 /\ ghost'.failures[d] = 0
            /\ rows'[d].ev = Len(events) + 1 /\ (Manual(d)' <=> kind = "manual")
<1>1. /\ DOMAIN rows' = 1 .. Len(rows') /\ Len(rows') \in Nat /\ Len(rows) <= Len(rows')
      /\ DOMAIN rows = 1 .. Len(rows) /\ Len(rows) \in Nat
  BY ShapeRows, EnqueueKeeps
<1>2. \A d \in DOMAIN rows' \ DOMAIN rows : d \in Len(rows) + 1 .. Len(rows')
  BY <1>1
<1>3. events'[Len(events) + 1].kind = kind
  BY DEF Enqueued
<1> QED
  BY <1>2, <1>3 DEF Enqueued, Manual

\* A row that keeps its status stays open.
LEMMA OpenStays ==
  ASSUME Shape, Kept, NEW d, Open(d), rows'[d].status = rows[d].status
  PROVE  Open(d)'
<1>1. d \in DOMAIN rows /\ d \in DOMAIN rows' /\ (Manual(d)' <=> Manual(d))
  BY OriginStays DEF Open, Kept
<1> QED
  BY <1>1 DEF Open

\* Nothing the worker holds is touched by a step of somebody else.
LEMMA WorkStays ==
  ASSUME Shape, WorkInv, Kept, worker' \in WorkerRec,
         worker'.load = worker.load, worker'.queue = worker.queue,
         worker'.batch = worker.batch \/ worker.queue = {},
         worker'.phase = worker.phase \/ (worker.queue = {} /\ worker.load = Null),
         \A d \in DOMAIN rows : \/ Manual(d) /\ rows'[d].status # "suppressed"
                                \/ /\ rows'[d].status = rows[d].status
                                   /\ rows'[d].attempts = rows[d].attempts
                                   /\ ghost'.accepted[d] = ghost.accepted[d]
  PROVE  WorkInv'
<1>1. \A d : Open(d) => Open(d)' /\ d \in DOMAIN rows
  <2> SUFFICES ASSUME NEW d, Open(d) PROVE Open(d)' /\ d \in DOMAIN rows
    OBVIOUS
  <2>1. d \in DOMAIN rows
    BY DEF Open
  <2>2. CASE rows'[d].status = rows[d].status
    BY <2>1, <2>2, OpenStays
  <2>3. CASE Manual(d) /\ rows'[d].status # "suppressed"
    BY <2>1, <2>3, OriginStays DEF Open, Kept
  <2> QED
    BY <2>1, <2>2, <2>3
<1>2. worker'.phase # "send" => worker'.queue = {} /\ worker'.load = Null
  BY DEF WorkInv
<1>3. /\ worker'.queue \subseteq DOMAIN worker'.batch
      /\ \A i, j \in worker'.queue : worker'.batch[i] = worker'.batch[j] => i = j
      /\ (\A i \in worker.queue : Open(worker.batch[i]))'
  <2>1. /\ worker'.queue \subseteq DOMAIN worker'.batch
        /\ \A i, j \in worker'.queue : worker'.batch[i] = worker'.batch[j] => i = j
    BY DEF WorkInv
  <2>2. ASSUME NEW i \in worker'.queue PROVE Open(worker.batch[i])'
    <3>1. PICK n : n = worker.batch[i]
      OBVIOUS
    <3>2. Open(n)' /\ worker'.batch[i] = n
      BY <1>1, <2>2, <3>1 DEF WorkInv
    <3> QED
      BY <3>2 DEF Open, Manual
  <2> QED
    BY <2>1, <2>2
<1>4. ASSUME worker'.load # Null
      PROVE  /\ Open(worker.load.row)'
             /\ \A i \in worker'.queue : worker'.batch[i] # worker'.load.row
             /\ rows'[worker'.load.row].ch \in {worker'.load.ch, Null}
             /\ ~Manual(worker.load.row)' =>
                   /\ worker'.load.attempts = rows'[worker'.load.row].attempts
                   /\ worker'.load.ch \in Stub => ghost'.accepted[worker'.load.row] = 0
  <2>1. PICK n : n = worker.load.row
    OBVIOUS
  <2>2. /\ Open(n) /\ Open(n)' /\ n \in DOMAIN rows
        /\ \A i \in worker.queue : worker.batch[i] # n
        /\ rows[n].ch \in {worker.load.ch, Null}
        /\ ~Manual(n) => /\ worker.load.attempts = rows[n].attempts
                         /\ worker.load.ch \in Stub => ghost.accepted[n] = 0
    BY <1>1, <1>4, <2>1 DEF WorkInv
  <2>3. rows'[n].ch \in {rows[n].ch, Null} /\ (Manual(n)' <=> Manual(n))
    BY <2>2, OriginStays DEF Kept
  <2>4. worker'.load.row = n /\ worker'.load.ch = worker.load.ch /\ worker'.load.attempts = worker.load.attempts
    BY <2>1
  <2>5. \A i \in worker'.queue : worker'.batch[i] # n
    BY <2>2
  <2>6. ~Manual(n)' => /\ worker'.load.attempts = rows'[n].attempts
                       /\ worker'.load.ch \in Stub => ghost'.accepted[n] = 0
    BY <2>2, <2>3, <2>4
  <2>7. /\ Open(worker.load.row)'
        /\ ~Manual(worker.load.row)' => ~Manual(n)'
    BY <2>2, <2>4 DEF Open, Manual
  <2> QED
    BY <2>2, <2>3, <2>4, <2>5, <2>6, <2>7
<1> QED
  BY <1>2, <1>3, <1>4 DEF WorkInv

\* The API's side.
LEMMA ApiStays ==
  ASSUME Shape, ApiInv, Kept, DOMAIN rows' = DOMAIN rows,
         api'.todo \subseteq api.todo,
         api'.load = api.load \/ api'.load = Null
           \/ (api'.load.row \in DOMAIN rows /\ Manual(api'.load.row)),
         \A d \in DOMAIN rows : Manual(d) => rows'[d].status # "suppressed"
  PROVE  ApiInv'
<1>1. \A d \in DOMAIN rows : Manual(d)' <=> Manual(d)
  BY OriginStays
<1>2. \A d \in api'.todo : Manual(d)'
  BY <1>1 DEF ApiInv, Shape
<1>3. api'.load # Null => api'.load.row \in DOMAIN rows /\ Manual(api'.load.row)
  BY DEF ApiInv
<1>4. ASSUME api'.load # Null PROVE api'.load.row \in DOMAIN rows' /\ Manual(api.load.row)'
  <2>1. PICK n \in DOMAIN rows : n = api'.load.row
    BY <1>3, <1>4
  <2> QED
    BY <1>1, <1>3, <1>4, <2>1 DEF Manual
<1> QED
  BY <1>1, <1>2, <1>4 DEF ApiInv

\* What a row records.
RowOf(d) ==
    ~Manual(d) =>
        /\ rows[d].attempts = ghost.failures[d] /\ rows[d].attempts <= MaxAttempts
        /\ rows[d].status \in {"pending", "failed"} => rows[d].attempts < MaxAttempts
        /\ d \notin ghost.torn =>
              ghost.accepted[d] = IF rows[d].status = "delivered" THEN 1 ELSE 0
        /\ rows[d].status = "suppressed" => ghost.accepted[d] = 0
        /\ rows[d].status = "delivered" => ghost.accepted[d] > 0
        /\ rows[d].status = "dead" => \/ rows[d].attempts = MaxAttempts
                                      \/ ghost.failures[d] > 0 /\ ghost.accepted[d] = 0
        /\ ghost.accepted[d] > 0 => rows[d].ch \notin Stub

\* A row whose status, count and history did not change keeps its invariant.
LEMMA RowStays ==
  ASSUME Shape, RowInv, Kept, NEW d \in DOMAIN rows,
         \/ Manual(d)
         \/ /\ rows'[d].status = rows[d].status /\ rows'[d].attempts = rows[d].attempts
            /\ ghost'.accepted[d] = ghost.accepted[d] /\ ghost'.failures[d] = ghost.failures[d]
            /\ ghost.torn \subseteq ghost'.torn
  PROVE  RowOf(d)'
<1>1. RowOf(d)
  BY DEF RowInv, RowOf
<1>2. (Manual(d)' <=> Manual(d)) /\ rows'[d].ch \in {rows[d].ch, Null} /\ Null \notin Stub
  BY OriginStays, ConstantsAssumption DEF Kept
<1> QED
  BY <1>1, <1>2 DEF RowOf

\* The parts of the invariant the work needs, together.
Books == Shape /\ WorkInv /\ ApiInv /\ RowInv

\* No step changes what a row or an event is for ever.
LEMMA KeptNext ==
  ASSUME Books, [Next]_vars
  PROVE  Kept
<1>0. Shape /\ WorkInv /\ ApiInv
  BY DEF Books
<1>1. CASE Calm \/ Claim \/ Crashes \/ WorkerLoad \/ (\E d \in api.todo : ManualLoad(d))
             \/ (\E c \in Channels : DeleteChannel(c)) \/ \E d \in DOMAIN rows : Elapse(d)
  <2>1. WorkerLoad => UNCHANGED <<events, rows>>
    BY DEF WorkerLoad
  <2>2. (\E d \in api.todo : ManualLoad(d)) => UNCHANGED <<events, rows>>
    BY DEF ManualLoad
  <2> QED
    BY <1>0, <1>1, <2>1, <2>2, QuietFacts, QuietKeeps DEF Calm, Crashes
<1>2. ASSUME NEW r \in Rules \cup {Null}, NEW kind \in {"alert", "rollup", "manual"},
             NEW t \in Tenants, NEW idx \in Int \cup {Null}, NEW covers \in SUBSET Nat,
             Publishes(r, kind, t, idx, covers)
      PROVE  Kept
  BY <1>0, <1>2, EnqueueKeeps DEF Publishes
<1>3. ASSUME NEW l \in LoadRec, l.row \in DOMAIN rows, NEW outcome, Attempted(l, outcome), events' = events
      PROVE  Kept
  BY <1>0, <1>3, AttemptKeeps
<1> QED
  BY <1>0, <1>1, <1>2, <1>3, StepCases DEF WorkerSends, ManualSends

\* Every step keeps what the worker's tick and the rows say of each other.
LEMMA WorkNext ==
  ASSUME Books, [Next]_vars
  PROVE  WorkInv'
<1>0. /\ Shape /\ WorkInv /\ ApiInv /\ RowInv /\ Kept /\ worker \in WorkerRec
      /\ DOMAIN rows = 1 .. Len(rows) /\ Len(rows) \in Nat
  BY KeptNext, ShapeRows DEF Books, Shape
<1>1. CASE Calm
  BY <1>0, <1>1, WorkStays DEF Calm
<1>2. ASSUME NEW r \in Rules \cup {Null}, NEW kind \in {"alert", "rollup", "manual"},
             NEW t \in Tenants, NEW idx \in Int \cup {Null}, NEW covers \in SUBSET Nat,
             Publishes(r, kind, t, idx, covers)
      PROVE  WorkInv'
  <2>1. \A d \in DOMAIN rows : /\ rows'[d].status = rows[d].status
                               /\ rows'[d].attempts = rows[d].attempts
                               /\ ghost'.accepted[d] = ghost.accepted[d]
    BY <1>0, <1>2 DEF Publishes, Enqueued
  <2> QED
    BY <1>0, <1>2, <2>1, WorkStays DEF Publishes
<1>3. ASSUME NEW outcome, WorkerSends(outcome), worker.load \in LoadRec PROVE WorkInv'
  <2>1. PICK l \in LoadRec : l = worker.load
    BY <1>3
  <2>2. \A d \in DOMAIN rows : d # l.row => rows'[d].status = rows[d].status
    BY <1>0, <1>3, <2>1 DEF WorkerSends, Attempted
  <2>3. /\ worker'.queue = worker.queue /\ worker'.batch = worker.batch
        /\ worker'.phase = worker.phase /\ worker'.load = Null
    BY <1>3 DEF WorkerSends
  <2>4. ASSUME NEW i \in worker.queue PROVE Open(worker.batch[i])'
    <3>1. PICK n : n = worker.batch[i]
      OBVIOUS
    <3>2. Open(n) /\ n # l.row
      BY <1>0, <1>3, <2>1, <3>1 DEF WorkInv, WorkerSends
    <3>3. Open(n)'
      BY <1>0, <2>2, <3>2, OpenStays DEF Open
    <3> QED
      BY <2>3, <3>1, <3>3 DEF Open, Manual
  <2>5. (\A i \in worker.queue : Open(worker.batch[i]))'
    BY <2>3, <2>4
  <2> QED
    BY <1>0, <2>3, <2>5 DEF WorkInv
<1>4. ASSUME NEW outcome, ManualSends(outcome), api.load \in LoadRec PROVE WorkInv'
  <2>1. PICK l \in LoadRec : l = api.load
    BY <1>4
  <2>2. /\ Attempted(l, outcome) /\ l.row \in DOMAIN rows /\ Manual(l.row) /\ worker' = worker
        /\ rows[l.row].status # "suppressed"
    BY <1>0, <1>4, <2>1 DEF ManualSends, ApiInv
  <2>3. rows'[l.row].status # "suppressed"
    BY <2>2 DEF Attempted
  <2>4. \A d \in DOMAIN rows : \/ Manual(d) /\ rows'[d].status # "suppressed"
                               \/ /\ rows'[d].status = rows[d].status
                                  /\ rows'[d].attempts = rows[d].attempts
                                  /\ ghost'.accepted[d] = ghost.accepted[d]
    BY <1>0, <2>2, <2>3 DEF Attempted
  <2> QED
    BY <1>0, <2>2, <2>4, WorkStays
<1>5. CASE Claim
  <2>1. PICK selected \in RoundRobin(Due) :
            /\ worker'.batch = selected /\ worker'.queue = Spend(selected)
            /\ worker'.phase = "send" /\ worker'.load = worker.load
            /\ worker.phase = "rollup" /\ Spend(selected) \subseteq DOMAIN selected
    BY <1>0, <1>5, ClaimFacts
  <2>2. /\ \A i \in DOMAIN selected : selected[i] \in Due
        /\ \A i, j \in DOMAIN selected : selected[i] = selected[j] => i = j
        /\ Due \subseteq DOMAIN rows
    BY <1>0, BatchShape
  <2>3. worker'.load = Null
    BY <1>0, <2>1 DEF WorkInv
  <2>4. Quiet
    BY <1>0, <1>5, QuietFacts
  <2>5. ASSUME NEW i \in worker'.queue PROVE Open(worker.batch[i])'
    <3>1. PICK n \in Due : n = selected[i]
      BY <2>1, <2>2, <2>5
    <3>2. Open(n) /\ rows'[n].status = rows[n].status
      BY <1>0, <2>2, <2>4 DEF Due, Claimable, Open, Quiet
    <3>3. Open(n)' /\ worker'.batch[i] = n
      BY <1>0, <2>1, <3>1, <3>2, OpenStays
    <3> QED
      BY <3>3 DEF Open, Manual
  <2>6. (\A i \in worker.queue : Open(worker.batch[i]))'
    BY <2>5
  <2>7. /\ worker'.queue \subseteq DOMAIN worker'.batch
        /\ \A i, j \in worker'.queue : worker'.batch[i] = worker'.batch[j] => i = j
    BY <2>1, <2>2
  <2> QED
    BY <2>1, <2>3, <2>6, <2>7 DEF WorkInv
<1>6. CASE WorkerLoad
  <2>0. UNCHANGED <<events, rows, ghost>>
    BY <1>6 DEF WorkerLoad
  <2>1. PICK i \in worker.queue, d \in DOMAIN rows :
            /\ d = worker.batch[i]
            /\ worker'.queue = worker.queue \ {i} /\ worker'.batch = worker.batch
            /\ worker'.phase = "send"
            /\ worker'.load = IF rows[d].status = "delivered" THEN Null ELSE LoadOf(d)
    BY <1>0, <1>6, WorkerLoadFacts
  <2>2. Open(d) /\ \A j \in worker.queue \ {i} : worker.batch[j] # d
    BY <1>0, <2>1 DEF WorkInv
  <2>3. \A n : (Open(n)' <=> Open(n)) /\ (Manual(n)' <=> Manual(n))
    BY <2>0 DEF Open, Manual
  <2>4. /\ worker'.queue \subseteq DOMAIN worker'.batch
        /\ \A a, b \in worker'.queue : worker'.batch[a] = worker'.batch[b] => a = b
    BY <1>0, <2>1 DEF WorkInv
  <2>5. (\A a \in worker.queue : Open(worker.batch[a]))'
    BY <1>0, <2>0, <2>1 DEF WorkInv, Open, Manual
  <2>6. ASSUME worker'.load # Null
        PROVE  /\ Open(worker.load.row)'
               /\ \A a \in worker'.queue : worker'.batch[a] # worker'.load.row
               /\ rows'[worker'.load.row].ch \in {worker'.load.ch, Null}
               /\ ~Manual(worker.load.row)' =>
                     /\ worker'.load.attempts = rows'[worker'.load.row].attempts
                     /\ worker'.load.ch \in Stub => ghost'.accepted[worker'.load.row] = 0
    <3>1. worker'.load.row = d /\ worker'.load.ch = rows[d].ch /\ worker'.load.attempts = rows[d].attempts
      BY <1>0, <2>1, <2>6, LoadShape
    <3>2. ~Manual(d) => (rows[d].ch \in Stub => ghost.accepted[d] = 0)
      <4>1. ghost.accepted[d] \in Nat
        BY <1>0 DEF Shape
      <4> QED
        BY <1>0, <4>1 DEF RowInv
    <3>3. Open(worker.load.row)' /\ (~Manual(worker.load.row)' => ~Manual(d))
      BY <2>0, <2>2, <3>1 DEF Open, Manual
    <3> QED
      BY <2>0, <2>1, <2>2, <3>1, <3>2, <3>3
  <2> QED
    BY <2>1, <2>4, <2>5, <2>6 DEF WorkInv
<1>7. CASE Crashes
  BY <1>7 DEF Crashes, WorkInv
<1>8. CASE UNCHANGED <<worker, ghost>> /\ Quiet
  BY <1>0, <1>8, WorkStays DEF Quiet
<1>9. ASSUME NEW d \in api.todo, ManualLoad(d) PROVE UNCHANGED <<worker, ghost>> /\ Quiet
  BY <1>0, <1>9, QuietFacts DEF ManualLoad
<1>10. ASSUME NEW c \in Channels, DeleteChannel(c) PROVE UNCHANGED <<worker, ghost>> /\ Quiet
  BY <1>0, <1>10, QuietFacts DEF DeleteChannel
<1>11. ASSUME NEW d \in DOMAIN rows, Elapse(d) PROVE UNCHANGED <<worker, ghost>> /\ Quiet
  BY <1>0, <1>11, QuietFacts DEF Elapse
<1> QED
  BY <1>0, <1>1, <1>2, <1>3, <1>4, <1>5, <1>6, <1>7, <1>8, <1>9, <1>10, <1>11, StepCases

\* Every step keeps what a manual publish and the rows say of each other.
LEMMA ApiNext ==
  ASSUME Books, [Next]_vars
  PROVE  ApiInv'
<1>0. /\ Shape /\ WorkInv /\ ApiInv /\ RowInv /\ Kept
      /\ DOMAIN rows = 1 .. Len(rows) /\ Len(rows) \in Nat
      /\ \A d \in DOMAIN rows : Manual(d) => rows[d].status # "suppressed"
  BY KeptNext, ShapeRows DEF Books, ApiInv
<1>1. CASE Quiet /\ api' = api
  BY <1>0, <1>1, ApiStays, QuietKeeps DEF Quiet
<1>2. ASSUME NEW r \in Rules \cup {Null}, NEW kind \in {"alert", "rollup", "manual"},
             NEW t \in Tenants, NEW idx \in Int \cup {Null}, NEW covers \in SUBSET Nat,
             Publishes(r, kind, t, idx, covers)
      PROVE  ApiInv'
  <2>0. Enqueued(r, kind, t, idx, covers)
    BY <1>2 DEF Publishes
  <2>1. DOMAIN rows' = 1 .. Len(rows') /\ Len(rows') \in Nat /\ Len(rows) <= Len(rows')
    BY <1>0, <2>0, EnqueueKeeps
  <2>2. \A d \in DOMAIN rows : (Manual(d)' <=> Manual(d)) /\ rows'[d] = rows[d] /\ d \in DOMAIN rows'
    BY <1>0, <2>0, OriginStays DEF Enqueued, Kept
  <2>3. \A d \in DOMAIN rows' \ DOMAIN rows :
           (Manual(d)' <=> kind = "manual") /\ rows'[d].status = StatusFor(r, kind)
    BY <1>0, <2>0, FreshRows
  <2>4. kind = "manual" => r = Null
    BY <1>2 DEF Publishes
  <2>5. kind = "manual" => StatusFor(r, kind) # "suppressed"
    BY <2>4 DEF StatusFor
  <2>6. \A d \in DOMAIN rows' : Manual(d)' => rows'[d].status # "suppressed"
    BY <1>0, <2>2, <2>3, <2>5
  <2>7. \A d \in api'.todo : Manual(d)'
    <3>1. CASE kind = "manual"
      <4>1. api'.todo = Len(rows) + 1 .. Len(rows')
        BY <1>2, <3>1 DEF Publishes
      <4>2. \A d \in api'.todo : d \in DOMAIN rows' \ DOMAIN rows
        BY <1>0, <2>1, <4>1
      <4> QED
        BY <2>3, <3>1, <4>2
    <3>2. CASE kind # "manual"
      BY <1>0, <1>2, <2>2, <3>2 DEF Publishes, ApiInv, Shape
    <3> QED
      BY <3>1, <3>2
  <2>8. api'.load # Null => api'.load.row \in DOMAIN rows' /\ Manual(api.load.row)'
    <3> SUFFICES ASSUME api'.load # Null PROVE api'.load.row \in DOMAIN rows' /\ Manual(api.load.row)'
      OBVIOUS
    <3>1. PICK n \in DOMAIN rows : n = api'.load.row /\ Manual(n)
      BY <1>0, <1>2 DEF Publishes, ApiInv
    <3> QED
      BY <2>2, <3>1 DEF Manual
  <2> QED
    BY <2>6, <2>7, <2>8 DEF ApiInv
<1>3. ASSUME NEW l \in LoadRec, l.row \in DOMAIN rows, NEW outcome, Attempted(l, outcome),
             events' = events, rows[l.row].status # "suppressed",
             api'.todo = api.todo, api'.load \in {api.load, Null}
      PROVE  ApiInv'
  <2>1. rows'[l.row].status # "suppressed"
    BY <1>3 DEF Attempted
  <2>2. \A d \in DOMAIN rows : Manual(d) => rows'[d].status # "suppressed"
    BY <1>0, <1>3, <2>1 DEF Attempted
  <2>3. DOMAIN rows' = DOMAIN rows
    BY <1>0, <1>3, AttemptKeeps
  <2> QED
    BY <1>0, <1>3, <2>2, <2>3, ApiStays
<1>4. ASSUME NEW outcome, WorkerSends(outcome), worker.load \in LoadRec PROVE ApiInv'
  <2>1. rows[worker.load.row].status # "suppressed"
    BY <1>0, <1>4 DEF WorkInv, Open, WorkerSends
  <2> QED
    BY <1>3, <1>4, <2>1 DEF WorkerSends
<1>5. ASSUME NEW outcome, ManualSends(outcome), api.load \in LoadRec PROVE ApiInv'
  <2>1. rows[api.load.row].status # "suppressed"
    BY <1>0, <1>5 DEF ApiInv, ManualSends
  <2> QED
    BY <1>3, <1>5, <2>1 DEF ManualSends
<1>6. ASSUME NEW d \in api.todo, ManualLoad(d) PROVE ApiInv'
  <2>1. /\ d \in DOMAIN rows /\ api'.todo = api.todo \ {d}
        /\ api'.load = IF rows[d].status = "delivered" THEN Null ELSE LoadOf(d)
        /\ UNCHANGED <<events, rows>>
    BY <1>0, <1>6, ManualLoadFacts
  <2>2. Manual(d)
    BY <1>0 DEF ApiInv
  <2>3. api'.load # Null => api'.load.row = d
    BY <1>0, <2>1, LoadShape
  <2> QED
    BY <1>0, <2>1, <2>2, <2>3, ApiStays
<1>7. Calm \/ Crashes \/ Claim \/ WorkerLoad \/ (\E c \in Channels : DeleteChannel(c))
        \/ (\E d \in DOMAIN rows : Elapse(d)) => Quiet /\ api' = api
  BY <1>0, QuietFacts DEF Calm, Crashes, Claim, WorkerLoad, DeleteChannel, Elapse
<1> QED
  BY <1>0, <1>1, <1>2, <1>4, <1>5, <1>6, <1>7, StepCases

\* Every step keeps the books of each row.
LEMMA RowNext ==
  ASSUME Books, [Next]_vars
  PROVE  RowInv'
<1>0. /\ Shape /\ WorkInv /\ ApiInv /\ RowInv /\ Kept
      /\ DOMAIN rows = 1 .. Len(rows) /\ Len(rows) \in Nat
  BY KeptNext, ShapeRows DEF Books
<1> SUFFICES \A d \in DOMAIN rows' : RowOf(d)'
  BY DEF RowInv, RowOf
<1>1. CASE Quiet /\ ghost' = ghost
  BY <1>0, <1>1, RowStays, QuietKeeps DEF Quiet
<1>2. ASSUME NEW r \in Rules \cup {Null}, NEW kind \in {"alert", "rollup", "manual"},
             NEW t \in Tenants, NEW idx \in Int \cup {Null}, NEW covers \in SUBSET Nat,
             Publishes(r, kind, t, idx, covers), NEW d \in DOMAIN rows'
      PROVE  RowOf(d)'
  <2>0. Enqueued(r, kind, t, idx, covers)
    BY <1>2 DEF Publishes
  <2>1. CASE d \in DOMAIN rows
    <3>1. /\ rows'[d] = rows[d] /\ ghost'.accepted[d] = ghost.accepted[d]
          /\ ghost'.failures[d] = ghost.failures[d] /\ ghost'.torn = ghost.torn
      BY <1>0, <2>0, <2>1 DEF Enqueued
    <3> QED
      BY <1>0, <2>1, <3>1, RowStays
  <2>2. CASE d \notin DOMAIN rows
    <3>1. /\ rows'[d].status = StatusFor(r, kind) /\ rows'[d].attempts = 0
          /\ ghost'.accepted[d] = 0 /\ ghost'.failures[d] = 0
      BY <1>0, <1>2, <2>0, <2>2, FreshRows
    <3>2. StatusFor(r, kind) \in {"pending", "suppressed"}
      BY DEF StatusFor
    <3> QED
      BY <3>1, <3>2, ConstantsAssumption DEF RowOf
  <2> QED
    BY <2>1, <2>2
<1>3. ASSUME NEW outcome, WorkerSends(outcome), worker.load \in LoadRec, NEW d \in DOMAIN rows'
      PROVE  RowOf(d)'
  <2>1. PICK l \in LoadRec : l = worker.load
    BY <1>3
  <2>2. Attempted(l, outcome) /\ l.row \in DOMAIN rows /\ events' = events
    BY <1>3, <2>1 DEF WorkerSends
  <2>3. DOMAIN rows' = DOMAIN rows
    BY <1>0, <2>2, AttemptKeeps
  <2>4. CASE d # l.row
    <3>1. /\ rows'[d] = rows[d] /\ ghost'.accepted[d] = ghost.accepted[d]
          /\ ghost'.failures[d] = ghost.failures[d] /\ ghost'.torn = ghost.torn
      BY <1>0, <1>3, <2>2, <2>3, <2>4 DEF Attempted
    <3> QED
      BY <1>0, <1>3, <2>3, <3>1, RowStays
  <2>5. CASE d = l.row /\ ~Manual(d)
    <3>1. /\ rows[d].status \in {"pending", "failed"} /\ rows[d].ch \in {l.ch, Null}
          /\ l.attempts = rows[d].attempts /\ (l.ch \in Stub => ghost.accepted[d] = 0)
      BY <1>0, <1>3, <2>1, <2>5 DEF WorkInv, Open, WorkerSends
    <3>2. RowOf(d)
      BY <1>0, <2>2, <2>5 DEF RowInv, RowOf
    <3>3. /\ rows[d].attempts \in Nat /\ ghost.failures[d] \in Nat /\ ghost.accepted[d] \in Nat
          /\ MaxAttempts \in Nat \ {0} /\ Null \notin Stub
      <4>1. rows[d] \in RowRec
        BY <1>0, <2>2, <2>5, ShapeRows
      <4>2. ghost.failures[d] \in Nat /\ ghost.accepted[d] \in Nat
        <5>1. /\ ghost.accepted \in Seq(Nat) /\ ghost.failures \in Seq(Nat)
              /\ Len(ghost.accepted) = Len(rows) /\ Len(ghost.failures) = Len(rows)
          BY <1>0 DEF Shape
        <5>2. d \in 1 .. Len(rows)
          BY <1>0, <2>2, <2>5
        <5> QED
          BY <5>1, <5>2
      <4> QED
        BY <4>1, <4>2, ConstantsAssumption DEF RowRec
    <3>4. rows'[d].ch = rows[d].ch /\ ghost'.torn = ghost.torn /\ (Manual(d)' <=> Manual(d))
      BY <1>0, <2>2, <2>5, OriginStays DEF Attempted
    <3>5. CASE outcome = "ok"
      <4>1. /\ rows'[d].status = "delivered" /\ rows'[d].attempts = rows[d].attempts /\ l.ch \notin Stub
            /\ ghost'.accepted[d] = ghost.accepted[d] + 1 /\ ghost'.failures[d] = ghost.failures[d]
        BY <2>2, <2>5, <3>3, <3>5 DEF Attempted, Counted
      <4> QED
        BY <2>5, <3>1, <3>2, <3>3, <3>4, <4>1 DEF RowOf
    <3>6. CASE outcome = "throttled"
      <4>1. /\ rows'[d].status = rows[d].status /\ rows'[d].attempts = rows[d].attempts
            /\ ghost'.accepted[d] = ghost.accepted[d] /\ ghost'.failures[d] = ghost.failures[d]
        BY <2>2, <2>5, <3>3, <3>6 DEF Attempted, Counted
      <4> QED
        BY <2>5, <3>1, <3>2, <3>3, <3>4, <4>1 DEF RowOf
    <3>7. CASE outcome \in {"refused", "error", "permanent"}
      <4>1. /\ rows'[d].status = IF Dies(outcome, rows[d].attempts + 1) THEN "dead" ELSE "failed"
            /\ rows'[d].attempts = rows[d].attempts + 1
            /\ ghost'.accepted[d] = ghost.accepted[d] /\ ghost'.failures[d] = ghost.failures[d] + 1
            /\ outcome = "permanent" => l.ch \in Stub
        BY <2>2, <2>5, <3>1, <3>3, <3>7 DEF Attempted, Counted
      <4>2. CASE rows'[d].status = "failed"
        BY <2>5, <3>1, <3>2, <3>3, <3>4, <3>7, <4>1, <4>2 DEF RowOf, Dies
      <4>3. CASE rows'[d].status = "dead"
        BY <2>5, <3>1, <3>2, <3>3, <3>4, <3>7, <4>1, <4>3 DEF RowOf, Dies
      <4> QED
        BY <4>1, <4>2, <4>3
    <3> QED
      BY <2>2, <3>5, <3>6, <3>7 DEF Attempted
  <2>6. CASE Manual(d)
    BY <1>0, <1>3, <2>3, <2>6, RowStays
  <2> QED
    BY <2>4, <2>5, <2>6
<1>4. ASSUME NEW outcome, ManualSends(outcome), api.load \in LoadRec, NEW d \in DOMAIN rows'
      PROVE  RowOf(d)'
  <2>1. PICK l \in LoadRec : l = api.load
    BY <1>4
  <2>2. Attempted(l, outcome) /\ l.row \in DOMAIN rows /\ events' = events /\ Manual(l.row)
    BY <1>0, <1>4, <2>1 DEF ManualSends, ApiInv
  <2>3. d \in DOMAIN rows
    BY <1>0, <1>4, <2>2, AttemptKeeps
  <2>4. CASE d # l.row
    <3>1. /\ rows'[d] = rows[d] /\ ghost'.accepted[d] = ghost.accepted[d]
          /\ ghost'.failures[d] = ghost.failures[d] /\ ghost'.torn = ghost.torn
      BY <1>0, <2>2, <2>3, <2>4 DEF Attempted
    <3> QED
      BY <1>0, <2>3, <3>1, RowStays
  <2> QED
    BY <1>0, <2>2, <2>3, <2>4, RowStays
<1>5. ASSUME Crashes, NEW d \in DOMAIN rows' PROVE RowOf(d)'
  <2>1. d \in DOMAIN rows /\ UNCHANGED <<events, rows>>
    BY <1>5 DEF Crashes
  <2>2. CASE ghost'.accepted[d] = ghost.accepted[d]
    BY <1>0, <1>5, <2>1, <2>2, RowStays DEF Crashes
  <2>3. CASE ghost'.accepted[d] # ghost.accepted[d]
    <3>1. /\ d = worker.load.row /\ worker.load # Null /\ worker.load.ch \notin Stub
          /\ d \in ghost'.torn /\ ghost'.accepted[d] = ghost.accepted[d] + 1
          /\ ghost'.failures[d] = ghost.failures[d]
      BY <1>5, <2>1, <2>3 DEF Crashes
    <3>2. Open(d) /\ rows[d].ch \in {worker.load.ch, Null} /\ Null \notin Stub
      BY <1>0, <3>1, ConstantsAssumption DEF WorkInv
    <3>3. RowOf(d) /\ (Manual(d)' <=> Manual(d))
      BY <1>0, <2>1, OriginStays DEF RowInv, RowOf
    <3> QED
      BY <2>1, <3>1, <3>2, <3>3 DEF RowOf, Open
  <2> QED
    BY <2>2, <2>3
<1>6. Calm \/ Claim \/ WorkerLoad \/ (\E d \in api.todo : ManualLoad(d))
        \/ (\E c \in Channels : DeleteChannel(c))
        \/ (\E d \in DOMAIN rows : Elapse(d)) => Quiet /\ ghost' = ghost
  BY <1>0, QuietFacts DEF Calm, ManualLoad, Claim, WorkerLoad, DeleteChannel, Elapse
<1> QED
  BY <1>0, <1>1, <1>2, <1>3, <1>4, <1>5, <1>6, StepCases

-----------------------------------------------------------------------------
(* The first theorems.                                                     *)

\* The books are in order at the start.
LEMMA BooksInit == Init => Books
<1> SUFFICES ASSUME Init PROVE Books
  OBVIOUS
<1>1. /\ events = <<>> /\ rows = <<>> /\ DOMAIN rows = {} /\ Len(rows) = 0
      /\ <<>> \in Seq(EventRec) /\ <<>> \in Seq(RowRec) /\ <<>> \in Seq(Nat)
      /\ ghost = [accepted |-> <<>>, failures |-> <<>>, torn |-> {}]
  BY DEF Init
<1>2. Shape
  <2>1. /\ now \in 0 .. MaxTime /\ ruleLive \subseteq Rules
        /\ chan \in [Channels -> {"on", "off", "gone"}] /\ tenantOn \in [Tenants -> BOOLEAN]
    BY ConstantsAssumption DEF Init
  <2>2. /\ recent \in [Channels -> SUBSET (DOMAIN rows)] /\ worker \in WorkerRec
        /\ api \in [todo : SUBSET (DOMAIN rows), load : LoadRec \cup {Null}]
    BY IdleShape DEF Init
  <2>3. /\ ghost \in [accepted : Seq(Nat), failures : Seq(Nat), torn : SUBSET Nat]
        /\ Len(ghost.accepted) = Len(rows) /\ Len(ghost.failures) = Len(rows)
    BY <1>1
  <2> QED
    BY <1>1, <2>1, <2>2, <2>3 DEF Shape
<1>3. WorkInv
  BY DEF Init, WorkInv, Idle
<1>4. ApiInv /\ RowInv
  BY <1>1 DEF Init, ApiInv, RowInv
<1> QED
  BY <1>2, <1>3, <1>4 DEF Books

\* Every step keeps the books in order.
LEMMA BooksNext == Books /\ [Next]_vars => Books'
  BY ShapeNext, WorkNext, ApiNext, RowNext DEF Books

\* What the books record holds for ever.
LEMMA BooksKept == Spec => []Books
<1> QED
  BY BooksInit, BooksNext, PTL DEF Spec

\* An alert goes out at most once: a delivery of a rule is accepted at most
\* once unless a crash fell between the send and its commit, and a suppressed
\* one never is (_send_one, _load_for_send, the lease of _claim_due).
THEOREM AlertsGoOutOnce == Spec => []AtMostOnce
<1>1. Books => AtMostOnce
  <2> SUFFICES ASSUME Books PROVE AtMostOnce
    OBVIOUS
  <2> QED
    BY DEF Books, RowInv, AtMostOnce
<1> QED
  BY <1>1, BooksKept, PTL

\* Only real failures count towards the dead letter of a rule's delivery: its
\* attempts are its failures, and a dead one spent them all or was refused for
\* good without ever being accepted (_record_failure, _record_throttled).
THEOREM DeadLettersAreEarned == Spec => []DeadIsEarned
<1>1. Books => DeadIsEarned
  <2> SUFFICES ASSUME Books PROVE DeadIsEarned
    OBVIOUS
  <2> QED
    BY DEF Books, RowInv, DeadIsEarned
<1> QED
  BY <1>1, BooksKept, PTL

\* A rule's delivery that is delivered, dead or suppressed is never rewritten,
\* and no delivery is ever removed: what the delivery ledger promises of each.
FinalStays ==
    [][\A d \in DOMAIN rows :
          /\ d \in DOMAIN rows'
          /\ ~Manual(d) /\ rows[d].status \in {"delivered", "dead", "suppressed"}
                => rows'[d].status = rows[d].status]_vars

\* Every attempt is made on a row that is neither final nor held back.
LEMMA AttemptsOpenRows ==
  ASSUME Books, [Next]_vars, NEW d \in DOMAIN rows, ~Manual(d),
         rows[d].status \in {"delivered", "dead", "suppressed"}
  PROVE  rows'[d].status = rows[d].status
<1>0. /\ Shape /\ WorkInv /\ ApiInv /\ DOMAIN rows = 1 .. Len(rows) /\ Len(rows) \in Nat
  BY ShapeRows DEF Books
<1>1. CASE Quiet
  BY <1>0, <1>1 DEF Quiet
<1>2. ASSUME NEW r \in Rules \cup {Null}, NEW kind \in {"alert", "rollup", "manual"},
             NEW t \in Tenants, NEW idx \in Int \cup {Null}, NEW covers \in SUBSET Nat,
             Publishes(r, kind, t, idx, covers)
      PROVE  rows'[d].status = rows[d].status
  BY <1>0, <1>2 DEF Publishes, Enqueued
<1>3. ASSUME NEW outcome, WorkerSends(outcome) PROVE rows'[d].status = rows[d].status
  <2>1. d # worker.load.row
    BY <1>0, <1>3 DEF WorkerSends, WorkInv, Open
  <2> QED
    BY <1>0, <1>3, <2>1 DEF WorkerSends, Attempted
<1>4. ASSUME NEW outcome, ManualSends(outcome) PROVE rows'[d].status = rows[d].status
  <2>1. d # api.load.row
    BY <1>0, <1>4 DEF ManualSends, ApiInv
  <2> QED
    BY <1>0, <1>4, <2>1 DEF ManualSends, Attempted
<1>5. Calm \/ Crashes \/ Claim \/ WorkerLoad \/ (\E e \in api.todo : ManualLoad(e))
        \/ (\E c \in Channels : DeleteChannel(c))
        \/ (\E e \in DOMAIN rows : Elapse(e)) => Quiet
  BY <1>0, QuietFacts DEF Calm, Crashes, ManualLoad, WorkerLoad
<1> QED
  BY <1>0, <1>1, <1>2, <1>3, <1>4, <1>5, StepCases

\* What is final stays, whatever the worker, the API and the people do.
THEOREM FinalRowsStay == Spec => FinalStays
<1> DEFINE Step == \A d \in DOMAIN rows :
                      /\ d \in DOMAIN rows'
                      /\ ~Manual(d) /\ rows[d].status \in {"delivered", "dead", "suppressed"}
                            => rows'[d].status = rows[d].status
<1>1. Books /\ [Next]_vars => [Step]_vars
  <2> SUFFICES ASSUME Books, [Next]_vars PROVE Step
    OBVIOUS
  <2> QED
    BY AttemptsOpenRows, KeptNext DEF Kept
<1> QED
  BY <1>1, BooksKept, PTL DEF Spec, FinalStays

-----------------------------------------------------------------------------
(* The outbox implements the delivery ledger.                              *)

\* A step that rewrites no delivery of a rule and adds none stutters.
LEMMA LedgerStutters ==
  ASSUME Shape, Kept,
         \A d \in DOMAIN rows' : d \in DOMAIN rows \/ Manual(d)',
         \A d \in DOMAIN rows : ~Manual(d) => rows'[d].status = rows[d].status
  PROVE  RuleStatus' = RuleStatus
<1>1. {f \in DOMAIN rows' : ~Manual(f)'} = {f \in DOMAIN rows : ~Manual(f)}
  BY OriginStays DEF Kept
<1>2. RuleStatus' = [d \in {f \in DOMAIN rows' : ~Manual(f)'} |-> rows'[d].status]
  BY DEF RuleStatus
<1> QED
  BY <1>1, <1>2 DEF RuleStatus

\* A publish opens the deliveries of its event, or none.
LEMMA LedgerOpens ==
  ASSUME Books, NEW r \in Rules \cup {Null}, NEW kind \in {"alert", "rollup", "manual"},
         NEW t \in Tenants, NEW idx \in Int \cup {Null}, NEW covers \in SUBSET Nat,
         Publishes(r, kind, t, idx, covers)
  PROVE  Ledger!Next \/ RuleStatus' = RuleStatus
<1>0. Shape /\ Enqueued(r, kind, t, idx, covers)
  BY DEF Books, Publishes
<1>1. /\ Kept
      /\ \A d \in DOMAIN rows : rows'[d] = rows[d] /\ (Manual(d)' <=> Manual(d)) /\ d \in DOMAIN rows'
  <2>1. Kept
    BY <1>0, EnqueueKeeps
  <2>2. \A d \in DOMAIN rows : rows'[d] = rows[d]
    BY <1>0, ShapeRows DEF Enqueued
  <2> QED
    BY <1>0, <2>1, <2>2, OriginStays DEF Kept
<1>2. \A d \in DOMAIN rows' \ DOMAIN rows :
         rows'[d].status = StatusFor(r, kind) /\ (Manual(d)' <=> kind = "manual")
  BY <1>0, FreshRows
<1>3. CASE kind = "manual"
  BY <1>0, <1>1, <1>2, <1>3, LedgerStutters
<1>4. CASE kind # "manual"
  <2>1. PICK old : old = {f \in DOMAIN rows : ~Manual(f)}
    OBVIOUS
  <2>2. PICK new : new = DOMAIN rows' \ DOMAIN rows
    OBVIOUS
  <2>3. PICK st \in {"pending", "suppressed"} : st = StatusFor(r, kind)
    BY DEF StatusFor
  <2>4. {f \in DOMAIN rows' : ~Manual(f)'} = old \cup new
    BY <1>1, <1>2, <1>4, <2>1, <2>2
  <2>5. RuleStatus = [d \in old |-> rows[d].status] /\ DOMAIN RuleStatus = old
    BY <2>1 DEF RuleStatus
  <2>6. RuleStatus' = [d \in old \cup new |-> rows'[d].status]
    BY <2>4 DEF RuleStatus
  <2>7. old \cap new = {}
    BY <2>1, <2>2
  <2>8. \A d \in old \cup new : rows'[d].status = IF d \in new THEN st ELSE RuleStatus[d]
    BY <1>1, <1>2, <2>1, <2>2, <2>3, <2>5
  <2>9. RuleStatus' = [d \in old \cup new |-> IF d \in new THEN st ELSE RuleStatus[d]]
    BY <2>6, <2>8
  <2>10. DOMAIN RuleStatus' = old \cup new
    BY <2>6
  <2>11. new = DOMAIN RuleStatus' \ DOMAIN RuleStatus
    BY <2>5, <2>7, <2>10
  <2>12. Ledger!Open(new, st)
    BY <2>5, <2>7, <2>9 DEF Ledger!Open
  <2> QED
    BY <2>11, <2>12 DEF Ledger!Next
<1> QED
  BY <1>3, <1>4

\* An attempt changes one delivery that is owed, or leaves its status alone.
LEMMA LedgerAttempts ==
  ASSUME Books, NEW l \in LoadRec, l.row \in DOMAIN rows, NEW outcome, Attempted(l, outcome),
         events' = events, Open(l.row)
  PROVE  Ledger!Next \/ RuleStatus' = RuleStatus
<1>0. Shape /\ Kept /\ DOMAIN rows' = DOMAIN rows /\ DOMAIN rows = 1 .. Len(rows)
  BY AttemptKeeps, ShapeRows DEF Books
<1>1. PICK k \in DOMAIN rows : k = l.row
  OBVIOUS
<1>2. /\ \A d \in DOMAIN rows : d # k => rows'[d].status = rows[d].status
      /\ \A d \in DOMAIN rows : Manual(d)' <=> Manual(d)
  BY <1>0, <1>1, OriginStays DEF Attempted
<1>3. CASE Manual(k) \/ rows'[k].status = rows[k].status
  BY <1>0, <1>2, <1>3, LedgerStutters
<1>4. CASE ~Manual(k) /\ rows'[k].status # rows[k].status
  <2>1. PICK st \in {"failed", "delivered", "dead"} : st = rows'[k].status
    BY <1>1, <1>4 DEF Attempted
  <2>2. PICK own : own = {f \in DOMAIN rows : ~Manual(f)}
    OBVIOUS
  <2>3. RuleStatus = [d \in own |-> rows[d].status] /\ DOMAIN RuleStatus = own
    BY <2>2 DEF RuleStatus
  <2>4. {f \in DOMAIN rows' : ~Manual(f)'} = own
    BY <1>0, <1>2, <2>2
  <2>5. RuleStatus' = [d \in own |-> rows'[d].status]
    BY <2>4 DEF RuleStatus
  <2>6. k \in own /\ RuleStatus[k] \in {"pending", "failed"}
    BY <1>1, <1>4, <2>2, <2>3 DEF Open
  <2>7. \A d \in own : rows'[d].status = IF d = k THEN st ELSE RuleStatus[d]
    BY <1>2, <2>1, <2>2, <2>3
  <2>8. RuleStatus' = [RuleStatus EXCEPT ![k] = st]
    BY <2>3, <2>5, <2>7
  <2>9. Ledger!Attempt(k, st)
    BY <2>6, <2>8 DEF Ledger!Attempt, Ledger!Owed
  <2> QED
    BY <2>3, <2>6, <2>9 DEF Ledger!Next
<1> QED
  BY <1>3, <1>4

\* The outbox implements the delivery ledger: every step of the worker, the
\* API and the people opens deliveries, makes one attempt, or changes nothing.
THEOREM OutboxImplementsLedger == Spec => ImplementsLedger
<1>1. Init => Ledger!Init
  BY DEF Init, Ledger!Init, RuleStatus
<1>2. Books /\ [Next]_vars => [Ledger!Next]_RuleStatus
  <2> SUFFICES ASSUME Books, [Next]_vars PROVE Ledger!Next \/ RuleStatus' = RuleStatus
    OBVIOUS
  <2>0. Shape /\ WorkInv /\ ApiInv
    BY DEF Books
  <2>1. CASE Quiet
    <3>1. Kept /\ DOMAIN rows' = DOMAIN rows /\ DOMAIN rows = 1 .. Len(rows)
      BY <2>0, <2>1, QuietKeeps, ShapeRows
    <3> QED
      BY <2>0, <2>1, <3>1, LedgerStutters DEF Quiet
  <2>2. ASSUME NEW r \in Rules \cup {Null}, NEW kind \in {"alert", "rollup", "manual"},
               NEW t \in Tenants, NEW idx \in Int \cup {Null}, NEW covers \in SUBSET Nat,
               Publishes(r, kind, t, idx, covers)
        PROVE  Ledger!Next \/ RuleStatus' = RuleStatus
    BY <2>2, LedgerOpens
  <2>3. ASSUME NEW outcome, WorkerSends(outcome), worker.load \in LoadRec
        PROVE  Ledger!Next \/ RuleStatus' = RuleStatus
    <3>1. Open(worker.load.row)
      BY <2>0, <2>3 DEF WorkerSends, WorkInv
    <3> QED
      BY <2>3, <3>1, LedgerAttempts DEF WorkerSends
  <2>4. ASSUME NEW outcome, ManualSends(outcome), api.load \in LoadRec
        PROVE  Ledger!Next \/ RuleStatus' = RuleStatus
    <3>1. Open(api.load.row)
      BY <2>0, <2>4 DEF ManualSends, ApiInv, Open
    <3> QED
      BY <2>4, <3>1, LedgerAttempts DEF ManualSends
  <2>5. Calm \/ Crashes \/ Claim \/ WorkerLoad \/ (\E e \in api.todo : ManualLoad(e))
          \/ (\E c \in Channels : DeleteChannel(c))
          \/ (\E e \in DOMAIN rows : Elapse(e)) => Quiet
    BY <2>0, QuietFacts DEF Calm, Crashes, ManualLoad, WorkerLoad
  <2> QED
    BY <2>0, <2>1, <2>2, <2>3, <2>4, <2>5, StepCases
<1>3. Spec => Ledger!Init /\ [][Ledger!Next]_RuleStatus
  BY <1>1, <1>2, BooksKept, PTL DEF Spec
<1> QED
  BY <1>3 DEF ImplementsLedger, Ledger!Spec

-----------------------------------------------------------------------------
(* Pacing.                                                                 *)

\* The rows set aside for a channel are rows, so they can be counted.
LEMMA BookedFinite ==
  ASSUME Shape, NEW c \in Channels
  PROVE  /\ Booked(c) \subseteq DOMAIN rows /\ recent[c] \subseteq DOMAIN rows
         /\ IsFiniteSet(Booked(c)) /\ IsFiniteSet(recent[c]) /\ IsFiniteSet(DOMAIN rows)
         /\ Cardinality(Booked(c)) \in Nat /\ Cardinality(recent[c]) \in Nat
<1>1. Booked(c) \subseteq DOMAIN rows /\ recent[c] \subseteq DOMAIN rows
  BY DEF Shape, Booked, InLine
<1>2. DOMAIN rows = 1 .. Len(rows) /\ Len(rows) \in Nat
  BY ShapeRows
<1>3. IsFiniteSet(DOMAIN rows)
  <2>1. \A k \in Int : IsFiniteSet(1 .. k)
    BY FS_Interval
  <2> QED
    BY <1>2, <2>1
<1>4. IsFiniteSet(Booked(c)) /\ IsFiniteSet(recent[c])
  BY <1>1, <1>3, FS_Subset
<1> QED
  BY <1>1, <1>3, <1>4, FS_CardinalityType

\* A row is in the worker's hands.
InHand(d) ==
    \/ \E i \in worker.queue : worker.batch[i] = d
    \/ worker.load # Null /\ worker.load.row = d

\* A step that takes up no further row, and counts only rows in hand, books nothing.
LEMMA BookedShrinks ==
  ASSUME Shape, Kept, NEW c \in Channels, Cardinality(Booked(c)) <= RateLimit,
         \A d \in DOMAIN rows' : InHand(d)' => d \in DOMAIN rows /\ InHand(d),
         \A d \in recent'[c] : \/ d \in recent[c]
                               \/ d \in DOMAIN rows /\ (Manual(d) \/ (InHand(d) /\ rows[d].ch = c))
  PROVE  (Cardinality(Booked(c)) <= RateLimit)'
<1>0. c # Null /\ \A d \in DOMAIN rows : (Manual(d)' <=> Manual(d)) /\ rows'[d].ch \in {rows[d].ch, Null}
  BY OriginStays, ConstantsAssumption DEF Kept
<1>1. InLine(c) = {d \in DOMAIN rows : rows[d].ch = c /\ InHand(d)}
  BY DEF InLine, InHand
<1>2. InLine(c)' = {d \in DOMAIN rows' : rows'[d].ch = c /\ InHand(d)'}
  BY DEF InLine, InHand
<1>3. Booked(c)' = {d \in recent'[c] \cup InLine(c)' : ~Manual(d)'}
  BY DEF Booked
<1>4. Booked(c)' \subseteq Booked(c)
  <2> SUFFICES ASSUME NEW d \in Booked(c)' PROVE d \in Booked(c)
    OBVIOUS
  <2>1. CASE d \in InLine(c)'
    BY <1>0, <1>1, <1>2, <1>3, <2>1 DEF Booked
  <2>2. CASE d \in recent'[c]
    <3>1. d \in DOMAIN rows
      BY <2>2, BookedFinite
    <3>2. ~Manual(d)
      BY <1>0, <1>3, <3>1
    <3> QED
      BY <1>1, <2>2, <3>1, <3>2 DEF Booked
  <2> QED
    BY <1>3, <2>1, <2>2
<1>5. IsFiniteSet(Booked(c)) /\ Cardinality(Booked(c)) \in Nat
  BY BookedFinite
<1>6. PICK A, B : A = Booked(c) /\ B = Booked(c)'
  OBVIOUS
<1>7. Cardinality(B) <= Cardinality(A) /\ Cardinality(B) \in Nat
  BY <1>4, <1>5, <1>6, FS_Subset, FS_CardinalityType
<1>8. Cardinality(Booked(c))' = Cardinality(B)
  BY <1>6
<1>9. RateLimit \in Nat
  BY ConstantsAssumption
<1> QED
  BY <1>5, <1>6, <1>7, <1>8, <1>9

\* _spend_budgets: the places of one channel that fit are within its allowance.
LEMMA SpendWithin ==
  ASSUME Shape, NEW selected \in Seq(Nat), NEW c \in Channels,
         NEW P, P = {i \in Spend(selected) : rows[selected[i]].ch = c}, P # {}
  PROVE  /\ IsFiniteSet(P) /\ Cardinality(P) \in Nat
         /\ Cardinality(P) + Cardinality(recent[c]) <= RateLimit
<1>0. DOMAIN selected = 1 .. Len(selected) /\ Len(selected) \in Nat /\ c # Null
  BY ConstantsAssumption
<1>1. P \subseteq 1 .. Len(selected)
  BY <1>0 DEF Spend
<1>2. IsFiniteSet(P) /\ Cardinality(P) \in Nat
  <2>1. IsFiniteSet(1 .. Len(selected))
    BY <1>0, FS_Interval
  <2> QED
    BY <1>1, <2>1, FS_Subset, FS_CardinalityType
<1>3. PICK m \in P : \A i \in P : i <= m
  <2>1. P \in SUBSET Int /\ Len(selected) \in Int /\ \A x \in P : x <= Len(selected)
    BY <1>0, <1>1
  <2> QED
    BY <2>1, MaxIsGreatest
<1>4. PICK E : E = {j \in 1 .. m - 1 : rows[selected[j]].ch = rows[selected[m]].ch}
  OBVIOUS
<1>5. Cardinality(E) < Allowance(c)
  <2>1. rows[selected[m]].ch = c /\ m \in Spend(selected)
    OBVIOUS
  <2> QED
    BY <1>4, <2>1 DEF Spend
<1>6. P \subseteq E \cup {m}
  BY <1>0, <1>1, <1>3, <1>4
<1>7. IsFiniteSet(E) /\ Cardinality(E) \in Nat
  <2>1. m - 1 \in Int
    BY <1>1
  <2>2. IsFiniteSet(1 .. m - 1)
    BY <2>1, FS_Interval
  <2> QED
    BY <1>4, <2>2, FS_Subset, FS_CardinalityType
<1>8. Cardinality(P) <= Cardinality(E) + 1
  <2>1. IsFiniteSet(E \cup {m}) /\ Cardinality(E \cup {m}) <= Cardinality(E) + 1
    <3>1. /\ IsFiniteSet(E \cup {m})
          /\ Cardinality(E \cup {m}) = IF m \in E THEN Cardinality(E) ELSE Cardinality(E) + 1
      BY <1>7, FS_AddElement
    <3> QED
      BY <1>7, <3>1
  <2>2. Cardinality(P) <= Cardinality(E \cup {m})
    BY <1>6, <2>1, FS_Subset
  <2> QED
    BY <1>2, <1>7, <2>1, <2>2, FS_CardinalityType
<1>9. Cardinality(recent[c]) \in Nat /\ RateLimit \in Nat
  BY BookedFinite, ConstantsAssumption
<1>10. Allowance(c) = IF Cardinality(recent[c]) >= RateLimit THEN 0 ELSE RateLimit - Cardinality(recent[c])
  BY <1>0 DEF Allowance
<1> QED
  BY <1>2, <1>5, <1>7, <1>8, <1>9, <1>10

\* A claim books no more than the channel's rate leaves.
LEMMA ClaimPaced ==
  ASSUME Books, Claim, NEW c \in Channels, Cardinality(Booked(c)) <= RateLimit
  PROVE  (Cardinality(Booked(c)) <= RateLimit)'
<1>0. Shape /\ WorkInv /\ Kept
  <2>1. Shape /\ WorkInv
    BY DEF Books
  <2> QED
    BY <2>1, QuietFacts, QuietKeeps
<1>1. PICK selected \in RoundRobin(Due) :
          /\ worker'.batch = selected /\ worker'.queue = Spend(selected)
          /\ worker'.load = worker.load /\ worker.phase = "rollup"
          /\ Spend(selected) \subseteq DOMAIN selected /\ recent' = recent
  BY <1>0, ClaimFacts
<1>2. /\ selected \in Seq(Nat) /\ \A i \in DOMAIN selected : selected[i] \in DOMAIN rows
  BY <1>0, BatchShape
<1>3. worker'.load = Null
  BY <1>0, <1>1 DEF WorkInv
<1>4. PICK P : P = {i \in Spend(selected) : rows[selected[i]].ch = c}
  OBVIOUS
<1>5. CASE P = {}
  <2>1. \A d \in DOMAIN rows : rows'[d].ch = c => rows[d].ch = c
    BY <1>0, ConstantsAssumption DEF Kept
  <2>2. Quiet
    BY <1>0, QuietFacts
  <2>3. DOMAIN rows' = DOMAIN rows
    BY <1>0, <2>2, QuietKeeps
  <2>4. InLine(c)' = {}
    BY <1>1, <1>2, <1>3, <1>4, <1>5, <2>1, <2>3 DEF InLine
  <2>5. Booked(c)' \subseteq Booked(c)
    <3>1. Booked(c)' = {d \in recent[c] : ~Manual(d)'}
      BY <1>1, <2>4 DEF Booked
    <3>2. \A d \in recent[c] : Manual(d)' <=> Manual(d)
      BY <1>0, OriginStays, BookedFinite
    <3> QED
      BY <3>1, <3>2 DEF Booked
  <2>6. PICK A, B : A = Booked(c) /\ B = Booked(c)'
    OBVIOUS
  <2>7. IsFiniteSet(A) /\ Cardinality(A) \in Nat
    BY <1>0, <2>6, BookedFinite
  <2>8. Cardinality(B) <= Cardinality(A) /\ Cardinality(B) \in Nat
    BY <2>5, <2>6, <2>7, FS_Subset, FS_CardinalityType
  <2>9. Cardinality(Booked(c))' = Cardinality(B) /\ RateLimit \in Nat
    BY <2>6, ConstantsAssumption
  <2> QED
    BY <2>6, <2>7, <2>8, <2>9
<1>6. CASE P # {}
  <2>1. /\ IsFiniteSet(P) /\ Cardinality(P) \in Nat
        /\ Cardinality(P) + Cardinality(recent[c]) <= RateLimit
    BY <1>0, <1>2, <1>4, <1>6, SpendWithin
  <2>2. PICK L : L = {selected[i] : i \in P}
    OBVIOUS
  <2>3. IsFiniteSet(L) /\ Cardinality(L) <= Cardinality(P) /\ Cardinality(L) \in Nat
    <3>1. [i \in P |-> selected[i]] \in Surjection(P, L)
      BY <2>2 DEF Surjection
    <3> QED
      BY <2>1, <3>1, FS_Surjection, FS_CardinalityType
  <2>4. Booked(c)' \subseteq recent[c] \cup L
    <3>1. \A d \in DOMAIN rows : rows'[d].ch = c => rows[d].ch = c
      BY <1>0, ConstantsAssumption DEF Kept
    <3>2. Quiet
      BY <1>0, QuietFacts
    <3>3. DOMAIN rows' = DOMAIN rows
      BY <1>0, <3>2, QuietKeeps
    <3>4. InLine(c)' \subseteq L
      BY <1>1, <1>3, <1>4, <2>2, <3>1, <3>3 DEF InLine
    <3> QED
      BY <1>1, <3>4 DEF Booked
  <2>5. PICK B : B = Booked(c)'
    OBVIOUS
  <2>6. PICK R : R = recent[c]
    OBVIOUS
  <2>7. IsFiniteSet(R) /\ Cardinality(R) \in Nat /\ RateLimit \in Nat
    BY <1>0, <2>6, BookedFinite, ConstantsAssumption
  <2>8. IsFiniteSet(R \cup L) /\ Cardinality(R \cup L) <= Cardinality(R) + Cardinality(L)
    <3>1. /\ IsFiniteSet(R \cup L)
          /\ Cardinality(R \cup L) = Cardinality(R) + Cardinality(L) - Cardinality(R \cap L)
      BY <2>3, <2>7, FS_Union
    <3>2. Cardinality(R \cap L) \in Nat
      BY <2>7, FS_Intersection, FS_CardinalityType
    <3> QED
      BY <2>3, <2>7, <3>1, <3>2
  <2>9. Cardinality(B) <= Cardinality(R \cup L) /\ Cardinality(B) \in Nat /\ Cardinality(R \cup L) \in Nat
    BY <2>4, <2>5, <2>6, <2>8, FS_Subset, FS_CardinalityType
  <2>10. Cardinality(Booked(c))' = Cardinality(B)
    BY <2>5
  <2> QED
    BY <2>1, <2>3, <2>6, <2>7, <2>8, <2>9, <2>10
<1> QED
  BY <1>5, <1>6

\* Every step keeps what is sent and what is queued within the channel's rate.
LEMMA PaceNext == Books /\ PaceInv /\ [Next]_vars => PaceInv'
<1> SUFFICES ASSUME Books, PaceInv, [Next]_vars, NEW c \in Channels
             PROVE  (Cardinality(Booked(c)) <= RateLimit)'
  BY DEF PaceInv
<1>0. Shape /\ WorkInv /\ ApiInv /\ Kept /\ Cardinality(Booked(c)) <= RateLimit
  BY KeptNext DEF Books, PaceInv
<1> DEFINE Same == \A d : InHand(d)' => InHand(d)
           Mine == \A d \in recent'[c] :
                      \/ d \in recent[c]
                      \/ d \in DOMAIN rows /\ (Manual(d) \/ (InHand(d) /\ rows[d].ch = c))
<1>1. ASSUME Same, Mine PROVE (Cardinality(Booked(c)) <= RateLimit)'
  <2>1. \A d : InHand(d) => d \in DOMAIN rows
    BY <1>0 DEF InHand, WorkInv, Open
  <2> QED
    BY <1>0, <1>1, <2>1, BookedShrinks
<1>2. CASE Calm
  BY <1>1, <1>2 DEF Calm, InHand
<1>3. ASSUME NEW r \in Rules \cup {Null}, NEW kind \in {"alert", "rollup", "manual"},
             NEW t \in Tenants, NEW idx \in Int \cup {Null}, NEW covers \in SUBSET Nat,
             Publishes(r, kind, t, idx, covers)
      PROVE  (Cardinality(Booked(c)) <= RateLimit)'
  BY <1>1, <1>3 DEF Publishes, InHand
<1>4. ASSUME NEW outcome, WorkerSends(outcome) PROVE (Cardinality(Booked(c)) <= RateLimit)'
  <2>1. /\ worker.load # Null /\ worker.load.row \in DOMAIN rows
        /\ recent'[c] \in {recent[c], recent[c] \cup {worker.load.row}}
        /\ rows[worker.load.row].ch # c => recent'[c] = recent[c]
    BY <1>4 DEF WorkerSends, Attempted
  <2>2. Mine
    BY <2>1 DEF InHand
  <2>3. Same
    BY <1>4 DEF WorkerSends, InHand
  <2> QED
    BY <1>1, <2>2, <2>3
<1>5. ASSUME NEW outcome, ManualSends(outcome) PROVE (Cardinality(Booked(c)) <= RateLimit)'
  <2>1. /\ api.load.row \in DOMAIN rows /\ Manual(api.load.row) /\ worker' = worker
        /\ recent'[c] \in {recent[c], recent[c] \cup {api.load.row}}
    BY <1>0, <1>5 DEF ManualSends, Attempted, ApiInv
  <2>2. Mine
    <3>1. PICK n \in DOMAIN rows : n = api.load.row /\ Manual(n)
      BY <2>1
    <3> QED
      BY <2>1, <3>1
  <2>3. Same
    BY <2>1 DEF InHand
  <2> QED
    BY <1>1, <2>2, <2>3
<1>6. CASE Claim
  BY <1>0, <1>6, ClaimPaced
<1>7. CASE WorkerLoad
  <2>1. PICK i \in worker.queue, d \in DOMAIN rows :
            /\ d = worker.batch[i]
            /\ worker'.queue = worker.queue \ {i} /\ worker'.batch = worker.batch
            /\ worker'.load = IF rows[d].status = "delivered" THEN Null ELSE LoadOf(d)
            /\ recent' = recent
    BY <1>0, <1>7, WorkerLoadFacts
  <2>2. worker'.load # Null => worker'.load.row = d
    BY <1>0, <2>1, LoadShape
  <2>3. Same
    BY <2>1, <2>2 DEF InHand
  <2> QED
    BY <1>1, <2>1, <2>3
<1>8. CASE Crashes
  BY <1>1, <1>8 DEF Crashes, InHand
<1>9. CASE worker' = worker /\ \A d \in recent'[c] : d \in recent[c]
  BY <1>1, <1>9 DEF InHand
<1>10. (\E d \in api.todo : ManualLoad(d)) => worker' = worker /\ recent' = recent
  BY DEF ManualLoad
<1>11. (\E e \in Channels : DeleteChannel(e)) => worker' = worker /\ recent' = recent
  BY DEF DeleteChannel
<1>12. ASSUME NEW d \in DOMAIN rows, Elapse(d)
       PROVE  worker' = worker /\ \A e \in recent'[c] : e \in recent[c]
  BY <1>12 DEF Elapse
<1> QED
  BY <1>0, <1>2, <1>3, <1>4, <1>5, <1>6, <1>7, <1>8, <1>9, <1>10, <1>11, <1>12, StepCases

\* However many rows are due, the drain never puts more than the limit into
\* one rate window of a channel, restarts included (_channel_budgets,
\* _spend_budgets): what it has claimed counts as sent until it is recorded.
THEOREM DrainIsPaced == Spec => []Paced
<1>1. Init => PaceInv
  <2> SUFFICES ASSUME Init, NEW c \in Channels PROVE Cardinality(Booked(c)) <= RateLimit
    BY DEF PaceInv
  <2>1. Booked(c) = {}
    BY DEF Init, Booked, InLine
  <2> QED
    BY <2>1, FS_EmptySet, ConstantsAssumption
<1>2. Books /\ PaceInv => Paced
  <2> SUFFICES ASSUME Books, PaceInv, NEW c \in Channels
               PROVE  Cardinality({d \in recent[c] : ~Manual(d)}) <= RateLimit
    BY DEF Paced
  <2>1. {d \in recent[c] : ~Manual(d)} \subseteq Booked(c)
    BY DEF Booked
  <2>2. IsFiniteSet(Booked(c)) /\ Cardinality(Booked(c)) \in Nat /\ Cardinality(Booked(c)) <= RateLimit
    BY BookedFinite DEF Books, PaceInv
  <2>3. PICK Q : Q = {d \in recent[c] : ~Manual(d)}
    OBVIOUS
  <2>4. Cardinality(Q) <= Cardinality(Booked(c)) /\ Cardinality(Q) \in Nat
    BY <2>1, <2>2, <2>3, FS_Subset, FS_CardinalityType
  <2> QED
    BY <2>2, <2>3, <2>4, ConstantsAssumption
<1> QED
  BY <1>1, <1>2, BooksKept, PaceNext, PTL DEF Spec

-----------------------------------------------------------------------------
(* What the outbox gains in a step.                                        *)

\* The tables are indexed from one, and the clock is a natural number.
LEMMA Standing ==
  ASSUME Books
  PROVE  /\ Shape /\ WorkInv /\ ApiInv /\ worker \in WorkerRec /\ now \in Nat
         /\ DOMAIN rows = 1 .. Len(rows) /\ Len(rows) \in Nat
         /\ DOMAIN events = 1 .. Len(events) /\ Len(events) \in Nat
<1>1. Shape /\ WorkInv /\ ApiInv
  BY DEF Books
<1>2. worker \in WorkerRec /\ now \in Nat
  BY <1>1 DEF Shape
<1> QED
  BY <1>1, <1>2, ShapeRows

\* The clock does not go back, what is new is of this instant, new rows belong
\* to the new event, and no row is held back or let out later.
Grown ==
    /\ now <= now' /\ now \in Nat /\ now' \in Nat
    /\ \A e \in DOMAIN events' \ DOMAIN events : events'[e].at = now /\ now' = now
    /\ \A d \in DOMAIN rows' \ DOMAIN rows : rows'[d].ev \in DOMAIN events' \ DOMAIN events
    /\ \A d \in DOMAIN rows : rows'[d].status = "suppressed" <=> rows[d].status = "suppressed"

\* Every other step leaves the clock.
LEMMA ClockStays ==
  ASSUME Shape, \/ Claim \/ (\E c \in Channels : DeleteChannel(c)) \/ (\E d \in DOMAIN rows : Elapse(d))
                \/ WorkerLoad \/ Crashes \/ (\E d \in api.todo : ManualLoad(d))
  PROVE  Quiet /\ now' = now
<1>1. \/ Claim \/ (\E c \in Channels : DeleteChannel(c)) \/ (\E d \in DOMAIN rows : Elapse(d))
      \/ UNCHANGED <<events, rows>>
  BY DEF WorkerLoad, Crashes, ManualLoad
<1>2. Quiet
  BY <1>1, QuietFacts
<1>3. now' = now
  BY DEF Claim, DeleteChannel, Elapse, WorkerLoad, Crashes, ManualLoad
<1> QED
  BY <1>2, <1>3

\* Every step grows the log of events and rows in that sense.
LEMMA GrownNext ==
  ASSUME Books, [Next]_vars
  PROVE  Grown
<1>0. /\ Shape /\ WorkInv /\ ApiInv /\ now \in Nat /\ DOMAIN rows = 1 .. Len(rows)
      /\ DOMAIN events = 1 .. Len(events) /\ Len(events) \in Nat
  BY ShapeRows DEF Books, Shape
<1>1. ASSUME Quiet, now <= now', now' \in Nat PROVE Grown
  <2>1. DOMAIN rows' = DOMAIN rows
    BY <1>0, <1>1, QuietKeeps
  <2> QED
    BY <1>0, <1>1, <2>1 DEF Quiet, Grown
<1>2. CASE Calm
  <2>1. Quiet
    BY <1>0, <1>2, QuietFacts DEF Calm
  <2> QED
    BY <1>1, <1>2, <2>1 DEF Calm
<1>3. ASSUME NEW r \in Rules \cup {Null}, NEW kind \in {"alert", "rollup", "manual"},
             NEW t \in Tenants, NEW idx \in Int \cup {Null}, NEW covers \in SUBSET Nat,
             Publishes(r, kind, t, idx, covers)
      PROVE  Grown
  <2>0. Enqueued(r, kind, t, idx, covers) /\ now' = now
    BY <1>3 DEF Publishes
  <2>1. DOMAIN events' = 1 .. Len(events) + 1
    BY <1>0, <2>0, EnqueueKeeps
  <2>2. \A e \in DOMAIN events' \ DOMAIN events : e = Len(events) + 1
    BY <1>0, <2>1
  <2>3. events'[Len(events) + 1].at = now
    BY <2>0 DEF Enqueued
  <2>4. \A d \in DOMAIN rows' \ DOMAIN rows : rows'[d].ev = Len(events) + 1
    BY <1>0, <2>0, FreshRows
  <2>5. Len(events) + 1 \in DOMAIN events' \ DOMAIN events
    BY <1>0, <2>1
  <2>6. \A d \in DOMAIN rows : rows'[d] = rows[d]
    BY <1>0, <2>0 DEF Enqueued
  <2> QED
    BY <1>0, <2>0, <2>2, <2>3, <2>4, <2>5, <2>6 DEF Grown
<1>4. ASSUME NEW l \in LoadRec, l.row \in DOMAIN rows, NEW outcome, Attempted(l, outcome),
             events' = events, now' = now, Open(l.row)
      PROVE  Grown
  <2>1. DOMAIN rows' = DOMAIN rows
    BY <1>0, <1>4, AttemptKeeps
  <2>2. rows'[l.row].status # "suppressed" /\ rows[l.row].status # "suppressed"
    BY <1>4 DEF Attempted, Open
  <2>3. \A d \in DOMAIN rows : rows'[d].status = "suppressed" <=> rows[d].status = "suppressed"
    BY <1>0, <1>4, <2>2 DEF Attempted
  <2> QED
    BY <1>0, <1>4, <2>1, <2>3 DEF Grown
<1>5. ASSUME NEW outcome, WorkerSends(outcome), worker.load \in LoadRec PROVE Grown
  <2>1. Open(worker.load.row)
    BY <1>0, <1>5 DEF WorkerSends, WorkInv
  <2> QED
    BY <1>4, <1>5, <2>1 DEF WorkerSends
<1>6. ASSUME NEW outcome, ManualSends(outcome), api.load \in LoadRec PROVE Grown
  <2>1. Open(api.load.row)
    BY <1>0, <1>6 DEF ManualSends, ApiInv, Open
  <2> QED
    BY <1>4, <1>6, <2>1 DEF ManualSends
<1>7. ASSUME \/ Claim \/ (\E c \in Channels : DeleteChannel(c)) \/ (\E d \in DOMAIN rows : Elapse(d))
             \/ WorkerLoad \/ Crashes \/ (\E d \in api.todo : ManualLoad(d))
      PROVE  Grown
  <2>1. Quiet /\ now' = now
    BY <1>0, <1>7, ClockStays
  <2> QED
    BY <1>0, <1>1, <2>1
<1> QED
  BY <1>0, <1>1, <1>2, <1>3, <1>5, <1>6, <1>7, StepCases

-----------------------------------------------------------------------------
(* Summaries.                                                              *)

\* A window of the clock: where an instant falls.
LEMMA WindowOf ==
  ASSUME NEW a \in Nat, NEW i \in Int
  PROVE  (i * Window <= a /\ a < (i + 1) * Window) <=> WindowIndex(a) = i
<1>1. Window \in Nat \ {0}
  BY ConstantsAssumption
<1>2. PICK q \in Nat : q = a \div Window /\ q * Window <= a /\ a < q * Window + Window
  BY <1>1, DivBounds
<1>3. CASE i = q
  BY <1>1, <1>2, <1>3 DEF WindowIndex
<1>4. CASE i < q
  <2>1. (i + 1) * Window <= q * Window
    BY <1>1, <1>4
  <2> QED
    BY <1>1, <1>2, <1>4, <2>1 DEF WindowIndex
<1>5. CASE q < i
  <2>1. (q + 1) * Window <= i * Window
    BY <1>1, <1>5
  <2>2. q * Window + Window = (q + 1) * Window
    BY <1>1
  <2>3. a < i * Window
    BY <1>1, <1>2, <2>1, <2>2
  <2> QED
    BY <1>1, <1>2, <1>5, <2>3 DEF WindowIndex
<1> QED
  BY <1>3, <1>4, <1>5

\* Windows follow one another.
LEMMA WindowsInOrder ==
  ASSUME NEW a \in Nat, NEW b \in Nat, a <= b
  PROVE  WindowIndex(a) <= WindowIndex(b) /\ WindowIndex(a) \in Nat /\ WindowIndex(b) \in Nat
<1>1. Window \in Nat \ {0}
  BY ConstantsAssumption
<1>2. PICK p \in Nat : p = a \div Window /\ p * Window <= a
  BY <1>1, DivBounds
<1>3. PICK q \in Nat : q = b \div Window /\ b < q * Window + Window
  BY <1>1, DivBounds
<1>4. p * Window < (q + 1) * Window
  <2>1. (q + 1) * Window = q * Window + Window
    BY <1>1
  <2>2. p * Window \in Nat /\ q * Window + Window \in Nat
    BY <1>1
  <2> QED
    BY <1>2, <1>3, <2>1, <2>2
<1>5. p < q + 1
  BY <1>1, <1>4
<1> QED
  BY <1>2, <1>3, <1>5 DEF WindowIndex

\* What a completed window suppressed does not change.
LEMMA CompletedStays ==
  ASSUME Shape, Kept, Grown, NEW r, NEW idx \in Int, idx < WindowIndex(now)
  PROVE  SuppressedIn(r, idx)' = SuppressedIn(r, idx)
<1>0. /\ \A e \in DOMAIN events : e \in DOMAIN events' /\ events'[e] = events[e]
      /\ \A d \in DOMAIN rows : /\ d \in DOMAIN rows' /\ rows'[d].ev = rows[d].ev
                                /\ rows[d].ev \in DOMAIN events
      /\ now \in Nat
  BY DEF Shape, Kept
<1>1. ~(now < (idx + 1) * Window)
  <2>1. Window \in Nat \ {0}
    BY ConstantsAssumption
  <2>2. PICK q \in Nat : q = now \div Window /\ q * Window <= now
    BY <1>0, <2>1, DivBounds
  <2>3. idx + 1 <= q
    BY <2>2 DEF WindowIndex
  <2>4. (idx + 1) * Window <= q * Window
    BY <2>1, <2>2, <2>3
  <2>5. (idx + 1) * Window \in Int /\ q * Window \in Int
    BY <2>1
  <2> QED
    BY <1>0, <2>2, <2>4, <2>5
<1>2. PICK lo, hi : lo = idx * Window /\ hi = (idx + 1) * Window
  OBVIOUS
<1>3. SuppressedIn(r, idx)' =
        {e \in DOMAIN events' :
            /\ events'[e].rule = r /\ lo <= events'[e].at /\ events'[e].at < hi
            /\ \E d \in DOMAIN rows' : rows'[d].ev = e /\ rows'[d].status = "suppressed"}
  BY <1>2 DEF SuppressedIn
<1>4. SuppressedIn(r, idx) =
        {e \in DOMAIN events :
            /\ events[e].rule = r /\ lo <= events[e].at /\ events[e].at < hi
            /\ \E d \in DOMAIN rows : rows[d].ev = e /\ rows[d].status = "suppressed"}
  BY <1>2 DEF SuppressedIn
<1>5. ASSUME NEW e \in SuppressedIn(r, idx) PROVE e \in SuppressedIn(r, idx)'
  BY <1>0, <1>3, <1>4, <1>5 DEF Grown
<1>6. ASSUME NEW e \in SuppressedIn(r, idx)' PROVE e \in SuppressedIn(r, idx)
  <2>1. PICK d \in DOMAIN rows' : rows'[d].ev = e /\ rows'[d].status = "suppressed"
    BY <1>3, <1>6
  <2>2. e \in DOMAIN events
    BY <1>1, <1>2, <1>3, <1>6 DEF Grown
  <2>3. d \in DOMAIN rows
    BY <2>1, <2>2 DEF Grown
  <2>4. rows[d].ev = e /\ rows[d].status = "suppressed" /\ events'[e] = events[e]
    BY <1>0, <2>1, <2>2, <2>3 DEF Grown
  <2> QED
    BY <1>3, <1>4, <1>6, <2>2, <2>3, <2>4
<1> QED
  BY <1>5, <1>6

\* A summary that covers its window keeps covering it.
LEMMA CoversStays ==
  ASSUME Shape, Kept, Grown, NEW r, NEW idx \in Int, NEW covers, Covers(r, idx, covers)
  PROVE  Covers(r, idx, covers)'
<1>1. idx < WindowIndex(now) /\ covers = SuppressedIn(r, idx)
  BY DEF Covers
<1>2. SuppressedIn(r, idx)' = SuppressedIn(r, idx)
  BY <1>1, CompletedStays
<1>3. WindowIndex(now) <= WindowIndex(now)' /\ WindowIndex(now) \in Nat /\ WindowIndex(now)' \in Nat
  <2>1. PICK a \in Nat, b \in Nat : a = now /\ b = now' /\ a <= b
    BY DEF Grown
  <2>2. WindowIndex(a) <= WindowIndex(b) /\ WindowIndex(a) \in Nat /\ WindowIndex(b) \in Nat
    BY <2>1, WindowsInOrder
  <2> QED
    BY <2>1, <2>2 DEF WindowIndex
<1> QED
  BY <1>1, <1>2, <1>3 DEF Covers

\* What the worker is to summarise is about completed windows.
LEMMA JobsCovered ==
  ASSUME Books, SummaryInv, [Next]_vars, NEW job \in worker'.todo
  PROVE  Covers(job.rule, job.idx, job.covers)'
<1>0. /\ Shape /\ WorkInv /\ ApiInv /\ Kept /\ Grown /\ worker \in WorkerRec /\ now \in Nat
  BY KeptNext, GrownNext, Standing
<1>1. CASE job \in worker.todo
  <2>1. PICK r \in Rules, i \in Int, cov \in SUBSET Nat :
            r = job.rule /\ i = job.idx /\ cov = job.covers
    BY <1>0, <1>1 DEF WorkerRec, JobRec
  <2>2. Covers(r, i, cov)
    BY <1>1, <2>1 DEF SummaryInv
  <2>3. Covers(r, i, cov)'
    BY <1>0, <2>2, CoversStays
  <2> QED
    BY <2>1, <2>3 DEF Covers, SuppressedIn
<1>2. CASE StartRollup
  <2>1. /\ worker'.todo = {[rule |-> r, idx |-> CompletedWindow,
                            covers |-> SuppressedIn(r, CompletedWindow)] :
                              r \in {q \in Rules : SuppressedIn(q, CompletedWindow) # {}}}
        /\ UNCHANGED <<now, events, rows>>
    BY <1>0, <1>2 DEF StartRollup, WorkerRec
  <2>2. PICK r \in Rules : job = [rule |-> r, idx |-> CompletedWindow,
                                  covers |-> SuppressedIn(r, CompletedWindow)]
    BY <2>1
  <2>3. CompletedWindow < WindowIndex(now)
    BY <1>0, WindowsInOrder DEF CompletedWindow
  <2> QED
    BY <2>1, <2>2, <2>3 DEF Covers, SuppressedIn, WindowIndex
<1>3. ~StartRollup => worker'.todo \subseteq worker.todo
  <2> SUFFICES ASSUME ~StartRollup PROVE worker'.todo \subseteq worker.todo
    OBVIOUS
  <2>1. CASE WorkerLoad \/ Claim
    BY <1>0, <2>1, WorkerLoadFacts, ClaimFacts
  <2>2. CASE EndTick \/ \E accepted \in BOOLEAN : Crash(accepted)
    BY <2>2 DEF EndTick, Crash, Idle
  <2>3. CASE \E j \in worker.todo : Summarise(j)
    BY <1>0, <2>3 DEF Summarise, WorkerRec
  <2>4. CASE \E outcome \in AllOutcomes : WorkerSend(outcome)
    BY <1>0, <2>4, WorkerSendFacts DEF WorkerSends
  <2>5. CASE Api \/ People \/ Pass \/ (\E r \in Rules : Alert(r)) \/ (\E d \in DOMAIN rows : Elapse(d))
               \/ UNCHANGED vars
    <3>1. worker' = worker
      BY <2>5 DEF Api, People, Pass, Alert, Elapse, vars, ManualLoad, ManualSend, ManualPublish,
                  SwitchTenant, DeleteChannel, DisableChannel, DeleteRule
    <3> QED
      BY <3>1
  <2> QED
    BY <2>1, <2>2, <2>3, <2>4, <2>5 DEF Next, Worker
<1> QED
  BY <1>1, <1>2, <1>3

\* Every summary card covers its window, and keeps doing so.
LEMMA CardsCovered ==
  ASSUME Books, SummaryInv, [Next]_vars, NEW e \in DOMAIN events'
  PROVE  /\ events'[e].at <= now'
         /\ events'[e].kind = "rollup" =>
               /\ events'[e].idx \in Int /\ events'[e].rule \in Rules
               /\ Covers(events[e].rule, events[e].idx, events[e].covers)'
<1>0. /\ Shape /\ WorkInv /\ ApiInv /\ Kept /\ Grown /\ worker \in WorkerRec /\ now \in Nat
      /\ DOMAIN events = 1 .. Len(events) /\ Len(events) \in Nat
  BY KeptNext, GrownNext, Standing
<1>1. CASE e \in DOMAIN events
  <2>1. events'[e] = events[e] /\ events[e] \in EventRec
    BY <1>0, <1>1, ShapeRows DEF Kept
  <2>2. events[e].at <= now /\ now <= now' /\ now' \in Nat /\ events[e].at \in Nat
    BY <1>0, <1>1, <2>1 DEF SummaryInv, Grown, EventRec
  <2>3. ASSUME events[e].kind = "rollup"
        PROVE  /\ events[e].idx \in Int /\ events[e].rule \in Rules
               /\ Covers(events[e].rule, events[e].idx, events[e].covers)'
    <3>1. PICK r \in Rules, i \in Int, cov \in SUBSET Nat :
             /\ r = events[e].rule /\ i = events[e].idx /\ cov = events[e].covers
             /\ Covers(r, i, cov)
      BY <1>1, <2>1, <2>3 DEF SummaryInv, EventRec
    <3>2. Covers(r, i, cov)'
      BY <1>0, <3>1, CoversStays
    <3> QED
      BY <2>1, <3>1, <3>2 DEF Covers, SuppressedIn
  <2> QED
    BY <1>0, <2>1, <2>2, <2>3
<1>2. CASE e \notin DOMAIN events
  <2>0. events' # events
    BY <1>2
  <2>1. PICK r \in Rules \cup {Null}, kind \in {"alert", "rollup", "manual"},
             t \in Tenants, idx \in Int \cup {Null}, covers \in SUBSET Nat :
               Publishes(r, kind, t, idx, covers)
    <3>1. \/ Claim \/ (\E c \in Channels : DeleteChannel(c)) \/ (\E d \in DOMAIN rows : Elapse(d))
          \/ WorkerLoad \/ Crashes \/ (\E d \in api.todo : ManualLoad(d))
          => Quiet
      BY <1>0, ClockStays
    <3> QED
      BY <1>0, <2>0, <3>1, StepCases DEF Calm, Quiet, WorkerSends, ManualSends
  <2>2. Enqueued(r, kind, t, idx, covers) /\ now' = now
    BY <2>1 DEF Publishes
  <2>3. e = Len(events) + 1
    BY <1>0, <1>2, <2>2, EnqueueKeeps
  <2>4. events'[e].at = now /\ events'[e].kind = kind /\ events'[e].rule = r
        /\ events'[e].idx = idx /\ events'[e].covers = covers
    BY <2>2, <2>3 DEF Enqueued
  <2>5. ASSUME kind = "rollup"
        PROVE  idx \in Int /\ r \in Rules /\ Covers(r, idx, covers)'
    <3>1. PICK job \in worker.todo : job = [rule |-> r, idx |-> idx, covers |-> covers]
      BY <2>1, <2>5 DEF Publishes
    <3>2. idx \in Int /\ r \in Rules
      BY <1>0, <3>1 DEF WorkerRec, JobRec
    <3>3. Covers(r, idx, covers)
      BY <3>1 DEF SummaryInv
    <3> QED
      BY <1>0, <3>2, <3>3, CoversStays
  <2>6. (Covers(r, idx, covers))' => (Covers(events[e].rule, events[e].idx, events[e].covers))'
    BY <2>4 DEF Covers, SuppressedIn
  <2> QED
    BY <1>0, <2>2, <2>4, <2>5, <2>6
<1> QED
  BY <1>1, <1>2

\* Every step keeps the summaries complete.
LEMMA SummaryNext == Books /\ SummaryInv /\ [Next]_vars => SummaryInv'
<1> SUFFICES ASSUME Books, SummaryInv, [Next]_vars PROVE SummaryInv'
  OBVIOUS
<1>1. (\A e \in DOMAIN events :
          /\ events[e].at <= now
          /\ events[e].kind = "rollup" =>
                /\ events[e].idx \in Int /\ events[e].rule \in Rules
                /\ Covers(events[e].rule, events[e].idx, events[e].covers))'
  BY CardsCovered
<1>2. (\A job \in worker.todo : Covers(job.rule, job.idx, job.covers))'
  BY JobsCovered
<1> QED
  BY <1>1, <1>2 DEF SummaryInv

\* rollup.py, "only completed windows are summarised": a summary card counts
\* every alert its window ever suppressed, because a window that is over gains
\* no event and no row is held back after it was enqueued.
THEOREM SummariesAreComplete == Spec => []SummaryComplete
<1>1. Init => SummaryInv
  BY DEF Init, SummaryInv, Idle
<1>2. Books /\ SummaryInv => SummaryComplete
  <2> SUFFICES ASSUME Books, SummaryInv, NEW e \in DOMAIN events, events[e].kind = "rollup"
               PROVE  events[e].covers =
                        {rows[d].ev : d \in {f \in DOMAIN rows :
                            LET v == events[rows[f].ev]
                            IN  /\ rows[f].status = "suppressed" /\ v.rule = events[e].rule
                                /\ WindowIndex(v.at) = events[e].idx}}
    BY DEF SummaryComplete
  <2>1. PICK r \in Rules, i \in Int : r = events[e].rule /\ i = events[e].idx
    BY DEF SummaryInv
  <2>2. events[e].covers = SuppressedIn(r, i)
    BY <2>1 DEF SummaryInv, Covers
  <2>3. /\ \A d \in DOMAIN rows : rows[d].ev \in DOMAIN events
        /\ \A v \in DOMAIN events : events[v].at \in Nat
    BY ShapeRows DEF Books, EventRec
  <2>4. PICK lo, hi : lo = i * Window /\ hi = (i + 1) * Window
    OBVIOUS
  <2>5. \A v \in DOMAIN events : (lo <= events[v].at /\ events[v].at < hi) <=> WindowIndex(events[v].at) = i
    BY <2>3, <2>4, WindowOf
  <2>6. SuppressedIn(r, i) =
          {v \in DOMAIN events :
              /\ events[v].rule = r /\ lo <= events[v].at /\ events[v].at < hi
              /\ \E d \in DOMAIN rows : rows[d].ev = v /\ rows[d].status = "suppressed"}
    BY <2>4 DEF SuppressedIn
  <2> QED
    BY <2>1, <2>2, <2>3, <2>5, <2>6
<1> QED
  BY <1>1, <1>2, BooksKept, SummaryNext, PTL DEF Spec

-----------------------------------------------------------------------------
(* The burst cap.                                                          *)

\* The rows a window let out are rows, so they can be counted.
LEMMA CardsFinite ==
  ASSUME Shape, NEW r, NEW t
  PROVE  /\ IsFiniteSet(OwnCards(r, t)) /\ Cardinality(OwnCards(r, t)) \in Nat
         /\ IsFiniteSet(DOMAIN rows)
<1>1. DOMAIN rows = 1 .. Len(rows) /\ Len(rows) \in Nat
  BY ShapeRows
<1>2. IsFiniteSet(DOMAIN rows)
  <2>1. \A k \in Int : IsFiniteSet(1 .. k)
    BY FS_Interval
  <2> QED
    BY <1>1, <2>1
<1>3. OwnCards(r, t) \subseteq DOMAIN rows
  BY DEF OwnCards
<1> QED
  BY <1>2, <1>3, FS_Subset, FS_CardinalityType

\* Only a publish adds rows.
LEMMA RowsArePublished ==
  ASSUME Books, [Next]_vars, NEW d \in DOMAIN rows' \ DOMAIN rows
  PROVE  \E r \in Rules \cup {Null}, kind \in {"alert", "rollup", "manual"}, t \in Tenants,
            idx \in Int \cup {Null}, covers \in SUBSET Nat : Publishes(r, kind, t, idx, covers)
<1>0. Shape /\ WorkInv /\ ApiInv
  BY Standing
<1>1. DOMAIN rows' # DOMAIN rows
  OBVIOUS
<1>2. ~Quiet
  BY <1>0, <1>1, QuietKeeps
<1>3. ~Calm
  BY <1>2, <1>0, QuietFacts DEF Calm
<1>4. \A outcome : /\ ~(WorkerSends(outcome) /\ worker.load \in LoadRec)
                   /\ ~(ManualSends(outcome) /\ api.load \in LoadRec)
  BY <1>0, <1>1, AttemptKeeps DEF WorkerSends, ManualSends
<1>5. ~(\/ Claim \/ (\E c \in Channels : DeleteChannel(c)) \/ (\E e \in DOMAIN rows : Elapse(e))
        \/ WorkerLoad \/ Crashes \/ (\E e \in api.todo : ManualLoad(e)))
  BY <1>0, <1>2, ClockStays
<1> QED
  BY <1>0, <1>3, <1>4, <1>5, StepCases

\* The rule of the cards a step adds to a window still had room for them.
LEMMA BurstRoom ==
  ASSUME Books, [Next]_vars, NEW r \in Rules, NEW t \in 0 .. MaxTime,
         ~(OwnCards(r, t)' \subseteq OwnCards(r, t))
  PROVE  /\ \E idx, covers : Enqueued(r, "alert", RuleOf[r], idx, covers)
         /\ t <= now /\ now <= t + Window /\ CountThisWindow(r) < BurstCap
<1>0. /\ Shape /\ Kept /\ Grown /\ \A d \in DOMAIN rows : rows[d].ev \in DOMAIN events
      /\ r # Null /\ DOMAIN rows = 1 .. Len(rows) /\ Len(rows) \in Nat
  BY KeptNext, GrownNext, Standing, ShapeRows, ConstantsAssumption
<1>1. PICK d \in OwnCards(r, t)' : d \notin OwnCards(r, t)
  OBVIOUS
<1>2. /\ d \in DOMAIN rows' /\ rows'[d].status # "suppressed"
      /\ events'[rows'[d].ev].rule = r /\ events'[rows'[d].ev].kind = "alert"
      /\ t <= events'[rows'[d].ev].at /\ events'[rows'[d].ev].at <= t + Window
  BY <1>1 DEF OwnCards
<1>3. d \notin DOMAIN rows
  <2> SUFFICES ASSUME d \in DOMAIN rows PROVE FALSE
    OBVIOUS
  <2>1. rows'[d].ev = rows[d].ev /\ rows[d].ev \in DOMAIN events
    BY <1>0 DEF Kept
  <2>2. events'[rows'[d].ev] = events[rows[d].ev] /\ rows[d].status # "suppressed"
    BY <1>0, <1>2, <2>1 DEF Kept, Grown
  <2> QED
    BY <1>1, <1>2, <2>2 DEF OwnCards
<1>4. PICK q \in Rules \cup {Null}, kind \in {"alert", "rollup", "manual"}, u \in Tenants,
           idx \in Int \cup {Null}, covers \in SUBSET Nat : Publishes(q, kind, u, idx, covers)
  BY <1>2, <1>3, RowsArePublished
<1>5. Enqueued(q, kind, u, idx, covers)
  BY <1>4 DEF Publishes
<1>6. /\ rows'[d].ev = Len(events) + 1 /\ rows'[d].status = StatusFor(q, kind)
      /\ events'[Len(events) + 1] = [rule |-> q, kind |-> kind, tenant |-> u, at |-> now,
                                     idx |-> idx, covers |-> covers]
  <2>1. d \in DOMAIN rows' \ DOMAIN rows
    BY <1>2, <1>3
  <2>2. \A f \in DOMAIN rows' \ DOMAIN rows :
           rows'[f].ev = Len(events) + 1 /\ rows'[f].status = StatusFor(q, kind)
    BY <1>0, <1>5, FreshRows
  <2>3. events'[Len(events) + 1] = [rule |-> q, kind |-> kind, tenant |-> u, at |-> now,
                                    idx |-> idx, covers |-> covers]
    BY <1>5 DEF Enqueued
  <2> QED
    BY <2>1, <2>2, <2>3
<1>7. q = r /\ kind = "alert" /\ t <= now /\ now <= t + Window /\ StatusFor(q, kind) # "suppressed"
  BY <1>2, <1>6
<1>8. u = RuleOf[r]
  BY <1>4, <1>7 DEF Publishes
<1>9. ~(CountThisWindow(r) >= BurstCap)
  BY <1>0, <1>7 DEF StatusFor
<1>10. CountThisWindow(r) \in Nat /\ BurstCap \in Nat
  <2>1. PICK C : C = {f \in DOMAIN rows : /\ events[rows[f].ev].rule = r
                                          /\ events[rows[f].ev].at >= now - Window
                                          /\ rows[f].status # "suppressed"}
    OBVIOUS
  <2>2. IsFiniteSet(DOMAIN rows)
    BY <1>0, CardsFinite
  <2>3. Cardinality(C) \in Nat
    BY <2>1, <2>2, FS_Subset, FS_CardinalityType
  <2> QED
    BY <2>1, <2>3, ConstantsAssumption DEF CountThisWindow
<1> QED
  BY <1>5, <1>7, <1>8, <1>9, <1>10

\* Every step keeps a rule's cards within its burst cap.
LEMMA BurstNext == Books /\ BurstCapped /\ [Next]_vars => BurstCapped'
<1> SUFFICES ASSUME Books, BurstCapped, [Next]_vars, NEW r \in Rules, NEW t \in 0 .. MaxTime,
                    OwnCards(r, t)' # {}
             PROVE  /\ BurstCap > 0
                    /\ Cardinality(OwnCards(r, t)')
                         < BurstCap + Cardinality({c \in Channels : Owner[c] = RuleOf[r]})
  BY DEF BurstCapped
<1>0. /\ Shape /\ Shape' /\ DOMAIN rows = 1 .. Len(rows) /\ Len(rows) \in Nat /\ now \in Nat
      /\ BurstCap \in Nat /\ Window \in Nat /\ t \in Nat
  BY Standing, BooksNext, ConstantsAssumption DEF Books
<1>1. PICK K : K = {c \in Channels : Owner[c] = RuleOf[r]}
  OBVIOUS
<1>2. IsFiniteSet(K) /\ Cardinality(K) \in Nat
  BY <1>1, ConstantsAssumption, FS_Subset, FS_CardinalityType
<1>3. PICK A, B : A = OwnCards(r, t) /\ B = OwnCards(r, t)'
  OBVIOUS
<1>4. IsFiniteSet(A) /\ Cardinality(A) \in Nat /\ IsFiniteSet(DOMAIN rows)
  BY <1>0, <1>3, CardsFinite
<1>5. CASE B \subseteq A
  <2>1. BurstCap > 0 /\ Cardinality(A) < BurstCap + Cardinality(K)
    BY <1>1, <1>3, <1>5 DEF BurstCapped
  <2>2. Cardinality(B) <= Cardinality(A) /\ Cardinality(B) \in Nat
    BY <1>4, <1>5, FS_Subset, FS_CardinalityType
  <2> QED
    BY <1>0, <1>1, <1>2, <1>3, <1>4, <2>1, <2>2
<1>6. CASE ~(B \subseteq A)
  <2>1. PICK idx, covers : Enqueued(r, "alert", RuleOf[r], idx, covers)
    BY <1>3, <1>6, BurstRoom
  <2>2. t <= now /\ now <= t + Window /\ CountThisWindow(r) < BurstCap
    BY <1>3, <1>6, BurstRoom
  <2>3. PICK C : C = {f \in DOMAIN rows : /\ events[rows[f].ev].rule = r
                                          /\ events[rows[f].ev].at >= now - Window
                                          /\ rows[f].status # "suppressed"}
    OBVIOUS
  <2>4. IsFiniteSet(C) /\ Cardinality(C) \in Nat /\ Cardinality(C) < BurstCap
    <3>1. IsFiniteSet(C) /\ Cardinality(C) \in Nat
      BY <1>4, <2>3, FS_Subset, FS_CardinalityType
    <3>2. CountThisWindow(r) = Cardinality(C)
      BY <2>3 DEF CountThisWindow
    <3> QED
      BY <2>2, <3>1, <3>2
  <2>5. PICK N : N = Len(rows) + 1 .. Len(rows')
    OBVIOUS
  <2>6. IsFiniteSet(N) /\ Cardinality(N) \in Nat /\ Cardinality(N) <= Cardinality(K)
    <3>1. PICK R : R = ResolveChannels(RuleOf[r])
      OBVIOUS
    <3>2. R \subseteq K
      BY <1>1, <3>1 DEF ResolveChannels
    <3>3. Cardinality(R) <= Cardinality(K) /\ Cardinality(R) \in Nat
      BY <1>2, <3>2, FS_Subset, FS_CardinalityType
    <3>4. Len(rows') = Len(rows) + Cardinality(R)
      BY <2>1, <3>1 DEF Enqueued
    <3>5. IsFiniteSet(N) /\ Cardinality(N) = Cardinality(R)
      <4>1. PICK a \in Int, b \in Int : a = Len(rows) + 1 /\ b = Len(rows')
        BY <1>0, <3>3, <3>4
      <4>2. IsFiniteSet(a .. b) /\ Cardinality(a .. b) = IF a > b THEN 0 ELSE b - a + 1
        BY FS_Interval
      <4> QED
        BY <1>0, <2>5, <3>3, <3>4, <4>1, <4>2
    <3> QED
      BY <3>3, <3>5
  <2>7. B \subseteq C \cup N
    <3> SUFFICES ASSUME NEW d \in B PROVE d \in C \cup N
      OBVIOUS
    <3>1. /\ d \in DOMAIN rows' /\ rows'[d].status # "suppressed"
          /\ events'[rows'[d].ev].rule = r /\ t <= events'[rows'[d].ev].at
      BY <1>3 DEF OwnCards
    <3>2. CASE d \in DOMAIN rows
      <4>1. rows'[d] = rows[d] /\ rows[d].ev \in 1 .. Len(events)
        BY <1>0, <2>1, <3>2, ShapeRows DEF Enqueued
      <4>2. events'[rows[d].ev] = events[rows[d].ev] /\ events[rows[d].ev] \in EventRec
        BY <1>0, <2>1, <4>1, ShapeRows DEF Enqueued
      <4>3. events[rows[d].ev].at \in Nat
        BY <4>2 DEF EventRec
      <4>4. events[rows[d].ev].at >= now - Window
        BY <1>0, <2>2, <3>1, <4>1, <4>2, <4>3
      <4> QED
        BY <2>3, <3>1, <3>2, <4>1, <4>2, <4>4
    <3>3. CASE d \notin DOMAIN rows
      BY <1>0, <2>1, <2>5, <3>1, <3>3, FreshRows
    <3> QED
      BY <3>2, <3>3
  <2>8. IsFiniteSet(C \cup N) /\ Cardinality(C \cup N) <= Cardinality(C) + Cardinality(N)
    <3>1. /\ IsFiniteSet(C \cup N)
          /\ Cardinality(C \cup N) = Cardinality(C) + Cardinality(N) - Cardinality(C \cap N)
      BY <2>4, <2>6, FS_Union
    <3>2. Cardinality(C \cap N) \in Nat
      BY <2>4, FS_Intersection, FS_CardinalityType
    <3> QED
      BY <2>4, <2>6, <3>1, <3>2
  <2>9. Cardinality(B) <= Cardinality(C \cup N) /\ Cardinality(B) \in Nat /\ Cardinality(C \cup N) \in Nat
    BY <2>7, <2>8, FS_Subset, FS_CardinalityType
  <2> QED
    BY <1>0, <1>1, <1>2, <1>3, <2>4, <2>6, <2>8, <2>9
<1> QED
  BY <1>5, <1>6

\* A rule's own cards in any stretch of one window length stay within its cap,
\* however slowly they drain (_delivery_status_for counts what was let out, not
\* what was sent); only the last event within it may go to several channels.
THEOREM BurstsAreCapped == Spec => []BurstCapped
<1>1. Init => BurstCapped
  BY DEF Init, BurstCapped, OwnCards
<1> QED
  BY <1>1, BooksKept, BurstNext, PTL DEF Spec

-----------------------------------------------------------------------------
(* Fairness between tenants.                                               *)

\* A row's turn: how many rows of its tenant stand before it.
TurnIn(due, d) == Cardinality({e \in {g \in due : TenantOf(g) = TenantOf(d)} : e < d})

\* round_robin: a row is left out of a full claim only behind rows whose turn
\* is no later, and a claim that is not full takes all that is due.
LEMMA RoundRobinFacts ==
  ASSUME NEW due, NEW s \in RoundRobin(due)
  PROVE  LET n == IF Cardinality(due) < Batch THEN Cardinality(due) ELSE Batch
         IN  /\ s \in Injection(1 .. n, due)
             /\ \A d \in due \ Range(s) : \A i \in 1 .. n :
                   TurnIn(due, s[i]) < TurnIn(due, d) \/ TurnIn(due, s[i]) = TurnIn(due, d)
<1> DEFINE n == IF Cardinality(due) < Batch THEN Cardinality(due) ELSE Batch
<1>1. s \in Injection(1 .. n, due)
  BY DEF RoundRobin, Cut
<1>2. \A d \in due \ Range(s) : \A i \in 1 .. n :
         TurnIn(due, s[i]) < TurnIn(due, d) \/ TurnIn(due, s[i]) = TurnIn(due, d)
  BY DEF RoundRobin, Cut, TurnIn
<1> QED
  BY <1>1, <1>2

\* A claim with room for a row of every tenant takes the first of each.
LEMMA FirstIsTaken ==
  ASSUME Shape, NEW s \in RoundRobin(Due), Batch >= Cardinality(Tenants),
         NEW f \in Due, \A e \in Due : TenantOf(e) = TenantOf(f) => f <= e
  PROVE  f \in Range(s)
<1> SUFFICES ASSUME f \notin Range(s) PROVE FALSE
  OBVIOUS
<1>0. /\ Due \subseteq DOMAIN rows /\ IsFiniteSet(Due) /\ DOMAIN rows = 1 .. Len(rows) /\ Len(rows) \in Nat
      /\ Cardinality(Due) \in Nat /\ Batch \in Nat
      /\ IsFiniteSet(Tenants) /\ Cardinality(Tenants) \in Nat
  BY BatchShape, ShapeRows, FS_CardinalityType, ConstantsAssumption
<1>1. PICK n \in Nat : n = IF Cardinality(Due) < Batch THEN Cardinality(Due) ELSE Batch
  BY <1>0
<1>2. /\ s \in Injection(1 .. n, Due)
      /\ \A i \in 1 .. n : TurnIn(Due, s[i]) < TurnIn(Due, f) \/ TurnIn(Due, s[i]) = TurnIn(Due, f)
  BY <1>1, RoundRobinFacts
<1>3. /\ s \in [1 .. n -> Due] /\ \A i, j \in 1 .. n : s[i] = s[j] => i = j
  BY <1>2 DEF Injection, IsInjective
<1>4. \A d \in Due : TurnIn(Due, d) \in Nat /\ (TurnIn(Due, d) = 0 => \A e \in Due : TenantOf(e) = TenantOf(d) => ~(e < d))
  <2> SUFFICES ASSUME NEW d \in Due
               PROVE  /\ TurnIn(Due, d) \in Nat
                      /\ TurnIn(Due, d) = 0 => \A e \in Due : TenantOf(e) = TenantOf(d) => ~(e < d)
    OBVIOUS
  <2>1. PICK S : S = {e \in {g \in Due : TenantOf(g) = TenantOf(d)} : e < d}
    OBVIOUS
  <2>2. IsFiniteSet(S) /\ Cardinality(S) \in Nat
    BY <1>0, <2>1, FS_Subset, FS_CardinalityType
  <2>3. Cardinality(S) = 0 <=> S = {}
    BY <2>2, FS_EmptySet
  <2>4. TurnIn(Due, d) = Cardinality(S)
    BY <2>1 DEF TurnIn
  <2> QED
    BY <2>1, <2>2, <2>3, <2>4
<1>5. TurnIn(Due, f) = 0
  <2>1. {e \in {g \in Due : TenantOf(g) = TenantOf(f)} : e < f} = {}
    BY <1>0
  <2> QED
    BY <2>1, FS_EmptySet DEF TurnIn
<1>6. \A i \in 1 .. n : s[i] \in Due /\ \A e \in Due : TenantOf(e) = TenantOf(s[i]) => ~(e < s[i])
  BY <1>2, <1>3, <1>4, <1>5
<1>7. \A i, j \in 1 .. n : TenantOf(s[i]) = TenantOf(s[j]) => i = j
  <2> SUFFICES ASSUME NEW i \in 1 .. n, NEW j \in 1 .. n, TenantOf(s[i]) = TenantOf(s[j]) PROVE i = j
    OBVIOUS
  <2>1. ~(s[i] < s[j]) /\ ~(s[j] < s[i])
    BY <1>6
  <2>2. s[i] \in Nat /\ s[j] \in Nat
    BY <1>0, <1>6
  <2> QED
    BY <1>3, <2>1, <2>2
<1>8. \A i \in 1 .. n : TenantOf(s[i]) # TenantOf(f)
  <2> SUFFICES ASSUME NEW i \in 1 .. n, TenantOf(s[i]) = TenantOf(f) PROVE FALSE
    OBVIOUS
  <2>1. ~(f < s[i]) /\ f <= s[i] /\ s[i] \in Nat /\ f \in Nat
    BY <1>0, <1>6
  <2>2. f = s[i]
    BY <2>1
  <2> QED
    BY <1>3, <2>2 DEF Range
<1>9. \A d \in Due : TenantOf(d) \in Tenants
  <2> SUFFICES ASSUME NEW d \in Due PROVE TenantOf(d) \in Tenants
    OBVIOUS
  <2>1. events[rows[d].ev] \in EventRec
    BY <1>0, ShapeRows
  <2> QED
    BY <2>1 DEF TenantOf, EventRec
<1>10. n < Cardinality(Tenants)
  <2>1. PICK T : T = Tenants \ {TenantOf(f)}
    OBVIOUS
  <2>2. PICK g : g = [i \in 1 .. n |-> TenantOf(s[i])]
    OBVIOUS
  <2>3. g \in Injection(1 .. n, T)
    <3>1. g \in [1 .. n -> T]
      BY <1>6, <1>8, <1>9, <2>1, <2>2
    <3>2. \A i, j \in 1 .. n : g[i] = g[j] => i = j
      BY <1>7, <2>2
    <3> QED
      BY <3>1, <3>2 DEF Injection, IsInjective
  <2>4. IsFiniteSet(T) /\ Cardinality(T) = Cardinality(Tenants) - 1
    BY <1>0, <1>9, <2>1, FS_RemoveElement
  <2>5. Cardinality(1 .. n) <= Cardinality(T)
    BY <2>3, <2>4, FS_Injection
  <2>6. Cardinality(1 .. n) = n
    BY FS_Interval
  <2> QED
    BY <1>0, <2>4, <2>5, <2>6
<1>11. n = Cardinality(Due)
  BY <1>0, <1>1, <1>10
<1>12. s \in Surjection(1 .. n, Due)
  <2>1. Cardinality(1 .. n) = n
    BY FS_Interval
  <2> QED
    BY <1>0, <1>2, <1>11, <2>1, FS_Injection
<1>13. \E i \in 1 .. n : s[i] = f
  BY <1>12 DEF Surjection
<1> QED
  BY <1>3, <1>13 DEF Range

\* Only a claim takes the worker from its rollup to its sends.
LEMMA OnlyClaims ==
  ASSUME Shape, WorkInv, [Next]_vars, worker.phase = "rollup", worker'.phase = "send"
  PROVE  Claim
<1>0. worker \in WorkerRec
  BY DEF Shape
<1>1. ASSUME NEW job \in worker.todo, Summarise(job) PROVE FALSE
  BY <1>0, <1>1 DEF Summarise, WorkerRec
<1>2. ASSUME NEW outcome, WorkerSend(outcome) PROVE FALSE
  BY <1>0, <1>2 DEF WorkerSend, WorkInv
<1>3. ~(StartRollup \/ WorkerLoad \/ EndTick \/ \E accepted \in BOOLEAN : Crash(accepted))
  BY DEF StartRollup, WorkerLoad, EndTick, Crash, Idle
<1>4. ~(Api \/ People \/ Pass \/ (\E r \in Rules : Alert(r)) \/ (\E d \in DOMAIN rows : Elapse(d))
        \/ UNCHANGED vars)
  BY DEF Api, People, Pass, Alert, Elapse, vars, ManualLoad, ManualSend, ManualPublish,
         SwitchTenant, DeleteChannel, DisableChannel, DeleteRule
<1> QED
  BY <1>1, <1>2, <1>3, <1>4 DEF Next, Worker

\* "A flood delays itself rather than everyone" (round_robin): a claim with room
\* for one row of every tenant takes the oldest due row of each tenant.
THEOREM QuietTenantsAreServed == Spec => QuietTenantServed
<1> DEFINE Served ==
      worker.phase = "rollup" /\ worker'.phase = "send" /\ Batch >= Cardinality(Tenants) =>
         \A t \in Tenants :
            LET waiting == {d \in DOMAIN rows : /\ rows[d].due /\ TenantOf(d) = t /\ tenantOn[t]
                                               /\ rows[d].status \in {"pending", "failed"}}
            IN  waiting # {} => \E d \in Range(worker'.batch) :
                                    TenantOf(d) = t /\ \A e \in waiting : d <= e
<1>1. Books /\ [Next]_vars => [Served]_vars
  <2> SUFFICES ASSUME Books, [Next]_vars, worker.phase = "rollup", worker'.phase = "send",
                      Batch >= Cardinality(Tenants), NEW t \in Tenants,
                      NEW waiting, waiting = {d \in DOMAIN rows :
                                        /\ rows[d].due /\ TenantOf(d) = t /\ tenantOn[t]
                                        /\ rows[d].status \in {"pending", "failed"}},
                      waiting # {}
               PROVE  \E d \in Range(worker'.batch) : TenantOf(d) = t /\ \A e \in waiting : d <= e
    OBVIOUS
  <2>0. Shape /\ WorkInv /\ DOMAIN rows = 1 .. Len(rows) /\ Len(rows) \in Nat
    BY Standing
  <2>1. PICK s \in RoundRobin(Due) : worker'.batch = s
    BY <2>0, OnlyClaims, ClaimFacts
  <2>2. waiting = {d \in Due : TenantOf(d) = t}
    BY DEF Due, Claimable
  <2>3. PICK f \in waiting : \A e \in waiting : f <= e
    <3>1. waiting \in SUBSET Nat
      BY <2>0
    <3> QED
      BY <3>1, LeastNatural
  <2>4. f \in Due /\ TenantOf(f) = t /\ \A e \in Due : TenantOf(e) = TenantOf(f) => f <= e
    BY <2>2, <2>3
  <2>5. f \in Range(s)
    BY <2>0, <2>4, FirstIsTaken
  <2> QED
    BY <2>1, <2>3, <2>4, <2>5
<1> QED
  BY <1>1, BooksKept, PTL DEF Spec, QuietTenantServed
=============================================================================
