------------------------ MODULE AnalyticsFoldProofs ------------------------
(***************************************************************************)
(* Theorems about AnalyticsFold, for every value of the constants.         *)
(***************************************************************************)
EXTENDS AnalyticsFold, SetFacts

Table == [Txns -> Rows \cup {None}]
RecordRow == [txn : Txns, at : Instants, name : Names, ver : BOOLEAN]
Ticket == [st : {"free", "open", "dead"}, lo : Int, hi : Int, refold : BOOLEAN, attempts : Nat]
Definition == [status : {"draft", "active", "inactive"}, from : Int]

RunRec == [phase : {"idle", "claimed", "read", "folded"}, ids : SUBSET Ids, rest : SUBSET Ids,
           refold : BOOLEAN, lo : Int, hi : Int, end : Int]

SwitchRec == [suppressed : SUBSET Names, hidden : SUBSET Names, expanded : SUBSET Names,
              approved : BOOLEAN]
ViewRec == [src : Table, suppressed : SUBSET Names, expanded : SUBSET Names, approved : BOOLEAN,
            hidden : SUBSET Names, metric : [Metrics -> Definition] \cup {<<>>}, wm : 0 .. LastInstant]

(* The bounds of a ticket: the instants there are, padded.                 *)
Bounded(k) == -Pad <= k.lo /\ k.lo <= k.hi /\ k.hi <= LastInstant + Pad

TablesShape ==
    /\ src \in Table
    /\ fact \subseteq FactRecord /\ IsFiniteSet(fact)
    /\ recs \subseteq RecordRow /\ IsFiniteSet(recs)
    /\ settled \in [Names -> SUBSET Txns] /\ issues \subseteq Txns
    /\ hourly \in [Metrics -> SUBSET Contribution]
    /\ daily \in [Metrics -> SUBSET Contribution]
    /\ monthly \in [Metrics -> SUBSET Contribution]
    /\ tstate \in [history : 0 .. LastInstant, wm : 0 .. LastInstant, facts : Nat, records : Nat]

QueueShape ==
    /\ tickets \in [Ids -> Ticket]
    /\ \A i \in Ids : Bounded(tickets[i])
    /\ \A i \in Ids : tickets[i].attempts <= MaxAttempts
    /\ \A i \in Open : tickets[i].attempts < MaxAttempts
    /\ run \in RunRec
    /\ run.ids \subseteq Open /\ run.rest \subseteq Open /\ run.ids \cap run.rest = {}

SwitchShape ==
    /\ switch \in SwitchRec
    /\ metric \in [Metrics -> Definition]
    /\ view \in ViewRec
    /\ run.phase = "folded" => view.metric \in [Metrics -> Definition]
    /\ rebuild.st \in {"none", "flagged", "bare", "stale"}
    /\ DOMAIN rebuild.rows \subseteq Txns /\ \A x \in DOMAIN rebuild.rows : rebuild.rows[x] \in Rows
    /\ floor \in 0 .. LastInstant

HistoryShape ==
    ghost \in [everOff : SUBSET Names, owed : SUBSET Instants, paused : SUBSET Metrics,
               unticketed : SUBSET Txns, split : SUBSET Txns,
               stray : SUBSET Txns, straddled : SUBSET Txns]

Shape == TablesShape /\ QueueShape /\ SwitchShape /\ HistoryShape

(* uq_analytics_facts: one fact of a transaction at an instant.            *)
OneFactPerKey == \A f, g \in fact : SameKey(f, g) => f = g

(* The slice in hand lies in what is left of the run.                      *)
Sliced(r) == r.lo <= r.hi /\ r.hi <= r.end

(* The run in hand covers its tickets, and refolds if one of them does.    *)
RunInv ==
    /\ Sliced(run)
    /\ \A i \in run.ids : tickets[i].hi <= run.end /\ (tickets[i].refold => run.refold)

(* A ticket over t that the run in hand has not folded up to t yet, or     *)
(* that it does not hold; and a refold ticket of that kind.                *)
Waits(i, t) == Covers(tickets[i], t) /\ (i \in run.ids => run.lo <= t)
ToFold(i, t) == tickets[i].refold /\ Waits(i, t)
Pending(t) == \E i \in Open \cup Dead : ToFold(i, t)

(* A draft never comes back and a live definition keeps its instant; and a *)
(* flip of the show switch since the registry was read left a ticket that  *)
(* the run in hand does not hold.                                          *)
ViewInv ==
    run.phase = "folded" =>
        /\ \A m \in Metrics : view.metric[m].status # "draft" =>
              metric[m].status # "draft" /\ metric[m].from = view.metric[m].from
        /\ view.hidden # switch.hidden =>
              \A t \in {f.at : f \in fact} \cup {c.at : c \in recs} :
                  \/ t \in ghost.owed
                  \/ \E i \in (Open \cup Dead) \ run.ids : tickets[i].refold /\ Covers(tickets[i], t)

(* Every grain of a definition that is not a draft, wherever nothing is    *)
(* pending.                                                                *)
GrainInv ==
    \A m \in Metrics :
        /\ monthly[m] = daily[m]
        /\ metric[m].status = "draft" => daily[m] = {}
        /\ \A t \in Instants : DayOf(t) \notin aged => At(daily[m], t) = At(hourly[m], t)
        /\ \A t \in Instants \ ghost.owed :
              (metric[m].status # "draft" /\ m \notin ghost.paused /\ ~Pending(t)) =>
              At(daily[m], t) = Expected(m, t)

(* Every fact is summed up in the settled row of its key.                  *)
SettledInv == \A f \in fact : f.txn \in settled[f.name]

(* Some ticket waits to fold t; some ticket that the run does not hold.    *)
Waiting(t) == \E i \in Open \cup Dead : Waits(i, t)
Elsewhere(t) == \E i \in (Open \cup Dead) \ run.ids : Covers(tickets[i], t)

(* The name a source gives transaction x at t, and the name of its fact.   *)
NamesAt(s, x, t) == IF s[x] # None /\ s[x].at = t THEN {s[x].name} ELSE {}
FactNames(x, t) == {f.name : f \in {g \in fact : g.txn = x /\ g.at = t}}

(* The row came back without a ticket.                                     *)
Unticketed(x, t) == x \in ghost.unticketed /\ NamesAt(src, x, t) # {}

(* What is off is known to have been off; what cannot be used has no fact; *)
(* the rows a rebuild holds are not in the source.                         *)
SourceShape ==
    /\ switch.suppressed \subseteq ghost.everOff
    /\ run.phase \in {"read", "folded"} => view.suppressed \subseteq ghost.everOff
    /\ \A f \in fact : f.name \notin Unusable
    /\ rebuild.st # "none" => \A x \in DOMAIN rebuild.rows : src[x] = None

(* The facts of a transaction follow its row, wherever no ticket waits.    *)
FollowInv ==
    \A x \in Txns, t \in Instants :
        (t > floor /\ ~Waiting(t) /\ ~Unticketed(x, t)) =>
        FactNames(x, t) \ ghost.everOff = NamesAt(src, x, t) \ (ghost.everOff \cup Unusable)

(* What a run read of the source is still so, or a ticket that it does not *)
(* hold says otherwise.                                                    *)
SeenInv ==
    run.phase \in {"read", "folded"} =>
        \A x \in Txns, t \in Instants :
            (t > floor /\ InSlice(t) /\ ~Elsewhere(t) /\ ~Unticketed(x, t)) =>
            NamesAt(view.src, x, t) = NamesAt(src, x, t)

(* Record rows have their parent and its name.                             *)
ParentInv ==
    \A c \in recs : c.txn \notin ghost.stray => \E f \in fact : SameKey(c, f) /\ c.name = f.name

(* A transaction with two facts is known, and so is one whose entries lie  *)
(* in two hours.                                                           *)
SeamInv ==
    /\ \A f, g \in fact : f.txn = g.txn /\ f # g => f.txn \in ghost.split
    /\ \A x \in Txns : src[x] # None /\ src[x].at # src[x].end => x \in ghost.straddled
    /\ run.phase \in {"read", "folded"} =>
          \A x \in Txns : view.src[x] # None /\ view.src[x].at # view.src[x].end =>
              x \in ghost.straddled
    /\ \A x \in DOMAIN rebuild.rows : rebuild.rows[x].at # rebuild.rows[x].end =>
          x \in ghost.straddled

(* A flip of expand or of the approval since the run read them left a      *)
(* ticket that the run does not hold.                                      *)
GateInv ==
    (/\ run.phase \in {"read", "folded"}
     /\ ~(switch.expanded \subseteq view.expanded) \/ switch.approved # view.approved) =>
        \A f \in fact : f.at \in ghost.owed \/ Elsewhere(f.at)

(* Every fact that predicts records has them, wherever no ticket waits.    *)
BackfillInv ==
    \A f \in fact :
        (/\ ~Waiting(f.at) /\ f.at \notin ghost.owed /\ f.resp
         /\ f.name \in (switch.expanded \cap RecordNames) \ ghost.everOff
         /\ f.txn \notin ghost.straddled \cup ghost.split \cup ghost.stray) =>
        \E c \in recs : SameKey(c, f) /\ c.ver = switch.approved

IInv ==
    /\ Shape /\ OneFactPerKey /\ TotalsExact /\ SettledInv /\ RunInv /\ ViewInv /\ GrainInv
    /\ SourceShape /\ FollowInv /\ SeenInv /\ ParentInv /\ SeamInv /\ GateInv /\ BackfillInv

-----------------------------------------------------------------------------
(* Tickets.                                                                *)

\* The least and the greatest of two integers.
LEMMA OfTwo ==
  ASSUME NEW a \in Int, NEW b \in Int
  PROVE  /\ Min({a, b}) \in {a, b} /\ Max({a, b}) \in {a, b}
         /\ Min({a, b}) \in Int /\ Min({a, b}) <= a /\ Min({a, b}) <= b
         /\ Max({a, b}) \in Int /\ a <= Max({a, b}) /\ b <= Max({a, b})
<1>1. PICK c \in Int : c = (IF a <= b THEN a ELSE b)
  OBVIOUS
<1>2. PICK d \in Int : d = (IF a <= b THEN b ELSE a)
  OBVIOUS
<1>3. {a, b} \in SUBSET Int /\ {a, b} # {} /\ (\A x \in {a, b} : c <= x) /\ \A x \in {a, b} : x <= d
  BY <1>1, <1>2
<1> QED
  BY <1>3, MinIsLeast, MaxIsGreatest

\* What publish() makes of a range: fresh open tickets within the padded instants.
NewTickets(pieces, refold) ==
    \E n \in Nat :
        /\ DOMAIN pieces = 1 .. n
        /\ \A k \in 1 .. n : /\ pieces[k] \in Ticket /\ Bounded(pieces[k])
                             /\ pieces[k].st = "open" /\ pieces[k].attempts = 0
                             /\ pieces[k].refold = refold

\* A product by a positive number keeps the order.
LEMMA TimesOrder ==
  ASSUME NEW a \in Int, NEW b \in Int, NEW g \in Nat \ {0}
  PROVE  /\ a * g < b * g => a < b
         /\ a <= b => a * g <= b * g
<1>1. ASSUME NEW x \in Int, NEW y \in Int, x <= y PROVE x * g <= y * g
  <2>1. PICK c \in Nat : y = x + c
    <3>1. y - x \in Nat /\ y = x + (y - x)
      BY <1>1
    <3> QED
      BY <3>1
  <2>2. c * g \in Nat /\ y * g = x * g + c * g
    BY <2>1
  <2> QED
    BY <2>2
<1>2. a * g \in Int /\ b * g \in Int
  OBVIOUS
<1> QED
  BY <1>1, <1>2

\* How publish() cuts a range: into n spans, of which each starts before the
\* range ends and the last does not end before it does.
CutInto(n, lo, hi, refold) ==
    /\ DOMAIN Pieces(lo, hi, refold) = 1 .. n
    /\ \A k \in 1 .. n :
          /\ (k - 1) * MaxSpan \in Nat /\ k * MaxSpan \in Nat
          /\ k * MaxSpan = (k - 1) * MaxSpan + MaxSpan
          /\ lo - Pad + (k - 1) * MaxSpan <= hi + Pad
          /\ Pieces(lo, hi, refold)[k] =
                [st |-> "open", lo |-> lo - Pad + (k - 1) * MaxSpan,
                 hi |-> Min({lo - Pad + k * MaxSpan, hi + Pad}),
                 refold |-> refold, attempts |-> 0]
    /\ hi + Pad <= lo - Pad + n * MaxSpan

\* publish() cuts a range into spans.
LEMMA PiecesAre ==
  ASSUME NEW lo \in Int, NEW hi \in Int, NEW refold \in BOOLEAN, lo - Pad <= hi + Pad
  PROVE  \E n \in Nat \ {0} : CutInto(n, lo, hi, refold)
<1>0. Pad \in Nat /\ MaxSpan \in Nat \ {0}
  BY ConstantsAssumption
<1>1. PICK start \in Int, end \in Int : start = lo - Pad /\ end = hi + Pad /\ start <= end
  BY <1>0
<1>2. PICK d \in Nat : d = end - start + MaxSpan - 1
  BY <1>0, <1>1
<1>3. PICK q \in Nat : q = d \div MaxSpan /\ q * MaxSpan <= d /\ d < q * MaxSpan + MaxSpan
  BY <1>0, DivBounds
<1>4. PICK n \in Nat \ {0} : n = Max({1, q}) /\ (n = 1 \/ n = q) /\ q <= n
  <2>0. 1 \in Int /\ q \in Int
    OBVIOUS
  <2>1. Max({1, q}) \in {1, q} /\ Max({1, q}) \in Int /\ 1 <= Max({1, q}) /\ q <= Max({1, q})
    BY <2>0, OfTwo
  <2> QED
    BY <2>1
<1>5. /\ DOMAIN Pieces(lo, hi, refold) = 1 .. n
      /\ \A k \in 1 .. n : Pieces(lo, hi, refold)[k] =
            [st |-> "open", lo |-> start + (k - 1) * MaxSpan,
             hi |-> Min({start + k * MaxSpan, end}), refold |-> refold, attempts |-> 0]
  <2>1. ~(start > end)
    BY <1>1
  <2> QED
    BY <1>1, <1>2, <1>3, <1>4, <2>1 DEF Pieces
<1>6. ASSUME NEW k \in 1 .. n
      PROVE  /\ (k - 1) * MaxSpan \in Nat /\ k * MaxSpan \in Nat
             /\ k * MaxSpan = (k - 1) * MaxSpan + MaxSpan
             /\ start + (k - 1) * MaxSpan <= end
  <2>1. PICK j \in Nat : j = k - 1
    OBVIOUS
  <2>2. j * MaxSpan \in Nat /\ k * MaxSpan \in Nat /\ k * MaxSpan = j * MaxSpan + MaxSpan
    BY <1>0, <2>1
  <2>3. CASE k = 1
    BY <1>0, <1>1, <2>1, <2>2, <2>3
  <2>4. CASE k <= q
    <3>1. k * MaxSpan <= q * MaxSpan
      BY <1>0, <2>4, TimesOrder
    <3>2. PICK a \in Nat, b \in Nat : a = j * MaxSpan /\ b = q * MaxSpan
      BY <1>0, <2>2
    <3>3. a + MaxSpan <= b /\ b <= end - start + MaxSpan - 1
      BY <1>2, <1>3, <2>2, <3>1, <3>2
    <3>4. start + a <= end
      BY <1>0, <3>3
    <3> QED
      BY <2>1, <2>2, <3>2, <3>4
  <2> QED
    BY <1>4, <2>3, <2>4
<1>7. end <= start + n * MaxSpan
  <2>1. q * MaxSpan <= n * MaxSpan /\ q * MaxSpan \in Int /\ n * MaxSpan \in Int
    BY <1>0, <1>4, TimesOrder
  <2>2. PICK a \in Int, b \in Int : a = q * MaxSpan /\ b = n * MaxSpan /\ a <= b
    BY <2>1
  <2>3. end - start + MaxSpan - 1 < a + MaxSpan
    BY <1>2, <1>3, <2>2
  <2> QED
    BY <1>0, <2>2, <2>3
<1> QED
  BY <1>1, <1>4, <1>5, <1>6, <1>7 DEF CutInto

\* publish() cuts any range of instants into such tickets.
LEMMA PiecesAreTickets ==
  ASSUME NEW lo \in Nat, NEW hi \in Int, hi <= LastInstant, NEW refold \in BOOLEAN
  PROVE  NewTickets(Pieces(lo, hi, refold), refold)
<1>0. LastInstant \in Nat /\ Pad \in Nat /\ MaxSpan \in Nat \ {0}
  BY ConstantsAssumption
<1>1. CASE lo - Pad > hi + Pad
  <2>1. DOMAIN Pieces(lo, hi, refold) = 1 .. 0
    BY <1>1 DEF Pieces
  <2> QED
    BY <2>1 DEF NewTickets
<1>2. CASE lo - Pad <= hi + Pad
  <2>0. PICK n \in Nat \ {0} : CutInto(n, lo, hi, refold)
    BY <1>2, PiecesAre
  <2>1. /\ DOMAIN Pieces(lo, hi, refold) = 1 .. n
        /\ \A k \in 1 .. n :
              /\ (k - 1) * MaxSpan \in Nat /\ k * MaxSpan \in Nat
              /\ k * MaxSpan = (k - 1) * MaxSpan + MaxSpan
              /\ lo - Pad + (k - 1) * MaxSpan <= hi + Pad
              /\ Pieces(lo, hi, refold)[k] =
                    [st |-> "open", lo |-> lo - Pad + (k - 1) * MaxSpan,
                     hi |-> Min({lo - Pad + k * MaxSpan, hi + Pad}),
                     refold |-> refold, attempts |-> 0]
    BY <2>0 DEF CutInto
  <2>2. ASSUME NEW k \in 1 .. n
        PROVE  LET p == Pieces(lo, hi, refold)[k]
               IN  p \in Ticket /\ Bounded(p) /\ p.st = "open" /\ p.attempts = 0 /\ p.refold = refold
    <3>1. PICK a \in Nat, b \in Nat : a = (k - 1) * MaxSpan /\ b = k * MaxSpan /\ b = a + MaxSpan
      BY <2>1
    <3>2. PICK l \in Int, c \in Int, e \in Int : l = lo - Pad + a /\ c = lo - Pad + b /\ e = hi + Pad
      BY <1>0
    <3>3. PICK h \in Int : h = Min({c, e}) /\ h <= e /\ h \in {c, e}
      BY OfTwo
    <3>4. -Pad <= l /\ l <= h /\ h <= LastInstant + Pad
      <4>1. l <= e
        <5>1. lo - Pad + (k - 1) * MaxSpan <= hi + Pad
          BY <2>1
        <5> QED
          BY <3>1, <3>2, <5>1
      <4>2. l <= c
        BY <1>0, <3>1, <3>2
      <4> QED
        BY <1>0, <3>2, <3>3, <4>1, <4>2
    <3>5. Pieces(lo, hi, refold)[k] = [st |-> "open", lo |-> l, hi |-> h, refold |-> refold, attempts |-> 0]
      BY <2>1, <3>1, <3>2, <3>3
    <3> QED
      BY <3>4, <3>5 DEF Ticket, Bounded
  <2> QED
    BY <2>1, <2>2 DEF NewTickets
<1> QED
  BY <1>0, <1>1, <1>2

\* The tickets of a range cover every instant of it: the pad reaches past
\* the last one, which a half open window would leave out.
LEMMA PiecesCover ==
  ASSUME NEW lo \in Int, NEW hi \in Int, NEW t \in Int, lo <= t, t <= hi, NEW refold \in BOOLEAN
  PROVE  \E k \in DOMAIN Pieces(lo, hi, refold) : Covers(Pieces(lo, hi, refold)[k], t)
<1>0. Pad \in Nat /\ 1 <= Pad /\ MaxSpan \in Nat \ {0}
  BY ConstantsAssumption
<1>1. lo - Pad <= hi + Pad
  BY <1>0
<1>2. PICK n \in Nat \ {0} : CutInto(n, lo, hi, refold)
  BY <1>1, PiecesAre
<1>3. PICK d \in Nat : d = t - (lo - Pad)
  BY <1>0
<1>4. PICK j \in Nat : j * MaxSpan \in Nat /\ j * MaxSpan <= d /\ d < j * MaxSpan + MaxSpan
  BY <1>0, DivBounds
<1>5. j < n
  <2>1. PICK a \in Nat, b \in Int : a = j * MaxSpan /\ b = n * MaxSpan
    BY <1>0, <1>4
  <2>2. a <= d /\ d < hi + Pad - (lo - Pad) /\ hi + Pad <= lo - Pad + b
    BY <1>0, <1>2, <1>3, <1>4, <2>1 DEF CutInto
  <2>3. a < b
    BY <1>0, <2>2
  <2> QED
    BY <1>0, <2>1, <2>3, TimesOrder
<1>6. PICK k \in 1 .. n : k = j + 1 /\ k - 1 = j
  BY <1>5
<1>7. PICK a \in Nat, b \in Nat : a = (k - 1) * MaxSpan /\ b = k * MaxSpan /\ b = a + MaxSpan
  BY <1>2 DEF CutInto
<1>8. PICK l \in Int, c \in Int, e \in Int : l = lo - Pad + a /\ c = lo - Pad + b /\ e = hi + Pad
  BY <1>0
<1>9. l <= t /\ t < c /\ t < e
  BY <1>0, <1>3, <1>4, <1>6, <1>7, <1>8
<1>10. t < Min({c, e})
  <2>1. Min({c, e}) \in {c, e}
    BY OfTwo
  <2> QED
    BY <1>9, <2>1
<1>11. Pieces(lo, hi, refold)[k] = [st |-> "open", lo |-> l, hi |-> Min({c, e}), refold |-> refold, attempts |-> 0]
  BY <1>2, <1>7, <1>8 DEF CutInto
<1>12. Covers(Pieces(lo, hi, refold)[k], t)
  BY <1>9, <1>10, <1>11 DEF Covers
<1> QED
  BY <1>2, <1>12 DEF CutInto

\* publish() writes only free places, one for each ticket.
LEMMA Published ==
  ASSUME QueueShape, NEW pieces, NEW refold \in BOOLEAN, NewTickets(pieces, refold), CanPublish(pieces)
  PROVE  /\ Publish(pieces) \in [Ids -> Ticket]
         /\ \A i \in Ids \ Free : Publish(pieces)[i] = tickets[i]
         /\ \A i \in Free : \/ Publish(pieces)[i] = tickets[i]
                            \/ \E k \in DOMAIN pieces : Publish(pieces)[i] = pieces[k]
         /\ \A k \in DOMAIN pieces : \E i \in Free : Publish(pieces)[i] = pieces[k]
<1> DEFINE Before(i) == {j \in Free : j <= i}
<1>0. MaxTickets \in Nat
  BY ConstantsAssumption
<1>1. PICK n \in Nat : DOMAIN pieces = 1 .. n /\ \A k \in 1 .. n : pieces[k] \in Ticket
  BY DEF NewTickets
<1>2. Free \in SUBSET (1 .. MaxTickets) /\ Ids = 1 .. MaxTickets
  BY DEF Free, Ids
<1>3. \A i \in Ids : Publish(pieces)[i] = IF i \in Free /\ Cardinality(Before(i)) \in DOMAIN pieces
                                          THEN pieces[Cardinality(Before(i))] ELSE tickets[i]
  BY DEF Publish
<1>4. /\ \A i \in Ids \ Free : Publish(pieces)[i] = tickets[i]
      /\ \A i \in Free : \/ Publish(pieces)[i] = tickets[i]
                         \/ \E k \in DOMAIN pieces : Publish(pieces)[i] = pieces[k]
  BY <1>2, <1>3
<1>5. Publish(pieces) \in [Ids -> Ticket]
  <2>1. \A i \in Ids : Publish(pieces)[i] \in Ticket
    BY <1>1, <1>3 DEF QueueShape
  <2> QED
    BY <2>1 DEF Publish
<1>6. ASSUME NEW k \in 1 .. n
      PROVE  \E i \in Free : Cardinality(Before(i)) = k
  <2>1. n <= Cardinality(Free)
    <3>1. Cardinality(1 .. n) = n
      BY FS_Interval
    <3> QED
      BY <1>1, <3>1 DEF CanPublish
  <2>2. k \in Nat \ {0} /\ k <= Cardinality(Free)
    <3>0. IsFiniteSet(1 .. MaxTickets)
      BY <1>0, FS_Interval
    <3>1. IsFiniteSet(Free)
      BY <1>2, <3>0, FS_Subset
    <3>2. Cardinality(Free) \in Nat
      BY <3>1, FS_CardinalityType
    <3> QED
      BY <2>1, <3>2
  <2>3. \E i \in Free : Cardinality({j \in Free : j <= i}) = k
    BY <1>0, <1>2, <2>2, RankOf
  <2> QED
    BY <2>3
<1>7. \A k \in DOMAIN pieces : \E i \in Free : Publish(pieces)[i] = pieces[k]
  <2> TAKE k \in DOMAIN pieces
  <2>1. PICK i \in Free : Cardinality(Before(i)) = k
    BY <1>1, <1>6
  <2>2. i \in Ids /\ Publish(pieces)[i] = pieces[k]
    BY <1>2, <1>3, <2>1
  <2> QED
    BY <2>1, <2>2
<1> QED
  BY <1>4, <1>5, <1>7

\* The ticket of a switch spans the history the tenant row knows of.
LEMMA SwitchTickets ==
  ASSUME TablesShape, NEW refold \in BOOLEAN
  PROVE  NewTickets(SwitchPieces(refold), refold)
<1>1. CASE tstate.wm = 0
  <2>1. SwitchPieces(refold) = <<>> /\ DOMAIN <<>> = 1 .. 0
    BY <1>1 DEF SwitchPieces
  <2> QED
    BY <2>1 DEF NewTickets
<1>2. CASE tstate.wm # 0
  <2>1. PICK lo \in Nat : lo = IF tstate.history = 0 THEN 1 ELSE tstate.history
    BY DEF TablesShape
  <2>2. tstate.wm \in Int /\ tstate.wm <= LastInstant
    BY ConstantsAssumption DEF TablesShape
  <2>3. SwitchPieces(refold) = Pieces(lo, tstate.wm, refold)
    BY <1>2, <2>1 DEF SwitchPieces
  <2> QED
    BY <2>1, <2>2, <2>3, PiecesAreTickets
<1> QED
  BY <1>1, <1>2

\* No ticket at all, as when a capture or an expansion is switched off.
LEMMA NoTickets == \A refold \in BOOLEAN : NewTickets(<<>>, refold)
<1>1. DOMAIN <<>> = 1 .. 0
  OBVIOUS
<1> QED
  BY <1>1 DEF NewTickets

\* The ticket of a set of instants, from the least to the greatest.
LEMMA SpanTickets ==
  ASSUME NEW S \in SUBSET Instants, S # {}, NEW refold \in BOOLEAN
  PROVE  NewTickets(Pieces(Min(S), Max(S), refold), refold)
<1>1. LastInstant \in Int
  BY ConstantsAssumption
<1>2. S \in SUBSET Int /\ (\A t \in S : 1 <= t /\ t <= LastInstant)
  BY <1>1 DEF Instants
<1>3. Min(S) \in S /\ Max(S) \in S
  <2>1. 1 \in Int /\ (\A t \in S : 1 <= t) /\ \A t \in S : t <= LastInstant
    BY <1>2
  <2>2. Min(S) \in S
    BY <1>2, <2>1, MinIsLeast
  <2>3. Max(S) \in S
    BY <1>1, <1>2, <2>1, MaxIsGreatest
  <2> QED
    BY <2>2, <2>3
<1>4. Min(S) \in Nat /\ Max(S) \in Int /\ Max(S) <= LastInstant
  <2>1. PICK lo \in S, hi \in S : lo = Min(S) /\ hi = Max(S)
    BY <1>3
  <2> QED
    BY <1>1, <2>1 DEF Instants
<1> QED
  BY <1>4, PiecesAreTickets

\* _split_run: a slice of [lo, end) starts at lo and stays within it.
LEMMA SliceEnds ==
  ASSUME NEW lo \in Int, NEW end \in Int, lo <= end
  PROVE  SliceEnd(lo, end) \in Int /\ lo <= SliceEnd(lo, end) /\ SliceEnd(lo, end) <= end
<1>1. MaxSlice \in Nat
  BY ConstantsAssumption
<1>2. PICK h \in Int : h = lo + MaxSlice /\ lo <= h
  BY <1>1
<1>3. Min({h, end}) \in {h, end} /\ Min({h, end}) \in Int /\ Min({h, end}) <= end
  BY OfTwo
<1> QED
  BY <1>2, <1>3 DEF SliceEnd

\* The run made of some open tickets covers the ones it takes.
LEMMA RunStarted ==
  ASSUME QueueShape, NEW S \in SUBSET Open, S # {}
  PROVE  /\ StartRun(S) \in RunRec /\ StartRun(S).phase = "claimed" /\ Sliced(StartRun(S))
         /\ StartRun(S).ids \subseteq S /\ StartRun(S).rest = S \ StartRun(S).ids
         /\ \A i \in StartRun(S).ids : /\ StartRun(S).lo <= tickets[i].lo
                                       /\ tickets[i].hi <= StartRun(S).end
                                       /\ tickets[i].refold => StartRun(S).refold
<1>0. Pad \in Nat /\ LastInstant \in Nat /\ MaxSlice \in Nat
  BY ConstantsAssumption
<1>1. /\ S \subseteq Ids
      /\ \A i \in S : /\ tickets[i] \in Ticket /\ tickets[i].lo \in Int /\ tickets[i].hi \in Int
                      /\ tickets[i].lo <= tickets[i].hi
                      /\ -Pad <= tickets[i].lo /\ tickets[i].hi <= LastInstant + Pad
  BY DEF QueueShape, Open, Bounded, Ticket
<1>2. PICK lows : lows = {tickets[i].lo : i \in S}
  OBVIOUS
<1>3. Min(lows) \in lows /\ \A x \in lows : Min(lows) <= x
  <2>1. lows \in SUBSET Int /\ lows # {} /\ -Pad \in Int /\ \A x \in lows : -Pad <= x
    BY <1>0, <1>1, <1>2
  <2> QED
    BY <2>1, MinIsLeast
<1>4. Min(lows) \in RunStarts(S) /\ RunStarts(S) \subseteq lows
  <2>1. PICK j \in S : tickets[j].lo = Min(lows)
    BY <1>2, <1>3
  <2>2. \A k \in S : Min(lows) <= tickets[k].lo
    BY <1>2, <1>3
  <2>3. \A k \in S : ~(tickets[k].lo < tickets[j].lo)
    BY <1>1, <2>1, <2>2
  <2> QED
    BY <1>2, <2>1, <2>3 DEF RunStarts
<1>5. PICK first : first = Min(RunStarts(S))
  OBVIOUS
<1>6. first \in RunStarts(S) /\ first \in Int /\ \A x \in RunStarts(S) : x \in Int /\ first <= x
  <2>1. /\ RunStarts(S) \in SUBSET Int /\ RunStarts(S) # {} /\ -Pad \in Int
        /\ \A x \in RunStarts(S) : -Pad <= x
    BY <1>0, <1>1, <1>2, <1>4
  <2> QED
    BY <1>5, <2>1, MinIsLeast
<1>7. PICK ids : ids = FirstRun(S)
  OBVIOUS
<1>8. ids \subseteq S /\ ids # {}
  <2>1. ids = {i \in S : \A s \in RunStarts(S) \ {first} : tickets[i].lo < s}
    BY <1>5, <1>7 DEF FirstRun
  <2>2. PICK i \in S : tickets[i].lo = first
    BY <1>2, <1>4, <1>6
  <2>3. i \in ids
    BY <1>6, <2>1, <2>2
  <2> QED
    BY <2>1, <2>3
<1>9. PICK lo : lo = Min({tickets[i].lo : i \in ids})
  OBVIOUS
<1>10. lo \in Int /\ \A i \in ids : lo <= tickets[i].lo
  <2>1. PICK T : T = {tickets[i].lo : i \in ids}
    OBVIOUS
  <2>2. T \in SUBSET Int /\ T # {} /\ -Pad \in Int /\ \A x \in T : -Pad <= x
    BY <1>0, <1>1, <1>8, <2>1
  <2>3. lo \in T /\ \A x \in T : lo <= x
    BY <1>9, <2>1, <2>2, MinIsLeast
  <2> QED
    BY <2>1, <2>2, <2>3
<1>11. PICK end : end = Max({tickets[i].hi : i \in ids})
  OBVIOUS
<1>12. end \in Int /\ \A i \in ids : tickets[i].hi <= end
  <2>1. PICK T : T = {tickets[i].hi : i \in ids}
    OBVIOUS
  <2>2. /\ T \in SUBSET Int /\ T # {} /\ LastInstant + Pad \in Int
        /\ \A x \in T : x <= LastInstant + Pad
    BY <1>0, <1>1, <1>8, <2>1
  <2>3. end \in T /\ \A x \in T : x <= end
    BY <1>11, <2>1, <2>2, MaxIsGreatest
  <2> QED
    BY <2>1, <2>2, <2>3
<1>13. SliceEnd(lo, end) \in Int /\ lo <= SliceEnd(lo, end) /\ SliceEnd(lo, end) <= end
  <2>1. PICK i \in ids : lo <= tickets[i].lo /\ tickets[i].hi <= end /\ i \in S
    BY <1>8, <1>10, <1>12
  <2>2. lo <= end
    BY <1>1, <1>10, <1>12, <2>1
  <2> QED
    BY <1>10, <1>12, <2>2, SliceEnds
<1>14. PICK refold \in BOOLEAN : refold = \E i \in ids : tickets[i].refold
  OBVIOUS
<1>15. StartRun(S) = [phase |-> "claimed", ids |-> ids, rest |-> S \ ids, refold |-> refold,
                      lo |-> lo, hi |-> SliceEnd(lo, end), end |-> end]
  BY <1>7, <1>9, <1>11, <1>14 DEF StartRun
<1>16. ids \in SUBSET Ids /\ S \ ids \in SUBSET Ids
  BY <1>1, <1>8
<1>17. StartRun(S) \in RunRec
  BY <1>10, <1>12, <1>13, <1>15, <1>16 DEF RunRec
<1>18. /\ StartRun(S).phase = "claimed" /\ StartRun(S).ids = ids /\ StartRun(S).rest = S \ ids
       /\ StartRun(S).lo = lo /\ StartRun(S).end = end /\ StartRun(S).refold = refold
  BY <1>15
<1>19. Sliced(StartRun(S))
  BY <1>13, <1>15 DEF Sliced
<1> QED
  BY <1>8, <1>10, <1>12, <1>14, <1>17, <1>18, <1>19

-----------------------------------------------------------------------------
(* What a step does to the queue and to the run in hand.                   *)

Publishes ==
    \E refold \in BOOLEAN : \E pieces :
        /\ NewTickets(pieces, refold) /\ CanPublish(pieces)
        /\ tickets' = Publish(pieces) /\ run' = run

Reads ==
    /\ tickets' = tickets
    /\ \/ run' = run
       \/ \E ph \in {"read", "folded"} : run.phase # "idle" /\ run' = [run EXCEPT !.phase = ph]

Claims ==
    /\ tickets' = tickets /\ run.phase = "idle"
    /\ \E S \in SUBSET Open : S # {} /\ run' = StartRun(S)

RollsBack == run.phase # "idle" /\ \E recorded \in BOOLEAN : Rollback(recorded)

Commits == run.phase = "folded" /\ \E byTxn \in StoredByTxn : Commit(Plan(byTxn))

Stops == tickets' = tickets /\ run' = Idle

\* A change of the source tickets it in its own transaction.
LEMMA SourceTickets ==
  ASSUME Shape, Source
  PROVE  Publishes \/ Reads
<1>1. ASSUME NEW x \in Txns, NEW r \in Rows \cup {None}, RebuildWindow(x, r)
      PROVE  Publishes
  <2>1. PICK span : span = {row.at : row \in {src[x], r} \ {None}}
    OBVIOUS
  <2>2. \A row \in Rows : row.at \in Instants
    BY ConstantsAssumption
  <2>3. span \in SUBSET Instants /\ span # {}
    BY <1>1, <2>1, <2>2 DEF Shape, TablesShape, Table, RebuildWindow
  <2>4. NewTickets(Pieces(Min(span), Max(span), FALSE), FALSE)
    BY <2>3, SpanTickets
  <2> QED
    BY <1>1, <2>1, <2>4 DEF RebuildWindow, Publishes
<1>2. ASSUME NEW S \in SUBSET Txns, NEW full \in BOOLEAN, FreeForRebuild(S, full)
      PROVE  Publishes
  <2>1. LastInstant \in Nat /\ \A row \in Rows : row.at \in Instants
    BY ConstantsAssumption
  <2>2. PICK span : span = {src[x].at : x \in S}
    OBVIOUS
  <2>3. span \in SUBSET Instants /\ span # {}
    BY <1>2, <2>1, <2>2 DEF Shape, TablesShape, Table, FreeForRebuild, Live
  <2>4. NewTickets(Pieces(Min(span), Max(span), FALSE), FALSE)
    BY <2>3, SpanTickets
  <2>5. NewTickets(Pieces(floor + 1, LastInstant, FALSE), FALSE)
    <3>1. floor + 1 \in Nat /\ LastInstant \in Int /\ LastInstant <= LastInstant
      BY <2>1 DEF Shape, SwitchShape
    <3> QED
      BY <3>1, PiecesAreTickets
  <2> QED
    BY <1>2, <2>2, <2>4, <2>5 DEF FreeForRebuild, Publishes
<1>3. ASSUME FinishRebuild \/ FlagGoesStale \/ DropPartition \/ AgeDay
      PROVE  Reads
  BY <1>3 DEF FinishRebuild, FlagGoesStale, DropPartition, AgeDay, Reads
<1> QED
  BY <1>1, <1>2, <1>3 DEF Source

\* A switch and its ticket commit together, and so does a reconciliation.
LEMMA SwitchesTicket ==
  ASSUME Shape, Switches
  PROVE  Publishes \/ Reads
<1> USE DEF Publishes
<1>1. \A refold \in BOOLEAN : NewTickets(SwitchPieces(refold), refold) /\ NewTickets(<<>>, refold)
  BY SwitchTickets, NoTickets DEF Shape
<1>2. ASSUME NEW n, SetCapture(n) \/ SetShow(n) \/ SetExpand(n) PROVE Publishes
  BY <1>1, <1>2 DEF SetCapture, SetShow, SetExpand, Flip
<1>3. ASSUME SetFieldCapture PROVE Publishes
  BY <1>1, <1>3 DEF SetFieldCapture, Flip
<1>4. ASSUME NEW m, NEW from \in Instants, ActivateMetric(m, from) PROVE Publishes
  <2>1. from \in Nat /\ tstate.wm \in Int /\ tstate.wm <= LastInstant
    BY ConstantsAssumption DEF Instants, Shape, TablesShape
  <2>2. NewTickets(Pieces(from, tstate.wm, TRUE), TRUE)
    BY <2>1, PiecesAreTickets
  <2> QED
    BY <1>1, <1>4, <2>2 DEF ActivateMetric
<1>5. ASSUME NEW m, PauseMetric(m) PROVE Reads
  BY <1>5 DEF PauseMetric, Reads
<1>6. ASSUME Reconcile PROVE Publishes
  <2>1. FactsVsTransactions \in SUBSET Instants /\ FactsVsTransactions # {}
    <3>1. \A row \in Rows : row.at \in Instants
      BY ConstantsAssumption
    <3> QED
      BY <1>6, <3>1 DEF Reconcile, FactsVsTransactions, Live, Shape, TablesShape, Table
  <2>2. NewTickets(Pieces(Min(FactsVsTransactions), Max(FactsVsTransactions), FALSE), FALSE)
    BY <2>1, SpanTickets
  <2> QED
    BY <1>6, <2>2 DEF Reconcile
<1> QED
  BY <1>2, <1>3, <1>4, <1>5, <1>6 DEF Switches

\* The cases of a step, as the queue and the run in hand see it.
LEMMA QueueCases ==
  ASSUME Shape, [Next]_vars
  PROVE  Publishes \/ Reads \/ Claims \/ RollsBack \/ Commits \/ Stops
<1>1. CASE Source
  BY <1>1, SourceTickets
<1>2. CASE Switches
  BY <1>2, SwitchesTicket
<1>3. CASE Claim
  <2>1. PICK backedOff \in SUBSET {i \in Open : tickets[i].attempts > 0} :
           LET due == {i \in Open : tickets[i].attempts = 0} \cup backedOff
           IN  run.phase = "idle" /\ due # {} /\ run' = StartRun(due) /\ tickets' = tickets
    BY <1>3 DEF Claim
  <2>2. {i \in Open : tickets[i].attempts = 0} \cup backedOff \in SUBSET Open
    OBVIOUS
  <2> QED
    BY <2>1, <2>2 DEF Claims
<1>4. CASE ReadSource \/ ReadRegistry
  BY <1>4 DEF ReadSource, ReadRegistry, Reads
<1>5. CASE EndRun
  <2>1. PICK byTxn \in StoredByTxn : Commit(Plan(byTxn)) \/ FailOnConflict(Plan(byTxn))
    BY <1>5 DEF EndRun
  <2> QED
    BY <1>5, <2>1 DEF EndRun, Commits, RollsBack, FailOnConflict
<1>6. CASE \E recorded \in BOOLEAN : Fail(recorded)
  BY <1>6 DEF Fail, RollsBack
<1>7. CASE Crash
  BY <1>7 DEF Crash, Stops
<1>8. CASE UNCHANGED vars
  BY <1>8 DEF vars, Reads
<1> QED
  BY <1>1, <1>2, <1>3, <1>4, <1>5, <1>6, <1>7, <1>8 DEF Next, Worker

\* The runs of a claim are taken one after the other, each of its own tickets.
LEMMA NextRunShape ==
  ASSUME QueueShape
  PROVE  /\ NextRun(run.rest) \in RunRec /\ NextRun(run.rest).phase \in {"idle", "claimed"}
         /\ Sliced(NextRun(run.rest))
         /\ NextRun(run.rest).ids \cup NextRun(run.rest).rest \subseteq run.rest
         /\ NextRun(run.rest).ids \cap NextRun(run.rest).rest = {}
         /\ \A i \in NextRun(run.rest).ids : /\ NextRun(run.rest).lo <= tickets[i].lo
                                             /\ tickets[i].hi <= NextRun(run.rest).end
                                             /\ tickets[i].refold => NextRun(run.rest).refold
<1>1. CASE run.rest = {}
  <2>1. NextRun(run.rest) = Idle
    BY <1>1 DEF NextRun
  <2>2. Idle \in RunRec /\ Idle.phase = "idle" /\ Idle.ids = {} /\ Idle.rest = {} /\ Sliced(Idle)
    BY DEF Idle, RunRec, Sliced
  <2> QED
    BY <2>1, <2>2
<1>2. CASE run.rest # {}
  <2>1. NextRun(run.rest) = StartRun(run.rest)
    BY <1>2 DEF NextRun
  <2>2. run.rest \in SUBSET Open
    BY DEF QueueShape
  <2>3. /\ StartRun(run.rest) \in RunRec /\ StartRun(run.rest).phase = "claimed"
        /\ Sliced(StartRun(run.rest))
        /\ StartRun(run.rest).ids \subseteq run.rest
        /\ StartRun(run.rest).rest = run.rest \ StartRun(run.rest).ids
        /\ \A i \in StartRun(run.rest).ids : /\ StartRun(run.rest).lo <= tickets[i].lo
                                             /\ tickets[i].hi <= StartRun(run.rest).end
                                             /\ tickets[i].refold => StartRun(run.rest).refold
    BY <1>2, <2>2, RunStarted
  <2> QED
    BY <2>1, <2>3
<1> QED
  BY <1>1, <1>2

\* A published ticket takes a free place and disturbs none.
LEMMA PublishedShape ==
  ASSUME QueueShape, Publishes
  PROVE  /\ QueueShape'
         /\ \A i \in Ids \ Free : tickets'[i] = tickets[i]
<1>1. PICK refold \in BOOLEAN, n \in Nat :
         \E pieces :
            /\ NewTickets(pieces, refold) /\ CanPublish(pieces) /\ tickets' = Publish(pieces)
            /\ DOMAIN pieces = 1 .. n
            /\ \A k \in 1 .. n : /\ Bounded(pieces[k]) /\ pieces[k].st = "open"
                                 /\ pieces[k].attempts = 0
  BY DEF Publishes, NewTickets
<1>2. PICK pieces : /\ NewTickets(pieces, refold) /\ CanPublish(pieces) /\ tickets' = Publish(pieces)
                    /\ DOMAIN pieces = 1 .. n
                    /\ \A k \in 1 .. n : /\ Bounded(pieces[k]) /\ pieces[k].st = "open"
                                         /\ pieces[k].attempts = 0
  BY <1>1
<1>3. /\ tickets' \in [Ids -> Ticket]
      /\ \A i \in Ids \ Free : tickets'[i] = tickets[i]
      /\ \A i \in Free : tickets'[i] = tickets[i] \/ \E k \in 1 .. n : tickets'[i] = pieces[k]
  BY <1>2, Published
<1>4. run' = run
  BY DEF Publishes
<1>5. MaxAttempts \in Nat /\ 0 < MaxAttempts
  BY ConstantsAssumption
<1>6. \A i \in Ids : /\ Bounded(tickets'[i]) /\ tickets'[i].attempts <= MaxAttempts
                     /\ tickets'[i].st = "open" => tickets'[i].attempts < MaxAttempts
  <2> TAKE i \in Ids
  <2>1. CASE tickets'[i] = tickets[i]
    BY <2>1 DEF QueueShape, Open
  <2>2. CASE \E k \in 1 .. n : tickets'[i] = pieces[k]
    BY <1>2, <1>5, <2>2
  <2> QED
    BY <1>3, <2>1, <2>2
<1>7. Open \subseteq Open'
  BY <1>3 DEF Open, Free
<1> QED
  BY <1>3, <1>4, <1>6, <1>7 DEF QueueShape, Open, RunRec, Bounded

\* A failed run keeps its tickets, but for the count that may kill them.
LEMMA RolledBackShape ==
  ASSUME QueueShape, RollsBack
  PROVE  /\ QueueShape' /\ run' = NextRun(run.rest)
         /\ \A i \in Ids : /\ tickets'[i].lo = tickets[i].lo /\ tickets'[i].hi = tickets[i].hi
                           /\ tickets'[i].refold = tickets[i].refold
                           /\ (i \in Open \cup Dead) => (i \in Open \cup Dead)'
         /\ \A i \in run.rest : tickets'[i] = tickets[i]
<1>1. PICK recorded \in BOOLEAN :
         /\ tickets' = [i \in Ids |-> IF recorded /\ i \in run.ids THEN AfterFailure(i) ELSE tickets[i]]
         /\ run' = NextRun(run.rest)
  BY DEF RollsBack, Rollback
<1>2. /\ run.ids \subseteq Ids /\ run.rest \subseteq Ids /\ run.ids \cap run.rest = {}
      /\ run.ids \subseteq Open /\ run.rest \subseteq Open
  BY DEF QueueShape, Open
<1>3. MaxAttempts \in Nat
  BY ConstantsAssumption
<1>4. ASSUME NEW i \in Ids
      PROVE  /\ tickets'[i] \in Ticket /\ Bounded(tickets'[i])
             /\ tickets'[i].lo = tickets[i].lo /\ tickets'[i].hi = tickets[i].hi
             /\ tickets'[i].refold = tickets[i].refold
             /\ tickets'[i].attempts <= MaxAttempts
             /\ tickets'[i].st = "open" => tickets'[i].attempts < MaxAttempts
             /\ tickets[i].st \in {"open", "dead"} => tickets'[i].st \in {"open", "dead"}
  <2>1. PICK k \in Ticket : k = tickets[i]
    BY DEF QueueShape
  <2>2. Bounded(k) /\ k.attempts <= MaxAttempts /\ (k.st = "open" => k.attempts < MaxAttempts)
    BY <2>1 DEF QueueShape, Open
  <2>3. CASE recorded /\ i \in run.ids
    <3>1. k.st = "open"
      BY <1>2, <2>1, <2>3 DEF Open
    <3>2. tickets'[i] = [k EXCEPT !.attempts = k.attempts + 1,
                                  !.st = IF k.attempts + 1 >= MaxAttempts THEN "dead" ELSE "open"]
      BY <1>1, <2>1, <2>3 DEF AfterFailure
    <3>3. k.attempts \in Nat /\ k.attempts + 1 <= MaxAttempts
      BY <1>3, <2>2, <3>1 DEF Ticket
    <3>4. PICK a \in Nat, st \in {"open", "dead"} :
             /\ a = k.attempts + 1 /\ a <= MaxAttempts /\ (st = "open" => a < MaxAttempts)
             /\ tickets'[i] = [k EXCEPT !.attempts = a, !.st = st]
      <4>1. PICK a \in Nat : a = k.attempts + 1 /\ a <= MaxAttempts
        BY <3>3
      <4>2. PICK st \in {"open", "dead"} : st = IF a >= MaxAttempts THEN "dead" ELSE "open"
        OBVIOUS
      <4>3. st = "open" => a < MaxAttempts
        BY <1>3, <4>1, <4>2
      <4>4. tickets'[i] = [k EXCEPT !.attempts = a, !.st = st]
        BY <3>2, <4>1, <4>2
      <4> QED
        BY <4>1, <4>3, <4>4
    <3>5. /\ tickets'[i] \in Ticket /\ tickets'[i].lo = k.lo /\ tickets'[i].hi = k.hi
          /\ tickets'[i].refold = k.refold /\ tickets'[i].attempts = a /\ tickets'[i].st = st
      BY <3>4 DEF Ticket
    <3> QED
      BY <2>1, <2>2, <3>4, <3>5 DEF Bounded
  <2>4. CASE ~(recorded /\ i \in run.ids)
    BY <1>1, <2>1, <2>2, <2>4
  <2> QED
    BY <2>3, <2>4
<1>5. \A i \in run.rest : tickets'[i] = tickets[i]
  BY <1>1, <1>2
<1>6. run.rest \subseteq Open'
  BY <1>2, <1>5 DEF Open
<1>7. tickets' \in [Ids -> Ticket]
  BY <1>1, <1>4
<1>8. QueueShape'
  BY <1>1, <1>4, <1>6, <1>7, NextRunShape DEF QueueShape, Open
<1> QED
  BY <1>1, <1>4, <1>5, <1>8 DEF Open, Dead

\* A commit stamps its tickets with the last slice only.
LEMMA CommittedShape ==
  ASSUME QueueShape, Commits
  PROVE  /\ QueueShape'
         /\ \A i \in Ids : ~(LastSlice /\ i \in run.ids) => tickets'[i] = tickets[i]
         /\ LastSlice => run' = NextRun(run.rest)
         /\ ~LastSlice => /\ tickets' = tickets /\ run'.ids = run.ids /\ run'.lo = run.hi
                          /\ run'.end = run.end /\ run'.refold = run.refold
                          /\ run'.phase = "claimed" /\ run'.hi = SliceEnd(run.hi, run.end)
<1>1. /\ tickets' = Consume(IF LastSlice THEN run.ids ELSE {})
      /\ run' = IF LastSlice THEN NextRun(run.rest)
                ELSE [run EXCEPT !.phase = "claimed", !.lo = run.hi, !.hi = SliceEnd(run.hi, run.end)]
  BY DEF Commits, Commit
<1>2. \A i \in Ids : tickets'[i] = IF LastSlice /\ i \in run.ids THEN NoTicket ELSE tickets[i]
  BY <1>1 DEF Consume
<1>3. NoTicket \in Ticket /\ Bounded(NoTicket) /\ NoTicket.attempts <= MaxAttempts /\ NoTicket.st = "free"
  <2>1. MaxAttempts \in Nat /\ Pad \in Nat /\ LastInstant \in Nat
    BY ConstantsAssumption
  <2> QED
    BY <2>1 DEF NoTicket, Ticket, Bounded
<1>4. /\ tickets' \in [Ids -> Ticket]
      /\ \A i \in Ids : /\ Bounded(tickets'[i]) /\ tickets'[i].attempts <= MaxAttempts
                        /\ tickets'[i].st = "open" => tickets'[i].attempts < MaxAttempts
  <2>1. \A i \in Ids : tickets'[i] \in Ticket
    BY <1>2, <1>3 DEF QueueShape
  <2>2. tickets' \in [Ids -> Ticket]
    BY <1>1, <2>1 DEF Consume
  <2>3. \A i \in Ids : /\ Bounded(tickets'[i]) /\ tickets'[i].attempts <= MaxAttempts
                       /\ tickets'[i].st = "open" => tickets'[i].attempts < MaxAttempts
    BY <1>2, <1>3 DEF QueueShape, Open
  <2> QED
    BY <2>2, <2>3
<1>5. /\ run.ids \subseteq Ids /\ run.rest \subseteq Ids /\ run.ids \cap run.rest = {}
      /\ run.ids \subseteq Open /\ run.rest \subseteq Open /\ run \in RunRec
  BY DEF QueueShape, Open
<1>6. CASE LastSlice
  <2>1. run.rest \subseteq Open'
    BY <1>2, <1>5 DEF Open
  <2>2. run' = NextRun(run.rest)
    BY <1>1, <1>6
  <2>3. run' \in RunRec /\ run'.ids \subseteq Open' /\ run'.rest \subseteq Open' /\ run'.ids \cap run'.rest = {}
    BY <2>1, <2>2, NextRunShape
  <2>4. QueueShape'
    BY <1>4, <2>3 DEF QueueShape, Open
  <2> QED
    BY <1>2, <1>6, <2>2, <2>4
<1>7. CASE ~LastSlice
  <2>1. tickets' = tickets
    BY <1>2, <1>4, <1>7 DEF QueueShape
  <2>2. run' = [run EXCEPT !.phase = "claimed", !.lo = run.hi, !.hi = SliceEnd(run.hi, run.end)]
    BY <1>1, <1>7
  <2>3. SliceEnd(run.hi, run.end) \in Int
    <3>1. PICK a \in Int, b \in Int : a = run.hi + MaxSlice /\ b = run.end
      BY <1>5, ConstantsAssumption DEF RunRec
    <3> QED
      BY <3>1, OfTwo DEF SliceEnd
  <2>4. run' \in RunRec
    BY <1>5, <2>2, <2>3 DEF RunRec
  <2>5. /\ run'.ids = run.ids /\ run'.rest = run.rest /\ run'.lo = run.hi /\ run'.end = run.end
        /\ run'.refold = run.refold /\ run'.phase = "claimed" /\ run'.hi = SliceEnd(run.hi, run.end)
    BY <1>5, <2>2 DEF RunRec
  <2>6. QueueShape'
    BY <2>1, <2>4, <2>5 DEF QueueShape, Open, Bounded
  <2> QED
    BY <1>7, <2>1, <2>5, <2>6
<1> QED
  BY <1>6, <1>7

\* Reads change nothing of the queue; a claim takes the first of the open tickets.
LEMMA ClaimedShape ==
  ASSUME QueueShape, Reads \/ Claims \/ Stops
  PROVE  /\ QueueShape' /\ tickets' = tickets
         /\ Sliced(run) => Sliced(run')
         /\ \/ run'.ids = run.ids /\ run'.lo = run.lo /\ run'.end = run.end /\ run'.refold = run.refold
            \/ \A i \in run'.ids : /\ run'.lo <= tickets[i].lo /\ tickets[i].hi <= run'.end
                                   /\ tickets[i].refold => run'.refold
<1>0. run \in RunRec /\ run.ids \subseteq Open /\ run.rest \subseteq Open /\ run.ids \cap run.rest = {}
  BY DEF QueueShape
<1>1. ASSUME /\ tickets' = tickets /\ run' \in RunRec
             /\ run'.ids \subseteq Open /\ run'.rest \subseteq Open /\ run'.ids \cap run'.rest = {}
      PROVE  QueueShape'
  BY <1>1 DEF QueueShape, Open, Bounded
<1>2. CASE Reads
  <2>1. \/ run' = run
        \/ \E ph \in {"read", "folded"} : run' = [run EXCEPT !.phase = ph]
    BY <1>2 DEF Reads
  <2>2. /\ run' \in RunRec /\ run'.ids = run.ids /\ run'.rest = run.rest /\ run'.lo = run.lo
        /\ run'.end = run.end /\ run'.refold = run.refold /\ run'.hi = run.hi
    BY <1>0, <2>1 DEF RunRec
  <2> QED
    BY <1>0, <1>1, <1>2, <2>2 DEF Reads, Sliced
<1>3. CASE Claims
  <2>1. PICK S \in SUBSET Open : S # {} /\ run' = StartRun(S)
    BY <1>3 DEF Claims
  <2>2. /\ StartRun(S) \in RunRec /\ Sliced(StartRun(S))
        /\ StartRun(S).ids \subseteq S /\ StartRun(S).rest = S \ StartRun(S).ids
        /\ \A i \in StartRun(S).ids : /\ StartRun(S).lo <= tickets[i].lo
                                      /\ tickets[i].hi <= StartRun(S).end
                                      /\ tickets[i].refold => StartRun(S).refold
    BY <2>1, RunStarted
  <2>3. run'.ids \subseteq Open /\ run'.rest \subseteq Open /\ run'.ids \cap run'.rest = {}
    BY <2>1, <2>2
  <2> QED
    BY <1>1, <1>3, <2>1, <2>2, <2>3 DEF Claims
<1>4. CASE Stops
  <2>1. Idle \in RunRec /\ Idle.ids = {} /\ Idle.rest = {} /\ Sliced(Idle)
    BY DEF Idle, RunRec, Sliced
  <2> QED
    BY <1>1, <1>4, <2>1 DEF Stops
<1> QED
  BY <1>2, <1>3, <1>4

\* Every step keeps the types of the queue and of the run in hand.
LEMMA QueueNext == Shape /\ [Next]_vars => QueueShape'
  BY QueueCases, PublishedShape, RolledBackShape, CommittedShape, ClaimedShape DEF Shape

\* A ticket stays until the last slice of its run commits.
LEMMA TicketsStay ==
  ASSUME Shape, [Next]_vars, NEW i \in Open \cup Dead, ~(Commits /\ LastSlice /\ i \in run.ids)
  PROVE  /\ (i \in Open \cup Dead)'
         /\ tickets'[i].lo = tickets[i].lo /\ tickets'[i].hi = tickets[i].hi
         /\ tickets'[i].refold = tickets[i].refold
<1>1. i \in Ids \ Free
  BY DEF Open, Dead, Free
<1>2. QueueShape
  BY DEF Shape
<1>3. CASE RollsBack
  BY <1>1, <1>2, <1>3, RolledBackShape
<1>4. CASE ~RollsBack
  <2>1. tickets'[i] = tickets[i]
    BY <1>1, <1>2, <1>4, QueueCases, PublishedShape, CommittedShape, ClaimedShape
  <2> QED
    BY <1>1, <2>1 DEF Open, Dead
<1> QED
  BY <1>3, <1>4

\* A slice of the run is in hand whatever happens to the queue.
LEMMA SlicedNext == Shape /\ Sliced(run) /\ [Next]_vars => Sliced(run')
<1> SUFFICES ASSUME Shape, Sliced(run), [Next]_vars PROVE Sliced(run')
  OBVIOUS
<1>0. QueueShape /\ run \in RunRec
  BY DEF Shape, QueueShape
<1>1. CASE Publishes
  BY <1>1 DEF Publishes
<1>2. CASE Reads \/ Claims \/ Stops
  BY <1>0, <1>2, ClaimedShape
<1>3. CASE RollsBack
  BY <1>0, <1>3, RolledBackShape, NextRunShape
<1>4. CASE Commits /\ LastSlice
  BY <1>0, <1>4, CommittedShape, NextRunShape
<1>5. CASE Commits /\ ~LastSlice
  <2>1. run.hi \in Int /\ run.end \in Int /\ run.hi <= run.end
    BY <1>0 DEF RunRec, Sliced
  <2>2. run'.lo = run.hi /\ run'.end = run.end /\ run'.hi = SliceEnd(run.hi, run.end)
    BY <1>0, <1>5, CommittedShape
  <2> QED
    BY <2>1, <2>2, SliceEnds DEF Sliced
<1> QED
  BY <1>1, <1>2, <1>3, <1>4, <1>5, QueueCases

\* The run in hand covers its tickets whatever happens to the queue.
LEMMA RunNext == Shape /\ RunInv /\ [Next]_vars => RunInv'
<1> SUFFICES ASSUME Shape, RunInv, [Next]_vars, NEW i \in run'.ids
             PROVE  tickets'[i].hi <= run'.end /\ (tickets'[i].refold => run'.refold)
  BY SlicedNext DEF RunInv
<1>0. QueueShape
  BY DEF Shape
<1>1. run.ids \subseteq Ids \ Free /\ run.rest \subseteq Ids \ Free /\ run.ids \cap run.rest = {}
  BY <1>0 DEF QueueShape, Open, Free
<1>2. CASE Publishes
  <2>1. run' = run /\ tickets'[i] = tickets[i]
    BY <1>0, <1>1, <1>2, PublishedShape DEF Publishes
  <2> QED
    BY <2>1 DEF RunInv
<1>3. CASE Reads \/ Claims \/ Stops
  BY <1>0, <1>3, ClaimedShape DEF RunInv
<1>4. CASE RollsBack
  BY <1>0, <1>1, <1>4, RolledBackShape, NextRunShape
<1>5. CASE Commits
  <2>1. CASE LastSlice
    <3>1. i \in run.rest /\ run' = NextRun(run.rest)
      BY <1>0, <1>5, <2>1, CommittedShape, NextRunShape
    <3>2. tickets'[i] = tickets[i]
      BY <1>0, <1>1, <1>5, <3>1, CommittedShape
    <3> QED
      BY <1>0, <3>1, <3>2, NextRunShape
  <2>2. CASE ~LastSlice
    BY <1>0, <1>5, <2>2, CommittedShape DEF RunInv
  <2> QED
    BY <2>1, <2>2
<1> QED
  BY <1>2, <1>3, <1>4, <1>5, QueueCases

\* A ticket that waits still waits, unless the run that holds it commits.
LEMMA WaitStays ==
  ASSUME Shape, [Next]_vars, NEW t \in Int, NEW i \in Open \cup Dead, Waits(i, t),
         ~Commits \/ i \notin run.ids
  PROVE  /\ i \in (Open \cup Dead)' /\ Waits(i, t)'
         /\ tickets'[i].refold = tickets[i].refold
<1>0. QueueShape
  BY DEF Shape
<1>1. /\ (i \in Open \cup Dead)'
      /\ tickets'[i].lo = tickets[i].lo /\ tickets'[i].hi = tickets[i].hi
      /\ tickets'[i].refold = tickets[i].refold
  BY TicketsStay
<1>2. i \in run'.ids => run'.lo <= t
  <2> SUFFICES ASSUME i \in run'.ids PROVE run'.lo <= t
    OBVIOUS
  <2>0. tickets[i].lo <= t /\ tickets[i].lo \in Int /\ (i \in run.ids => run.lo <= t) /\ i \in Ids
    BY <1>0 DEF Waits, Covers, QueueShape, Ticket, Open, Dead
  <2>1. run'.lo \in Int
    BY QueueNext DEF QueueShape, RunRec
  <2>2. CASE Publishes
    BY <2>0, <2>2 DEF Publishes
  <2>3. CASE Reads \/ Claims \/ Stops
    BY <1>0, <2>0, <2>1, <2>3, ClaimedShape
  <2>4. CASE RollsBack
    <3>1. run'.lo <= tickets[i].lo
      BY <1>0, <2>4, RolledBackShape, NextRunShape
    <3> QED
      BY <2>0, <2>1, <3>1
  <2>5. CASE Commits
    <3>1. LastSlice
      BY <1>0, <2>5, CommittedShape
    <3>2. run'.lo <= tickets[i].lo
      BY <1>0, <2>5, <3>1, CommittedShape, NextRunShape
    <3> QED
      BY <2>0, <2>1, <3>2
  <2> QED
    BY <2>2, <2>3, <2>4, <2>5, QueueCases
<1>3. Waits(i, t)'
  BY <1>1, <1>2 DEF Waits, Covers
<1> QED
  BY <1>1, <1>3

\* A commit takes a ticket off an instant only where its own slice was folded.
LEMMA WaitGone ==
  ASSUME Shape, RunInv, [Next]_vars, Commits, NEW t \in Int, NEW i \in Open \cup Dead, Waits(i, t),
         ~(i \in (Open \cup Dead)' /\ Waits(i, t)' /\ tickets'[i].refold = tickets[i].refold)
  PROVE  i \in run.ids /\ InSlice(t)
<1>0. QueueShape /\ run \in RunRec
  BY DEF Shape, QueueShape
<1>1. i \in run.ids
  BY WaitStays
<1>2. run.lo <= t /\ tickets[i].hi <= run.end /\ t < tickets[i].hi
  BY <1>1 DEF RunInv, Waits, Covers
<1>3. t < run.hi
  <2>1. CASE LastSlice
    <3>1. tickets[i].hi \in Int /\ run.end \in Int /\ run.hi = run.end
      BY <1>0, <2>1 DEF LastSlice, QueueShape, Ticket, Open, Dead, RunRec
    <3> QED
      BY <1>2, <3>1
  <2>2. CASE ~LastSlice
    <3>1. /\ (i \in Open \cup Dead)'
          /\ tickets'[i].lo = tickets[i].lo /\ tickets'[i].hi = tickets[i].hi
          /\ tickets'[i].refold = tickets[i].refold
      BY <2>2, TicketsStay
    <3>2. run'.lo = run.hi /\ run.hi \in Int
      BY <1>0, <2>2, CommittedShape DEF RunRec
    <3>3. ~(run'.lo <= t)
      BY <3>1 DEF Waits, Covers
    <3> QED
      BY <3>2, <3>3
  <2> QED
    BY <2>1, <2>2
<1> QED
  BY <1>1, <1>2, <1>3 DEF InSlice

\* What waits for a refold still waits after any step but a commit.
LEMMA PendingStays ==
  ASSUME Shape, [Next]_vars, ~Commits, NEW t \in Int, Pending(t)
  PROVE  Pending(t)'
<1>1. PICK i \in Open \cup Dead : tickets[i].refold /\ Waits(i, t)
  BY DEF Pending, ToFold
<1> QED
  BY <1>1, WaitStays DEF Pending, ToFold

\* What waits for a fold still waits after any step but a commit.
LEMMA WaitingStays ==
  ASSUME Shape, [Next]_vars, ~Commits, NEW t \in Int, Waiting(t)
  PROVE  Waiting(t)'
<1>1. PICK i \in Open \cup Dead : Waits(i, t)
  BY DEF Waiting
<1> QED
  BY <1>1, WaitStays DEF Waiting

-----------------------------------------------------------------------------
(* The types of what a run reads and of what it computes.                  *)

\* The newest start of the source, or 0 when there is none.
LEMMA NewestStart ==
  ASSUME NEW f \in Table
  PROVE  (IF Starts(f) = {} THEN 0 ELSE Max(Starts(f))) \in 0 .. LastInstant
<1>0. LastInstant \in Nat /\ \A row \in Rows : row.at \in 1 .. LastInstant
  BY ConstantsAssumption DEF Instants
<1>1. CASE Starts(f) = {}
  BY <1>0, <1>1
<1>2. CASE Starts(f) # {}
  <2>1. PICK S : S = Starts(f)
    OBVIOUS
  <2>2. S \subseteq 1 .. LastInstant
    BY <1>0, <2>1 DEF Starts, Table
  <2>3. S \in SUBSET Int /\ S # {} /\ LastInstant \in Int /\ \A x \in S : x <= LastInstant
    BY <1>0, <1>2, <2>1, <2>2
  <2>4. Max(S) \in S
    BY <2>3, MaxIsGreatest
  <2>5. Max(S) \in 1 .. LastInstant
    BY <2>2, <2>4
  <2> QED
    BY <1>0, <1>2, <2>1, <2>5
<1> QED
  BY <1>1, <1>2

\* Before it reads, a run has read nothing.
LEMMA NoViewShape == NoView \in ViewRec
<1>1. [x \in Txns |-> None] \in Table /\ 0 \in 0 .. LastInstant
  BY ConstantsAssumption DEF Table
<1> QED
  BY <1>1 DEF NoView, ViewRec

\* The switches, the definitions, the view and a rebuild keep their types.
LEMMA SwitchNext == Shape /\ [Next]_vars => SwitchShape'
<1> SUFFICES ASSUME Shape, [Next]_vars PROVE SwitchShape'
  OBVIOUS
<1>0. /\ switch \in SwitchRec /\ metric \in [Metrics -> Definition] /\ view \in ViewRec
      /\ run.phase = "folded" => view.metric \in [Metrics -> Definition]
      /\ run \in RunRec /\ src \in Table /\ LastInstant \in Nat
  BY ConstantsAssumption DEF Shape, SwitchShape, QueueShape, TablesShape
<1>1. CASE Source
  <2>1. /\ switch' = switch /\ metric' = metric /\ view' = view /\ run' = run
    BY <1>1 DEF Source, RebuildWindow, FreeForRebuild, FinishRebuild, FlagGoesStale, DropPartition, AgeDay
  <2>2. floor' \in 0 .. LastInstant
    <3>1. floor' = floor \/ (floor < LastInstant /\ floor' = floor + 1)
      BY <1>1 DEF Source, RebuildWindow, FreeForRebuild, FinishRebuild, FlagGoesStale, DropPartition, AgeDay
    <3> QED
      BY <1>0, <3>1 DEF Shape, SwitchShape
  <2>3. /\ rebuild'.st \in {"none", "flagged", "bare", "stale"}
        /\ DOMAIN rebuild'.rows \subseteq Txns /\ \A x \in DOMAIN rebuild'.rows : rebuild'.rows[x] \in Rows
    <3>1. CASE rebuild' = rebuild
      BY <3>1 DEF Shape, SwitchShape
    <3>2. CASE FlagGoesStale
      <4>1. rebuild' = [rebuild EXCEPT !.st = "stale"]
        BY <3>2 DEF FlagGoesStale
      <4>2. rebuild'.rows = rebuild.rows /\ rebuild'.st \in {rebuild.st, "stale"}
        BY <4>1
      <4> QED
        BY <4>2 DEF Shape, SwitchShape
    <3>3. CASE FinishRebuild
      <4>1. rebuild' = [st |-> "none", rows |-> <<>>] /\ DOMAIN <<>> = {}
        BY <3>3 DEF FinishRebuild
      <4> QED
        BY <4>1
    <3>4. ASSUME NEW S \in SUBSET Txns, NEW full \in BOOLEAN, FreeForRebuild(S, full)
          PROVE  /\ rebuild'.st \in {"none", "flagged", "bare", "stale"}
                 /\ DOMAIN rebuild'.rows \subseteq Txns
                 /\ \A x \in DOMAIN rebuild'.rows : rebuild'.rows[x] \in Rows
      <4>1. /\ rebuild' = [st |-> IF full THEN "flagged" ELSE "bare", rows |-> [x \in S |-> src[x]]]
            /\ \A x \in S : src[x] # None
        BY <3>4 DEF FreeForRebuild, Live
      <4>2. \A x \in S : src[x] \in Rows
        BY <1>0, <4>1 DEF Table
      <4> QED
        BY <4>1, <4>2
    <3> QED
      BY <1>1, <3>1, <3>2, <3>3, <3>4 DEF Source, RebuildWindow, DropPartition, AgeDay
  <2> QED
    BY <1>0, <2>1, <2>2, <2>3 DEF SwitchShape
<1>2. CASE Switches
  <2>1. view' = view /\ run' = run /\ rebuild' = rebuild /\ floor' = floor
    BY <1>2 DEF Switches, SetCapture, SetShow, SetExpand, SetFieldCapture, ActivateMetric, PauseMetric,
                Reconcile, Flip
  <2>2. switch' \in SwitchRec
    <3>1. Switched \subseteq Names
      BY ConstantsAssumption
    <3>2. ASSUME NEW n \in Switched, SetCapture(n) \/ SetShow(n) \/ SetExpand(n)
          PROVE  switch' \in SwitchRec
      <4>1. PICK off \in SUBSET Names, on \in SUBSET Names, some \in SUBSET Names,
                 hid \in SUBSET Names, exp \in SUBSET Names :
               /\ off = switch.suppressed \ {n} /\ on = switch.suppressed \cup {n}
               /\ hid = (switch.hidden \ {n}) \cup ({n} \ switch.hidden)
               /\ some = switch.expanded \ {n} /\ exp = switch.expanded \cup {n}
        BY <1>0, <3>1 DEF SwitchRec
      <4>2. \/ switch' = [switch EXCEPT !.suppressed = off] \/ switch' = [switch EXCEPT !.suppressed = on]
            \/ switch' = [switch EXCEPT !.hidden = hid]
            \/ switch' = [switch EXCEPT !.expanded = some] \/ switch' = [switch EXCEPT !.expanded = exp]
        BY <3>2, <4>1 DEF SetCapture, SetShow, SetExpand, Flip
      <4> QED
        BY <1>0, <4>2 DEF SwitchRec
    <3>3. ASSUME SetFieldCapture PROVE switch' \in SwitchRec
      BY <1>0, <3>3 DEF SetFieldCapture, Flip, SwitchRec
    <3> QED
      BY <1>0, <1>2, <3>2, <3>3 DEF Switches, ActivateMetric, PauseMetric, Reconcile
  <2>3. metric' \in [Metrics -> Definition]
    <3>0. Built \subseteq Metrics
      BY ConstantsAssumption
    <3>1. ASSUME NEW m \in Built, NEW from \in Instants, ActivateMetric(m, from)
          PROVE  metric' \in [Metrics -> Definition]
      <4>1. from \in Int
        BY <1>0 DEF Instants
      <4> QED
        BY <1>0, <3>0, <3>1, <4>1 DEF ActivateMetric, Definition
    <3>2. ASSUME NEW m \in Built, PauseMetric(m)
          PROVE  metric' \in [Metrics -> Definition]
      BY <1>0, <3>0, <3>2 DEF PauseMetric, Definition
    <3> QED
      BY <1>0, <1>2, <3>1, <3>2 DEF Switches, SetCapture, SetShow, SetExpand, SetFieldCapture, Reconcile,
                                    Flip
  <2> QED
    BY <1>0, <2>1, <2>2, <2>3 DEF SwitchShape, Shape
<1>3. CASE Worker
  <2>1. switch' = switch /\ metric' = metric /\ rebuild' = rebuild /\ floor' = floor
    BY <1>3 DEF Worker, Claim, ReadSource, ReadRegistry, EndRun, Commit, FailOnConflict, Fail, Rollback, Crash
  <2>2. view' \in ViewRec /\ (run'.phase = "folded" => view'.metric \in [Metrics -> Definition])
    <3>1. CASE Claim
      <4>1. view' = view /\ run.phase = "idle"
        BY <3>1 DEF Claim
      <4>2. Claims
        <5>1. PICK backedOff \in SUBSET {i \in Open : tickets[i].attempts > 0} :
                 LET due == {i \in Open : tickets[i].attempts = 0} \cup backedOff
                 IN  run.phase = "idle" /\ due # {} /\ run' = StartRun(due) /\ tickets' = tickets
          BY <3>1 DEF Claim
        <5>2. {i \in Open : tickets[i].attempts = 0} \cup backedOff \in SUBSET Open
          OBVIOUS
        <5> QED
          BY <5>1, <5>2 DEF Claims
      <4>3. run'.phase = "claimed"
        BY <4>2, RunStarted DEF Claims, Shape
      <4> QED
        BY <1>0, <4>1, <4>3
    <3>2. CASE ReadSource
      <4>1. /\ run' = [run EXCEPT !.phase = "read"]
            /\ view' = [NoView EXCEPT !.src = src, !.suppressed = switch.suppressed,
                                      !.expanded = switch.expanded, !.approved = switch.approved]
        BY <3>2 DEF ReadSource
      <4>2. run'.phase # "folded"
        BY <1>0, <4>1 DEF RunRec
      <4> QED
        BY <1>0, <4>1, <4>2, NoViewShape DEF ViewRec, SwitchRec
    <3>3. CASE ReadRegistry
      <4>1. PICK wm \in 0 .. LastInstant : wm = IF Starts(src) = {} THEN 0 ELSE Max(Starts(src))
        BY <1>0, NewestStart
      <4>2. view' = [view EXCEPT !.hidden = switch.hidden, !.metric = metric, !.wm = wm]
        BY <3>3, <4>1 DEF ReadRegistry
      <4> QED
        BY <1>0, <4>1, <4>2 DEF ViewRec, SwitchRec
    <3>4. ASSUME view' = NoView, \/ run' = NextRun(run.rest) \/ run' = Idle
                                 \/ run'.phase = "claimed"
          PROVE  view' \in ViewRec /\ run'.phase # "folded"
      BY <3>4, NoViewShape, NextRunShape DEF Shape, Idle
    <3>5. CASE EndRun \/ (\E recorded \in BOOLEAN : Fail(recorded)) \/ Crash
      <4>1. view' = NoView
        BY <3>5 DEF EndRun, Commit, FailOnConflict, Fail, Rollback, Crash
      <4>2. run' = NextRun(run.rest) \/ run' = Idle \/ run' = [run EXCEPT !.phase = "claimed", !.lo = run.hi,
                                                                      !.hi = SliceEnd(run.hi, run.end)]
        BY <3>5 DEF EndRun, Commit, FailOnConflict, Fail, Rollback, Crash
      <4> QED
        BY <1>0, <3>4, <4>1, <4>2 DEF RunRec
    <3> QED
      BY <1>3, <3>1, <3>2, <3>3, <3>5 DEF Worker
  <2> QED
    BY <1>0, <2>1, <2>2 DEF SwitchShape, Shape
<1>4. CASE UNCHANGED vars
  BY <1>4 DEF vars, SwitchShape, Shape
<1> QED
  BY <1>1, <1>2, <1>3, <1>4 DEF Next

-----------------------------------------------------------------------------
(* What a run computes.                                                    *)

\* Of the stored facts of a transaction the dict holds one (stored_by_txn).
LEMMA OneStoredPerTxn ==
  ASSUME TablesShape, NEW byTxn \in StoredByTxn
  PROVE  /\ byTxn \subseteq Stored /\ Stored \subseteq fact
         /\ IsFiniteSet(byTxn) /\ IsFiniteSet(Stored)
         /\ \A f, g \in byTxn : f.txn = g.txn => f = g
<1>1. byTxn \subseteq Stored /\ Stored \subseteq fact
  BY DEF StoredByTxn, Stored
<1>2. IsFiniteSet(byTxn) /\ IsFiniteSet(Stored)
  <2>1. byTxn \in SUBSET fact /\ Stored \in SUBSET fact
    BY <1>1
  <2> QED
    BY <2>1, FS_Subset DEF TablesShape
<1>3. ASSUME NEW f \in byTxn, NEW g \in byTxn, f.txn = g.txn
      PROVE  f = g
  <2>1. PICK S : S = {h \in byTxn : h.txn = f.txn}
    OBVIOUS
  <2>2. Cardinality(S) = 1
    BY <1>1, <2>1 DEF StoredByTxn
  <2>3. S \in SUBSET byTxn
    BY <2>1
  <2>4. IsFiniteSet(S)
    BY <1>2, <2>3, FS_Subset
  <2>5. PICK x : S = {x}
    BY <2>2, <2>4, FS_Singleton
  <2> QED
    BY <1>3, <2>1, <2>5
<1> QED
  BY <1>1, <1>2, <1>3

\* The facts a run derives: typed, finitely many, one per transaction, in its slice.
LEMMA PlanFacts ==
  ASSUME Shape, run.phase = "folded", NEW byTxn \in StoredByTxn
  PROVE  /\ Plan(byTxn).facts \subseteq FactRecord /\ IsFiniteSet(Plan(byTxn).facts)
         /\ \A f, g \in Plan(byTxn).facts : f.txn = g.txn => f = g
         /\ \A f \in Plan(byTxn).facts : InSlice(f.at)
         /\ Plan(byTxn).diff = Diff(Stored, Plan(byTxn).facts)
         /\ Plan(byTxn).quarantined \subseteq Txns
         /\ Plan(byTxn).orphaned = {c \in recs : \E g \in Plan(byTxn).diff.reversed : SameKey(c, g)}
<1>1. PICK refresh : refresh = Refresh(byTxn)
  OBVIOUS
<1>2. PICK needs : needs = {x \in ReadIn : NeedsEntries(x, byTxn)} \cup refresh
  OBVIOUS
<1>3. PICK bad : bad = {x \in ReadIn \cap needs : view.src[x].name \in Unusable}
  OBVIOUS
<1>4. PICK facts : facts = Facts(byTxn, needs, (ReadIn \cap needs) \ bad)
  OBVIOUS
<1>5. /\ Plan(byTxn).facts = facts /\ Plan(byTxn).diff = Diff(Stored, facts)
      /\ Plan(byTxn).quarantined = bad
      /\ Plan(byTxn).orphaned = {c \in recs : \E g \in Plan(byTxn).diff.reversed : SameKey(c, g)}
  BY <1>1, <1>2, <1>3, <1>4 DEF Plan
<1>6. PICK usable : usable = (ReadIn \cap needs) \ bad
  OBVIOUS
<1>7. PICK found : found = EntriesFound(needs)
  OBVIOUS
<1>8. PICK built : built = [x \in usable |->
          [txn |-> x, at |-> view.src[x].at, name |-> view.src[x].name, end |-> view.src[x].end,
           resp |-> x \in found]]
  OBVIOUS
<1>9. facts = {f \in byTxn : f.txn \in ReadIn \ needs} \cup {built[x] : x \in usable}
  BY <1>4, <1>6, <1>7, <1>8 DEF Facts
<1>10. /\ usable \subseteq ReadIn /\ ReadIn \subseteq Txns /\ usable \subseteq needs /\ bad \subseteq Txns
       /\ \A x \in ReadIn : view.src[x] \in Rows /\ InSlice(view.src[x].at)
  BY <1>3, <1>6 DEF ReadIn, Shape, SwitchShape, ViewRec, Table
<1>11. ASSUME NEW x \in usable
       PROVE  built[x] \in FactRecord /\ built[x].txn = x /\ InSlice(built[x].at)
  <2>1. PICK row \in Rows : row = view.src[x]
    BY <1>10
  <2>2. row.at \in Instants /\ row.name \in Names /\ row.end \in Instants /\ x \in Txns /\ InSlice(row.at)
    BY <1>10, <2>1, ConstantsAssumption
  <2>3. PICK resp \in BOOLEAN : resp = (x \in found)
    <3>1. (x \in found) \in BOOLEAN
      OBVIOUS
    <3> QED
      BY <3>1
  <2>4. built[x] = [txn |-> x, at |-> row.at, name |-> row.name, end |-> row.end, resp |-> resp]
    BY <1>8, <2>1, <2>3
  <2> QED
    BY <2>2, <2>4 DEF FactRecord
<1>12. /\ byTxn \subseteq fact /\ fact \subseteq FactRecord /\ IsFiniteSet(byTxn)
       /\ \A f \in byTxn : InSlice(f.at)
       /\ \A f, g \in byTxn : f.txn = g.txn => f = g
  BY OneStoredPerTxn DEF Shape, TablesShape, Stored
<1>13. facts \subseteq FactRecord /\ \A f \in facts : InSlice(f.at)
  BY <1>9, <1>11, <1>12
<1>14. IsFiniteSet(facts)
  <2>1. PICK kept, fresh : kept = {f \in byTxn : f.txn \in ReadIn \ needs} /\ fresh = {built[x] : x \in usable}
    OBVIOUS
  <2>2. IsFiniteSet(kept)
    <3>1. kept \in SUBSET byTxn
      BY <2>1
    <3> QED
      BY <1>12, <3>1, FS_Subset
  <2>3. IsFiniteSet(usable)
    <3>1. usable \in SUBSET Txns /\ IsFiniteSet(Txns)
      BY <1>10, ConstantsAssumption
    <3> QED
      BY <3>1, FS_Subset
  <2>4. built \in Surjection(usable, fresh)
    BY <1>8, <2>1 DEF Surjection
  <2>5. IsFiniteSet(fresh)
    BY <2>3, <2>4, FS_Surjection
  <2> QED
    BY <1>9, <2>1, <2>2, <2>5, FS_Union
<1>15. ASSUME NEW f \in facts, NEW g \in facts, f.txn = g.txn
       PROVE  f = g
  <2>1. CASE f \in byTxn /\ g \in byTxn
    BY <1>12, <1>15, <2>1
  <2>2. CASE \E x \in usable, y \in usable : f = built[x] /\ g = built[y]
    BY <1>11, <1>15, <2>2
  <2>3. CASE \E x \in usable : f = built[x] /\ g \in byTxn /\ g.txn \notin needs
    BY <1>10, <1>11, <1>15, <2>3
  <2>4. CASE \E x \in usable : g = built[x] /\ f \in byTxn /\ f.txn \notin needs
    BY <1>10, <1>11, <1>15, <2>4
  <2> QED
    BY <1>9, <2>1, <2>2, <2>3, <2>4
<1> QED
  BY <1>5, <1>10, <1>13, <1>14, <1>15

\* The facts whose record rows are written again are facts of this run or stored ones.
LEMMA PlanExpanding ==
  ASSUME Shape, run.phase = "folded", NEW byTxn \in StoredByTxn
  PROVE  /\ Plan(byTxn).expanding \subseteq FactRecord /\ IsFiniteSet(Plan(byTxn).expanding)
         /\ Plan(byTxn).expanding \subseteq Plan(byTxn).facts \cup byTxn
<1>1. PICK p : p = Plan(byTxn)
  OBVIOUS
<1>2. PICK refresh, found : p.expanding = Expanding(byTxn, p.diff, refresh, found)
  BY <1>1 DEF Plan
<1>3. p.expanding \subseteq p.diff.inserted \cup p.diff.updated \cup byTxn
  BY <1>2 DEF Expanding
<1>4. p.diff.inserted \cup p.diff.updated \subseteq p.facts
  <2>1. p.diff = Diff(Stored, p.facts)
    BY <1>1, PlanFacts
  <2> QED
    BY <2>1 DEF Diff
<1>5. p.expanding \in SUBSET (p.facts \cup byTxn)
  BY <1>3, <1>4
<1>6. IsFiniteSet(p.facts \cup byTxn)
  BY <1>1, PlanFacts, OneStoredPerTxn, FS_Union DEF Shape
<1>7. p.expanding \subseteq FactRecord
  BY <1>1, <1>5, PlanFacts, OneStoredPerTxn DEF Shape, TablesShape
<1> QED
  BY <1>1, <1>5, <1>6, <1>7, FS_Subset

\* The range diff: what is replaced is what is updated, key by key.
LEMMA DiffFacts ==
  ASSUME NEW stored, NEW facts, NEW d, OneFactPerKey, TablesShape,
         stored \in SUBSET fact, facts \in SUBSET FactRecord, IsFiniteSet(facts),
         \A f, g \in facts : f.txn = g.txn => f = g, d = Diff(stored, facts)
  PROVE  /\ d.inserted \subseteq facts /\ d.updated \subseteq facts \ stored
         /\ d.replaced \subseteq stored /\ d.reversed \subseteq stored
         /\ d.inserted \cap d.updated = {} /\ d.replaced \cap d.reversed = {}
         /\ IsFiniteSet(d.inserted) /\ IsFiniteSet(d.updated)
         /\ IsFiniteSet(d.replaced) /\ IsFiniteSet(d.reversed)
         /\ Cardinality(d.updated) = Cardinality(d.replaced)
<1>1. /\ d.inserted = {f \in facts : ~\E g \in stored : SameKey(f, g)}
      /\ d.updated = {f \in facts \ stored : \E g \in stored : SameKey(f, g)}
      /\ d.replaced = {g \in stored \ facts : \E f \in facts : SameKey(f, g)}
      /\ d.reversed = {g \in stored : ~\E f \in facts : SameKey(f, g)}
  BY DEF Diff
<1>2. /\ d.inserted \subseteq facts /\ d.updated \subseteq facts \ stored
      /\ d.replaced \subseteq stored /\ d.reversed \subseteq stored
      /\ d.inserted \cap d.updated = {} /\ d.replaced \cap d.reversed = {}
  BY <1>1
<1>3. /\ IsFiniteSet(d.inserted) /\ IsFiniteSet(d.updated)
      /\ IsFiniteSet(d.replaced) /\ IsFiniteSet(d.reversed)
  <2>1. /\ d.inserted \in SUBSET facts /\ d.updated \in SUBSET facts
        /\ d.replaced \in SUBSET fact /\ d.reversed \in SUBSET fact
    BY <1>2
  <2> QED
    BY <2>1, FS_Subset DEF TablesShape
<1>4. \A f \in d.updated : \E g \in d.replaced : SameKey(f, g)
  <2> TAKE f \in d.updated
  <2>1. PICK g \in stored : SameKey(f, g)
    BY <1>1
  <2>2. f \in facts /\ f \notin stored
    BY <1>2
  <2>3. g \notin facts
    BY <2>1, <2>2 DEF SameKey
  <2> QED
    BY <1>1, <2>1, <2>2, <2>3
<1>5. \A g \in d.replaced : \E f \in d.updated : SameKey(f, g)
  <2> TAKE g \in d.replaced
  <2>1. PICK f \in facts : SameKey(f, g)
    BY <1>1
  <2>2. g \in stored /\ g \notin facts
    BY <1>1
  <2>3. f \notin stored
    BY <2>1, <2>2 DEF OneFactPerKey
  <2> QED
    BY <1>1, <2>1, <2>2, <2>3
<1>6. PICK h : h = [f \in d.updated |-> CHOOSE g \in d.replaced : SameKey(f, g)]
  OBVIOUS
<1>7. \A f \in d.updated : h[f] \in d.replaced /\ SameKey(f, h[f])
  BY <1>4, <1>6
<1>8. h \in [d.updated -> d.replaced]
  BY <1>6, <1>7
<1>9. ASSUME NEW f \in d.updated, NEW g \in d.updated, h[f] = h[g]
      PROVE  f = g
  <2>1. f.txn = g.txn
    BY <1>7, <1>9 DEF SameKey
  <2> QED
    BY <1>2, <2>1
<1>10. ASSUME NEW g \in d.replaced
       PROVE  \E f \in d.updated : h[f] = g
  <2>1. PICK f \in d.updated : SameKey(f, g)
    BY <1>5
  <2>2. SameKey(h[f], g) /\ h[f] \in fact /\ g \in fact
    BY <1>2, <1>7, <2>1 DEF SameKey
  <2> QED
    BY <2>2 DEF OneFactPerKey
<1>11. ExistsBijection(d.updated, d.replaced)
  <2>1. h \in Injection(d.updated, d.replaced)
    BY <1>8, <1>9 DEF Injection, IsInjective
  <2>2. h \in Surjection(d.updated, d.replaced)
    BY <1>8, <1>10 DEF Surjection
  <2> QED
    BY <2>1, <2>2 DEF ExistsBijection, Bijection
<1>12. Cardinality(d.updated) = Cardinality(d.replaced)
  BY <1>3, <1>11, FS_Bijection
<1> QED
  BY <1>2, <1>3, <1>12

\* The fact table after a commit: typed, one fact per key, counted by the diff.
LEMMA FactsCommitted ==
  ASSUME Shape, OneFactPerKey, run.phase = "folded", NEW byTxn \in StoredByTxn,
         NEW p, p = Plan(byTxn), ~Conflict(p)
  PROVE  /\ FactAfter(p) \subseteq FactRecord /\ IsFiniteSet(FactAfter(p))
         /\ \A f, g \in FactAfter(p) : SameKey(f, g) => f = g
         /\ Cardinality(FactAfter(p)) =
               Cardinality(fact) + Cardinality(p.diff.inserted) - Cardinality(p.diff.reversed)
         /\ Cardinality(p.diff.inserted) \in Nat /\ Cardinality(p.diff.reversed) \in Nat
<1>1. /\ p.facts \subseteq FactRecord /\ IsFiniteSet(p.facts)
      /\ \A f, g \in p.facts : f.txn = g.txn => f = g
      /\ p.diff = Diff(Stored, p.facts)
  BY PlanFacts
<1>2. TablesShape /\ fact \subseteq FactRecord /\ IsFiniteSet(fact) /\ Stored \subseteq fact
  BY OneStoredPerTxn DEF Shape, TablesShape
<1>3. PICK ins, upd, old, rev : ins = p.diff.inserted /\ upd = p.diff.updated
                                /\ old = p.diff.replaced /\ rev = p.diff.reversed
  OBVIOUS
<1>4. /\ ins \subseteq p.facts /\ upd \subseteq p.facts \ Stored /\ old \subseteq Stored /\ rev \subseteq Stored
      /\ ins \cap upd = {} /\ old \cap rev = {}
      /\ IsFiniteSet(ins) /\ IsFiniteSet(upd) /\ IsFiniteSet(old) /\ IsFiniteSet(rev)
      /\ Cardinality(upd) = Cardinality(old)
  <2>1. Stored \in SUBSET fact /\ p.facts \in SUBSET FactRecord
    BY <1>1, <1>2
  <2>2. PICK facts, d : facts = p.facts /\ d = p.diff
    OBVIOUS
  <2>3. d = Diff(Stored, facts) /\ facts \in SUBSET FactRecord /\ IsFiniteSet(facts)
    BY <1>1, <2>2
  <2>4. \A f, g \in facts : f.txn = g.txn => f = g
    BY <1>1, <2>2
  <2>5. /\ d.inserted \subseteq facts /\ d.updated \subseteq facts \ Stored
        /\ d.replaced \subseteq Stored /\ d.reversed \subseteq Stored
        /\ d.inserted \cap d.updated = {} /\ d.replaced \cap d.reversed = {}
        /\ IsFiniteSet(d.inserted) /\ IsFiniteSet(d.updated)
        /\ IsFiniteSet(d.replaced) /\ IsFiniteSet(d.reversed)
        /\ Cardinality(d.updated) = Cardinality(d.replaced)
    BY <1>2, <2>1, <2>3, <2>4, DiffFacts
  <2> QED
    BY <1>3, <2>2, <2>5
<1>5. /\ upd = {f \in p.facts \ Stored : \E g \in Stored : SameKey(f, g)}
      /\ old = {g \in Stored \ p.facts : \E f \in p.facts : SameKey(f, g)}
  BY <1>1, <1>3 DEF Diff
<1>6. PICK gone, came : gone = rev \cup old /\ came = ins \cup upd
  OBVIOUS
<1>7. FactAfter(p) = (fact \ gone) \cup came
  BY <1>3, <1>6 DEF FactAfter
<1>8. \A f \in ins, g \in fact : ~SameKey(f, g)
  BY <1>3 DEF Conflict
<1>9. \A f \in upd, g \in fact \ gone : ~SameKey(f, g)
  <2> SUFFICES ASSUME NEW f \in upd, NEW g \in fact \ gone, SameKey(f, g) PROVE FALSE
    OBVIOUS
  <2>1. PICK s \in Stored : SameKey(f, s)
    BY <1>5
  <2>2. s = g
    BY <1>2, <2>1 DEF SameKey, OneFactPerKey
  <2>3. g \in Stored /\ g \notin old /\ f \in p.facts /\ f \notin Stored
    BY <1>4, <1>6, <2>2
  <2>4. g \in p.facts
    BY <1>5, <2>3
  <2> QED
    BY <1>1, <2>3, <2>4 DEF SameKey
<1>10. came \cap (fact \ gone) = {}
  <2>1. \A f : SameKey(f, f)
    BY DEF SameKey
  <2> QED
    BY <1>6, <1>8, <1>9, <2>1
<1>11. /\ IsFiniteSet(gone) /\ IsFiniteSet(came) /\ gone \in SUBSET fact
       /\ Cardinality(gone) = Cardinality(rev) + Cardinality(old)
       /\ Cardinality(came) = Cardinality(ins) + Cardinality(upd)
       /\ Cardinality(rev) \in Nat /\ Cardinality(old) \in Nat
       /\ Cardinality(ins) \in Nat /\ Cardinality(upd) \in Nat
  <2>1. rev \cap old = {} /\ gone \in SUBSET fact
    BY <1>2, <1>4, <1>6
  <2>2. /\ IsFiniteSet(gone) /\ Cardinality(rev) \in Nat /\ Cardinality(old) \in Nat
        /\ Cardinality(gone) = Cardinality(rev) + Cardinality(old)
    BY <1>4, <1>6, <2>1, Together
  <2>3. /\ IsFiniteSet(came) /\ Cardinality(ins) \in Nat /\ Cardinality(upd) \in Nat
        /\ Cardinality(came) = Cardinality(ins) + Cardinality(upd)
    BY <1>4, <1>6, Together
  <2> QED
    BY <2>1, <2>2, <2>3
<1>a. PICK after : after = (fact \ gone) \cup came
  OBVIOUS
<1>12. /\ IsFiniteSet(after) /\ Cardinality(fact) \in Nat
       /\ Cardinality(after) = Cardinality(fact) - Cardinality(gone) + Cardinality(came)
  <2>1. IsFiniteSet(fact) /\ IsFiniteSet(came) /\ gone \in SUBSET fact /\ \A x \in came : x \in fact => x \in gone
    BY <1>2, <1>10, <1>11
  <2> QED
    BY <1>a, <2>1, Exchanged
<1>13. Cardinality(after) = Cardinality(fact) + Cardinality(ins) - Cardinality(rev)
  BY <1>4, <1>11, <1>12
<1>14. (fact \ gone) \cup came \subseteq FactRecord
  BY <1>1, <1>2, <1>4, <1>6
<1>15. ASSUME NEW f \in (fact \ gone) \cup came, NEW g \in (fact \ gone) \cup came, SameKey(f, g)
       PROVE  f = g
  <2>1. SameKey(g, f) /\ f.txn = g.txn
    BY <1>15 DEF SameKey
  <2>2. came \subseteq p.facts /\ came = ins \cup upd
    BY <1>4, <1>6
  <2>3. CASE f \in came /\ g \in came
    BY <1>1, <2>1, <2>2, <2>3
  <2>4. CASE f \in fact /\ g \in fact
    BY <1>15, <2>4 DEF OneFactPerKey
  <2>5. CASE f \in came /\ g \in fact \ gone
    BY <1>8, <1>9, <1>15, <2>2, <2>5
  <2>6. CASE g \in came /\ f \in fact \ gone
    BY <1>8, <1>9, <2>1, <2>2, <2>6
  <2> QED
    BY <2>3, <2>4, <2>5, <2>6
<1> QED
  BY <1>3, <1>7, <1>a, <1>11, <1>12, <1>13, <1>14, <1>15

\* The record rows after a commit: typed and counted.
LEMMA RecordsCommitted ==
  ASSUME Shape, run.phase = "folded", NEW byTxn \in StoredByTxn, NEW p, p = Plan(byTxn)
  PROVE  /\ RecsAfter(p) \subseteq RecordRow /\ IsFiniteSet(RecsAfter(p))
         /\ Cardinality(RecsAfter(p)) =
               Cardinality(recs) + Cardinality(RecsWritten(p)) - Cardinality(RecsReplaced(p))
         /\ Cardinality(RecsWritten(p)) \in Nat /\ Cardinality(RecsReplaced(p)) \in Nat
<1>1. /\ p.expanding \subseteq FactRecord /\ IsFiniteSet(p.expanding)
      /\ p.orphaned \subseteq recs
  BY PlanExpanding, PlanFacts
<1>2. recs \subseteq RecordRow /\ IsFiniteSet(recs) /\ view.approved \in BOOLEAN
  BY DEF Shape, TablesShape, SwitchShape, ViewRec
<1>3. PICK row : row = [f \in p.expanding |->
                            [txn |-> f.txn, at |-> f.at, name |-> f.name, ver |-> view.approved]]
  OBVIOUS
<1>4. RecsWritten(p) = {row[f] : f \in p.expanding}
  BY <1>3 DEF RecsWritten
<1>5. \A f \in p.expanding : row[f] \in RecordRow /\ SameKey(row[f], f)
  <2> TAKE f \in p.expanding
  <2>1. f.txn \in Txns /\ f.at \in Instants /\ f.name \in Names
    BY <1>1 DEF FactRecord
  <2> QED
    BY <1>2, <1>3, <2>1 DEF RecordRow, SameKey
<1>6. IsFiniteSet(RecsWritten(p)) /\ RecsWritten(p) \subseteq RecordRow
  <2>1. row \in Surjection(p.expanding, RecsWritten(p))
    BY <1>3, <1>4 DEF Surjection
  <2>2. IsFiniteSet(RecsWritten(p))
    BY <1>1, <2>1, FS_Surjection
  <2> QED
    BY <1>4, <1>5, <2>2
<1>7. RecsReplaced(p) \in SUBSET recs
  BY <1>1 DEF RecsReplaced
<1>8. RecsWritten(p) \cap (recs \ RecsReplaced(p)) = {}
  BY <1>4, <1>5 DEF RecsReplaced
<1>9. /\ IsFiniteSet(RecsAfter(p))
      /\ Cardinality(recs) \in Nat /\ Cardinality(RecsReplaced(p)) \in Nat
      /\ Cardinality(RecsWritten(p)) \in Nat
      /\ Cardinality(RecsAfter(p)) =
            Cardinality(recs) - Cardinality(RecsReplaced(p)) + Cardinality(RecsWritten(p))
  BY <1>2, <1>6, <1>7, <1>8, Exchanged DEF RecsAfter
<1>10. RecsAfter(p) \subseteq RecordRow
  BY <1>2, <1>6 DEF RecsAfter
<1> QED
  BY <1>9, <1>10

\* What the roll-up counts has the shape of a contribution.
LEMMA RollupsTyped ==
  ASSUME Shape, OneFactPerKey, run.phase = "folded", NEW byTxn \in StoredByTxn,
         NEW p, p = Plan(byTxn), ~Conflict(p)
  PROVE  /\ HourlyAfter(p) \in [Metrics -> SUBSET Contribution]
         /\ DailyAfter(p) \in [Metrics -> SUBSET Contribution]
         /\ MonthlyAfter(p) \in [Metrics -> SUBSET Contribution]
<1>1. FactAfter(p) \subseteq FactRecord /\ RecsAfter(p) \subseteq RecordRow
  BY FactsCommitted, RecordsCommitted
<1>2. \A m \in Metrics : Contributions(m, p) \subseteq Contribution
  <2> TAKE m \in Metrics
  <2>1. \A g \in (IF m \in RecordMetrics THEN RecsAfter(p) ELSE FactAfter(p)) :
           g.txn \in Txns /\ g.at \in Instants /\ g.name \in Names
    BY <1>1 DEF FactRecord, RecordRow
  <2> QED
    BY <2>1 DEF Contributions, Contribution
<1>3. HourlyAfter(p) \in [Metrics -> SUBSET Contribution]
  BY <1>2 DEF HourlyAfter, Shape, TablesShape
<1>4. DailyAfter(p) \in [Metrics -> SUBSET Contribution]
  BY <1>2, <1>3 DEF DailyAfter, Shape, TablesShape
<1>5. MonthlyAfter(p) \in [Metrics -> SUBSET Contribution]
  BY <1>4 DEF MonthlyAfter, Shape, TablesShape
<1> QED
  BY <1>3, <1>4, <1>5

\* The tenant row after a commit: its totals follow the tables.
LEMMA StateCommitted ==
  ASSUME Shape, OneFactPerKey, TotalsExact, run.phase = "folded", NEW byTxn \in StoredByTxn,
         NEW p, p = Plan(byTxn), ~Conflict(p)
  PROVE  /\ StateAfter(p) \in [history : 0 .. LastInstant, wm : 0 .. LastInstant, facts : Nat, records : Nat]
         /\ StateAfter(p).facts = Cardinality(FactAfter(p))
         /\ StateAfter(p).records = Cardinality(RecsAfter(p))
<1>1. PICK facts, records :
         /\ facts = tstate.facts + Cardinality(p.diff.inserted) - Cardinality(p.diff.reversed)
         /\ records = tstate.records + Cardinality(RecsWritten(p)) - Cardinality(RecsReplaced(p))
  OBVIOUS
<1>2. facts = Cardinality(FactAfter(p)) /\ facts \in Nat
  <2>1. /\ IsFiniteSet(FactAfter(p))
        /\ Cardinality(FactAfter(p)) =
              Cardinality(fact) + Cardinality(p.diff.inserted) - Cardinality(p.diff.reversed)
    BY FactsCommitted
  <2> QED
    BY <1>1, <2>1, FS_CardinalityType DEF TotalsExact
<1>3. records = Cardinality(RecsAfter(p)) /\ records \in Nat
  <2>1. /\ IsFiniteSet(RecsAfter(p))
        /\ Cardinality(RecsAfter(p)) =
              Cardinality(recs) + Cardinality(RecsWritten(p)) - Cardinality(RecsReplaced(p))
    BY RecordsCommitted
  <2> QED
    BY <1>1, <2>1, FS_CardinalityType DEF TotalsExact
<1>4. PICK starts : starts = {f.at : f \in p.facts} \cup ({tstate.history} \ {0})
  OBVIOUS
<1>5. PICK history : history = IF starts = {} THEN 0 ELSE Min(starts)
  OBVIOUS
<1>6. history \in 0 .. LastInstant
  <2>0. LastInstant \in Nat
    BY ConstantsAssumption
  <2>1. starts \in SUBSET (1 .. LastInstant)
    <3>1. \A f \in p.facts : f.at \in 1 .. LastInstant
      BY PlanFacts DEF FactRecord, Instants
    <3>2. {tstate.history} \ {0} \subseteq 1 .. LastInstant
      BY <2>0 DEF Shape, TablesShape
    <3> QED
      BY <1>4, <3>1, <3>2
  <2>2. CASE starts = {}
    BY <1>5, <2>0, <2>2
  <2>3. CASE starts # {}
    <3>1. starts \in SUBSET Int /\ 1 \in Int /\ \A x \in starts : 1 <= x
      BY <2>0, <2>1
    <3>2. Min(starts) \in starts
      BY <2>3, <3>1, MinIsLeast
    <3>3. Min(starts) \in 1 .. LastInstant
      BY <2>1, <3>2
    <3> QED
      BY <1>5, <2>0, <2>3, <3>3
  <2> QED
    BY <2>2, <2>3
<1>7. StateAfter(p) = [history |-> history, wm |-> view.wm, facts |-> facts, records |-> records]
  BY <1>1, <1>4, <1>5 DEF StateAfter
<1>8. view.wm \in 0 .. LastInstant
  BY DEF Shape, SwitchShape, ViewRec
<1> QED
  BY <1>2, <1>3, <1>6, <1>7, <1>8

\* Only a commit writes the warehouse; hourly partitions of aged days go besides.
LEMMA WarehouseStays ==
  ASSUME Shape, [Next]_vars, ~Commits
  PROVE  /\ fact' = fact /\ recs' = recs /\ settled' = settled /\ issues' = issues
         /\ daily' = daily /\ monthly' = monthly /\ tstate' = tstate
         /\ \/ hourly' = hourly /\ aged' = aged
            \/ \E d : /\ aged' = aged \cup {d}
                      /\ hourly' = [m \in Metrics |-> {c \in hourly[m] : DayOf(c.at) # d}]
<1> USE DEF warehouse
<1>1. CASE Source /\ ~AgeDay
  BY <1>1 DEF Source, RebuildWindow, FreeForRebuild, FinishRebuild, FlagGoesStale, DropPartition
<1>2. CASE AgeDay
  BY <1>2 DEF AgeDay
<1>3. CASE Switches
  BY <1>3 DEF Switches, SetCapture, SetShow, SetExpand, SetFieldCapture, ActivateMetric, PauseMetric,
              Reconcile, Flip
<1>4. CASE Worker
  <2>1. CASE EndRun
    <3>1. PICK byTxn \in StoredByTxn : FailOnConflict(Plan(byTxn))
      BY <2>1 DEF EndRun, Commits
    <3> QED
      BY <3>1 DEF FailOnConflict, Rollback
  <2>2. CASE Claim \/ ReadSource \/ ReadRegistry \/ (\E recorded \in BOOLEAN : Fail(recorded)) \/ Crash
    BY <2>2 DEF Claim, ReadSource, ReadRegistry, Fail, Rollback, Crash
  <2> QED
    BY <1>4, <2>1, <2>2 DEF Worker
<1>5. CASE UNCHANGED vars
  BY <1>5 DEF vars
<1> QED
  BY <1>1, <1>2, <1>3, <1>4, <1>5 DEF Next

\* The source holds rows only, whatever is rebuilt or dropped.
LEMMA SourceNext ==
  ASSUME Shape, [Next]_vars
  PROVE  src' \in Table
<1>0. src \in Table
  BY DEF Shape, TablesShape
<1>1. CASE Source
  <2>1. ASSUME NEW x \in Txns, NEW r \in Rows \cup {None}, RebuildWindow(x, r) PROVE src' \in Table
    BY <1>0, <2>1 DEF RebuildWindow, Table
  <2>2. ASSUME NEW S \in SUBSET Txns, NEW full \in BOOLEAN, FreeForRebuild(S, full) PROVE src' \in Table
    BY <1>0, <2>2 DEF FreeForRebuild, Table
  <2>3. ASSUME FinishRebuild PROVE src' \in Table
    <3>1. \A x \in DOMAIN rebuild.rows : rebuild.rows[x] \in Rows
      BY DEF Shape, SwitchShape
    <3> QED
      BY <1>0, <2>3, <3>1 DEF FinishRebuild, Table
  <2>4. ASSUME DropPartition PROVE src' \in Table
    BY <1>0, <2>4 DEF DropPartition, Table
  <2>5. ASSUME FlagGoesStale \/ AgeDay PROVE src' \in Table
    BY <1>0, <2>5 DEF FlagGoesStale, AgeDay
  <2> QED
    BY <1>1, <2>1, <2>2, <2>3, <2>4, <2>5 DEF Source
<1>2. CASE Switches
  BY <1>0, <1>2 DEF Switches, SetCapture, SetShow, SetExpand, SetFieldCapture, ActivateMetric, PauseMetric,
              Reconcile, Flip
<1>3. CASE Worker
  BY <1>0, <1>3 DEF Worker, Claim, ReadSource, ReadRegistry, EndRun, Commit, FailOnConflict, Fail, Rollback,
                    Crash
<1>4. CASE UNCHANGED vars
  BY <1>0, <1>4 DEF vars
<1> QED
  BY <1>1, <1>2, <1>3, <1>4 DEF Next

\* Every step keeps the types of the tables, one fact per key and the totals.
LEMMA TablesNext ==
  ASSUME Shape, OneFactPerKey, TotalsExact, [Next]_vars
  PROVE  TablesShape' /\ OneFactPerKey' /\ TotalsExact'
<1>0. src' \in Table
  BY SourceNext
<1>1. CASE Commits
  <2>1. PICK byTxn \in StoredByTxn : Commit(Plan(byTxn)) /\ run.phase = "folded"
    BY <1>1 DEF Commits
  <2>2. PICK p : p = Plan(byTxn)
    OBVIOUS
  <2>3. /\ ~Conflict(p) /\ fact' = FactAfter(p) /\ issues' = issues \cup p.quarantined
        /\ recs' = RecsAfter(p) /\ settled' = SettledAfter(p) /\ hourly' = HourlyAfter(p)
        /\ daily' = DailyAfter(p) /\ monthly' = MonthlyAfter(p) /\ tstate' = StateAfter(p)
    BY <2>1, <2>2 DEF Commit
  <2>4. /\ fact' \subseteq FactRecord /\ IsFiniteSet(fact')
        /\ \A f, g \in fact' : SameKey(f, g) => f = g
    BY <2>1, <2>2, <2>3, FactsCommitted
  <2>5. recs' \subseteq RecordRow /\ IsFiniteSet(recs')
    BY <2>1, <2>2, <2>3, RecordsCommitted
  <2>6. /\ hourly' \in [Metrics -> SUBSET Contribution] /\ daily' \in [Metrics -> SUBSET Contribution]
        /\ monthly' \in [Metrics -> SUBSET Contribution]
    BY <2>1, <2>2, <2>3, RollupsTyped
  <2>7. /\ tstate' \in [history : 0 .. LastInstant, wm : 0 .. LastInstant, facts : Nat, records : Nat]
        /\ tstate'.facts = Cardinality(fact') /\ tstate'.records = Cardinality(recs')
    BY <2>1, <2>2, <2>3, StateCommitted
  <2>8. issues' \subseteq Txns
    <3>1. p.quarantined \subseteq Txns
      BY <2>1, <2>2, PlanFacts
    <3> QED
      BY <2>3, <3>1 DEF Shape, TablesShape
  <2>9. settled' \in [Names -> SUBSET Txns]
    <3>1. \A n \in Names : {f.txn : f \in {g \in FactAfter(p) : g.name = n}} \subseteq Txns
      BY <2>3, <2>4 DEF FactRecord
    <3> QED
      BY <2>3, <3>1 DEF SettledAfter, Shape, TablesShape
  <2> QED
    BY <1>0, <2>4, <2>5, <2>6, <2>7, <2>8, <2>9 DEF TablesShape, OneFactPerKey, TotalsExact, SameKey
<1>2. CASE ~Commits
  <2>1. hourly' \in [Metrics -> SUBSET Contribution]
    BY <1>2, WarehouseStays DEF Shape, TablesShape
  <2> QED
    BY <1>0, <1>2, <2>1, WarehouseStays DEF Shape, TablesShape, OneFactPerKey, TotalsExact, SameKey
<1> QED
  BY <1>1, <1>2

-----------------------------------------------------------------------------
(* The history only grows, but for the rows a reconciliation tickets.      *)

\* The rows a chart counts have instants.
LEMMA RowTimes ==
  ASSUME TablesShape
  PROVE  /\ \A pieces : Unreached(pieces) \subseteq Instants
         /\ {f.at : f \in fact} \cup {c.at : c \in recs} \subseteq Instants
  BY DEF TablesShape, FactRecord, RecordRow, Unreached

\* What a commit leaves behind has instants.
LEMMA LeftBehindTyped ==
  ASSUME Shape, OneFactPerKey, run.phase = "folded", NEW byTxn \in StoredByTxn, NEW p, p = Plan(byTxn)
  PROVE  LeftBehind(p) \subseteq Instants
<1>1. p.diff = Diff(Stored, p.facts) /\ p.facts \subseteq FactRecord /\ Stored \subseteq FactRecord
  BY PlanFacts, OneStoredPerTxn DEF Shape, TablesShape
<1>2. Writes(p.diff) \subseteq FactRecord
  BY <1>1 DEF Writes, Diff
<1>3. DirtyHours(p) \subseteq Instants
  BY <1>2 DEF DirtyHours, FactRecord
<1>4. {c.at : c \in RecsWritten(p)} \subseteq Instants
  <2>1. \A f \in p.expanding : f.at \in Instants
    BY PlanExpanding DEF FactRecord
  <2> QED
    BY <2>1 DEF RecsWritten
<1> QED
  BY <1>3, <1>4 DEF LeftBehind

\* The rows a commit strays with are of transactions.
LEMMA StrayedTyped ==
  ASSUME Shape, run.phase = "folded", NEW byTxn \in StoredByTxn, NEW p, p = Plan(byTxn)
  PROVE  Strayed(p) \subseteq Txns
<1>1. p.diff = Diff(Stored, p.facts) /\ p.facts \subseteq FactRecord /\ p.expanding \subseteq FactRecord
  BY PlanFacts, PlanExpanding
<1>2. p.diff.updated \subseteq FactRecord
  BY <1>1 DEF Diff
<1> QED
  BY <1>1, <1>2 DEF Strayed, FactRecord

\* The history keeps its types, and what is set aside stays set aside.
LEMMA HistoryNext ==
  ASSUME Shape, OneFactPerKey, [Next]_vars
  PROVE  /\ HistoryShape'
         /\ ghost.owed \subseteq ghost'.owed /\ ghost.paused \subseteq ghost'.paused
         /\ ghost.everOff \subseteq ghost'.everOff /\ ghost.split \subseteq ghost'.split
         /\ ghost.straddled \subseteq ghost'.straddled /\ ghost.stray \subseteq ghost'.stray
<1> DEFINE Grown ==
       /\ HistoryShape'
       /\ ghost.owed \subseteq ghost'.owed /\ ghost.paused \subseteq ghost'.paused
       /\ ghost.everOff \subseteq ghost'.everOff /\ ghost.split \subseteq ghost'.split
       /\ ghost.straddled \subseteq ghost'.straddled /\ ghost.stray \subseteq ghost'.stray
<1>0. /\ ghost \in [everOff : SUBSET Names, owed : SUBSET Instants, paused : SUBSET Metrics,
                    unticketed : SUBSET Txns, split : SUBSET Txns,
               stray : SUBSET Txns, straddled : SUBSET Txns]
      /\ TablesShape
  BY DEF Shape, HistoryShape
<1>1. ASSUME ghost' = ghost PROVE Grown
  BY <1>1 DEF Shape, HistoryShape
<1>2. ASSUME NEW S \in SUBSET Instants, ghost' = [ghost EXCEPT !.owed = ghost.owed \cup S] PROVE Grown
  BY <1>0, <1>2 DEF HistoryShape
<1>3. ASSUME NEW S \in SUBSET Txns,
             \/ ghost' = [ghost EXCEPT !.unticketed = S]
             \/ ghost' = [ghost EXCEPT !.straddled = ghost.straddled \cup S]
      PROVE Grown
  BY <1>0, <1>3 DEF HistoryShape
<1>4. CASE Source
  <2>1. ASSUME NEW x \in Txns, NEW r \in Rows \cup {None}, RebuildWindow(x, r) PROVE Grown
    <3>1. PICK S \in SUBSET Txns : S = {y \in {x} : r # None /\ r.at # r.end}
      OBVIOUS
    <3>2. ghost' = [ghost EXCEPT !.straddled = ghost.straddled \cup S]
      BY <2>1, <3>1 DEF RebuildWindow
    <3> QED
      BY <1>3, <3>2
  <2>2. ASSUME FinishRebuild PROVE Grown
    <3>1. PICK T : ghost' = [ghost EXCEPT !.unticketed = ghost.unticketed \cup T]
                   /\ T \subseteq DOMAIN rebuild.rows
      BY <2>2 DEF FinishRebuild
    <3>2. ghost.unticketed \cup T \in SUBSET Txns
      BY <1>0, <3>1 DEF Shape, SwitchShape
    <3> QED
      BY <1>3, <3>1, <3>2
  <2> QED
    BY <1>1, <1>4, <2>1, <2>2 DEF Source, FreeForRebuild, FlagGoesStale, DropPartition, AgeDay
<1>5. CASE Switches
  <2>1. ASSUME NEW n \in Switched, SetCapture(n) PROVE Grown
    <3>0. ghost.everOff \cup {n} \in SUBSET Names
      BY <1>0, ConstantsAssumption
    <3>1. PICK S \in SUBSET Names : S = ghost.everOff \cup {n} /\ ghost.everOff \subseteq S
      BY <3>0
    <3>2. ghost' = ghost \/ ghost' = [ghost EXCEPT !.everOff = S]
      BY <2>1, <3>1 DEF SetCapture
    <3> QED
      BY <1>0, <1>1, <3>1, <3>2 DEF HistoryShape
  <2>2. ASSUME NEW n \in Switched, SetShow(n) \/ SetExpand(n) PROVE Grown
    <3>1. \/ ghost' = ghost
          \/ \E pieces : ghost' = [ghost EXCEPT !.owed = ghost.owed \cup Unreached(pieces)]
      BY <2>2 DEF SetShow, SetExpand
    <3>2. \A pieces : Unreached(pieces) \in SUBSET Instants
      BY <1>0, RowTimes
    <3> QED
      BY <1>1, <1>2, <3>1, <3>2
  <2>3. ASSUME SetFieldCapture PROVE Grown
    <3>1. \E pieces : ghost' = [ghost EXCEPT !.owed = ghost.owed \cup Unreached(pieces)]
      BY <2>3 DEF SetFieldCapture
    <3>2. \A pieces : Unreached(pieces) \in SUBSET Instants
      BY <1>0, RowTimes
    <3> QED
      BY <1>2, <3>1, <3>2
  <2>4. ASSUME NEW m \in Built, NEW from \in Instants, ActivateMetric(m, from) PROVE Grown
    <3>1. PICK pieces : ghost' = [ghost EXCEPT !.owed = ghost.owed \cup {t \in Unreached(pieces) : t >= from}]
      BY <2>4 DEF ActivateMetric
    <3>2. {t \in Unreached(pieces) : t >= from} \in SUBSET Instants
      BY <1>0, RowTimes
    <3> QED
      BY <1>2, <3>1, <3>2
  <2>5. ASSUME Reconcile PROVE Grown
    <3>1. PICK S : ghost' = [ghost EXCEPT !.unticketed = S] /\ S \subseteq ghost.unticketed
      BY <2>5 DEF Reconcile
    <3> QED
      BY <1>0, <1>3, <3>1
  <2> QED
    BY <1>1, <1>5, <2>1, <2>2, <2>3, <2>4, <2>5 DEF Switches, PauseMetric
<1>6. CASE Commits
  <2>1. PICK byTxn \in StoredByTxn : Commit(Plan(byTxn)) /\ run.phase = "folded"
    BY <1>6 DEF Commits
  <2>2. PICK p : p = Plan(byTxn)
    OBVIOUS
  <2>3. PICK owed, paused, split, stray :
           /\ owed = ghost.owed \cup LeftBehind(p)
           /\ paused = ghost.paused \cup {m \in Metrics : view.metric[m].status = "inactive" /\ Dirties(m, p)}
           /\ split = ghost.split \cup {x \in Txns : \E f, g \in FactAfter(p) :
                                          f.txn = x /\ g.txn = x /\ f # g}
           /\ stray = ghost.stray \cup Strayed(p)
    OBVIOUS
  <2>4. ghost' = [ghost EXCEPT !.owed = owed, !.paused = paused, !.split = split, !.stray = stray]
    BY <2>1, <2>2, <2>3 DEF Commit
  <2>5. owed \in SUBSET Instants /\ paused \in SUBSET Metrics /\ split \in SUBSET Txns
    BY <1>0, <2>1, <2>2, <2>3, LeftBehindTyped
  <2>6. stray \in SUBSET Txns
    BY <1>0, <2>1, <2>2, <2>3, StrayedTyped
  <2> QED
    BY <1>0, <2>3, <2>4, <2>5, <2>6 DEF HistoryShape
<1>7. CASE Worker /\ ~Commits
  <2>1. ghost' = ghost
    BY <1>7 DEF Worker, Claim, ReadSource, ReadRegistry, EndRun, FailOnConflict, Fail, Rollback, Crash, Commits
  <2> QED
    BY <1>1, <2>1
<1>8. CASE UNCHANGED vars
  BY <1>1, <1>8 DEF vars
<1> QED
  BY <1>4, <1>5, <1>6, <1>7, <1>8 DEF Next

-----------------------------------------------------------------------------
(* The view of the run in hand.                                            *)

\* A published piece finds a place that the run in hand does not hold.
LEMMA PlacedOutside ==
  ASSUME NEW pieces, NEW refold \in BOOLEAN, NEW t, NEW k \in DOMAIN pieces, QueueShape,
         NewTickets(pieces, refold), CanPublish(pieces), tickets' = Publish(pieces), Covers(pieces[k], t)
  PROVE  \E i \in Open' \ run.ids : tickets'[i].refold = refold /\ Covers(tickets'[i], t)
<1>1. PICK i \in Free : Publish(pieces)[i] = pieces[k]
  BY Published
<1>2. pieces[k].st = "open" /\ pieces[k].refold = refold
  BY DEF NewTickets
<1>3. i \in Ids /\ i \notin run.ids
  BY DEF QueueShape, Open, Free
<1> QED
  BY <1>1, <1>2, <1>3 DEF Open

\* After a commit the next slice or the next run is to be read.
LEMMA CommitsUnfold ==
  ASSUME Shape, Commits
  PROVE  run'.phase \notin {"read", "folded"}
<1>0. QueueShape
  BY DEF Shape
<1>1. CASE LastSlice
  BY <1>0, <1>1, CommittedShape, NextRunShape
<1>2. CASE ~LastSlice
  BY <1>0, <1>2, CommittedShape
<1> QED
  BY <1>1, <1>2

\* A step after which a run has read the source read it just now, or left the run alone.
LEMMA ReadStays ==
  ASSUME Shape, [Next]_vars, run'.phase \in {"read", "folded"}
  PROVE  /\ ~Commits
         /\ \/ ReadSource
            \/ ReadRegistry
            \/ run' = run /\ view' = view /\ (Source \/ Switches \/ UNCHANGED vars)
<1>0. QueueShape /\ run \in RunRec
  BY DEF Shape, QueueShape
<1>1. CASE Source \/ Switches \/ UNCHANGED vars
  <2>1. run' = run /\ view' = view
    BY <1>1 DEF vars, Source, RebuildWindow, FreeForRebuild, FinishRebuild, FlagGoesStale, DropPartition,
                AgeDay, Switches, SetCapture, SetShow, SetExpand, SetFieldCapture, ActivateMetric,
                PauseMetric, Reconcile, Flip
  <2> QED
    BY <1>1, <2>1, CommitsUnfold
<1>2. CASE Claim
  <2>1. PICK backedOff \in SUBSET {i \in Open : tickets[i].attempts > 0} :
           LET due == {i \in Open : tickets[i].attempts = 0} \cup backedOff
           IN  due # {} /\ run' = StartRun(due)
    BY <1>2 DEF Claim
  <2>2. {i \in Open : tickets[i].attempts = 0} \cup backedOff \in SUBSET Open
    OBVIOUS
  <2>3. run'.phase = "claimed"
    BY <1>0, <2>1, <2>2, RunStarted
  <2> QED
    BY <2>3
<1>3. CASE ReadSource \/ ReadRegistry
  BY <1>3, CommitsUnfold
<1>4. CASE EndRun
  <2>1. PICK byTxn \in StoredByTxn : Commit(Plan(byTxn)) \/ FailOnConflict(Plan(byTxn))
    BY <1>4 DEF EndRun
  <2>2. CASE Commit(Plan(byTxn))
    BY <1>4, <2>1, <2>2, CommitsUnfold DEF Commits, EndRun
  <2>3. CASE FailOnConflict(Plan(byTxn))
    BY <1>0, <2>3, NextRunShape DEF FailOnConflict, Rollback
  <2> QED
    BY <2>1, <2>2, <2>3
<1>5. CASE \E recorded \in BOOLEAN : Fail(recorded)
  BY <1>0, <1>5, NextRunShape DEF Fail, Rollback
<1>6. CASE Crash
  BY <1>6 DEF Crash, Idle
<1> QED
  BY <1>1, <1>2, <1>3, <1>4, <1>5, <1>6 DEF Next, Worker

\* A step after which a run stands folded read its registry just now or left it alone.
LEMMA FoldedStays ==
  ASSUME Shape, [Next]_vars, run'.phase = "folded"
  PROVE  /\ ~Commits
         /\ \/ ReadRegistry
            \/ run' = run /\ view' = view /\ (Source \/ Switches \/ UNCHANGED vars)
<1>1. ~ReadSource
  BY DEF Shape, QueueShape, RunRec, ReadSource
<1> QED
  BY <1>1, ReadStays

\* Only an activation takes a definition out of draft, and no step moves its instant otherwise.
LEMMA SettingsMove ==
  ASSUME Shape, [Next]_vars, NEW m \in Metrics
  PROVE  /\ metric[m].status # "draft" =>
               metric'[m].status # "draft" /\ metric'[m].from = metric[m].from
         /\ \/ metric'[m] = metric[m]
            \/ metric'[m].from = metric[m].from /\ metric[m].status # "draft"
            \/ metric[m].status = "draft" /\ \E from \in Instants : m \in Built /\ ActivateMetric(m, from)
<1>0. metric \in [Metrics -> Definition]
  BY DEF Shape, SwitchShape
<1>1. CASE Source \/ Worker \/ UNCHANGED vars
  <2>1. metric' = metric
    BY <1>1 DEF vars, Source, RebuildWindow, FreeForRebuild, FinishRebuild, FlagGoesStale, DropPartition,
                AgeDay, Worker, Claim, ReadSource, ReadRegistry, EndRun, Commit, FailOnConflict, Fail,
                Rollback, Crash
  <2> QED
    BY <2>1
<1>2. CASE Switches
  <2>1. ASSUME NEW n \in Switched, SetCapture(n) \/ SetExpand(n) \/ SetShow(n)
        PROVE  metric' = metric
    BY <2>1 DEF SetCapture, SetExpand, SetShow, Flip
  <2>2. ASSUME SetFieldCapture \/ Reconcile
        PROVE  metric' = metric
    BY <2>2 DEF SetFieldCapture, Reconcile, Flip
  <2>4. ASSUME NEW b \in Built, PauseMetric(b)
        PROVE  \/ metric'[m] = metric[m]
               \/ /\ metric'[m].from = metric[m].from /\ metric[m].status # "draft"
                  /\ metric'[m].status # "draft"
    BY <1>0, <2>4 DEF PauseMetric, Definition
  <2>5. ASSUME NEW b \in Built, NEW from \in Instants, ActivateMetric(b, from)
        PROVE  metric'[m] = metric[m] \/ (m = b /\ metric[m].status = "draft")
    BY <1>0, <2>5 DEF ActivateMetric, Definition
  <2> QED
    BY <1>2, <2>1, <2>2, <2>4, <2>5 DEF Switches
<1> QED
  BY <1>1, <1>2 DEF Next

\* Only its own handler moves the show switch.
LEMMA ShowMoves ==
  ASSUME Shape, [Next]_vars
  PROVE  switch'.hidden = switch.hidden \/ \E n \in Switched : SetShow(n)
<1>0. switch \in SwitchRec
  BY DEF Shape, SwitchShape
<1>1. CASE Source \/ Worker \/ UNCHANGED vars
  <2>1. switch' = switch
    BY <1>1 DEF vars, Source, RebuildWindow, FreeForRebuild, FinishRebuild, FlagGoesStale, DropPartition,
                AgeDay, Worker, Claim, ReadSource, ReadRegistry, EndRun, Commit, FailOnConflict, Fail,
                Rollback, Crash
  <2> QED
    BY <2>1
<1>2. CASE Switches
  <2>1. ASSUME NEW n \in Switched, SetCapture(n) \/ SetExpand(n)
        PROVE  switch'.hidden = switch.hidden
    BY <1>0, <2>1 DEF SetCapture, SetExpand, Flip, SwitchRec
  <2>2. ASSUME SetFieldCapture \/ Reconcile
        PROVE  switch'.hidden = switch.hidden
    BY <1>0, <2>2 DEF SetFieldCapture, Reconcile, Flip, SwitchRec
  <2>3. ASSUME NEW b \in Built, PauseMetric(b) \/ \E from \in Instants : ActivateMetric(b, from)
        PROVE  switch' = switch
    BY <2>3 DEF PauseMetric, ActivateMetric
  <2> QED
    BY <1>2, <2>1, <2>2, <2>3 DEF Switches
<1> QED
  BY <1>1, <1>2 DEF Next

\* What a run in hand knows of the definitions and of the show switch stays known.
LEMMA ViewNext ==
  ASSUME Shape, OneFactPerKey, ViewInv, [Next]_vars
  PROVE  ViewInv'
<1> SUFFICES ASSUME run'.phase = "folded"
             PROVE  /\ \A m \in Metrics : view'.metric[m].status # "draft" =>
                          metric'[m].status # "draft" /\ metric'[m].from = view'.metric[m].from
                    /\ view'.hidden # switch'.hidden =>
                          \A t \in {f.at : f \in fact'} \cup {c.at : c \in recs'} :
                              \/ t \in ghost'.owed
                              \/ \E i \in (Open \cup Dead)' \ run'.ids :
                                    tickets'[i].refold /\ Covers(tickets'[i], t)
  BY DEF ViewInv
<1>0. QueueShape /\ ~Commits
  BY FoldedStays DEF Shape
<1>1. fact' = fact /\ recs' = recs /\ ghost.owed \subseteq ghost'.owed
  BY <1>0, WarehouseStays, HistoryNext
<1>2. CASE ReadRegistry
  <2>1. view' = [view EXCEPT !.hidden = switch.hidden, !.metric = metric,
                             !.wm = IF Starts(src) = {} THEN 0 ELSE Max(Starts(src))]
        /\ switch' = switch /\ metric' = metric
    BY <1>2 DEF ReadRegistry
  <2>2. view'.hidden = switch.hidden /\ view'.metric = metric
    BY <2>1 DEF Shape, SwitchShape, ViewRec
  <2> QED
    BY <2>1, <2>2
<1>3. CASE run' = run /\ view' = view
  <2>1. ASSUME NEW m \in Metrics, view'.metric[m].status # "draft"
        PROVE  metric'[m].status # "draft" /\ metric'[m].from = view'.metric[m].from
    <3>1. metric[m].status # "draft" /\ metric[m].from = view.metric[m].from
      BY <1>3, <2>1 DEF ViewInv
    <3> QED
      BY <1>3, <3>1, SettingsMove
  <2>2. ASSUME view'.hidden # switch'.hidden,
               NEW t \in {f.at : f \in fact'} \cup {c.at : c \in recs'}, t \notin ghost'.owed
        PROVE  \E i \in (Open \cup Dead)' \ run'.ids : tickets'[i].refold /\ Covers(tickets'[i], t)
    <3>1. CASE switch'.hidden = switch.hidden
      <4>1. PICK i \in (Open \cup Dead) \ run.ids : tickets[i].refold /\ Covers(tickets[i], t)
        BY <1>1, <1>3, <2>2, <3>1 DEF ViewInv
      <4>2. /\ i \in (Open \cup Dead)' /\ tickets'[i].lo = tickets[i].lo
            /\ tickets'[i].hi = tickets[i].hi /\ tickets'[i].refold = tickets[i].refold
        BY <1>0, <4>1, TicketsStay
      <4> QED
        BY <1>3, <4>1, <4>2 DEF Covers
    <3>2. ASSUME NEW n \in Switched, SetShow(n)
          PROVE  \E i \in (Open \cup Dead)' \ run'.ids : tickets'[i].refold /\ Covers(tickets'[i], t)
      <4>1. PICK pieces : pieces = SwitchPieces(TRUE)
        OBVIOUS
      <4>2. /\ CanPublish(pieces) /\ tickets' = Publish(pieces)
            /\ ghost' = [ghost EXCEPT !.owed = ghost.owed \cup Unreached(pieces)]
        BY <3>2, <4>1 DEF SetShow, Flip
      <4>3. NewTickets(pieces, TRUE)
        BY <4>1, SwitchTickets DEF Shape
      <4>4. ghost'.owed = ghost.owed \cup Unreached(pieces)
        BY <4>2 DEF Shape, HistoryShape
      <4>5. t \notin Unreached(pieces) /\ t \in {f.at : f \in fact} \cup {c.at : c \in recs}
        BY <1>1, <2>2, <4>4
      <4>6. PICK k \in DOMAIN pieces : Covers(pieces[k], t)
        BY <4>5 DEF Unreached
      <4>7. \E i \in Open' \ run.ids : tickets'[i].refold = TRUE /\ Covers(tickets'[i], t)
        <5>1. TRUE \in BOOLEAN /\ tickets' = Publish(pieces) /\ CanPublish(pieces)
          BY <4>2
        <5>2. Covers(pieces[k], t) /\ k \in DOMAIN pieces
          BY <4>6
        <5> HIDE DEF NewTickets
        <5> QED
          BY <1>0, <5>1, <5>2, <4>3, PlacedOutside
      <4> QED
        BY <1>3, <4>7
    <3> QED
      BY <3>1, <3>2, ShowMoves
  <2> QED
    BY <2>1, <2>2
<1> QED
  BY <1>2, <1>3, FoldedStays

-----------------------------------------------------------------------------
(* The grains after a step that commits nothing.                           *)

\* Where no row is there is nothing to expect.
LEMMA NoRows ==
  ASSUME NEW m, NEW t, t \notin {f.at : f \in fact} \cup {c.at : c \in recs}
  PROVE  Expected(m, t) = {}
  BY Zenon DEF Expected

\* The tickets of a flip reach a row, or the row is owed.
LEMMA Reached ==
  ASSUME NEW pieces, NEW t, QueueShape, NewTickets(pieces, TRUE), CanPublish(pieces),
         tickets' = Publish(pieces), run' = run,
         t \in {f.at : f \in fact} \cup {c.at : c \in recs}, t \notin Unreached(pieces)
  PROVE  Pending(t)'
<1>1. PICK k \in DOMAIN pieces : Covers(pieces[k], t)
  BY DEF Unreached
<1>2. TRUE \in BOOLEAN
  OBVIOUS
<1>3. PICK i \in Open' \ run.ids : tickets'[i].refold = TRUE /\ Covers(tickets'[i], t)
  <2> HIDE DEF NewTickets
  <2> QED
    BY <1>1, <1>2, PlacedOutside
<1>4. ToFold(i, t)'
  BY <1>3 DEF ToFold, Waits, Covers
<1> QED
  BY <1>3, <1>4 DEF Pending

\* A flip of the show switch reaches every row, or owes it.
LEMMA ShowReaches ==
  ASSUME Shape, NEW n, SetShow(n), NEW t \in {f.at : f \in fact} \cup {c.at : c \in recs}
  PROVE  t \in ghost'.owed \/ Pending(t)'
<1>1. PICK pieces : pieces = SwitchPieces(TRUE)
  OBVIOUS
<1>2. /\ CanPublish(pieces) /\ tickets' = Publish(pieces) /\ run' = run
      /\ ghost' = [ghost EXCEPT !.owed = ghost.owed \cup Unreached(pieces)]
  BY <1>1 DEF SetShow, Flip
<1>3. NewTickets(pieces, TRUE)
  BY <1>1, SwitchTickets DEF Shape
<1>4. ghost'.owed = ghost.owed \cup Unreached(pieces)
  BY <1>2 DEF Shape, HistoryShape
<1> QED
  BY <1>2, <1>3, <1>4, Reached DEF Shape

\* An activation reaches every row from its instant on, or owes it.
LEMMA ActivationReaches ==
  ASSUME Shape, NEW m, NEW from \in Instants, ActivateMetric(m, from), NEW t \in Int, from <= t,
         t \in {f.at : f \in fact} \cup {c.at : c \in recs}
  PROVE  t \in ghost'.owed \/ Pending(t)'
<1>1. PICK pieces : pieces = IF tstate.wm # 0 /\ from < tstate.wm
                             THEN Pieces(from, tstate.wm, TRUE) ELSE <<>>
  OBVIOUS
<1>2. PICK late : late = {u \in Unreached(pieces) : u >= from}
  OBVIOUS
<1>3. /\ CanPublish(pieces) /\ tickets' = Publish(pieces) /\ run' = run
      /\ ghost' = [ghost EXCEPT !.owed = ghost.owed \cup late]
  BY <1>1, <1>2 DEF ActivateMetric
<1>4. NewTickets(pieces, TRUE)
  <2>1. from \in Nat /\ tstate.wm \in Int /\ tstate.wm <= LastInstant
    BY ConstantsAssumption DEF Instants, Shape, TablesShape
  <2>2. NewTickets(Pieces(from, tstate.wm, TRUE), TRUE)
    BY <2>1, PiecesAreTickets
  <2>3. NewTickets(<<>>, TRUE)
    BY NoTickets
  <2> QED
    BY <1>1, <2>2, <2>3
<1>5. ghost'.owed = ghost.owed \cup late
  BY <1>3 DEF Shape, HistoryShape
<1>6. CASE t \in Unreached(pieces)
  <2>1. from \in Int /\ t >= from
    BY ConstantsAssumption DEF Instants
  <2> QED
    BY <1>2, <1>5, <1>6, <2>1
<1>7. CASE t \notin Unreached(pieces)
  BY <1>3, <1>4, <1>7, Reached DEF Shape
<1> QED
  BY <1>6, <1>7

\* A step that commits nothing leaves every bucket right, or owed, or to be folded again.
LEMMA GrainQuiet ==
  ASSUME Shape, OneFactPerKey, GrainInv, [Next]_vars, ~Commits
  PROVE  GrainInv'
<1>0. /\ fact' = fact /\ recs' = recs /\ daily' = daily /\ monthly' = monthly
      /\ ghost.owed \subseteq ghost'.owed /\ ghost.paused \subseteq ghost'.paused
  BY WarehouseStays, HistoryNext
<1> SUFFICES ASSUME NEW m \in Metrics
             PROVE  /\ monthly'[m] = daily'[m]
                    /\ metric'[m].status = "draft" => daily'[m] = {}
                    /\ \A t \in Instants : DayOf(t) \notin aged' => At(daily'[m], t) = At(hourly'[m], t)
                    /\ \A t \in Instants \ ghost'.owed :
                          (metric'[m].status # "draft" /\ m \notin ghost'.paused /\ ~Pending(t)') =>
                          At(daily'[m], t) = Expected(m, t)'
  BY DEF GrainInv, At
<1>1. monthly'[m] = daily'[m]
  BY <1>0 DEF GrainInv
<1>2. metric'[m].status = "draft" => daily'[m] = {}
  BY <1>0, SettingsMove DEF GrainInv
<1>3. ASSUME NEW t \in Instants, DayOf(t) \notin aged'
      PROVE  At(daily'[m], t) = At(hourly'[m], t)
  <2>1. CASE hourly' = hourly /\ aged' = aged
    BY <1>0, <1>3, <2>1 DEF GrainInv
  <2>2. ASSUME NEW d, aged' = aged \cup {d}, hourly' = [x \in Metrics |-> {c \in hourly[x] : DayOf(c.at) # d}]
        PROVE  At(daily'[m], t) = At(hourly'[m], t)
    <3>1. DayOf(t) \notin aged /\ DayOf(t) # d
      BY <1>3, <2>2
    <3>2. At(daily[m], t) = At(hourly[m], t)
      BY <3>1 DEF GrainInv
    <3>3. hourly'[m] = {c \in hourly[m] : DayOf(c.at) # d}
      BY <2>2
    <3>4. At(hourly'[m], t) = At(hourly[m], t)
      BY <3>1, <3>3, Zenon DEF At
    <3> QED
      BY <1>0, <3>2, <3>4
  <2> QED
    BY <2>1, <2>2, WarehouseStays
<1>4. ASSUME NEW t \in Instants \ ghost'.owed, metric'[m].status # "draft",
             m \notin ghost'.paused, ~Pending(t)'
      PROVE  At(daily'[m], t) = Expected(m, t)'
  <2>0. t \in Int /\ t \in Instants \ ghost.owed /\ m \notin ghost.paused
    BY <1>0, <1>4, ConstantsAssumption DEF Instants
  <2>1. ~Pending(t)
    BY <1>4, <2>0, PendingStays
  <2>2. t \notin {f.at : f \in fact} \cup {c.at : c \in recs} => Expected(m, t) = {} /\ Expected(m, t)' = {}
    <3> SUFFICES ASSUME t \notin {f.at : f \in fact} \cup {c.at : c \in recs}
                 PROVE  Expected(m, t) = {} /\ Expected(m, t)' = {}
      OBVIOUS
    <3>1. t \notin {f.at : f \in fact'} \cup {c.at : c \in recs'}
      BY <1>0
    <3>2. Expected(m, t)' = {}
      BY <3>1, Zenon DEF Expected
    <3> QED
      BY <3>2, NoRows
  <2>3. CASE metric[m].status # "draft"
    <3>1. metric'[m].from = metric[m].from
      BY <2>3, SettingsMove
    <3>2. At(daily[m], t) = Expected(m, t)
      BY <2>0, <2>1, <2>3 DEF GrainInv
    <3>3. CASE switch'.hidden = switch.hidden
      <4>1. Expected(m, t)' = Expected(m, t)
        BY <1>0, <3>1, <3>3 DEF Expected
      <4> QED
        BY <1>0, <3>2, <4>1
    <3>4. ASSUME NEW n \in Switched, SetShow(n)
          PROVE  At(daily'[m], t) = Expected(m, t)'
      <4>1. t \notin {f.at : f \in fact} \cup {c.at : c \in recs}
        BY <1>4, <3>4, ShowReaches
      <4> QED
        BY <1>0, <2>2, <3>2, <4>1
    <3> QED
      BY <3>3, <3>4, ShowMoves
  <2>4. CASE metric[m].status = "draft"
    <3>1. PICK from \in Instants : ActivateMetric(m, from)
      BY <1>4, <2>4, SettingsMove
    <3>2. At(daily'[m], t) = {}
      BY <1>0, <2>4 DEF GrainInv, At
    <3>3. metric'[m].from = from
      BY <3>1 DEF ActivateMetric, Shape, SwitchShape
    <3>4. CASE from <= t
      <4>1. t \notin {f.at : f \in fact} \cup {c.at : c \in recs}
        BY <1>4, <2>0, <3>1, <3>4, ActivationReaches
      <4> QED
        BY <2>2, <3>2, <4>1
    <3>5. CASE ~(from <= t)
      <4>1. ~(t >= metric'[m].from)
        BY <2>0, <3>3, <3>5, ConstantsAssumption DEF Instants
      <4>2. Expected(m, t)' = {}
        BY <4>1, Zenon DEF Expected
      <4> QED
        BY <3>2, <4>2
    <3> QED
      BY <3>4, <3>5
  <2> QED
    BY <2>3, <2>4
<1> QED
  BY <1>1, <1>2, <1>3, <1>4

-----------------------------------------------------------------------------
(* The grains after a commit.                                              *)

\* What a refold ticket outside the run in hand covers is pending after the commit.
LEMMA OutsidePending ==
  ASSUME Shape, [Next]_vars, Commits, NEW t \in Int, NEW i \in (Open \cup Dead) \ run.ids,
         tickets[i].refold, Covers(tickets[i], t)
  PROVE  Pending(t)'
<1>1. Waits(i, t)
  BY DEF Waits
<1> QED
  BY <1>1, WaitStays DEF Pending, ToFold

\* A ticket that the run does not hold outlives its commit.
LEMMA OutsideWaiting ==
  ASSUME Shape, [Next]_vars, NEW t \in Int, Elsewhere(t)
  PROVE  Waiting(t)'
<1>1. PICK i \in (Open \cup Dead) \ run.ids : Covers(tickets[i], t)
  BY DEF Elsewhere
<1>2. Waits(i, t)
  BY <1>1 DEF Waits
<1> QED
  BY <1>1, <1>2, WaitStays DEF Waiting

\* A commit settles what was pending only where its own slice was folded again.
LEMMA PendingGone ==
  ASSUME Shape, RunInv, [Next]_vars, Commits, NEW p, NEW t \in Instants, Pending(t), ~Pending(t)'
  PROVE  run.refold /\ t \in DirtyHours(p)
<1>0. t \in Int /\ run.hi \in Int
  BY ConstantsAssumption DEF Shape, QueueShape, RunRec, Instants
<1>1. PICK i \in Open \cup Dead : tickets[i].refold /\ Waits(i, t)
  BY DEF Pending, ToFold
<1>2. i \in run.ids /\ InSlice(t)
  BY <1>0, <1>1, WaitGone DEF Pending, ToFold
<1>3. run.refold /\ run.lo <= t /\ t <= run.hi
  BY <1>0, <1>1, <1>2 DEF RunInv, InSlice
<1> QED
  BY <1>3 DEF DirtyHours

\* A commit settles what waited only in its own slice.
LEMMA WaitingGone ==
  ASSUME Shape, RunInv, [Next]_vars, Commits, NEW t \in Int, Waiting(t), ~Waiting(t)'
  PROVE  InSlice(t)
<1>1. PICK i \in Open \cup Dead : Waits(i, t)
  BY DEF Waiting
<1> QED
  BY <1>1, WaitGone DEF Waiting

\* What a commit does to the history, and what it leaves alone.
LEMMA CommitNotes ==
  ASSUME Shape, NEW p, Commit(p)
  PROVE  /\ ghost'.owed = ghost.owed \cup LeftBehind(p)
         /\ ghost'.paused = ghost.paused \cup
               {m \in Metrics : view.metric[m].status = "inactive" /\ Dirties(m, p)}
         /\ ghost'.split = ghost.split \cup {x \in Txns : \E f, g \in FactAfter(p) :
                                                   f.txn = x /\ g.txn = x /\ f # g}
         /\ ghost'.stray = ghost.stray \cup Strayed(p)
         /\ ghost'.everOff = ghost.everOff /\ ghost'.unticketed = ghost.unticketed
         /\ ghost'.straddled = ghost.straddled
         /\ switch' = switch /\ metric' = metric /\ aged' = aged
<1>1. PICK owed, paused, split, stray :
         /\ owed = ghost.owed \cup LeftBehind(p)
         /\ paused = ghost.paused \cup {m \in Metrics : view.metric[m].status = "inactive" /\ Dirties(m, p)}
         /\ split = ghost.split \cup {x \in Txns : \E f, g \in FactAfter(p) :
                                        f.txn = x /\ g.txn = x /\ f # g}
         /\ stray = ghost.stray \cup Strayed(p)
  OBVIOUS
<1>2. ghost' = [ghost EXCEPT !.owed = owed, !.paused = paused, !.split = split, !.stray = stray]
  BY <1>1 DEF Commit
<1> QED
  BY <1>1, <1>2 DEF Commit, Shape, HistoryShape

\* Behind a show switch or a definition that moved, every bucket of the run is owed or folded again.
LEMMA MovedOwes ==
  ASSUME Shape, [Next]_vars, Commits, NEW p, Commit(p), view.hidden # switch.hidden \/ view.metric # metric,
         NEW t \in Instants, t \in DirtyHours(p) \cup {c.at : c \in RecsWritten(p)}
  PROVE  t \in ghost'.owed \/ Pending(t)'
<1>0. t \in Int
  BY ConstantsAssumption DEF Instants
<1>1. CASE CoveredBy({i \in Open \ run.ids : tickets[i].refold}, t)
  BY <1>0, <1>1, OutsidePending DEF CoveredBy
<1>2. CASE ~CoveredBy({i \in Open \ run.ids : tickets[i].refold}, t)
  <2>1. t \in LeftBehind(p)
    <3>1. {i \in Open \ run.ids : tickets[i].refold} =
          {i \in Open \ run.ids : tickets[i].refold \/ ~(view.hidden # switch.hidden \/ view.metric # metric)}
      OBVIOUS
    <3> QED
      BY <1>2, <3>1 DEF LeftBehind
  <2> QED
    BY <2>1, CommitNotes
<1> QED
  BY <1>1, <1>2

\* The rows a definition counts: records or facts.
Counted(m) == IF m \in RecordMetrics THEN recs ELSE fact

\* Every bucket of a definition is a dirty hour or an hour of a written record.
LEMMA HoursAreDirty ==
  ASSUME NEW m, NEW byTxn \in StoredByTxn, NEW p, p = Plan(byTxn), Shape, run.phase = "folded"
  PROVE  /\ DirtyHours(p) \subseteq HoursOf(m, p)
         /\ HoursOf(m, p) \subseteq DirtyHours(p) \cup {c.at : c \in RecsWritten(p)}
<1>1. ASSUME NEW c \in p.orphaned
      PROVE  c.at \in DirtyHours(p)
  <2>1. PICK g \in p.diff.reversed : SameKey(c, g)
    BY <1>1, PlanFacts
  <2> QED
    BY <2>1 DEF SameKey, DirtyHours, Writes
<1> QED
  BY <1>1 DEF HoursOf

\* Away from its buckets the rows of a definition stay.
LEMMA CountedAway ==
  ASSUME NEW m, NEW p, NEW t, Commit(p), t \notin HoursOf(m, p)
  PROVE  \A g : g.at = t => (g \in Counted(m)' <=> g \in Counted(m))
<1>1. t \notin {f.at : f \in Writes(p.diff)}
  BY DEF HoursOf, DirtyHours
<1>2. \A g : g.at = t => (g \in FactAfter(p) <=> g \in fact)
  BY <1>1 DEF FactAfter, Writes
<1>3. CASE m \in RecordMetrics
  <2>1. t \notin {c.at : c \in p.orphaned} /\ t \notin {c.at : c \in RecsWritten(p)}
    BY <1>3 DEF HoursOf
  <2>2. \A f \in p.expanding : f.at # t
    <3> SUFFICES ASSUME NEW f \in p.expanding, f.at = t PROVE FALSE
      OBVIOUS
    <3>1. [txn |-> f.txn, at |-> f.at, name |-> f.name, ver |-> view.approved] \in RecsWritten(p)
      BY DEF RecsWritten
    <3> QED
      BY <2>1, <3>1
  <2>3. \A g : g.at = t => (g \in RecsAfter(p) <=> g \in recs)
    BY <2>1, <2>2 DEF RecsAfter, RecsReplaced, SameKey
  <2> QED
    BY <1>3, <2>3 DEF Counted, Commit
<1>4. CASE m \notin RecordMetrics
  BY <1>2, <1>4 DEF Counted, Commit
<1> QED
  BY <1>3, <1>4

\* So does what its buckets should hold there.
LEMMA ExpectedAway ==
  ASSUME NEW m, NEW p, NEW t, Commit(p), t \notin HoursOf(m, p)
  PROVE  Expected(m, t)' = Expected(m, t)
<1>1. \A g : g.at = t => (g \in Counted(m)' <=> g \in Counted(m))
  BY CountedAway
<1>2. switch' = switch /\ metric' = metric
  BY DEF Commit
<1>3. {g \in Counted(m)' : g.at = t /\ t >= metric'[m].from /\ g.name \in Filter[m] \ switch'.hidden} =
      {g \in Counted(m) : g.at = t /\ t >= metric[m].from /\ g.name \in Filter[m] \ switch.hidden}
  BY <1>1, <1>2
<1> QED
  BY <1>3 DEF Expected, Counted

\* A definition that no written fact concerns expects the same everywhere.
LEMMA ExpectedUnconcerned ==
  ASSUME NEW m, NEW p, NEW t, Commit(p), ~Concerns(m, p)
  PROVE  Expected(m, t)' = Expected(m, t)
<1>1. m \notin RecordMetrics /\ \A g \in Writes(p.diff) : g.name \notin Filter[m]
  BY DEF Concerns
<1>2. switch' = switch /\ metric' = metric /\ fact' = FactAfter(p)
  BY DEF Commit
<1>3. \A g : g.name \in Filter[m] => (g \in fact' <=> g \in fact)
  BY <1>1, <1>2 DEF FactAfter, Writes
<1>4. {g \in fact' : g.at = t /\ t >= metric'[m].from /\ g.name \in Filter[m] \ switch'.hidden} =
      {g \in fact : g.at = t /\ t >= metric[m].from /\ g.name \in Filter[m] \ switch.hidden}
  BY <1>2, <1>3
<1> QED
  BY <1>1, <1>4 DEF Expected

\* A definition the run read as it is contributes what its buckets should hold.
LEMMA ContributionsAre ==
  ASSUME NEW m, NEW p, NEW t, Commit(p), view.metric[m].from = metric[m].from,
         view.hidden = switch.hidden \/ t \notin {g.at : g \in Counted(m)'}
  PROVE  At(Contributions(m, p), t) = Expected(m, t)'
<1>1. switch' = switch /\ metric' = metric
  BY DEF Commit
<1>2. Contributions(m, p) =
        {[txn |-> f.txn, at |-> f.at, name |-> f.name] : f \in
            {g \in Counted(m)' : g.name \in Filter[m] \ view.hidden /\ g.at >= metric[m].from}}
  BY DEF Contributions, Counted, Commit
<1>3. Expected(m, t)' =
        {[txn |-> f.txn, at |-> f.at, name |-> f.name] : f \in
            {g \in Counted(m)' : g.at = t /\ t >= metric[m].from /\ g.name \in Filter[m] \ switch.hidden}}
  BY <1>1 DEF Expected, Counted
<1>4. At(Contributions(m, p), t) =
        {[txn |-> f.txn, at |-> f.at, name |-> f.name] : f \in
            {g \in Counted(m)' : g.at = t /\ t >= metric[m].from /\ g.name \in Filter[m] \ view.hidden}}
  <2>1. PICK names : names = Filter[m] \ view.hidden
    OBVIOUS
  <2>2. PICK from, S : from = metric[m].from /\ S = Counted(m)'
    OBVIOUS
  <2>3. At({[txn |-> f.txn, at |-> f.at, name |-> f.name] : f \in
                {g \in S : g.name \in names /\ g.at >= from}}, t) =
        {[txn |-> f.txn, at |-> f.at, name |-> f.name] : f \in
                {g \in S : g.at = t /\ t >= from /\ g.name \in names}}
    BY DEF At
  <2> QED
    BY <1>2, <2>1, <2>2, <2>3
<1>5. CASE view.hidden = switch.hidden
  BY <1>3, <1>4, <1>5
<1>6. CASE t \notin {g.at : g \in Counted(m)'}
  <2>1. \A names : {g \in Counted(m)' : g.at = t /\ t >= metric[m].from /\ g.name \in names} = {}
    BY <1>6, Zenon
  <2> QED
    BY <1>3, <1>4, <2>1
<1> QED
  BY <1>5, <1>6

\* What a commit makes of the grains of a definition.
LEMMA GrainsCommitted ==
  ASSUME NEW m \in Metrics, NEW p, Commit(p), NEW t
  PROVE  /\ m \notin Folded(p) =>
               hourly'[m] = hourly[m] /\ daily'[m] = daily[m] /\ monthly'[m] = monthly[m]
         /\ m \in Folded(p) =>
               /\ monthly'[m] = daily'[m]
               /\ At(hourly'[m], t) = IF t \in HoursOf(m, p) THEN At(Contributions(m, p), t)
                                                             ELSE At(hourly[m], t)
               /\ At(daily'[m], t) = IF DayOf(t) \notin DaysOf(m, p) THEN At(daily[m], t)
                                     ELSE IF DailyDerivable(DayOf(t)) THEN At(hourly'[m], t)
                                     ELSE At(Contributions(m, p), t)
<1>1. hourly' = HourlyAfter(p) /\ daily' = DailyAfter(p) /\ monthly' = MonthlyAfter(p)
  BY DEF Commit
<1>2. CASE m \notin Folded(p)
  BY <1>1, <1>2 DEF HourlyAfter, DailyAfter, MonthlyAfter
<1>3. CASE m \in Folded(p)
  <2>1. hourly'[m] = {c \in hourly[m] : c.at \notin HoursOf(m, p)}
                        \cup {c \in Contributions(m, p) : c.at \in HoursOf(m, p)}
    BY <1>1, <1>3 DEF HourlyAfter
  <2>2. daily'[m] = {c \in daily[m] : DayOf(c.at) \notin DaysOf(m, p)}
                \cup {c \in hourly'[m] : DayOf(c.at) \in DaysOf(m, p) /\ DailyDerivable(DayOf(c.at))}
                \cup {c \in Contributions(m, p) :
                        DayOf(c.at) \in DaysOf(m, p) /\ ~DailyDerivable(DayOf(c.at))}
    BY <1>1, <1>3 DEF DailyAfter
  <2>3. monthly'[m] = daily'[m]
    BY <1>1, <1>3 DEF MonthlyAfter
  <2>4. At(hourly'[m], t) = IF t \in HoursOf(m, p) THEN At(Contributions(m, p), t) ELSE At(hourly[m], t)
    <3>1. ASSUME NEW c
          PROVE  c \in At(hourly'[m], t) <=>
                 c \in IF t \in HoursOf(m, p) THEN At(Contributions(m, p), t) ELSE At(hourly[m], t)
      BY <2>1, Zenon DEF At
    <3> QED
      BY <3>1, Zenon DEF At
  <2>5. At(daily'[m], t) = IF DayOf(t) \notin DaysOf(m, p) THEN At(daily[m], t)
                           ELSE IF DailyDerivable(DayOf(t)) THEN At(hourly'[m], t)
                           ELSE At(Contributions(m, p), t)
    <3>1. CASE DayOf(t) \notin DaysOf(m, p)
      <4>1. \A c : c \in At(daily'[m], t) <=> c \in At(daily[m], t)
        BY <2>2, <3>1, Zenon DEF At
      <4> QED
        BY <3>1, <4>1, Zenon DEF At
    <3>2. CASE DayOf(t) \in DaysOf(m, p) /\ DailyDerivable(DayOf(t))
      <4>1. \A c : c \in At(daily'[m], t) <=> c \in At(hourly'[m], t)
        BY <2>2, <3>2, Zenon DEF At
      <4> QED
        BY <3>2, <4>1, Zenon DEF At
    <3>3. CASE DayOf(t) \in DaysOf(m, p) /\ ~DailyDerivable(DayOf(t))
      <4>1. \A c : c \in At(daily'[m], t) <=> c \in At(Contributions(m, p), t)
        BY <2>2, <3>3, Zenon DEF At
      <4> QED
        BY <3>3, <4>1, Zenon DEF At
    <3> QED
      BY <3>1, <3>2, <3>3
  <2> QED
    BY <1>3, <2>3, <2>4, <2>5
<1> QED
  BY <1>2, <1>3

\* A commit leaves every bucket right, or owed, or still to be folded again.
LEMMA GrainCommit ==
  ASSUME Shape, OneFactPerKey, RunInv, ViewInv, GrainInv, [Next]_vars, Commits
  PROVE  GrainInv'
<1>0. PICK byTxn \in StoredByTxn : Commit(Plan(byTxn))
  BY DEF Commits
<1>1. PICK p : p = Plan(byTxn)
  OBVIOUS
<1>2. Commit(p) /\ run.phase = "folded"
  BY <1>0, <1>1 DEF Commits
<1>3. /\ ghost'.owed = ghost.owed \cup LeftBehind(p)
      /\ ghost'.paused = ghost.paused \cup
            {m \in Metrics : view.metric[m].status = "inactive" /\ Dirties(m, p)}
      /\ switch' = switch /\ metric' = metric /\ aged' = aged
  BY <1>2, CommitNotes
<1> SUFFICES ASSUME NEW m \in Metrics
             PROVE  /\ monthly'[m] = daily'[m]
                    /\ metric'[m].status = "draft" => daily'[m] = {}
                    /\ \A t \in Instants : DayOf(t) \notin aged' => At(daily'[m], t) = At(hourly'[m], t)
                    /\ \A t \in Instants \ ghost'.owed :
                          (metric'[m].status # "draft" /\ m \notin ghost'.paused /\ ~Pending(t)') =>
                          At(daily'[m], t) = Expected(m, t)'
  BY DEF GrainInv, At
<1>4. view.metric[m].status # "draft" =>
         metric[m].status # "draft" /\ metric[m].from = view.metric[m].from
  BY <1>2 DEF ViewInv
<1>5. m \in Folded(p) => view.metric[m].status # "draft"
  BY DEF Folded
<1>6. monthly'[m] = daily'[m]
  BY <1>2, GrainsCommitted DEF GrainInv
<1>7. metric'[m].status = "draft" => daily'[m] = {}
  BY <1>2, <1>3, <1>4, <1>5, GrainsCommitted DEF GrainInv
<1>8. ASSUME NEW t \in Instants, DayOf(t) \notin aged'
      PROVE  At(daily'[m], t) = At(hourly'[m], t)
  <2>1. At(daily[m], t) = At(hourly[m], t)
    BY <1>3, <1>8 DEF GrainInv
  <2>2. CASE m \notin Folded(p)
    BY <1>2, <2>1, <2>2, GrainsCommitted
  <2>3. CASE m \in Folded(p)
    <3>1. DailyDerivable(DayOf(t))
      BY <1>3, <1>8 DEF DailyDerivable
    <3>2. t \in HoursOf(m, p) => DayOf(t) \in DaysOf(m, p)
      BY DEF DaysOf
    <3> QED
      BY <1>2, <2>1, <2>3, <3>1, <3>2, GrainsCommitted
  <2> QED
    BY <2>2, <2>3
<1>9. ASSUME NEW t \in Instants \ ghost'.owed, metric'[m].status # "draft",
             m \notin ghost'.paused, ~Pending(t)'
      PROVE  At(daily'[m], t) = Expected(m, t)'
  <2>0. /\ t \in Instants /\ t \in Int /\ t \notin ghost.owed /\ m \notin ghost.paused
        /\ metric[m].status # "draft"
    BY <1>3, <1>9, ConstantsAssumption DEF Instants
  <2>1. /\ DirtyHours(p) \subseteq HoursOf(m, p)
        /\ HoursOf(m, p) \subseteq DirtyHours(p) \cup {c.at : c \in RecsWritten(p)}
    BY <1>1, <1>2, HoursAreDirty
  <2>2. t \in HoursOf(m, p) => view.hidden = switch.hidden /\ view.metric = metric
    BY <1>2, <1>9, <2>0, <2>1, MovedOwes
  <2>3. ~Pending(t) \/ (run.refold /\ t \in DirtyHours(p))
    BY <1>9, <2>0, PendingGone
  <2>4. CASE t \notin HoursOf(m, p)
    <3>1. Expected(m, t)' = Expected(m, t)
      BY <1>2, <2>4, ExpectedAway
    <3>2. At(daily[m], t) = Expected(m, t)
      BY <2>0, <2>1, <2>3, <2>4 DEF GrainInv
    <3>3. CASE m \notin Folded(p) \/ DayOf(t) \notin DaysOf(m, p)
      BY <1>2, <3>1, <3>2, <3>3, GrainsCommitted
    <3>4. CASE m \in Folded(p) /\ DayOf(t) \in DaysOf(m, p) /\ DailyDerivable(DayOf(t))
      <4>1. At(daily[m], t) = At(hourly[m], t)
        BY <2>0, <3>4 DEF DailyDerivable, GrainInv
      <4> QED
        BY <1>2, <2>4, <3>1, <3>2, <3>4, <4>1, GrainsCommitted
    <3>5. CASE m \in Folded(p) /\ DayOf(t) \in DaysOf(m, p) /\ ~DailyDerivable(DayOf(t))
      <4>1. view.hidden = switch.hidden \/ t \notin {g.at : g \in Counted(m)'}
        <5> SUFFICES ASSUME view.hidden # switch.hidden, NEW g \in Counted(m)', g.at = t
                     PROVE  FALSE
          OBVIOUS
        <5>1. g \in Counted(m)
          BY <1>2, <2>4, CountedAway
        <5>2. t \in {f.at : f \in fact} \cup {c.at : c \in recs}
          BY <5>1 DEF Counted
        <5>3. PICK i \in (Open \cup Dead) \ run.ids : tickets[i].refold /\ Covers(tickets[i], t)
          BY <1>2, <2>0, <5>2 DEF ViewInv
        <5> QED
          BY <1>9, <2>0, <5>3, OutsidePending
      <4>2. At(Contributions(m, p), t) = Expected(m, t)'
        BY <1>2, <1>4, <1>5, <3>5, <4>1, ContributionsAre
      <4> QED
        BY <1>2, <3>5, <4>2, GrainsCommitted
    <3> QED
      BY <3>3, <3>4, <3>5
  <2>5. CASE t \in HoursOf(m, p) /\ m \in Folded(p)
    <3>1. At(Contributions(m, p), t) = Expected(m, t)'
      BY <1>2, <1>4, <1>5, <2>2, <2>5, ContributionsAre
    <3>2. DayOf(t) \in DaysOf(m, p)
      BY <2>5 DEF DaysOf
    <3> QED
      BY <1>2, <2>5, <3>1, <3>2, GrainsCommitted
  <2>6. CASE t \in HoursOf(m, p) /\ m \notin Folded(p)
    <3>1. view.metric[m].status \in {"active", "inactive"}
      BY <2>0, <2>2, <2>6 DEF Shape, SwitchShape, Definition
    <3>2. ~Dirties(m, p)
      BY <1>3, <1>9, <2>6, <3>1 DEF Folded
    <3>3. ~Concerns(m, p)
      BY <2>6, <3>2 DEF Dirties
    <3>4. Expected(m, t)' = Expected(m, t)
      BY <1>2, <3>3, ExpectedUnconcerned
    <3>5. At(daily[m], t) = Expected(m, t)
      BY <2>0, <2>3, <3>3 DEF GrainInv, Concerns
    <3> QED
      BY <1>2, <2>6, <3>4, <3>5, GrainsCommitted
  <2> QED
    BY <2>4, <2>5, <2>6
<1> QED
  BY <1>6, <1>7, <1>8, <1>9

-----------------------------------------------------------------------------
(* The settled rows.                                                       *)

\* settle_touched() writes again the row of every key the run has a fact of.
LEMMA SettledNext ==
  ASSUME Shape, OneFactPerKey, SettledInv, [Next]_vars
  PROVE  SettledInv'
<1>1. CASE ~Commits
  <2>1. fact' = fact /\ settled' = settled
    BY <1>1, WarehouseStays
  <2> QED
    BY <2>1 DEF SettledInv
<1>2. CASE Commits
  <2>1. PICK byTxn \in StoredByTxn : Commit(Plan(byTxn))
    BY <1>2 DEF Commits
  <2>2. PICK p : p = Plan(byTxn)
    OBVIOUS
  <2>3. /\ run.phase = "folded" /\ ~Conflict(p) /\ fact' = FactAfter(p)
        /\ settled' = SettledAfter(p)
    BY <1>2, <2>1, <2>2 DEF Commits, Commit
  <2>4. FactAfter(p) \subseteq FactRecord
    BY <2>2, <2>3, FactsCommitted
  <2>5. p.diff.inserted \subseteq p.facts /\ p.diff.updated \subseteq p.facts
    <3>1. p.diff = Diff(Stored, p.facts)
      BY <2>2, <2>3, PlanFacts
    <3> QED
      BY <3>1 DEF Diff
  <2>6. ASSUME NEW f \in FactAfter(p)
        PROVE  f.txn \in SettledAfter(p)[f.name]
    <3>0. f.name \in Names
      BY <2>4 DEF FactRecord
    <3>1. CASE f.name \in {g.name : g \in p.facts}
      BY <3>0, <3>1 DEF SettledAfter
    <3>2. CASE f.name \notin {g.name : g \in p.facts}
      <4>1. f \in fact
        BY <2>5, <3>2 DEF FactAfter
      <4> QED
        BY <3>0, <3>2, <4>1 DEF SettledAfter, SettledInv
    <3> QED
      BY <3>1, <3>2
  <2> QED
    BY <2>3, <2>6 DEF SettledInv
<1> QED
  BY <1>1, <1>2

-----------------------------------------------------------------------------
(* Facts follow the source.                                                *)

\* The tickets of a step cover an instant until a run claims them.
LEMMA PlacedElsewhere ==
  ASSUME NEW pieces, NEW refold \in BOOLEAN, NEW t, NEW k \in DOMAIN pieces, QueueShape,
         NewTickets(pieces, refold), CanPublish(pieces), tickets' = Publish(pieces), run' = run,
         Covers(pieces[k], t)
  PROVE  Elsewhere(t)'
<1>1. PICK i \in Open' \ run.ids : Covers(tickets'[i], t)
  BY PlacedOutside
<1> QED
  BY <1>1 DEF Elsewhere, Covers

\* publish() of a set of instants covers each of them.
LEMMA SpanElsewhere ==
  ASSUME NEW S \in SUBSET Instants, NEW t \in S, QueueShape, NEW pieces,
         pieces = Pieces(Min(S), Max(S), FALSE), CanPublish(pieces), tickets' = Publish(pieces), run' = run
  PROVE  Elsewhere(t)'
<1>0. S \in SUBSET Int /\ S # {} /\ t \in Int /\ LastInstant \in Int
      /\ \A x \in S : 1 <= x /\ x <= LastInstant
  BY ConstantsAssumption DEF Instants
<1>1. Min(S) \in S /\ Min(S) <= t /\ Max(S) \in S /\ t <= Max(S)
  <2>1. \E b \in Int : \A x \in S : b <= x
    BY <1>0
  <2>2. \E b \in Int : \A x \in S : x <= b
    BY <1>0
  <2> QED
    BY <1>0, <2>1, <2>2, MinIsLeast, MaxIsGreatest
<1>2. PICK lo \in Int, hi \in Int : lo = Min(S) /\ hi = Max(S) /\ lo <= t /\ t <= hi
  BY <1>0, <1>1
<1>3. FALSE \in BOOLEAN /\ NewTickets(pieces, FALSE)
  BY <1>1, SpanTickets
<1>4. PICK k \in DOMAIN pieces : Covers(pieces[k], t)
  BY <1>2, <1>3, <1>0, PiecesCover
<1> QED
  BY <1>3, <1>4, PlacedElsewhere

\* What becomes of the names of a transaction at an instant in one step of the
\* source or of the switches: nothing, or a ticket over the instant, or a row
\* that is known to have none.
LEMMA SourceMoves ==
  ASSUME Shape, SourceShape, [Next]_vars, NEW x \in Txns, NEW t \in Instants, t > floor'
  PROVE  \/ /\ NamesAt(src', x, t) = NamesAt(src, x, t)
            /\ Unticketed(x, t) => Unticketed(x, t)'
         \/ run' = run /\ Elsewhere(t)'
         \/ Unticketed(x, t)'
         \/ /\ run' = run /\ tickets' = tickets /\ CoveredBy(run.ids, t)
            /\ t >= (IF run.phase = "claimed" THEN run.lo ELSE run.hi)
<1>0. /\ QueueShape /\ src \in Table /\ floor \in Int
      /\ \A row \in Rows : row.at \in Instants /\ row \in Rows
  BY ConstantsAssumption DEF Shape, TablesShape, SwitchShape
<1>1. ASSUME src' = src, ghost' = ghost
      PROVE  /\ NamesAt(src', x, t) = NamesAt(src, x, t)
             /\ Unticketed(x, t) => Unticketed(x, t)'
  BY <1>1 DEF NamesAt, Unticketed
<1>2. ASSUME NEW y \in Txns, NEW r \in Rows \cup {None}, RebuildWindow(y, r)
      PROVE  \/ /\ NamesAt(src', x, t) = NamesAt(src, x, t)
                /\ Unticketed(x, t) => Unticketed(x, t)'
             \/ run' = run /\ Elsewhere(t)'
  <2>1. PICK span : span = {row.at : row \in {src[y], r} \ {None}}
    OBVIOUS
  <2>2. span \in SUBSET Instants
    BY <1>0, <2>1 DEF Table
  <2>3. /\ run' = run /\ CanPublish(Pieces(Min(span), Max(span), FALSE))
        /\ tickets' = Publish(Pieces(Min(span), Max(span), FALSE))
        /\ src' = [src EXCEPT ![y] = r] /\ ghost'.unticketed = ghost.unticketed
    BY <1>2, <2>1 DEF RebuildWindow, Shape, HistoryShape
  <2>4. CASE t \in span
    BY <1>0, <2>2, <2>3, <2>4, SpanElsewhere
  <2>5. CASE t \notin span
    <3>1. src'[x] = IF x = y THEN r ELSE src[x]
      BY <1>0, <2>3 DEF Table
    <3>2. x = y => NamesAt(src', x, t) = {} /\ NamesAt(src, x, t) = {}
      BY <2>1, <2>5, <3>1 DEF NamesAt
    <3>3. x # y => NamesAt(src', x, t) = NamesAt(src, x, t)
      BY <3>1 DEF NamesAt
    <3> QED
      BY <2>3, <3>2, <3>3 DEF Unticketed
  <2> QED
    BY <2>4, <2>5
<1>3. ASSUME NEW S \in SUBSET Txns, NEW full \in BOOLEAN, FreeForRebuild(S, full)
      PROVE  \/ /\ NamesAt(src', x, t) = NamesAt(src, x, t)
                /\ Unticketed(x, t) => Unticketed(x, t)'
             \/ run' = run /\ Elsewhere(t)'
  <2>1. PICK span : span = {src[y].at : y \in S}
    OBVIOUS
  <2>2. span \in SUBSET Instants
    BY <1>0, <1>3, <2>1 DEF Table, FreeForRebuild, Live
  <2>3. PICK pieces : pieces = IF full THEN Pieces(floor + 1, LastInstant, FALSE)
                               ELSE Pieces(Min(span), Max(span), FALSE)
    OBVIOUS
  <2>4. /\ run' = run /\ CanPublish(pieces) /\ tickets' = Publish(pieces)
        /\ src' = [y \in Txns |-> IF y \in S THEN None ELSE src[y]]
        /\ ghost' = ghost /\ floor' = floor
    BY <1>3, <2>1, <2>3 DEF FreeForRebuild
  <2>5. CASE x \in S /\ t = src[x].at /\ ~full
    <3>1. t \in span
      BY <2>1, <2>5
    <3> QED
      BY <1>0, <2>2, <2>3, <2>4, <2>5, <3>1, SpanElsewhere
  <2>6. CASE full
    <3>1. PICK lo \in Nat, hi \in Int : lo = floor + 1 /\ hi = LastInstant /\ lo <= t /\ t <= hi
      <4>1. floor \in Nat /\ LastInstant \in Nat /\ t \in 1 .. LastInstant
        BY ConstantsAssumption DEF Instants, Shape, SwitchShape
      <4>2. floor + 1 \in Nat /\ LastInstant \in Int /\ floor + 1 <= t /\ t <= LastInstant
        BY <2>4, <4>1
      <4> QED
        BY <4>2
    <3>2. FALSE \in BOOLEAN /\ NewTickets(pieces, FALSE)
      <4>1. pieces = Pieces(lo, hi, FALSE) /\ FALSE \in BOOLEAN /\ hi <= LastInstant
        BY <2>3, <2>6, <3>1, ConstantsAssumption
      <4>2. NewTickets(Pieces(lo, hi, FALSE), FALSE)
        BY <4>1, PiecesAreTickets
      <4> QED
        BY <4>1, <4>2
    <3>3. lo \in Int /\ t \in Int
      BY <3>1 DEF Instants
    <3>4. PICK k \in DOMAIN pieces : Covers(pieces[k], t)
      BY <2>3, <2>6, <3>1, <3>2, <3>3, PiecesCover
    <3> QED
      BY <1>0, <2>4, <3>2, <3>4, PlacedElsewhere
  <2>7. CASE ~(x \in S /\ t = src[x].at)
    <3>1. src'[x] = IF x \in S THEN None ELSE src[x]
      BY <2>4
    <3>2. NamesAt(src', x, t) = NamesAt(src, x, t)
      BY <2>7, <3>1 DEF NamesAt
    <3> QED
      BY <2>4, <3>2 DEF Unticketed
  <2> QED
    BY <2>5, <2>6, <2>7
<1>4. ASSUME FinishRebuild
      PROVE  \/ /\ NamesAt(src', x, t) = NamesAt(src, x, t)
                /\ Unticketed(x, t) => Unticketed(x, t)'
             \/ run' = run /\ Elsewhere(t)'
             \/ Unticketed(x, t)'
             \/ /\ run' = run /\ tickets' = tickets /\ CoveredBy(run.ids, t)
                /\ t >= (IF run.phase = "claimed" THEN run.lo ELSE run.hi)
  <2>1. PICK back : back = {y \in DOMAIN rebuild.rows : rebuild.rows[y].at > floor}
    OBVIOUS
  <2>2. PICK gone :
          /\ ghost' = [ghost EXCEPT !.unticketed = @ \cup gone]
          /\ \A y \in back \ gone : \/ CoveredBy(Open \ run.ids, rebuild.rows[y].at)
                                    \/ /\ CoveredBy(run.ids, rebuild.rows[y].at)
                                       /\ rebuild.rows[y].at >=
                                            (IF run.phase = "claimed" THEN run.lo ELSE run.hi)
    <3>1. PICK gone :
            gone = {y \in back :
                ~(\/ CoveredBy(Open \ run.ids, rebuild.rows[y].at)
                  \/ /\ CoveredBy(run.ids, rebuild.rows[y].at)
                     /\ rebuild.rows[y].at >= (IF run.phase = "claimed" THEN run.lo ELSE run.hi))}
      OBVIOUS
    <3>2. ghost' = [ghost EXCEPT !.unticketed = @ \cup gone]
      BY <1>4, <2>1, <3>1 DEF FinishRebuild
    <3> QED
      BY <3>1, <3>2
  <2>3. /\ run' = run /\ tickets' = tickets /\ rebuild.st # "none"
        /\ src' = [y \in Txns |-> IF y \in back THEN rebuild.rows[y] ELSE src[y]]
    BY <1>4, <2>1 DEF FinishRebuild
  <2>4. ghost'.unticketed = ghost.unticketed \cup gone
    BY <2>2 DEF Shape, HistoryShape
  <2>5. CASE x \in back /\ rebuild.rows[x].at = t
    <3>1. src'[x] = rebuild.rows[x] /\ rebuild.rows[x] \in Rows
      BY <2>1, <2>3, <2>5 DEF Shape, SwitchShape
    <3>2. NamesAt(src', x, t) # {}
      BY <2>5, <3>1, ConstantsAssumption DEF NamesAt
    <3>3. CASE x \in gone
      BY <2>4, <3>2, <3>3 DEF Unticketed, NamesAt
    <3>4. CASE x \notin gone
      <4>1. CASE CoveredBy(Open \ run.ids, t)
        BY <2>3, <4>1 DEF CoveredBy, Elsewhere, Open, Dead, Covers
      <4>2. CASE ~CoveredBy(Open \ run.ids, t)
        BY <2>2, <2>3, <2>5, <3>4, <4>2
      <4> QED
        BY <4>1, <4>2
    <3> QED
      BY <3>3, <3>4
  <2>6. CASE ~(x \in back /\ rebuild.rows[x].at = t)
    <3>1. src'[x] = IF x \in back THEN rebuild.rows[x] ELSE src[x]
      BY <2>3
    <3>2. x \in back => src[x] = None
      BY <2>1, <2>3 DEF SourceShape
    <3>3. NamesAt(src', x, t) = NamesAt(src, x, t)
      BY <2>6, <3>1, <3>2 DEF NamesAt
    <3> QED
      BY <2>4, <3>3 DEF Unticketed
  <2> QED
    BY <2>5, <2>6
<1>5. ASSUME DropPartition
      PROVE  /\ NamesAt(src', x, t) = NamesAt(src, x, t)
             /\ Unticketed(x, t) => Unticketed(x, t)'
  <2>1. /\ floor' = floor + 1 /\ ghost' = ghost
        /\ src' = [y \in Txns |-> IF Live(y) /\ src[y].at = floor + 1 THEN None ELSE src[y]]
    BY <1>5 DEF DropPartition
  <2>2. src'[x] = IF Live(x) /\ src[x].at = floor + 1 THEN None ELSE src[x]
    BY <2>1
  <2>3. t # floor + 1
    BY <1>0, <2>1 DEF Instants
  <2>4. NamesAt(src', x, t) = NamesAt(src, x, t)
    BY <2>2, <2>3 DEF NamesAt, Live
  <2> QED
    BY <2>1, <2>4 DEF Unticketed
<1>6. ASSUME Reconcile
      PROVE  \/ /\ NamesAt(src', x, t) = NamesAt(src, x, t)
                /\ Unticketed(x, t) => Unticketed(x, t)'
             \/ run' = run /\ Elsewhere(t)'
  <2>1. PICK span : span = FactsVsTransactions
    OBVIOUS
  <2>2. span \in SUBSET Instants
    BY <1>0, <2>1 DEF FactsVsTransactions, Table, Live
  <2>3. /\ run' = run /\ CanPublish(Pieces(Min(span), Max(span), FALSE))
        /\ tickets' = Publish(Pieces(Min(span), Max(span), FALSE))
        /\ src' = src
        /\ ghost' = [ghost EXCEPT !.unticketed = {y \in @ : ~Live(y) \/ src[y].at \notin span}]
    BY <1>6, <2>1 DEF Reconcile, warehouse
  <2>4. ghost'.unticketed = {y \in ghost.unticketed : ~Live(y) \/ src[y].at \notin span}
    BY <2>3 DEF Shape, HistoryShape
  <2>5. CASE t \in span
    BY <1>0, <2>2, <2>3, <2>5, SpanElsewhere
  <2>6. CASE t \notin span
    <3>1. NamesAt(src', x, t) = NamesAt(src, x, t)
      BY <2>3 DEF NamesAt
    <3>2. ASSUME Unticketed(x, t) PROVE Unticketed(x, t)'
      <4>1. x \in ghost.unticketed /\ src[x].at = t
        BY <3>2 DEF Unticketed, NamesAt
      <4>2. x \in ghost'.unticketed
        BY <2>4, <2>6, <4>1
      <4> QED
        BY <3>1, <3>2, <4>2 DEF Unticketed
    <3> QED
      BY <3>1, <3>2
  <2> QED
    BY <2>5, <2>6
<1>7. ASSUME src' = src, ghost'.unticketed = ghost.unticketed
      PROVE  /\ NamesAt(src', x, t) = NamesAt(src, x, t)
             /\ Unticketed(x, t) => Unticketed(x, t)'
  BY <1>7 DEF NamesAt, Unticketed
<1>8. CASE Source
  BY <1>1, <1>2, <1>3, <1>4, <1>5, <1>8 DEF Source, FlagGoesStale, AgeDay
<1>9. CASE Switches
  <2>1. ASSUME ~Reconcile PROVE src' = src /\ ghost'.unticketed = ghost.unticketed
    BY <1>9, <2>1 DEF Switches, SetCapture, SetShow, SetExpand, SetFieldCapture, ActivateMetric, PauseMetric,
                      Flip, Shape, HistoryShape
  <2> QED
    BY <1>6, <1>7, <2>1
<1>10. CASE Worker
  <2>1. CASE Commits
    <3>1. PICK byTxn \in StoredByTxn : Commit(Plan(byTxn))
      BY <2>1 DEF Commits
    <3>2. PICK p : p = Plan(byTxn)
      OBVIOUS
    <3>3. Commit(p)
      BY <3>1, <3>2
    <3>4. ghost'.unticketed = ghost.unticketed
      BY <3>3, CommitNotes
    <3>5. src' = src
      BY <3>3 DEF Commit
    <3> QED
      BY <1>7, <3>4, <3>5
  <2>2. CASE ~Commits
    <3>1. src' = src /\ ghost' = ghost
      BY <1>10, <2>2 DEF Worker, Claim, ReadSource, ReadRegistry, EndRun, FailOnConflict, Fail, Rollback, Crash,
                         Commits
    <3> QED
      BY <1>1, <3>1
  <2> QED
    BY <2>1, <2>2
<1>11. CASE UNCHANGED vars
  BY <1>1, <1>11 DEF vars
<1> QED
  BY <1>8, <1>9, <1>10, <1>11 DEF Next

\* What a run reads of the source is still so, or a ticket says otherwise.
LEMMA SeenNext ==
  ASSUME Shape, SourceShape, SeenInv, [Next]_vars
  PROVE  SeenInv'
<1> SUFFICES ASSUME run'.phase \in {"read", "folded"}, NEW x \in Txns, NEW t \in Instants, t > floor',
                    InSlice(t)', ~Elsewhere(t)', ~Unticketed(x, t)'
             PROVE  NamesAt(view'.src, x, t) = NamesAt(src', x, t)
  BY DEF SeenInv
<1>0. run \in RunRec /\ view \in ViewRec /\ floor \in Int
  BY DEF Shape, QueueShape, SwitchShape
<1>1. CASE ReadSource
  <2>1. view'.src = src /\ src' = src
    BY <1>1 DEF ReadSource, NoView
  <2> QED
    BY <2>1
<1>2. CASE ReadRegistry
  <2>1. /\ view'.src = view.src /\ src' = src /\ tickets' = tickets /\ ghost' = ghost /\ floor' = floor
        /\ run'.ids = run.ids /\ run'.lo = run.lo /\ run'.hi = run.hi /\ run.phase = "read"
    BY <1>0, <1>2 DEF ReadRegistry, RunRec, ViewRec
  <2>2. InSlice(t) /\ ~Elsewhere(t) /\ ~Unticketed(x, t) /\ t > floor
    BY <2>1 DEF InSlice, Elsewhere, Open, Dead, Covers, Unticketed, NamesAt
  <2>3. NamesAt(view.src, x, t) = NamesAt(src, x, t)
    BY <2>1, <2>2 DEF SeenInv
  <2> QED
    BY <2>1, <2>3
<1>3. CASE run' = run /\ view' = view /\ (Source \/ Switches \/ UNCHANGED vars)
  <2>1. InSlice(t)
    BY <1>3 DEF InSlice
  <2>2. ~Commits /\ floor' \in Int /\ floor <= floor'
    <3>1. ~Commits
      BY ReadStays
    <3>2. floor' = floor \/ floor' = floor + 1
      BY <1>3 DEF vars, Source, RebuildWindow, FreeForRebuild, FinishRebuild, FlagGoesStale, DropPartition,
                  AgeDay, Switches, SetCapture, SetShow, SetExpand, SetFieldCapture, ActivateMetric,
                  PauseMetric, Reconcile, Flip
    <3> QED
      BY <1>0, <3>1, <3>2
  <2>3. /\ NamesAt(src', x, t) = NamesAt(src, x, t)
        /\ Unticketed(x, t) => Unticketed(x, t)'
    <3>1. ~(/\ CoveredBy(run.ids, t)
            /\ t >= (IF run.phase = "claimed" THEN run.lo ELSE run.hi))
      <4>1. run.phase # "claimed" /\ t < run.hi /\ run.hi \in Int /\ t \in Int
        BY <1>0, <1>3, <2>1, ConstantsAssumption DEF InSlice, RunRec, Instants
      <4> QED
        BY <4>1
    <3> QED
      BY <3>1, SourceMoves
  <2>4. ~Elsewhere(t)
    <3>1. ASSUME NEW i \in (Open \cup Dead) \ run.ids, Covers(tickets[i], t) PROVE FALSE
      <4>1. /\ i \in (Open \cup Dead)'
            /\ tickets'[i].lo = tickets[i].lo /\ tickets'[i].hi = tickets[i].hi
        BY <2>2, TicketsStay
      <4> QED
        BY <1>3, <3>1, <4>1 DEF Elsewhere, Covers
    <3> QED
      BY <3>1 DEF Elsewhere
  <2>5. t > floor
    BY <1>0, <2>2, ConstantsAssumption DEF Instants
  <2>6. NamesAt(view.src, x, t) = NamesAt(src, x, t)
    BY <1>3, <2>1, <2>3, <2>4, <2>5 DEF SeenInv
  <2> QED
    BY <1>3, <2>3, <2>6
<1> QED
  BY <1>1, <1>2, <1>3, ReadStays

\* The four outcomes of a range diff, fact by fact.
LEMMA DiffIs ==
  ASSUME NEW stored, NEW facts, NEW d, d = Diff(stored, facts)
  PROVE  /\ \A g : g \in d.inserted <=> g \in facts /\ ~\E h \in stored : SameKey(g, h)
         /\ \A g : g \in d.updated <=> g \in facts \ stored /\ \E h \in stored : SameKey(g, h)
         /\ \A g : g \in d.replaced <=> g \in stored \ facts /\ \E h \in facts : SameKey(g, h)
         /\ \A g : g \in d.reversed <=> g \in stored /\ ~\E h \in facts : SameKey(g, h)
<1>1. /\ d.inserted = {f \in facts : ~\E g \in stored : SameKey(f, g)}
      /\ d.updated = {f \in facts \ stored : \E g \in stored : SameKey(f, g)}
      /\ d.replaced = {g \in stored \ facts : \E f \in facts : SameKey(f, g)}
      /\ d.reversed = {g \in stored : ~\E f \in facts : SameKey(f, g)}
  BY DEF Diff
<1>2. \A f, g : SameKey(f, g) <=> SameKey(g, f)
  BY DEF SameKey
<1> QED
  BY <1>1, <1>2

\* _apply of a range diff: in the slice, what the run computed, and what its
\* capture gate hid; elsewhere what was there.
LEMMA AppliedFacts ==
  ASSUME Shape, run.phase = "folded", NEW byTxn \in StoredByTxn, NEW p, p = Plan(byTxn), NEW f
  PROVE  f \in FactAfter(p) <=> (f \in fact /\ f \notin Stored) \/ f \in p.facts
<1>1. p.diff = Diff(Stored, p.facts) /\ Stored \subseteq fact
  BY PlanFacts DEF Stored
<1>2. /\ \A g : g \in p.diff.inserted <=> g \in p.facts /\ ~\E h \in Stored : SameKey(g, h)
      /\ \A g : g \in p.diff.updated <=> g \in p.facts \ Stored /\ \E h \in Stored : SameKey(g, h)
      /\ \A g : g \in p.diff.replaced <=> g \in Stored \ p.facts /\ \E h \in p.facts : SameKey(g, h)
      /\ \A g : g \in p.diff.reversed <=> g \in Stored /\ ~\E h \in p.facts : SameKey(g, h)
  BY <1>1, DiffIs
<1>3. \A g : SameKey(g, g)
  BY DEF SameKey
<1>4. f \in p.diff.inserted \cup p.diff.updated <=> f \in p.facts /\ f \notin Stored
  BY <1>2, <1>3
<1>5. f \in p.diff.reversed \cup p.diff.replaced <=> f \in Stored /\ f \notin p.facts
  BY <1>2, <1>3
<1> QED
  BY <1>1, <1>4, <1>5 DEF FactAfter

\* The facts of a run are the usable rows it read: carried when a stored fact
\* was built from the very row, built anew otherwise.
LEMMA FactsAreRows ==
  ASSUME Shape, SourceShape, run.phase = "folded", NEW byTxn \in StoredByTxn, NEW p, p = Plan(byTxn)
  PROVE  /\ \A f \in p.facts : /\ view.src[f.txn] # None /\ f.name \notin Unusable
                               /\ f.at = view.src[f.txn].at /\ f.name = view.src[f.txn].name
         /\ \A x \in ReadIn : view.src[x].name \notin Unusable =>
              \E f \in p.facts : /\ f.txn = x /\ f.at = view.src[x].at
                                 /\ f.name = view.src[x].name
<1>1. PICK needs, refresh : needs = {x \in ReadIn : NeedsEntries(x, byTxn)} \cup refresh /\ refresh = Refresh(byTxn)
  OBVIOUS
<1>2. PICK bad : bad = {x \in ReadIn \cap needs : view.src[x].name \in Unusable}
  OBVIOUS
<1>3. PICK usable : usable = (ReadIn \cap needs) \ bad
  OBVIOUS
<1>4. p.facts = Facts(byTxn, needs, usable)
  BY <1>1, <1>2, <1>3 DEF Plan
<1>5. PICK built : built = [x \in usable |->
          [txn |-> x, at |-> view.src[x].at, name |-> view.src[x].name, end |-> view.src[x].end,
           resp |-> x \in EntriesFound(needs)]]
  OBVIOUS
<1>6. p.facts = {f \in byTxn : f.txn \in ReadIn \ needs} \cup {built[x] : x \in usable}
  BY <1>4, <1>5 DEF Facts
<1>7. \A x \in usable : /\ built[x].txn = x /\ built[x].at = view.src[x].at
                        /\ built[x].name = view.src[x].name /\ view.src[x] # None
                        /\ built[x].name \notin Unusable
  BY <1>2, <1>3, <1>5 DEF ReadIn
<1>8. byTxn \subseteq fact /\ \A f, g \in byTxn : f.txn = g.txn => f = g
  BY OneStoredPerTxn DEF Shape
<1>9. ASSUME NEW f \in p.facts
      PROVE  /\ view.src[f.txn] # None /\ f.name \notin Unusable
             /\ f.at = view.src[f.txn].at /\ f.name = view.src[f.txn].name
  <2>1. CASE f \in byTxn /\ f.txn \in ReadIn \ needs
    <3>1. PICK g \in byTxn : BuiltFrom(g, f.txn)
      BY <1>1, <2>1 DEF NeedsEntries
    <3>2. g = f
      BY <1>8, <2>1, <3>1 DEF BuiltFrom
    <3>3. [at |-> f.at, name |-> f.name, end |-> f.end] = view.src[f.txn]
      BY <3>1, <3>2 DEF BuiltFrom
    <3>4. f.at = view.src[f.txn].at /\ f.name = view.src[f.txn].name
      BY <3>3
    <3>5. f.name \notin Unusable
      BY <1>8, <2>1 DEF SourceShape
    <3> QED
      BY <2>1, <3>4, <3>5 DEF ReadIn
  <2>2. CASE \E x \in usable : f = built[x]
    BY <1>7, <2>2
  <2> QED
    BY <1>6, <2>1, <2>2
<1>10. ASSUME NEW x \in ReadIn, view.src[x].name \notin Unusable
       PROVE  \E f \in p.facts : f.txn = x /\ f.at = view.src[x].at /\ f.name = view.src[x].name
  <2>1. CASE x \in needs
    <3>1. x \in usable
      BY <1>2, <1>3, <1>10, <2>1
    <3> QED
      BY <1>6, <1>7, <3>1
  <2>2. CASE x \notin needs
    <3>1. PICK g \in byTxn : BuiltFrom(g, x)
      BY <1>1, <2>2 DEF NeedsEntries
    <3>2. g.txn = x /\ g \in p.facts
      BY <1>6, <2>2, <3>1 DEF BuiltFrom
    <3>3. [at |-> g.at, name |-> g.name, end |-> g.end] = view.src[x]
      BY <3>1 DEF BuiltFrom
    <3>4. g.at = view.src[x].at /\ g.name = view.src[x].name
      BY <3>3
    <3> QED
      BY <3>2, <3>4
  <2> QED
    BY <2>1, <2>2
<1> QED
  BY <1>9, <1>10

\* The worker writes neither the source nor a switch.
LEMMA WorkerLeaves ==
  ASSUME [Next]_vars, ~Source, ~Switches
  PROVE  src' = src /\ switch' = switch /\ metric' = metric /\ rebuild' = rebuild /\ floor' = floor
<1>1. CASE EndRun
  <2>1. PICK byTxn \in StoredByTxn : Commit(Plan(byTxn)) \/ FailOnConflict(Plan(byTxn))
    BY <1>1 DEF EndRun
  <2>2. PICK p : p = Plan(byTxn)
    OBVIOUS
  <2>3. Commit(p) \/ FailOnConflict(p)
    BY <2>1, <2>2
  <2> QED
    BY <2>3 DEF Commit, FailOnConflict, Rollback
<1>2. CASE Worker /\ ~EndRun
  BY <1>2 DEF Worker, Claim, ReadSource, ReadRegistry, Fail, Rollback, Crash
<1>3. CASE UNCHANGED vars
  BY <1>3 DEF vars
<1> QED
  BY <1>1, <1>2, <1>3 DEF Next

\* What is off is known to have been off, usable facts stay usable, and the rows
\* of a rebuild stay out of the source until it ends.
LEMMA SourceShapeNext ==
  ASSUME Shape, OneFactPerKey, SourceShape, [Next]_vars
  PROVE  SourceShape'
<1>0. /\ src \in Table /\ switch \in SwitchRec /\ view \in ViewRec /\ ghost.everOff \subseteq ghost'.everOff
      /\ run \in RunRec
  BY HistoryNext DEF Shape, TablesShape, SwitchShape, QueueShape
<1>1. switch'.suppressed \subseteq ghost'.everOff
  <2>1. CASE switch'.suppressed \subseteq switch.suppressed
    BY <1>0, <2>1 DEF SourceShape
  <2>2. CASE \E n \in Switched : SetCapture(n)
    <3>1. PICK n \in Switched : SetCapture(n)
      BY <2>2
    <3>2. CASE n \in switch.suppressed
      BY <1>0, <3>1, <3>2 DEF SetCapture, Flip, SourceShape, SwitchRec
    <3>3. CASE n \notin switch.suppressed
      <4>1. /\ switch'.suppressed = switch.suppressed \cup {n}
            /\ ghost'.everOff = ghost.everOff \cup {n}
        BY <1>0, <3>1, <3>3 DEF SetCapture, Flip, SwitchRec, Shape, HistoryShape
      <4> QED
        BY <4>1 DEF SourceShape
    <3> QED
      BY <3>2, <3>3
  <2>3. CASE Switches /\ ~\E n \in Switched : SetCapture(n)
    <3>1. switch'.suppressed = switch.suppressed
      BY <1>0, <2>3 DEF Switches, SetShow, SetExpand, SetFieldCapture, ActivateMetric, PauseMetric, Reconcile,
                        Flip, SwitchRec
    <3> QED
      BY <2>1, <3>1
  <2>4. CASE ~Switches
    <3>1. switch' = switch
      <4>1. CASE Source
        BY <4>1 DEF Source, RebuildWindow, FreeForRebuild, FinishRebuild, FlagGoesStale, DropPartition, AgeDay
      <4> QED
        BY <2>4, <4>1, WorkerLeaves
    <3> QED
      BY <2>1, <3>1
  <2> QED
    BY <2>2, <2>3, <2>4
<1>2. run'.phase \in {"read", "folded"} => view'.suppressed \subseteq ghost'.everOff
  <2> SUFFICES ASSUME run'.phase \in {"read", "folded"} PROVE view'.suppressed \subseteq ghost'.everOff
    OBVIOUS
  <2>1. CASE ReadSource
    BY <1>0, <2>1 DEF ReadSource, NoView, SourceShape
  <2>2. CASE ReadRegistry
    <3>1. view'.suppressed = view.suppressed /\ run.phase = "read"
      BY <1>0, <2>2 DEF ReadRegistry, ViewRec
    <3> QED
      BY <1>0, <3>1 DEF SourceShape
  <2>3. CASE run' = run /\ view' = view
    BY <1>0, <2>3 DEF SourceShape
  <2> QED
    BY <2>1, <2>2, <2>3, ReadStays
<1>3. \A f \in fact' : f.name \notin Unusable
  <2>1. CASE ~Commits
    BY <2>1, WarehouseStays DEF SourceShape
  <2>2. CASE Commits
    <3>1. PICK byTxn \in StoredByTxn : Commit(Plan(byTxn))
      BY <2>2 DEF Commits
    <3>2. PICK p : p = Plan(byTxn)
      OBVIOUS
    <3>3. fact' = FactAfter(p) /\ run.phase = "folded"
      BY <3>1, <3>2 DEF Commit
    <3>4. \A f \in FactAfter(p) : f \in fact \/ f \in p.facts
      BY <3>2, <3>3, AppliedFacts
    <3>5. \A f \in p.facts : f.name \notin Unusable
      BY <3>2, <3>3, FactsAreRows
    <3> QED
      BY <3>3, <3>4, <3>5 DEF SourceShape
  <2> QED
    BY <2>1, <2>2
<1>4. rebuild'.st # "none" => \A x \in DOMAIN rebuild'.rows : src'[x] = None
  <2>1. ASSUME NEW S \in SUBSET Txns, NEW full \in BOOLEAN, FreeForRebuild(S, full)
        PROVE  \A x \in DOMAIN rebuild'.rows : src'[x] = None
    <3>1. /\ src' = [x \in Txns |-> IF x \in S THEN None ELSE src[x]]
          /\ DOMAIN rebuild'.rows = S
      BY <2>1 DEF FreeForRebuild
    <3> QED
      BY <3>1
  <2>2. ASSUME NEW x \in Txns, NEW r \in Rows \cup {None}, RebuildWindow(x, r)
        PROVE  rebuild'.st = "none"
    BY <2>2 DEF RebuildWindow
  <2>3. CASE FinishRebuild
    BY <2>3 DEF FinishRebuild
  <2>4. CASE FlagGoesStale
    <3>1. src' = src /\ rebuild'.rows = rebuild.rows /\ rebuild.st = "flagged"
      BY <2>4 DEF FlagGoesStale
    <3> QED
      BY <3>1 DEF SourceShape
  <2>5. CASE DropPartition
    <3>1. /\ src' = [x \in Txns |-> IF Live(x) /\ src[x].at = floor + 1 THEN None ELSE src[x]]
          /\ rebuild' = rebuild
      BY <2>5 DEF DropPartition
    <3>2. \A x \in DOMAIN rebuild.rows : x \in Txns
      BY DEF Shape, SwitchShape
    <3> QED
      BY <3>1, <3>2 DEF SourceShape
  <2>6. CASE src' = src /\ rebuild' = rebuild
    BY <2>6 DEF SourceShape
  <2>7. CASE ~Source
    <3>1. src' = src /\ rebuild' = rebuild
      <4>1. CASE Switches
        BY <4>1 DEF Switches, SetCapture, SetShow, SetExpand, SetFieldCapture, ActivateMetric, PauseMetric,
                    Reconcile, Flip
      <4> QED
        BY <2>7, <4>1, WorkerLeaves
    <3> QED
      BY <2>6, <3>1
  <2> QED
    BY <2>1, <2>2, <2>3, <2>4, <2>5, <2>6, <2>7 DEF Source, AgeDay
<1> QED
  BY <1>1, <1>2, <1>3, <1>4 DEF SourceShape

\* Facts follow the source through every step but a commit.
LEMMA FollowQuiet ==
  ASSUME Shape, OneFactPerKey, SourceShape, RunInv, FollowInv, [Next]_vars, ~Commits
  PROVE  FollowInv'
<1> SUFFICES ASSUME NEW x \in Txns, NEW t \in Instants, t > floor', ~Waiting(t)', ~Unticketed(x, t)'
             PROVE  FactNames(x, t)' \ ghost'.everOff = NamesAt(src', x, t) \ (ghost'.everOff \cup Unusable)
  BY DEF FollowInv
<1>0. t \in Int /\ floor \in Int /\ run \in RunRec /\ ghost.everOff \subseteq ghost'.everOff
  BY HistoryNext, ConstantsAssumption DEF Shape, QueueShape, SwitchShape, Instants
<1>1. ~Waiting(t)
  BY <1>0, WaitingStays
<1>2. t > floor
  <2>1. floor' = floor \/ floor' = floor + 1
    <3>1. CASE Source \/ Switches
      BY <3>1 DEF Source, RebuildWindow, FreeForRebuild, FinishRebuild, FlagGoesStale, DropPartition, AgeDay,
                  Switches, SetCapture, SetShow, SetExpand, SetFieldCapture, ActivateMetric, PauseMetric,
                  Reconcile, Flip
    <3> QED
      BY <3>1, WorkerLeaves
  <2> QED
    BY <1>0, <2>1
<1>3. /\ NamesAt(src', x, t) = NamesAt(src, x, t)
      /\ Unticketed(x, t) => Unticketed(x, t)'
  <2>1. ~Elsewhere(t)'
    BY DEF Elsewhere, Waiting, Waits, Covers
  <2>2. ~(/\ run' = run /\ tickets' = tickets /\ CoveredBy(run.ids, t)
          /\ t >= (IF run.phase = "claimed" THEN run.lo ELSE run.hi))
    <3> SUFFICES ASSUME /\ run' = run /\ tickets' = tickets /\ CoveredBy(run.ids, t)
                        /\ t >= (IF run.phase = "claimed" THEN run.lo ELSE run.hi)
                 PROVE  FALSE
      OBVIOUS
    <3>1. run.lo <= t
      BY <1>0 DEF RunInv, Sliced, RunRec
    <3>2. PICK i \in run.ids : Covers(tickets[i], t)
      BY DEF CoveredBy
    <3>3. i \in Open
      BY DEF Shape, QueueShape
    <3> QED
      BY <1>1, <3>1, <3>2, <3>3 DEF Waiting, Waits
  <2> QED
    BY <2>1, <2>2, SourceMoves
<1>4. FactNames(x, t) \ ghost.everOff = NamesAt(src, x, t) \ (ghost.everOff \cup Unusable)
  BY <1>1, <1>2, <1>3 DEF FollowInv
<1>5. FactNames(x, t)' = FactNames(x, t)
  BY WarehouseStays DEF FactNames
<1> QED
  BY <1>0, <1>3, <1>4, <1>5

\* A commit makes the facts of its slice the rows it read, and no others.
LEMMA FollowCommit ==
  ASSUME Shape, OneFactPerKey, SourceShape, RunInv, FollowInv, SeenInv, [Next]_vars, Commits
  PROVE  FollowInv'
<1> SUFFICES ASSUME NEW x \in Txns, NEW t \in Instants, t > floor', ~Waiting(t)', ~Unticketed(x, t)'
             PROVE  FactNames(x, t)' \ ghost'.everOff = NamesAt(src', x, t) \ (ghost'.everOff \cup Unusable)
  BY DEF FollowInv
<1>1. PICK byTxn \in StoredByTxn : Commit(Plan(byTxn)) /\ run.phase = "folded"
  BY DEF Commits
<1>2. PICK p : p = Plan(byTxn)
  OBVIOUS
<1>3. Commit(p) /\ t \in Int
  BY <1>1, <1>2, ConstantsAssumption DEF Instants
<1>4. /\ fact' = FactAfter(p) /\ src' = src /\ floor' = floor
      /\ ghost'.everOff = ghost.everOff /\ ghost'.unticketed = ghost.unticketed
  <2>1. ghost'.everOff = ghost.everOff /\ ghost'.unticketed = ghost.unticketed
    BY <1>3, CommitNotes
  <2>2. fact' = FactAfter(p) /\ src' = src /\ floor' = floor
    BY <1>3 DEF Commit
  <2> QED
    BY <2>1, <2>2
<1>5. \A f : f \in fact' <=> (f \in fact /\ f \notin Stored) \/ f \in p.facts
  BY <1>1, <1>2, <1>4, AppliedFacts
<1>6. ~Unticketed(x, t) /\ NamesAt(src', x, t) = NamesAt(src, x, t) /\ t > floor
  BY <1>4 DEF Unticketed, NamesAt
<1>7. CASE ~InSlice(t)
  <2>1. ~Waiting(t)
    BY <1>3, <1>7, WaitingGone
  <2>2. FactNames(x, t) \ ghost.everOff = NamesAt(src, x, t) \ (ghost.everOff \cup Unusable)
    BY <1>6, <2>1 DEF FollowInv
  <2>3. \A f : f.at = t => (f \in fact' <=> f \in fact)
    BY <1>1, <1>2, <1>5, <1>7, PlanFacts DEF Stored
  <2>4. FactNames(x, t)' = FactNames(x, t)
    <3>1. \A n : n \in FactNames(x, t)' <=> n \in FactNames(x, t)
      BY <2>3 DEF FactNames
    <3> QED
      BY <3>1
  <2> QED
    BY <1>4, <1>6, <2>2, <2>4
<1>8. CASE InSlice(t)
  <2>1. NamesAt(view.src, x, t) = NamesAt(src, x, t)
    BY <1>1, <1>3, <1>6, <1>8, OutsideWaiting DEF SeenInv
  <2>2. view.suppressed \subseteq ghost.everOff
    BY <1>1 DEF SourceShape
  <2>3. ASSUME NEW n, n \in FactNames(x, t)', n \notin ghost.everOff
        PROVE  n \in NamesAt(view.src, x, t) /\ n \notin Unusable
    <3>1. PICK f \in fact' : f.txn = x /\ f.at = t /\ f.name = n
      BY <2>3 DEF FactNames
    <3>2. f \in p.facts
      BY <1>5, <1>8, <2>2, <2>3, <3>1 DEF Stored
    <3>3. /\ view.src[f.txn] # None /\ f.name \notin Unusable
          /\ f.at = view.src[f.txn].at /\ f.name = view.src[f.txn].name
      BY <1>1, <1>2, <3>2, FactsAreRows
    <3> QED
      BY <3>1, <3>3 DEF NamesAt
  <2>4. ASSUME NEW n, n \in NamesAt(view.src, x, t), n \notin ghost.everOff, n \notin Unusable
        PROVE  n \in FactNames(x, t)'
    <3>1. view.src[x] # None /\ view.src[x].at = t /\ view.src[x].name = n
      BY <2>4 DEF NamesAt
    <3>2. x \in ReadIn
      BY <1>8, <2>2, <2>4, <3>1 DEF ReadIn
    <3>3. PICK f \in p.facts : f.txn = x /\ f.at = view.src[x].at /\ f.name = view.src[x].name
      BY <1>1, <1>2, <2>4, <3>1, <3>2, FactsAreRows
    <3> QED
      BY <1>5, <3>1, <3>3 DEF FactNames
  <2> QED
    BY <1>4, <1>6, <2>1, <2>3, <2>4
<1> QED
  BY <1>7, <1>8

\* Facts follow the source.
LEMMA FollowNext ==
  ASSUME Shape, OneFactPerKey, SourceShape, RunInv, FollowInv, SeenInv, [Next]_vars
  PROVE  FollowInv'
  BY FollowQuiet, FollowCommit

-----------------------------------------------------------------------------
(* Record rows follow the facts.                                           *)

\* _expand_records: which facts have their record rows written again.
LEMMA ExpandingIs ==
  ASSUME Shape, SourceShape, run.phase = "folded", NEW byTxn \in StoredByTxn, NEW p, p = Plan(byTxn)
  PROVE  /\ \A f \in p.expanding :
              \/ f \in p.diff.inserted \cup p.diff.updated
              \/ f \in byTxn /\ \A g \in p.diff.inserted \cup p.diff.updated : g.txn # f.txn
         /\ \A f \in p.diff.inserted \cup p.diff.updated :
              f.resp /\ f.name \in view.expanded \cap RecordNames => f \in p.expanding
         /\ \A f \in byTxn :
              (/\ f.txn \in Refresh(byTxn) /\ \A g \in p.diff.inserted \cup p.diff.updated : g.txn # f.txn
               /\ f.name \in view.expanded /\ view.src[f.txn] # None
               /\ InSlice(view.src[f.txn].end) /\ view.src[f.txn].name \in RecordNames) =>
              f \in p.expanding
<1>1. PICK refresh : refresh = Refresh(byTxn)
  OBVIOUS
<1>2. PICK needs : needs = {x \in ReadIn : NeedsEntries(x, byTxn)} \cup refresh
  OBVIOUS
<1>3. PICK bad : bad = {x \in ReadIn \cap needs : view.src[x].name \in Unusable}
  OBVIOUS
<1>4. PICK usable : usable = (ReadIn \cap needs) \ bad
  OBVIOUS
<1>5. PICK found : found = EntriesFound(needs)
  OBVIOUS
<1>6. PICK changed : changed = p.diff.inserted \cup p.diff.updated
  OBVIOUS
<1>7. /\ p.facts = Facts(byTxn, needs, usable)
      /\ p.expanding = Expanding(byTxn, p.diff, refresh, found)
  BY <1>1, <1>2, <1>3, <1>4, <1>5 DEF Plan
<1>8. \A f : f \in p.expanding <=>
        /\ f \in changed \/ (f \in byTxn /\ f.txn \in refresh /\ \A g \in changed : g.txn # f.txn)
        /\ f.name \in view.expanded /\ f.txn \in found /\ view.src[f.txn].name \in RecordNames
  BY <1>6, <1>7 DEF Expanding
<1>9. ASSUME NEW f \in changed, f.resp, f.name \in view.expanded \cap RecordNames
      PROVE  f \in p.expanding
  <2>1. p.diff = Diff(Stored, p.facts) /\ byTxn \subseteq Stored
    BY PlanFacts, OneStoredPerTxn DEF Shape
  <2>2. f \in p.facts /\ f \notin byTxn
    <3>1. f \in p.facts /\ (f \in p.diff.inserted => f \notin Stored) /\ (f \in p.diff.updated => f \notin Stored)
      BY <1>6, <1>9, <2>1, DiffIs DEF SameKey
    <3> QED
      BY <1>6, <1>9, <2>1, <3>1
  <2>3. PICK x \in usable :
           f = [txn |-> x, at |-> view.src[x].at, name |-> view.src[x].name, end |-> view.src[x].end,
                resp |-> x \in EntriesFound(needs)]
    BY <1>7, <2>2 DEF Facts
  <2>4. f.txn = x /\ f.resp = (x \in found) /\ f.name = view.src[x].name
    BY <1>5, <2>3
  <2> QED
    BY <1>8, <1>9, <2>4
<1>10. ASSUME NEW f \in byTxn, f.txn \in refresh, \A g \in changed : g.txn # f.txn,
              f.name \in view.expanded, view.src[f.txn] # None,
              InSlice(view.src[f.txn].end), view.src[f.txn].name \in RecordNames
       PROVE  f \in p.expanding
  <2>1. f.txn \in found
    BY <1>2, <1>5, <1>10 DEF EntriesFound
  <2> QED
    BY <1>8, <1>10, <2>1
<1> QED
  BY <1>1, <1>6, <1>8, <1>9, <1>10

\* Every record row keeps its parent and its name, but for those a run strays with.
LEMMA ParentNext ==
  ASSUME Shape, OneFactPerKey, SourceShape, ParentInv, [Next]_vars
  PROVE  ParentInv'
<1>1. CASE ~Commits
  <2>1. fact' = fact /\ recs' = recs /\ ghost.stray \subseteq ghost'.stray
    BY <1>1, WarehouseStays, HistoryNext
  <2> QED
    BY <2>1 DEF ParentInv, SameKey
<1>2. CASE Commits
  <2>1. PICK byTxn \in StoredByTxn : Commit(Plan(byTxn)) /\ run.phase = "folded"
    BY <1>2 DEF Commits
  <2>2. PICK p : p = Plan(byTxn)
    OBVIOUS
  <2>3. Commit(p)
    BY <2>1, <2>2
  <2>4. fact' = FactAfter(p) /\ recs' = RecsAfter(p)
    BY <2>3 DEF Commit
  <2>5. ghost'.stray = ghost.stray \cup Strayed(p)
    BY <2>3, CommitNotes
  <2>6. \A f : f \in fact' <=> (f \in fact /\ f \notin Stored) \/ f \in p.facts
    BY <2>1, <2>2, <2>4, AppliedFacts
  <2>7. p.diff = Diff(Stored, p.facts) /\ Stored \subseteq fact /\ byTxn \subseteq Stored
    BY <2>1, <2>2, PlanFacts, OneStoredPerTxn DEF Shape
  <2>8. /\ \A g : g \in p.diff.inserted <=> g \in p.facts /\ ~\E h \in Stored : SameKey(g, h)
        /\ \A g : g \in p.diff.updated <=> g \in p.facts \ Stored /\ \E h \in Stored : SameKey(g, h)
        /\ \A g : g \in p.diff.reversed <=> g \in Stored /\ ~\E h \in p.facts : SameKey(g, h)
    BY <2>7, DiffIs
  <2>9. \A f \in Stored, g \in p.facts : SameKey(f, g) /\ f \notin p.facts => g \in p.diff.updated
    <3> TAKE f \in Stored, g \in p.facts
    <3> HAVE SameKey(f, g) /\ f \notin p.facts
    <3>1. g \notin Stored
      BY <2>7 DEF OneFactPerKey
    <3>2. SameKey(g, f)
      BY DEF SameKey
    <3> QED
      BY <2>8, <3>1, <3>2
  <2>10. ASSUME NEW c \in RecsWritten(p), c.txn \notin ghost'.stray
         PROVE  \E f \in fact' : SameKey(c, f) /\ c.name = f.name
    <3>1. PICK f \in p.expanding : c = [txn |-> f.txn, at |-> f.at, name |-> f.name, ver |-> view.approved]
      BY <2>10 DEF RecsWritten
    <3>2. SameKey(c, f) /\ c.name = f.name /\ c.txn = f.txn
      BY <3>1 DEF SameKey
    <3>3. f \notin p.diff.reversed
      BY <2>5, <2>10, <3>2 DEF Strayed
    <3>4. CASE f \in p.diff.inserted \cup p.diff.updated
      BY <2>6, <2>8, <3>2, <3>4
    <3>5. CASE f \in byTxn /\ \A g \in p.diff.inserted \cup p.diff.updated : g.txn # f.txn
      <4>1. PICK g \in p.facts : SameKey(f, g)
        BY <2>7, <2>8, <3>3, <3>5
      <4>2. f \in p.facts
        BY <2>7, <2>9, <3>5, <4>1 DEF SameKey
      <4> QED
        BY <2>6, <3>2, <4>2
    <3> QED
      BY <2>1, <2>2, <3>4, <3>5, ExpandingIs
  <2>11. ASSUME NEW c \in recs \ RecsReplaced(p), c.txn \notin ghost'.stray
         PROVE  \E f \in fact' : SameKey(c, f) /\ c.name = f.name
    <3>1. PICK f \in fact : SameKey(c, f) /\ c.name = f.name
      BY <2>5, <2>11 DEF ParentInv
    <3>2. CASE f \in fact'
      BY <3>1, <3>2
    <3>3. CASE f \notin fact'
      <4>1. f \in Stored /\ f \notin p.facts
        BY <2>6, <3>3
      <4>2. f \notin p.diff.reversed
        <5>1. p.orphaned = {d \in recs : \E g \in p.diff.reversed : SameKey(d, g)}
          BY <2>1, <2>2, PlanFacts
        <5> QED
          BY <2>11, <3>1, <5>1 DEF RecsReplaced
      <4>3. PICK g \in p.facts : SameKey(f, g)
        BY <2>8, <4>1, <4>2
      <4>4. g \in p.diff.updated /\ SameKey(c, g)
        BY <2>9, <3>1, <4>1, <4>3 DEF SameKey
      <4>5. g \notin p.expanding
        BY <2>11, <4>4 DEF RecsReplaced
      <4>6. c.name = g.name
        BY <2>5, <2>11, <4>4, <4>5 DEF Strayed, SameKey
      <4> QED
        BY <2>6, <4>3, <4>4, <4>6
    <3> QED
      BY <3>2, <3>3
  <2> QED
    BY <2>4, <2>10, <2>11 DEF ParentInv, RecsAfter, SameKey
<1> QED
  BY <1>1, <1>2

\* A transaction with two facts is known, and so is one with entries in two hours.
LEMMA SeamNext ==
  ASSUME Shape, OneFactPerKey, SeamInv, [Next]_vars
  PROVE  SeamInv'
<1> DEFINE Straddles(r) == r.at # r.end
<1>0. /\ src \in Table /\ run \in RunRec /\ view \in ViewRec
      /\ ghost.split \subseteq ghost'.split /\ ghost.straddled \subseteq ghost'.straddled
      /\ None \notin Rows
  BY HistoryNext, ConstantsAssumption DEF Shape, TablesShape, QueueShape, SwitchShape
<1>1. \A f, g \in fact' : f.txn = g.txn /\ f # g => f.txn \in ghost'.split
  <2>1. CASE ~Commits
    <3>1. fact' = fact
      BY <2>1, WarehouseStays
    <3> QED
      BY <1>0, <3>1 DEF SeamInv
  <2>2. CASE Commits
    <3>1. PICK byTxn \in StoredByTxn : Commit(Plan(byTxn))
      BY <2>2 DEF Commits
    <3>2. PICK p : p = Plan(byTxn)
      OBVIOUS
    <3>3. Commit(p)
      BY <3>1, <3>2
    <3>4. fact' = FactAfter(p)
      BY <3>3 DEF Commit
    <3>5. ghost'.split = ghost.split \cup {x \in Txns : \E f, g \in FactAfter(p) :
                                              f.txn = x /\ g.txn = x /\ f # g}
      BY <3>3, CommitNotes
    <3>6. \A f \in fact' : f.txn \in Txns
      <4>1. fact' \subseteq FactRecord
        BY <3>1, <3>2, <3>4, FactsCommitted DEF Commit
      <4> QED
        BY <4>1 DEF FactRecord
    <3> QED
      BY <3>4, <3>5, <3>6
  <2> QED
    BY <2>1, <2>2
<1>2. ASSUME NEW x \in Txns, src'[x] # None, Straddles(src'[x])
      PROVE  x \in ghost'.straddled
  <2>1. CASE src'[x] = src[x]
    BY <1>0, <1>2, <2>1 DEF SeamInv
  <2>2. ASSUME NEW y \in Txns, NEW r \in Rows \cup {None}, RebuildWindow(y, r) PROVE x \in ghost'.straddled
    <3>1. /\ src' = [src EXCEPT ![y] = r]
          /\ ghost'.straddled = ghost.straddled \cup {z \in {y} : r # None /\ r.at # r.end}
      BY <2>2 DEF RebuildWindow, Shape, HistoryShape
    <3>2. src'[x] = IF x = y THEN r ELSE src[x]
      BY <1>0, <3>1 DEF Table
    <3> QED
      BY <1>2, <2>1, <3>1, <3>2
  <2>3. ASSUME NEW S \in SUBSET Txns, NEW full \in BOOLEAN, FreeForRebuild(S, full) PROVE x \in ghost'.straddled
    <3>1. src'[x] = IF x \in S THEN None ELSE src[x]
      BY <2>3 DEF FreeForRebuild
    <3> QED
      BY <1>2, <2>1, <3>1
  <2>4. CASE FinishRebuild
    <3>0. PICK back : back = {y \in DOMAIN rebuild.rows : rebuild.rows[y].at > floor}
      OBVIOUS
    <3>1. src'[x] = src[x] \/ (x \in DOMAIN rebuild.rows /\ src'[x] = rebuild.rows[x])
      <4>1. src' = [y \in Txns |-> IF y \in back THEN rebuild.rows[y] ELSE src[y]]
        BY <2>4, <3>0 DEF FinishRebuild
      <4> QED
        BY <1>2, <3>0, <4>1
    <3> QED
      BY <1>0, <1>2, <2>1, <3>1 DEF SeamInv
  <2>5. CASE DropPartition
    <3>1. src'[x] = src[x] \/ src'[x] = None
      BY <2>5 DEF DropPartition
    <3> QED
      BY <1>2, <2>1, <3>1
  <2>6. CASE FlagGoesStale \/ AgeDay
    BY <2>1, <2>6 DEF FlagGoesStale, AgeDay
  <2>7. CASE ~Source
    <3>1. src' = src
      <4>1. CASE Switches
        BY <4>1 DEF Switches, SetCapture, SetShow, SetExpand, SetFieldCapture, ActivateMetric, PauseMetric,
                    Reconcile, Flip
      <4> QED
        BY <2>7, <4>1, WorkerLeaves
    <3> QED
      BY <2>1, <3>1
  <2> QED
    BY <2>2, <2>3, <2>4, <2>5, <2>6, <2>7 DEF Source
<1>3. ASSUME run'.phase \in {"read", "folded"}, NEW x \in Txns, view'.src[x] # None, Straddles(view'.src[x])
      PROVE  x \in ghost'.straddled
  <2>1. CASE ReadSource
    <3>1. view'.src = src
      BY <2>1 DEF ReadSource, NoView
    <3> QED
      BY <1>0, <1>3, <3>1 DEF SeamInv
  <2>2. CASE ReadRegistry
    <3>1. view'.src = view.src /\ run.phase = "read"
      BY <1>0, <2>2 DEF ReadRegistry, ViewRec
    <3> QED
      BY <1>0, <1>3, <3>1 DEF SeamInv
  <2>3. CASE run' = run /\ view' = view
    BY <1>0, <1>3, <2>3 DEF SeamInv
  <2> QED
    BY <1>3, <2>1, <2>2, <2>3, ReadStays
<1>4. ASSUME NEW x \in DOMAIN rebuild'.rows, Straddles(rebuild'.rows[x])
      PROVE  x \in ghost'.straddled
  <2>1. CASE rebuild'.rows = rebuild.rows
    BY <1>0, <1>4, <2>1 DEF SeamInv
  <2>2. ASSUME NEW S \in SUBSET Txns, NEW full \in BOOLEAN, FreeForRebuild(S, full) PROVE x \in ghost'.straddled
    <3>1. DOMAIN rebuild'.rows = S /\ rebuild'.rows = [y \in S |-> src[y]] /\ \A y \in S : src[y] # None
      BY <2>2 DEF FreeForRebuild, Live
    <3>2. x \in Txns /\ src[x] # None /\ Straddles(src[x])
      BY <1>4, <3>1
    <3> QED
      BY <1>0, <3>2 DEF SeamInv
  <2>3. CASE FinishRebuild
    <3>1. DOMAIN rebuild'.rows = {}
      BY <2>3 DEF FinishRebuild
    <3> QED
      BY <1>4, <3>1
  <2>4. CASE Source /\ ~FinishRebuild /\ ~\E S \in SUBSET Txns, full \in BOOLEAN : FreeForRebuild(S, full)
    <3>1. rebuild'.rows = rebuild.rows
      <4>1. CASE FlagGoesStale
        BY <4>1 DEF FlagGoesStale
      <4>2. CASE rebuild' = rebuild
        BY <4>2
      <4>3. CASE \E y \in Txns, r \in Rows \cup {None} : RebuildWindow(y, r)
        BY <4>2, <4>3 DEF RebuildWindow
      <4>4. CASE DropPartition \/ AgeDay
        BY <4>2, <4>4 DEF DropPartition, AgeDay
      <4> QED
        BY <2>4, <4>1, <4>3, <4>4 DEF Source
    <3> QED
      BY <2>1, <3>1
  <2>5. CASE ~Source
    <3>1. rebuild' = rebuild
      <4>1. CASE Switches
        BY <4>1 DEF Switches, SetCapture, SetShow, SetExpand, SetFieldCapture, ActivateMetric, PauseMetric,
                    Reconcile, Flip
      <4> QED
        BY <2>5, <4>1, WorkerLeaves
    <3> QED
      BY <2>1, <3>1
  <2> QED
    BY <2>2, <2>3, <2>4, <2>5
<1> QED
  BY <1>1, <1>2, <1>3, <1>4 DEF SeamInv

\* The expand switch widens and the approval turns only by their own handlers.
LEMMA ExpandMoves ==
  ASSUME Shape, [Next]_vars
  PROVE  \/ switch'.expanded \subseteq switch.expanded /\ switch'.approved = switch.approved
         \/ \E n \in Switched : SetExpand(n) /\ n \notin switch.expanded
         \/ SetFieldCapture
<1>0. switch \in SwitchRec
  BY DEF Shape, SwitchShape
<1>1. CASE ~Switches
  <2>1. switch' = switch
    <3>1. CASE Source
      BY <3>1 DEF Source, RebuildWindow, FreeForRebuild, FinishRebuild, FlagGoesStale, DropPartition, AgeDay
    <3> QED
      BY <1>1, <3>1, WorkerLeaves
  <2> QED
    BY <2>1
<1>2. CASE Switches
  <2>1. ASSUME NEW n \in Switched, SetCapture(n) \/ SetShow(n)
        PROVE  switch'.expanded = switch.expanded /\ switch'.approved = switch.approved
    BY <1>0, <2>1 DEF SetCapture, SetShow, Flip, SwitchRec
  <2>2. ASSUME NEW n \in Switched, SetExpand(n), n \in switch.expanded
        PROVE  switch'.expanded \subseteq switch.expanded /\ switch'.approved = switch.approved
    BY <1>0, <2>2 DEF SetExpand, Flip, SwitchRec
  <2>3. CASE Reconcile
    BY <2>3 DEF Reconcile
  <2>4. ASSUME NEW b \in Built, PauseMetric(b) \/ \E from \in Instants : ActivateMetric(b, from)
        PROVE  switch' = switch
    BY <2>4 DEF PauseMetric, ActivateMetric
  <2> QED
    BY <1>2, <2>1, <2>2, <2>3, <2>4 DEF Switches
<1> QED
  BY <1>1, <1>2

\* The tickets of an expand flip or of an approval reach every fact, or owe it.
LEMMA GateReaches ==
  ASSUME Shape, NEW pieces, pieces = SwitchPieces(FALSE), CanPublish(pieces), tickets' = Publish(pieces),
         run' = run, ghost'.owed = ghost.owed \cup Unreached(pieces), NEW f \in fact
  PROVE  f.at \in ghost'.owed \/ Elsewhere(f.at)'
<1>1. FALSE \in BOOLEAN /\ QueueShape
  BY DEF Shape
<1>2. NewTickets(pieces, FALSE)
  BY <1>1, SwitchTickets DEF Shape
<1>3. CASE f.at \in Unreached(pieces)
  BY <1>3
<1>4. CASE f.at \notin Unreached(pieces)
  <2>1. PICK k \in DOMAIN pieces : Covers(pieces[k], f.at)
    BY <1>4 DEF Unreached
  <2> HIDE DEF NewTickets
  <2> QED
    BY <1>1, <1>2, <2>1, PlacedElsewhere
<1> QED
  BY <1>3, <1>4

\* A step narrows what is expanded and leaves the approval, or tickets every fact.
LEMMA GateMoves ==
  ASSUME Shape, [Next]_vars
  PROVE  \/ switch'.expanded \subseteq switch.expanded /\ switch'.approved = switch.approved
         \/ \A f \in fact : f.at \in ghost'.owed \/ Elsewhere(f.at)'
<1>1. PICK pieces : pieces = SwitchPieces(FALSE)
  BY Zenon
<1>2. ASSUME NEW n \in Switched, SetExpand(n), n \notin switch.expanded
      PROVE  \A f \in fact : f.at \in ghost'.owed \/ Elsewhere(f.at)'
  <2>1. /\ CanPublish(pieces) /\ tickets' = Publish(pieces) /\ run' = run
        /\ ghost' = [ghost EXCEPT !.owed = ghost.owed \cup Unreached(pieces)]
    BY <1>1, <1>2 DEF SetExpand, Flip
  <2>2. ghost'.owed = ghost.owed \cup Unreached(pieces)
    BY <2>1 DEF Shape, HistoryShape
  <2> QED
    BY <1>1, <2>1, <2>2, GateReaches
<1>3. ASSUME SetFieldCapture
      PROVE  \A f \in fact : f.at \in ghost'.owed \/ Elsewhere(f.at)'
  <2>1. /\ CanPublish(pieces) /\ tickets' = Publish(pieces) /\ run' = run
        /\ ghost' = [ghost EXCEPT !.owed = ghost.owed \cup Unreached(pieces)]
    BY <1>1, <1>3 DEF SetFieldCapture, Flip
  <2>2. ghost'.owed = ghost.owed \cup Unreached(pieces)
    BY <2>1 DEF Shape, HistoryShape
  <2> QED
    BY <1>1, <2>1, <2>2, GateReaches
<1> QED
  BY <1>2, <1>3, ExpandMoves

\* What a run read of the expand switch and of the approval is still so, or a
\* ticket that it does not hold says otherwise.
LEMMA GateNext ==
  ASSUME Shape, OneFactPerKey, GateInv, [Next]_vars
  PROVE  GateInv'
<1> SUFFICES ASSUME run'.phase \in {"read", "folded"},
                    ~(switch'.expanded \subseteq view'.expanded) \/ switch'.approved # view'.approved,
                    NEW f \in fact', f.at \notin ghost'.owed
             PROVE  Elsewhere(f.at)'
  BY DEF GateInv
<1>0. ~Commits /\ view \in ViewRec /\ run \in RunRec
  BY ReadStays DEF Shape, SwitchShape, QueueShape
<1>1. f \in fact /\ f.at \notin ghost.owed
  BY <1>0, WarehouseStays, HistoryNext
<1>2. CASE ReadSource
  BY <1>2 DEF ReadSource, NoView
<1>3. CASE ReadRegistry
  <2>1. /\ view'.expanded = view.expanded /\ view'.approved = view.approved /\ switch' = switch
        /\ tickets' = tickets /\ run'.ids = run.ids /\ run.phase = "read"
    BY <1>0, <1>3 DEF ReadRegistry, ViewRec, RunRec
  <2>2. Elsewhere(f.at)
    BY <1>1, <2>1 DEF GateInv
  <2> QED
    BY <2>1, <2>2 DEF Elsewhere, Open, Dead, Covers
<1>4. CASE run' = run /\ view' = view
  <2>1. CASE switch'.expanded \subseteq switch.expanded /\ switch'.approved = switch.approved
    <3>1. Elsewhere(f.at)
      BY <1>1, <1>4, <2>1 DEF GateInv
    <3>2. PICK i \in (Open \cup Dead) \ run.ids : Covers(tickets[i], f.at)
      BY <3>1 DEF Elsewhere
    <3>3. /\ i \in (Open \cup Dead)'
          /\ tickets'[i].lo = tickets[i].lo /\ tickets'[i].hi = tickets[i].hi
      BY <1>0, <3>2, TicketsStay
    <3> QED
      BY <1>4, <3>2, <3>3 DEF Elsewhere, Covers
  <2> QED
    BY <1>1, <2>1, GateMoves
<1> QED
  BY <1>2, <1>3, <1>4, ReadStays

\* Every fact keeps its record rows through a step that commits nothing, or
\* waits for a ticket to write them.
LEMMA BackfillQuiet ==
  ASSUME Shape, OneFactPerKey, BackfillInv, [Next]_vars, ~Commits
  PROVE  BackfillInv'
<1> SUFFICES ASSUME NEW f \in fact', ~Waiting(f.at)', f.at \notin ghost'.owed, f.resp,
                    f.name \in (switch'.expanded \cap RecordNames) \ ghost'.everOff,
                    f.txn \notin ghost'.straddled \cup ghost'.split \cup ghost'.stray
             PROVE  \E c \in recs' : SameKey(c, f) /\ c.ver = switch'.approved
  BY DEF BackfillInv, SameKey
<1>1. fact' = fact /\ recs' = recs
  BY WarehouseStays
<1>2. /\ f.at \notin ghost.owed /\ f.name \notin ghost.everOff
      /\ f.txn \notin ghost.straddled \cup ghost.split \cup ghost.stray
  BY HistoryNext
<1>3. f.at \in Int
  BY <1>1, ConstantsAssumption DEF Shape, TablesShape, FactRecord, Instants
<1>4. ~Waiting(f.at)
  BY <1>3, WaitingStays
<1>5. ~Elsewhere(f.at)'
  BY DEF Elsewhere, Waiting, Waits, Covers
<1>6. switch'.expanded \subseteq switch.expanded /\ switch'.approved = switch.approved
  BY <1>1, <1>5, GateMoves
<1>7. \E c \in recs : SameKey(c, f) /\ c.ver = switch.approved
  BY <1>1, <1>2, <1>4, <1>6 DEF BackfillInv
<1> QED
  BY <1>1, <1>6, <1>7

\* A run whose expand switch or approval moved since it read them owes what it
\* dirtied, or leaves it to a ticket that it does not hold.
LEMMA RecordsOwe ==
  ASSUME NEW p, NEW t, t \in DirtyHours(p), t \notin LeftBehind(p), ~Elsewhere(t)
  PROVE  view.expanded = switch.expanded /\ view.approved = switch.approved
<1>1. PICK moved : moved = (view.hidden # switch.hidden \/ view.metric # metric)
  OBVIOUS
<1>2. PICK coming : coming = {i \in Open \ run.ids : tickets[i].refold \/ ~moved}
  OBVIOUS
<1>3. LeftBehind(p) =
        {u \in DirtyHours(p) \cup {c.at : c \in RecsWritten(p)} :
            (moved \/ (view.expanded # switch.expanded \/ view.approved # switch.approved))
            /\ ~CoveredBy(coming, u)}
  BY <1>1, <1>2 DEF LeftBehind
<1>4. ~CoveredBy(coming, t)
  BY <1>2 DEF CoveredBy, Elsewhere
<1> QED
  BY <1>3, <1>4

\* The record rows of a fact that a run expands are there after it.
LEMMA Written ==
  ASSUME NEW p, NEW f, NEW h \in p.expanding, SameKey(h, f)
  PROVE  \E c \in RecsAfter(p) : SameKey(c, f) /\ c.ver = view.approved
<1>1. PICK c : c = [txn |-> h.txn, at |-> h.at, name |-> h.name, ver |-> view.approved]
  OBVIOUS
<1>2. c \in RecsWritten(p)
  BY <1>1 DEF RecsWritten
<1>3. c.txn = h.txn /\ c.at = h.at /\ c.ver = view.approved
  BY <1>1
<1> QED
  BY <1>2, <1>3 DEF RecsAfter, SameKey

\* In the slice of a run, what it read of the switches holds for its facts.
LEMMA GatesHold ==
  ASSUME Shape, GateInv, run.phase = "folded", NEW byTxn \in StoredByTxn, NEW p, p = Plan(byTxn), Commit(p),
         NEW f \in p.facts, f.at \notin ghost'.owed, ~Elsewhere(f.at), f.name \in switch.expanded
  PROVE  f.name \in view.expanded /\ view.approved = switch.approved
<1>1. ghost'.owed = ghost.owed \cup LeftBehind(p)
  BY CommitNotes
<1>2. CASE f \in fact
  BY <1>1, <1>2 DEF GateInv
<1>3. CASE f \notin fact
  <2>1. p.diff = Diff(Stored, p.facts) /\ Stored \subseteq fact
    BY PlanFacts DEF Stored
  <2>2. /\ \A g : g \in p.diff.inserted <=> g \in p.facts /\ ~\E h \in Stored : SameKey(g, h)
        /\ \A g : g \in p.diff.updated <=> g \in p.facts \ Stored /\ \E h \in Stored : SameKey(g, h)
    BY <2>1, DiffIs
  <2>3. f \in p.diff.inserted \cup p.diff.updated
    BY <1>3, <2>1, <2>2
  <2>4. f.at \in DirtyHours(p)
    BY <2>3 DEF DirtyHours, Writes
  <2>5. view.expanded = switch.expanded /\ view.approved = switch.approved
    BY <1>1, <2>4, RecordsOwe
  <2> QED
    BY <2>5
<1> QED
  BY <1>2, <1>3

\* A carried fact is the one stored fact of its transaction, and no outcome of
\* the diff writes it.
LEMMA CarriedFact ==
  ASSUME Shape, SeamInv, run.phase = "folded", NEW byTxn \in StoredByTxn, NEW p, p = Plan(byTxn),
         NEW f \in p.facts, f \in Stored, f.txn \notin ghost.split
  PROVE  /\ f \in byTxn /\ f \in fact
         /\ \A g \in fact : g.txn = f.txn => g = f
         /\ \A g \in p.diff.inserted \cup p.diff.updated : g.txn # f.txn
         /\ \A g \in p.diff.reversed : ~SameKey(f, g)
<1>1. /\ p.diff = Diff(Stored, p.facts) /\ Stored \subseteq fact /\ byTxn \subseteq Stored
      /\ \A g, h \in p.facts : g.txn = h.txn => g = h
  BY PlanFacts, OneStoredPerTxn DEF Shape
<1>2. /\ \A g : g \in p.diff.inserted <=> g \in p.facts /\ ~\E h \in Stored : SameKey(g, h)
      /\ \A g : g \in p.diff.updated <=> g \in p.facts \ Stored /\ \E h \in Stored : SameKey(g, h)
      /\ \A g : g \in p.diff.reversed <=> g \in Stored /\ ~\E h \in p.facts : SameKey(g, h)
  BY <1>1, DiffIs
<1>3. f \in fact /\ \A g \in fact : g.txn = f.txn => g = f
  BY <1>1 DEF SeamInv
<1>4. f \in byTxn
  <2>1. PICK S : S = {g \in byTxn : g.txn = f.txn}
    OBVIOUS
  <2>2. Cardinality(S) = 1
    BY <2>1 DEF StoredByTxn
  <2>3. S # {}
    BY <2>2, FS_EmptySet
  <2> QED
    BY <1>1, <1>3, <2>1, <2>3
<1>5. \A g \in p.diff.inserted \cup p.diff.updated : g.txn # f.txn
  BY <1>1, <1>2 DEF SameKey
<1>6. \A g \in p.diff.reversed : ~SameKey(f, g)
  BY <1>2 DEF SameKey
<1> QED
  BY <1>3, <1>4, <1>5, <1>6

\* A carried fact that predicts records has them after the run: written again,
\* or present at the approved version already.
LEMMA CarriedRecords ==
  ASSUME Shape, SourceShape, ParentInv, SeamInv, run.phase = "folded", NEW byTxn \in StoredByTxn,
         NEW p, p = Plan(byTxn), NEW f \in p.facts, f \in Stored, f.resp,
         f.name \in view.expanded \cap RecordNames,
         f.txn \notin ghost.straddled \cup ghost.split \cup ghost.stray
  PROVE  \E c \in RecsAfter(p) : SameKey(c, f) /\ c.ver = view.approved
<1>1. /\ f \in byTxn /\ f \in fact
      /\ \A g \in fact : g.txn = f.txn => g = f
      /\ \A g \in p.diff.inserted \cup p.diff.updated : g.txn # f.txn
      /\ \A g \in p.diff.reversed : ~SameKey(f, g)
  BY CarriedFact
<1>2. /\ view.src[f.txn] # None /\ f.name = view.src[f.txn].name /\ f.at = view.src[f.txn].at
      /\ InSlice(f.at) /\ f.txn \in Txns
  BY <1>1, FactsAreRows, PlanFacts DEF Shape, TablesShape, FactRecord
<1>3. InSlice(view.src[f.txn].end)
  BY <1>2 DEF SeamInv
<1>4. CASE f.txn \in Refresh(byTxn)
  <2>1. f \in p.expanding
    BY <1>1, <1>2, <1>3, <1>4, ExpandingIs
  <2> QED
    BY <2>1, Written DEF SameKey
<1>5. CASE f.txn \notin Refresh(byTxn)
  <2>1. PICK present : present = {c \in recs : c.txn = f.txn /\ InSlice(c.at)}
    OBVIOUS
  <2>2. ~(present = {} \/ \E c \in present : c.ver # view.approved)
    BY <1>1, <1>5, <2>1 DEF Refresh
  <2>3. PICK c \in recs : c.txn = f.txn /\ c.ver = view.approved
    BY <2>1, <2>2
  <2>4. SameKey(c, f)
    <3>1. PICK g \in fact : SameKey(c, g)
      BY <2>3 DEF ParentInv
    <3> QED
      BY <1>1, <2>3, <3>1 DEF SameKey
  <2>5. CASE c \notin RecsReplaced(p)
    BY <2>3, <2>4, <2>5 DEF RecsAfter
  <2>6. CASE \E h \in p.expanding : SameKey(c, h)
    <3>1. PICK h \in p.expanding : SameKey(c, h)
      BY <2>6
    <3>2. SameKey(h, f)
      BY <2>4, <3>1 DEF SameKey
    <3> QED
      BY <3>2, Written
  <2>7. c \notin p.orphaned
    <3>1. p.orphaned = {d \in recs : \E g \in p.diff.reversed : SameKey(d, g)}
      BY PlanFacts
    <3> QED
      BY <1>1, <2>4, <3>1 DEF SameKey
  <2> QED
    BY <2>3, <2>5, <2>6, <2>7 DEF RecsReplaced
<1> QED
  BY <1>4, <1>5

\* A commit leaves the record rows of other slices alone.
LEMMA RecordsAway ==
  ASSUME Shape, run.phase = "folded", NEW byTxn \in StoredByTxn, NEW p, p = Plan(byTxn),
         NEW c \in recs, ~InSlice(c.at)
  PROVE  c \in RecsAfter(p)
<1>1. /\ \A h \in p.facts : InSlice(h.at)
      /\ p.diff = Diff(Stored, p.facts)
      /\ p.orphaned = {d \in recs : \E g \in p.diff.reversed : SameKey(d, g)}
  BY PlanFacts
<1>2. p.expanding \subseteq p.facts \cup byTxn /\ byTxn \subseteq Stored
  BY PlanExpanding, OneStoredPerTxn DEF Shape
<1>3. \A g \in p.diff.reversed : g \in Stored
  BY <1>1, DiffIs
<1>4. \A h \in p.expanding \cup p.diff.reversed : InSlice(h.at)
  BY <1>1, <1>2, <1>3 DEF Stored
<1>5. c \notin RecsReplaced(p)
  BY <1>1, <1>4 DEF RecsReplaced, SameKey
<1> QED
  BY <1>5 DEF RecsAfter

\* A commit gives the facts of its slice their record rows.
LEMMA BackfillCommit ==
  ASSUME Shape, OneFactPerKey, SourceShape, RunInv, ParentInv, SeamInv, GateInv, BackfillInv,
         [Next]_vars, Commits
  PROVE  BackfillInv'
<1> SUFFICES ASSUME NEW f \in fact', ~Waiting(f.at)', f.at \notin ghost'.owed, f.resp,
                    f.name \in (switch'.expanded \cap RecordNames) \ ghost'.everOff,
                    f.txn \notin ghost'.straddled \cup ghost'.split \cup ghost'.stray
             PROVE  \E c \in recs' : SameKey(c, f) /\ c.ver = switch'.approved
  BY DEF BackfillInv, SameKey
<1>1. PICK byTxn \in StoredByTxn : Commit(Plan(byTxn)) /\ run.phase = "folded"
  BY DEF Commits
<1>2. PICK p : p = Plan(byTxn)
  OBVIOUS
<1>3. Commit(p)
  BY <1>1, <1>2
<1>4. fact' = FactAfter(p) /\ recs' = RecsAfter(p)
  BY <1>3 DEF Commit
<1>5. /\ switch' = switch
      /\ f.at \notin ghost.owed /\ f.name \notin ghost.everOff
      /\ f.txn \notin ghost.straddled \cup ghost.split \cup ghost.stray
  BY <1>3, CommitNotes
<1>6. (f \in fact /\ f \notin Stored) \/ f \in p.facts
  BY <1>1, <1>2, <1>4, AppliedFacts
<1>7. f.at \in Int
  <2>1. f \in FactRecord
    BY <1>1, <1>2, <1>6, PlanFacts DEF Shape, TablesShape
  <2> QED
    BY <2>1, ConstantsAssumption DEF FactRecord, Instants
<1>8. CASE ~InSlice(f.at)
  <2>1. f \in fact
    BY <1>1, <1>2, <1>6, <1>8, PlanFacts
  <2>2. ~Waiting(f.at)
    BY <1>7, <1>8, WaitingGone
  <2>3. PICK c \in recs : SameKey(c, f) /\ c.ver = switch.approved
    BY <1>5, <2>1, <2>2 DEF BackfillInv
  <2>4. c \in RecsAfter(p)
    BY <1>1, <1>2, <1>8, <2>3, RecordsAway DEF SameKey
  <2> QED
    BY <1>4, <1>5, <2>3, <2>4
<1>9. CASE InSlice(f.at)
  <2>1. f \in p.facts
    BY <1>1, <1>5, <1>6, <1>9 DEF Stored, SourceShape
  <2>2. ~Elsewhere(f.at)
    BY <1>7, OutsideWaiting
  <2>3. f.name \in view.expanded /\ view.approved = switch.approved
    BY <1>1, <1>2, <1>3, <1>5, <2>1, <2>2, GatesHold
  <2>4. CASE f \in Stored
    <3>1. \E c \in RecsAfter(p) : SameKey(c, f) /\ c.ver = view.approved
      BY <1>1, <1>2, <1>5, <2>1, <2>3, <2>4, CarriedRecords
    <3> QED
      BY <1>4, <1>5, <2>3, <3>1
  <2>5. CASE f \notin Stored
    <3>1. p.diff = Diff(Stored, p.facts)
      BY <1>1, <1>2, PlanFacts
    <3>2. /\ \A g : g \in p.diff.inserted <=> g \in p.facts /\ ~\E h \in Stored : SameKey(g, h)
          /\ \A g : g \in p.diff.updated <=> g \in p.facts \ Stored /\ \E h \in Stored : SameKey(g, h)
      BY <3>1, DiffIs
    <3>3. f \in p.diff.inserted \cup p.diff.updated
      BY <2>1, <2>5, <3>2
    <3>4. f \in p.expanding
      BY <1>1, <1>2, <1>5, <2>3, <3>3, ExpandingIs
    <3>5. \E c \in RecsAfter(p) : SameKey(c, f) /\ c.ver = view.approved
      BY <3>4, Written DEF SameKey
    <3> QED
      BY <1>4, <1>5, <2>3, <3>5
  <2> QED
    BY <2>4, <2>5
<1> QED
  BY <1>8, <1>9

\* Every fact that predicts records has them, or waits for them.
LEMMA BackfillNext ==
  ASSUME Shape, OneFactPerKey, SourceShape, RunInv, ParentInv, SeamInv, GateInv, BackfillInv, [Next]_vars
  PROVE  BackfillInv'
  BY BackfillQuiet, BackfillCommit

-----------------------------------------------------------------------------
(* The initial states.                                                     *)

\* The settled warehouse the system starts from has one fact for every usable row.
LEMMA InitTables ==
  ASSUME Init
  PROVE  TablesShape /\ OneFactPerKey /\ TotalsExact
<1>0. /\ src \in Table /\ IsFiniteSet(Txns) /\ None \notin Rows /\ LastInstant \in Nat
      /\ \A row \in Rows : row.at \in Instants /\ row.name \in Names /\ row.end \in Instants
  BY ConstantsAssumption DEF Init, Table
<1>1. PICK usable : usable = {y \in Txns : Live(y) /\ src[y].name \notin Unusable}
  OBVIOUS
<1>2. PICK built : built = [x \in usable |->
          [txn |-> x, at |-> src[x].at, name |-> src[x].name, end |-> src[x].end, resp |-> TRUE]]
  OBVIOUS
<1>3. fact = {built[x] : x \in usable}
  <2>1. fact = {[txn |-> x, at |-> src[x].at, name |-> src[x].name, end |-> src[x].end, resp |-> TRUE] :
                    x \in usable}
    BY <1>1 DEF Init
  <2> QED
    BY <1>2, <2>1
<1>4. usable \subseteq Txns /\ \A x \in usable : src[x] \in Rows
  BY <1>0, <1>1 DEF Live, Table
<1>5. ASSUME NEW x \in usable
      PROVE  built[x] \in FactRecord /\ built[x].txn = x
  <2>1. PICK row \in Rows : row = src[x]
    BY <1>4
  <2>2. built[x] = [txn |-> x, at |-> row.at, name |-> row.name, end |-> row.end, resp |-> TRUE]
    BY <1>2, <2>1
  <2> QED
    BY <1>0, <1>4, <2>1, <2>2 DEF FactRecord
<1>6. fact \subseteq FactRecord /\ OneFactPerKey
  BY <1>3, <1>5 DEF OneFactPerKey, SameKey
<1>7. IsFiniteSet(fact)
  <2>1. IsFiniteSet(usable)
    BY <1>0, <1>4, FS_Subset
  <2>2. built \in Surjection(usable, fact)
    BY <1>2, <1>3 DEF Surjection
  <2> QED
    BY <2>1, <2>2, FS_Surjection
<1>8. recs = {} /\ IsFiniteSet(recs) /\ Cardinality(recs) = 0
  BY FS_EmptySet DEF Init
<1>9. TotalsExact
  BY <1>8 DEF Init, TotalsExact
<1>10. settled \in [Names -> SUBSET Txns] /\ issues \subseteq Txns
  <2>1. settled = [n \in Names |-> {f.txn : f \in {g \in fact : g.name = n}}]
    BY DEF Init
  <2>2. issues = {y \in Txns : Live(y) /\ src[y].name \in Unusable}
    BY DEF Init
  <2> QED
    BY <1>6, <2>1, <2>2 DEF FactRecord
<1>11. Fold(fact) \in [Metrics -> SUBSET Contribution]
  <2>1. ASSUME NEW m \in Metrics
        PROVE  Fold(fact)[m] \in SUBSET Contribution
    BY <1>6 DEF Fold, FactRecord, Contribution
  <2> QED
    BY <2>1 DEF Fold
<1>12. hourly = Fold(fact) /\ daily = Fold(fact) /\ monthly = Fold(fact)
  BY DEF Init
<1>13. tstate \in [history : 0 .. LastInstant, wm : 0 .. LastInstant, facts : Nat, records : Nat]
  <2>1. PICK history : history = IF fact = {} THEN 0 ELSE Min({f.at : f \in fact})
    OBVIOUS
  <2>2. PICK wm : wm = IF Starts(src) = {} THEN 0 ELSE Max(Starts(src))
    OBVIOUS
  <2>3. tstate = [history |-> history, wm |-> wm, facts |-> Cardinality(fact), records |-> 0]
    BY <2>1, <2>2 DEF Init
  <2>4. wm \in 0 .. LastInstant
    BY <1>0, <2>2, NewestStart
  <2>5. Cardinality(fact) \in Nat
    BY <1>7, FS_CardinalityType
  <2>6. history \in 0 .. LastInstant
    <3>1. CASE fact = {}
      BY <1>0, <2>1, <3>1
    <3>2. CASE fact # {}
      <4>1. PICK S : S = {f.at : f \in fact}
        OBVIOUS
      <4>2. S \subseteq 1 .. LastInstant /\ S # {}
        BY <1>6, <3>2, <4>1 DEF FactRecord, Instants
      <4>3. S \in SUBSET Int /\ 1 \in Int /\ \A x \in S : 1 <= x
        BY <1>0, <4>2
      <4>4. Min(S) \in S
        BY <4>2, <4>3, MinIsLeast
      <4>5. Min(S) \in 1 .. LastInstant
        BY <4>2, <4>4
      <4> QED
        BY <1>0, <2>1, <3>2, <4>1, <4>5
    <3> QED
      BY <3>1, <3>2
  <2> QED
    BY <2>3, <2>4, <2>5, <2>6
<1>14. recs \subseteq RecordRow
  BY <1>8
<1>15. TablesShape
  BY <1>0, <1>6, <1>7, <1>8, <1>10, <1>11, <1>12, <1>13, <1>14 DEF TablesShape
<1> QED
  BY <1>6, <1>9, <1>15

\* The grains start as the fold of those facts.
LEMMA InitGrains ==
  ASSUME Init
  PROVE  GrainInv
<1>1. hourly = Fold(fact) /\ daily = Fold(fact) /\ monthly = Fold(fact) /\ recs = {}
  BY DEF Init
<1>2. switch.hidden = {}
  BY DEF Init
<1>3. ASSUME NEW m \in Metrics
      PROVE  metric[m].from = 1 /\ metric[m].status \in {"draft", "active"}
  BY DEF Init
<1>4. ASSUME NEW m \in Metrics, metric[m].status = "draft"
      PROVE  daily[m] = {}
  <2>1. {g \in fact : g.name \in Filter[m] /\ m \notin RecordMetrics /\ metric[m].status = "active"} = {}
    BY <1>4
  <2> QED
    BY <1>1, <2>1 DEF Fold
<1>5. ASSUME NEW m \in Metrics, NEW t \in Instants, metric[m].status # "draft"
      PROVE  At(daily[m], t) = Expected(m, t)
  <2>0. metric[m].status = "active" /\ t >= metric[m].from
    <3>1. t \in Int /\ t >= 1
      BY ConstantsAssumption DEF Instants
    <3> QED
      BY <1>3, <1>5, <3>1
  <2>1. daily[m] = {[txn |-> f.txn, at |-> f.at, name |-> f.name] : f \in
                      {g \in fact : g.name \in Filter[m] /\ m \notin RecordMetrics}}
    BY <1>1, <2>0 DEF Fold
  <2>2. CASE m \in RecordMetrics
    <3>1. daily[m] = {}
      BY <2>1, <2>2
    <3>2. Expected(m, t) = {}
      BY <1>1, <2>2 DEF Expected
    <3> QED
      BY <3>1, <3>2 DEF At
  <2>3. CASE m \notin RecordMetrics
    <3>1. daily[m] = {[txn |-> f.txn, at |-> f.at, name |-> f.name] : f \in {g \in fact : g.name \in Filter[m]}}
      BY <2>1, <2>3
    <3>2. Expected(m, t) = {[txn |-> f.txn, at |-> f.at, name |-> f.name] : f \in
                              {g \in fact : g.at = t /\ g.name \in Filter[m]}}
      BY <1>2, <2>0, <2>3 DEF Expected
    <3> QED
      BY <3>1, <3>2 DEF At
  <2> QED
    BY <2>2, <2>3
<1> QED
  BY <1>1, <1>4, <1>5 DEF GrainInv

\* The settled rows start as the sums of those facts.
LEMMA InitSettled ==
  ASSUME Init
  PROVE  SettledInv
<1>1. fact \subseteq FactRecord
  BY InitTables DEF TablesShape
<1>2. settled = [n \in Names |-> {f.txn : f \in {g \in fact : g.name = n}}]
  BY DEF Init
<1> QED
  BY <1>1, <1>2 DEF SettledInv, FactRecord

\* The settled warehouse the system starts from follows the source.
LEMMA InitFollow ==
  ASSUME Init
  PROVE  SourceShape /\ FollowInv /\ SeenInv
<1>1. /\ run.phase = "idle" /\ rebuild.st = "none"
      /\ switch.suppressed = {} /\ ghost.everOff = {}
  BY DEF Init, Idle
<1>2. PICK rows : rows = {y \in Txns : Live(y) /\ src[y].name \notin Unusable}
  OBVIOUS
<1>3. PICK built : built = [x \in rows |->
          [txn |-> x, at |-> src[x].at, name |-> src[x].name, end |-> src[x].end, resp |-> TRUE]]
  OBVIOUS
<1>4. fact = {built[x] : x \in rows}
  BY <1>2, <1>3 DEF Init
<1>5. \A x \in rows : built[x].txn = x /\ built[x].at = src[x].at /\ built[x].name = src[x].name
  BY <1>3
<1>6. SourceShape
  BY <1>1, <1>2, <1>4, <1>5 DEF SourceShape
<1>7. SeenInv
  BY <1>1 DEF SeenInv
<1>8. ASSUME NEW x \in Txns, NEW t \in Instants
      PROVE  FactNames(x, t) = NamesAt(src, x, t) \ Unusable
  <2>1. ASSUME NEW n, n \in FactNames(x, t) PROVE n \in NamesAt(src, x, t) \ Unusable
    <3>1. PICK f \in fact : f.txn = x /\ f.at = t /\ f.name = n
      BY <2>1 DEF FactNames
    <3>2. x \in rows /\ src[x].at = t /\ src[x].name = n
      BY <1>4, <1>5, <3>1
    <3> QED
      BY <1>2, <3>2 DEF NamesAt, Live
  <2>2. ASSUME NEW n, n \in NamesAt(src, x, t) \ Unusable PROVE n \in FactNames(x, t)
    <3>1. x \in rows /\ src[x].at = t /\ src[x].name = n
      BY <1>2, <2>2 DEF NamesAt, Live
    <3>2. built[x] \in fact /\ built[x].txn = x /\ built[x].at = t /\ built[x].name = n
      BY <1>4, <1>5, <3>1
    <3> QED
      BY <3>2 DEF FactNames
  <2> QED
    BY <2>1, <2>2
<1>9. FollowInv
  BY <1>1, <1>8 DEF FollowInv
<1> QED
  BY <1>6, <1>7, <1>9

\* No record rows yet and nothing expanded; one fact of a transaction.
LEMMA InitRecords ==
  ASSUME Init
  PROVE  ParentInv /\ SeamInv /\ GateInv /\ BackfillInv
<1>1. /\ recs = {} /\ run.phase = "idle" /\ switch.expanded = {}
      /\ ghost.straddled = {y \in Txns : Live(y) /\ src[y].at # src[y].end}
  BY DEF Init, Idle
<1>2. DOMAIN rebuild.rows = {}
  <2>1. rebuild.rows = <<>>
    BY DEF Init
  <2> QED
    BY <2>1
<1>3. ASSUME NEW f \in fact, NEW g \in fact, f.txn = g.txn PROVE f = g
  <2>1. PICK rows : rows = {y \in Txns : Live(y) /\ src[y].name \notin Unusable}
    OBVIOUS
  <2>2. PICK built : built = [x \in rows |->
            [txn |-> x, at |-> src[x].at, name |-> src[x].name, end |-> src[x].end, resp |-> TRUE]]
    OBVIOUS
  <2>3. fact = {built[x] : x \in rows}
    BY <2>1, <2>2 DEF Init
  <2>4. \A x \in rows : built[x].txn = x
    BY <2>2
  <2> QED
    BY <1>3, <2>3, <2>4
<1>4. SeamInv
  BY <1>1, <1>2, <1>3 DEF SeamInv, Live
<1> QED
  BY <1>1, <1>4 DEF ParentInv, GateInv, BackfillInv

\* A settled system satisfies the invariant.
LEMMA InitIInv == Init => IInv
<1> SUFFICES ASSUME Init PROVE IInv
  OBVIOUS
<1>0. /\ LastInstant \in Nat /\ Pad \in Nat /\ MaxAttempts \in Nat \ {0}
  BY ConstantsAssumption
<1>1. tickets = [i \in Ids |-> NoTicket] /\ run = Idle /\ view = NoView
  BY DEF Init
<1>2. QueueShape /\ RunInv /\ ViewInv
  <2>1. NoTicket \in Ticket /\ Bounded(NoTicket) /\ NoTicket.attempts <= MaxAttempts /\ NoTicket.st = "free"
    BY <1>0 DEF NoTicket, Ticket, Bounded
  <2>2. Idle \in RunRec /\ Idle.ids = {} /\ Idle.rest = {} /\ Idle.phase = "idle" /\ Sliced(Idle)
    BY DEF Idle, RunRec, Sliced
  <2>3. tickets \in [Ids -> Ticket] /\ \A i \in Ids : tickets[i] = NoTicket
    BY <1>1, <2>1
  <2>4. Open = {}
    BY <2>1, <2>3 DEF Open
  <2> QED
    BY <1>1, <2>1, <2>2, <2>3, <2>4 DEF QueueShape, RunInv, ViewInv, Sliced
<1>3. SwitchShape
  <2>1. switch = [suppressed |-> {}, hidden |-> {}, expanded |-> {}, approved |-> FALSE]
    BY DEF Init
  <2>2. switch \in SwitchRec
    BY <2>1 DEF SwitchRec
  <2>3. metric \in [Metrics -> Definition]
    <3>1. PICK status \in {"draft", "active"} :
             metric = [m \in Metrics |-> [status |-> IF m \in Built THEN status ELSE "active", from |-> 1]]
      BY DEF Init
    <3> QED
      BY <3>1 DEF Definition
  <2>4. rebuild = [st |-> "none", rows |-> <<>>] /\ floor = 0
    BY DEF Init
  <2>5. DOMAIN rebuild.rows = {}
    BY <2>4
  <2>6. run.phase = "idle"
    BY <1>1 DEF Idle
  <2> QED
    BY <1>0, <1>1, <2>2, <2>3, <2>4, <2>5, <2>6, NoViewShape DEF SwitchShape
<1>4. HistoryShape
  <2>1. PICK straddled : straddled = {y \in Txns : Live(y) /\ src[y].at # src[y].end}
    OBVIOUS
  <2>2. ghost = [everOff |-> {}, owed |-> {}, paused |-> {}, unticketed |-> {}, split |-> {},
                 stray |-> {}, straddled |-> straddled]
    BY <2>1 DEF Init
  <2>3. straddled \in SUBSET Txns
    BY <2>1
  <2> QED
    BY <2>2, <2>3 DEF HistoryShape
<1> QED
  BY <1>2, <1>3, <1>4, InitTables, InitSettled, InitGrains, InitFollow, InitRecords DEF IInv, Shape

-----------------------------------------------------------------------------
(* The invariant and the theorems.                                         *)

\* Every step keeps the invariant.
LEMMA NextIInv == IInv /\ [Next]_vars => IInv'
<1> SUFFICES ASSUME IInv, [Next]_vars PROVE IInv'
  OBVIOUS
<1>1. Shape /\ OneFactPerKey /\ TotalsExact /\ SettledInv /\ RunInv /\ ViewInv /\ GrainInv
  BY DEF IInv
<1>2. Shape'
  BY <1>1, TablesNext, QueueNext, SwitchNext, HistoryNext DEF Shape
<1>3. OneFactPerKey' /\ TotalsExact' /\ SettledInv'
  BY <1>1, TablesNext, SettledNext
<1>4. RunInv' /\ ViewInv'
  BY <1>1, RunNext, ViewNext
<1>5. GrainInv'
  BY <1>1, GrainQuiet, GrainCommit
<1>6. SourceShape /\ FollowInv /\ SeenInv /\ ParentInv /\ SeamInv /\ GateInv /\ BackfillInv
  BY DEF IInv
<1>7. SourceShape' /\ FollowInv' /\ SeenInv'
  BY <1>1, <1>6, SourceShapeNext, FollowNext, SeenNext
<1>8. ParentInv' /\ SeamInv' /\ GateInv' /\ BackfillInv'
  BY <1>1, <1>6, ParentNext, SeamNext, GateNext, BackfillNext
<1> QED
  BY <1>2, <1>3, <1>4, <1>5, <1>7, <1>8 DEF IInv

\* The invariant holds in every reachable state.
LEMMA IInvHolds == Spec => []IInv
  BY InitIInv, NextIInv, PTL DEF Spec

\* The tables of the warehouse hold rows of their shapes, tickets never pass
\* the cap on attempts, and a run holds only open tickets, in every behaviour
\* of consume.py's worker and of what runs beside it.
THEOREM TypeCorrect == Spec => []TypeOK
<1>1. IInv => TypeOK
  <2> SUFFICES ASSUME IInv PROVE TypeOK
    OBVIOUS
  <2>1. TablesShape /\ QueueShape
    BY DEF IInv, Shape
  <2>2. /\ src \in [Txns -> Rows \cup {None}] /\ fact \subseteq FactRecord
        /\ recs \subseteq [txn : Txns, at : Instants, name : Names, ver : BOOLEAN]
        /\ settled \in [Names -> SUBSET Txns] /\ issues \subseteq Txns
        /\ {hourly, daily, monthly} \subseteq [Metrics -> SUBSET Contribution]
        /\ tstate.facts \in Nat /\ tstate.records \in Nat
    BY <2>1 DEF TablesShape, Table, RecordRow
  <2>3. /\ \A i \in Ids : tickets[i].st \in {"free", "open", "dead"} /\ tickets[i].attempts <= MaxAttempts
        /\ run.phase \in {"idle", "claimed", "read", "folded"}
        /\ run.ids \cup run.rest \subseteq Open
    BY <2>1 DEF QueueShape, Ticket, RunRec
  <2> QED
    BY <2>2, <2>3 DEF TypeOK
<1> QED
  BY <1>1, IInvHolds, PTL

\* The totals of the status card are the sizes of the fact and record tables,
\* whatever retries, crashes, re-expansions and dead letters came between the
\* increments of _update_state.
THEOREM TotalsAreExact == Spec => []TotalsExact
<1>1. IInv => TotalsExact
  BY DEF IInv
<1> QED
  BY <1>1, IInvHolds, PTL

\* Every fact is summed up in the settled row of its key, though a run writes
\* again only the keys it has facts of (settle_touched): the first clause of
\* RecordsFollowFacts.
THEOREM SettledFollowFacts == Spec => [](\A f \in fact : f.txn \in settled[f.name])
<1>1. IInv => \A f \in fact : f.txn \in settled[f.name]
  BY DEF IInv, SettledInv
<1> QED
  BY <1>1, IInvHolds, PTL

\* Every grain of a live definition holds exactly the shown facts of each
\* bucket that no refold ticket covers (rollups.py's fold of dirty_buckets),
\* however switches, activations, failures and slices interleave with the run.
THEOREM ChartsFollowFacts == Spec => []RollupsFollowFacts
<1>1. IInv => RollupsFollowFacts
  <2> SUFFICES ASSUME IInv PROVE RollupsFollowFacts
    OBVIOUS
  <2>1. GrainInv
    BY DEF IInv
  <2>2. ASSUME NEW t, ~CoveredBy({i \in Open \cup Dead : tickets[i].refold}, t)
        PROVE  ~Pending(t)
    BY <2>2 DEF CoveredBy, Pending, ToFold, Waits
  <2> QED
    BY <2>1, <2>2 DEF GrainInv, RollupsFollowFacts
<1> QED
  BY <1>1, IInvHolds, PTL

\* The facts are the usable rows of the source wherever no ticket is open or
\* dead-lettered (invariant 2 of pending_windows.py): a path that frees
\* transactions tickets them in its own transaction, and a run that read the
\* source before another change leaves the ticket of that change.  So whatever
\* the interleaving of rebuilds, retention, switches, failures and slices,
\* what is not scheduled to be folded again has been folded as it stands.
THEOREM FactsAreTheSource == Spec => []FactsFollowSource
<1>1. IInv => FactsFollowSource
  <2> SUFFICES ASSUME IInv, NEW t \in Instants, t > floor, ~Outstanding(t)
               PROVE  {<<f.txn, f.name>> : f \in {g \in fact :
                          g.at = t /\ g.txn \notin ghost.unticketed /\ g.name \notin ghost.everOff}}
                      = {<<x, src[x].name>> : x \in {y \in Txns \ ghost.unticketed :
                          Live(y) /\ src[y].at = t /\ src[y].name \notin ghost.everOff \cup Unusable}}
    BY DEF FactsFollowSource
  <2>1. PICK facts, rows :
          /\ facts = {g \in fact : g.at = t /\ g.txn \notin ghost.unticketed /\ g.name \notin ghost.everOff}
          /\ rows = {y \in Txns \ ghost.unticketed :
                       Live(y) /\ src[y].at = t /\ src[y].name \notin ghost.everOff \cup Unusable}
    OBVIOUS
  <2>2. ~Waiting(t) /\ fact \subseteq FactRecord
    BY DEF Waiting, Waits, Outstanding, CoveredBy, IInv, Shape, TablesShape
  <2>3. ASSUME NEW x \in Txns, x \notin ghost.unticketed
        PROVE  FactNames(x, t) \ ghost.everOff = NamesAt(src, x, t) \ (ghost.everOff \cup Unusable)
    BY <2>2, <2>3 DEF IInv, FollowInv, Unticketed
  <2>4. ASSUME NEW f \in facts PROVE \E x \in rows : <<f.txn, f.name>> = <<x, src[x].name>>
    <3>1. f.txn \in Txns /\ f.name \in FactNames(f.txn, t) \ ghost.everOff
      BY <2>1, <2>2, <2>4 DEF FactNames, FactRecord
    <3>2. f.name \in NamesAt(src, f.txn, t) \ (ghost.everOff \cup Unusable)
      BY <2>1, <2>3, <2>4, <3>1
    <3>3. src[f.txn] # None /\ src[f.txn].at = t /\ src[f.txn].name = f.name
      BY <3>2 DEF NamesAt
    <3> QED
      BY <2>1, <2>4, <3>1, <3>2, <3>3 DEF Live
  <2>5. ASSUME NEW x \in rows PROVE \E f \in facts : <<x, src[x].name>> = <<f.txn, f.name>>
    <3>1. src[x].name \in NamesAt(src, x, t) \ (ghost.everOff \cup Unusable)
      BY <2>1, <2>5 DEF NamesAt, Live
    <3>2. src[x].name \in FactNames(x, t)
      BY <2>1, <2>3, <2>5, <3>1
    <3>3. PICK f \in fact : f.txn = x /\ f.at = t /\ f.name = src[x].name
      BY <3>2 DEF FactNames
    <3> QED
      BY <2>1, <2>5, <3>3
  <2>6. {<<f.txn, f.name>> : f \in facts} = {<<x, src[x].name>> : x \in rows}
    BY <2>4, <2>5
  <2> QED
    BY <2>1, <2>6
<1> QED
  BY <1>1, IInvHolds, PTL

\* What is derived from a fact follows it: the settled row of its key sums it
\* up, its record rows are those of a fact and bear its name, and once no ticket
\* is open or dead-lettered over it an expanded fact that predicts records has
\* them at the approved version (_expand_records), however expand flips, field
\* approvals, moves of the source, failures and slices interleave with the run.
THEOREM RecordsFollowTheirFacts == Spec => []RecordsFollowFacts
<1>1. IInv => RecordsFollowFacts
  <2> SUFFICES ASSUME IInv PROVE RecordsFollowFacts
    OBVIOUS
  <2>1. SettledInv /\ ParentInv /\ BackfillInv
    BY DEF IInv
  <2>2. ASSUME NEW t, ~Outstanding(t) PROVE ~Waiting(t)
    BY <2>2 DEF Waiting, Waits, Outstanding, CoveredBy
  <2>3. \A f \in fact : f.txn \in settled[f.name]
    BY <2>1 DEF SettledInv
  <2>4. \A c \in recs : c.txn \notin ghost.stray => \E f \in fact : SameKey(c, f) /\ c.name = f.name
    BY <2>1 DEF ParentInv
  <2>5. \A f \in fact :
          (/\ ~Outstanding(f.at) /\ f.at \notin ghost.owed /\ f.resp
           /\ f.name \in (switch.expanded \cap RecordNames) \ ghost.everOff
           /\ f.txn \notin ghost.straddled \cup ghost.split \cup ghost.stray) =>
          \E c \in recs : SameKey(c, f) /\ c.ver = switch.approved
    BY <2>1, <2>2 DEF BackfillInv
  <2> QED
    BY <2>3, <2>4, <2>5 DEF RecordsFollowFacts
<1> QED
  BY <1>1, IInvHolds, PTL
=============================================================================
