--------------------------- MODULE AlertFeedProofs ---------------------------
(***************************************************************************)
(* Theorems about AlertFeed for any transactions, rules, page limit, lag   *)
(* and lookback: type correctness, that no row a rule read past is without *)
(* its event, and that a cursor only moves forward.                        *)
(***************************************************************************)
EXTENDS AlertFeed, SetFacts, TLAPS

KeyRec  == [rule : Rules, txn : Txns, status : Statuses]
PageRec == [txn : Txns, status : Statuses, upd : Times]
Cursor  == Int \cup {Null}

\* The shape of the tables and of the tick.
Shape ==
    /\ now \in Times
    /\ rows \in [Txns -> RowRecord \cup {Null}] /\ writing \in [Txns -> RowRecord \cup {Null}]
    /\ rule \in [Rules -> [status : {"draft", "active", "inactive", "deleted"}, cursor : Cursor]]
    /\ outbox \subseteq KeyRec
    /\ tick \in [phase : {"idle", "publishing"}, rules : SUBSET Rules, cursors : [Rules -> Cursor],
                 lo : Int, hi : Int, page : SUBSET PageRec, todo : SUBSET KeyRec]
    /\ ghost \in [lost : SUBSET KeyRec, tied : SUBSET (Int \X Txns), begin : [Rules -> Cursor]]

\* A row is committed within CommitDelay of its stamp.
LateCommits == \A x \in Txns : writing[x] # Null => now <= writing[x].upd + CommitDelay

\* A rule that ran has a cursor behind the lag, and a first position.
CursorInv ==
    \A r \in Rules :
        /\ rule[r].cursor = Null <=> ghost.begin[r] = Null
        /\ rule[r].cursor # Null => -Lookback <= rule[r].cursor /\ rule[r].cursor <= now - Lag

PageRow(x) == [txn |-> x, status |-> rows[x].status, upd |-> rows[x].upd]

\* What the page of a tick leaves out of its window comes after a full page; a
\* row rewritten since it was read left the window.
WholePage(lo, hi, page) ==
    /\ IsFiniteSet(page)
    /\ \A p \in page : /\ lo <= p.upd /\ p.upd < hi
                       /\ p = PageRow(p.txn) \/ hi <= rows[p.txn].upd
    /\ \A x \in Txns : rows[x] # Null /\ Alertable(rows[x]) /\ lo <= rows[x].upd /\ rows[x].upd < hi =>
            \/ PageRow(x) \in page
            \/ Cardinality(page) >= Limit /\ \A p \in page : p.upd <= rows[x].upd

\* While a tick publishes, its rules stand where it read them, its window is the
\* one it read, and every candidate is persisted, still to do, or lost.
TickInv ==
    tick.phase = "publishing" =>
        /\ -Lookback <= tick.lo /\ tick.lo < tick.hi /\ tick.hi <= now - Lag
        /\ \A r \in tick.rules :
              /\ tick.cursors[r] = rule[r].cursor
              /\ rule[r].cursor # Null => tick.lo <= rule[r].cursor
        /\ WholePage(tick.lo, tick.hi, tick.page)
        /\ Candidates(tick.rules, tick.cursors, tick.page) \subseteq outbox \cup tick.todo \cup ghost.lost

FeedInv == LateCommits /\ CursorInv /\ TickInv /\ NoRowSkipped

-----------------------------------------------------------------------------
(* Facts about the operators.                                              *)

\* The greater of two cursors, where the code calls max().
LEMMA GreaterOfTwo ==
  ASSUME NEW a \in Int, NEW b \in Int
  PROVE  Max({a, b}) = IF a >= b THEN a ELSE b
<1> DEFINE S == {a, b}
           m == IF a >= b THEN a ELSE b
<1>1. S \in SUBSET Int /\ S # {} /\ m \in Int /\ \A x \in S : x <= m
  OBVIOUS
<1> HIDE DEF m, S
<1>2. Max(S) \in S /\ \A y \in S : y <= Max(S)
  BY <1>1, MaxIsGreatest
<1> QED
  BY <1>2 DEF S, m

\* The newest row of a page that is not empty.
LEMMA NewestOfPage ==
  ASSUME NEW page \in SUBSET PageRec, page # {}
  PROVE  /\ Max({p.upd : p \in page}) \in Int
         /\ \E p \in page : p.upd = Max({q.upd : q \in page})
         /\ \A p \in page : p.upd <= Max({q.upd : q \in page})
<1> DEFINE S == {p.upd : p \in page}
<1>1. S \in SUBSET Int /\ S # {} /\ MaxTime \in Int /\ \A x \in S : x <= MaxTime
  BY ConstantsAssumption DEF PageRec, Times
<1>2. \A p \in page : p.upd \in S
  OBVIOUS
<1>3. \A x \in S : \E p \in page : p.upd = x
  OBVIOUS
<1> HIDE DEF S
<1>4. Max(S) \in S /\ \A y \in S : y <= Max(S)
  BY <1>1, MaxIsGreatest
<1>5. Max(S) \in Int
  BY <1>1, <1>4
<1> QED
  BY <1>2, <1>3, <1>4, <1>5 DEF S

\* A page that reached the limit is not empty.
LEMMA FullPageHasRows ==
  ASSUME NEW page, Cardinality(page) >= Limit
  PROVE  page # {}
<1>1. Limit \in Nat \ {0}
  BY ConstantsAssumption
<1>2. page = {} => Cardinality(page) = 0
  BY FS_EmptySet
<1> QED
  BY <1>1, <1>2

\* The shared cursor moves forward inside its window; what it passes and the
\* page left out is tied at the start of the window (advance).
LEMMA AdvanceBounds ==
  ASSUME NEW lo \in Int, NEW hi \in Int, lo < hi,
         NEW page \in SUBSET PageRec, IsFiniteSet(page),
         \A p \in page : lo <= p.upd /\ p.upd < hi
  PROVE  /\ Advance(lo, hi, page) \in Int
         /\ lo < Advance(lo, hi, page) /\ Advance(lo, hi, page) <= hi
         /\ Cardinality(page) >= Limit =>
               \A u \in Int : /\ \A p \in page : p.upd <= u
                              /\ lo <= u /\ u < Advance(lo, hi, page)
                              => u = lo /\ \A p \in page : p.upd <= lo
<1> DEFINE newest == Max({p.upd : p \in page})
<1>0. Cardinality(page) \in Nat /\ Limit \in Nat \ {0}
  BY FS_CardinalityType, ConstantsAssumption
<1>1. CASE Cardinality(page) < Limit
  BY <1>0, <1>1 DEF Advance
<1>2. CASE ~(Cardinality(page) < Limit)
  <2>1. page # {}
    BY <1>0, <1>2, FullPageHasRows
  <2>2. /\ newest \in Int /\ \E p \in page : p.upd = newest
        /\ \A p \in page : p.upd <= newest
    BY <2>1, NewestOfPage
  <2>3. Advance(lo, hi, page) = IF newest > lo THEN newest ELSE lo + 1
    BY <1>2 DEF Advance
  <2> HIDE DEF newest
  <2>4. lo <= newest /\ newest < hi /\ \A p \in page : p.upd \in Int
    BY <2>2 DEF PageRec, Times
  <2> QED
    BY <2>2, <2>3, <2>4
<1> QED
  BY <1>1, <1>2

\* The shared cursor is the oldest of the rules' (read_window_for_group).
LEMMA OldestCursor ==
  ASSUME Shape, CursorInv, NEW active \in SUBSET Rules, active # {}
  PROVE  /\ GroupLo(active) \in Int /\ -Lookback <= GroupLo(active)
         /\ \A r \in active : rule[r].cursor # Null => GroupLo(active) <= rule[r].cursor
<1> DEFINE S == {Resolved(rule[r].cursor) : r \in active}
<1>0. -Lookback \in Int /\ now - Lookback \in Int /\ -Lookback <= now - Lookback
  BY ConstantsAssumption DEF Shape, Times
<1>1. \A r \in active : /\ Resolved(rule[r].cursor) \in Int /\ -Lookback <= Resolved(rule[r].cursor)
                        /\ rule[r].cursor # Null => Resolved(rule[r].cursor) = rule[r].cursor
  BY <1>0 DEF Shape, CursorInv, Cursor, Resolved
<1>2. S \in SUBSET Int /\ S # {} /\ \A x \in S : -Lookback <= x
  BY <1>1
<1>3. \A r \in active : Resolved(rule[r].cursor) \in S
  OBVIOUS
<1> HIDE DEF S
<1>4. Min(S) \in S /\ \A y \in S : Min(S) <= y
  BY <1>0, <1>2, MinIsLeast
<1>5. GroupLo(active) = Min(S)
  BY DEF GroupLo, S
<1> QED
  BY <1>1, <1>2, <1>3, <1>4, <1>5

\* A page is drawn from the window, and a row it leaves out comes after a full
\* page (window_stmt).
LEMMA PageIsPrefix ==
  ASSUME Shape, NEW lo \in Int, NEW hi \in Int, NEW page \in Pages(lo, hi)
  PROVE  page \in SUBSET PageRec /\ WholePage(lo, hi, page)
<1> DEFINE In == {y \in Txns : /\ rows[y] # Null /\ Alertable(rows[y])
                               /\ lo <= rows[y].upd /\ rows[y].upd < hi}
           in == {PageRow(x) : x \in In}
<1>1. /\ page \in SUBSET in /\ Cardinality(page) = Min({Limit, Cardinality(in)})
      /\ \A p \in page, q \in in \ page : p.upd <= q.upd
  BY DEF Pages, PageRow
<1>2. IsFiniteSet(in)
  <2>1. IsFiniteSet(In)
    BY ConstantsAssumption, FS_Subset
  <2> DEFINE f == [x \in In |-> PageRow(x)]
  <2>2. f \in Surjection(In, in)
    BY DEF Surjection
  <2> HIDE DEF in, In, f
  <2> QED
    BY <2>1, <2>2, FS_Surjection
<1>3. \A x \in In : PageRow(x) \in PageRec /\ PageRow(x).txn = x /\ PageRow(x).upd = rows[x].upd
  BY DEF Shape, PageRow, PageRec, RowRecord
<1>4. page \in SUBSET PageRec
  BY <1>1, <1>3
<1>5. \A p \in page : lo <= p.upd /\ p.upd < hi /\ p = PageRow(p.txn)
  BY <1>1, <1>3
<1>6. ASSUME NEW x \in In, PageRow(x) \notin page
      PROVE  Cardinality(page) >= Limit /\ \A p \in page : p.upd <= rows[x].upd
  <2>1. PageRow(x) \in in
    OBVIOUS
  <2>2. \A p \in page : p.upd <= rows[x].upd
    BY <1>1, <1>3, <1>6, <2>1
  <2>3. Cardinality(page) # Cardinality(in) /\ Cardinality(in) \in Nat
    <3> HIDE DEF in
    <3> QED
      BY <1>1, <1>2, <1>6, <2>1, FS_Subset, FS_CardinalityType
  <2>4. Cardinality(page) = Limit
    <3> DEFINE n == Cardinality(in)
               S == {Limit, n}
    <3>1. S \in SUBSET Int /\ S # {} /\ 0 \in Int /\ \A y \in S : 0 <= y
      BY <2>3, ConstantsAssumption
    <3>2. Min(S) \in S
      <4> HIDE DEF S
      <4> QED
        BY <3>1, MinIsLeast
    <3>3. Cardinality(page) = Min(S)
      BY <1>1
    <3> HIDE DEF n
    <3> QED
      BY <2>3, <3>2, <3>3 DEF n
  <2>5. Limit \in Nat
    BY ConstantsAssumption
  <2> QED
    BY <2>2, <2>4, <2>5
<1>7. IsFiniteSet(page)
  BY <1>1, <1>2, FS_Subset
<1> QED
  BY <1>4, <1>5, <1>6, <1>7 DEF WholePage

-----------------------------------------------------------------------------
(* Type correctness.                                                       *)

\* Before the first tick every table is empty and every cursor is unset.
LEMMA ShapeInit == Init => Shape
  BY ConstantsAssumption DEF Init, Shape, NoTick, Cursor, Times

\* What a commit of the cursors does: a rule of the tick moves to the greater of
\* its own cursor and the shared one, and a rule that never ran begins at the
\* start of the window.
LEMMA CursorsMove ==
  ASSUME Shape, CursorInv, TickInv, CommitCursors
  PROVE  LET moved == Advance(tick.lo, tick.hi, tick.page)
         IN  /\ moved \in Int /\ tick.lo < moved /\ moved <= tick.hi
             /\ \A r \in Rules :
                  rule'[r].cursor =
                     IF r \notin tick.rules THEN rule[r].cursor
                     ELSE IF rule[r].cursor = Null \/ rule[r].cursor < moved THEN moved
                     ELSE rule[r].cursor
             /\ \A r \in Rules :
                  ghost'.begin[r] = IF r \in tick.rules /\ ghost.begin[r] = Null
                                    THEN tick.lo ELSE ghost.begin[r]
             /\ ghost'.tied = ghost.tied \cup ({tick.lo} \X SteppedOver(tick.lo, tick.page))
             /\ ghost'.lost = ghost.lost
             /\ rule' \in [Rules -> [status : {"draft", "active", "inactive", "deleted"}, cursor : Cursor]]
             /\ ghost' \in [lost : SUBSET KeyRec, tied : SUBSET (Int \X Txns), begin : [Rules -> Cursor]]
<1> DEFINE moved == Advance(tick.lo, tick.hi, tick.page)
           begin == [r \in Rules |-> IF r \in tick.rules /\ ghost.begin[r] = Null
                                     THEN tick.lo ELSE ghost.begin[r]]
<1>1. /\ tick.phase = "publishing" /\ tick.lo \in Int /\ tick.hi \in Int
      /\ tick.page \in SUBSET PageRec /\ tick.rules \subseteq Rules
      /\ tick.cursors \in [Rules -> Cursor]
  BY DEF CommitCursors, Shape
<1>2. /\ tick.lo < tick.hi /\ IsFiniteSet(tick.page)
      /\ \A p \in tick.page : tick.lo <= p.upd /\ p.upd < tick.hi
      /\ \A r \in tick.rules : tick.cursors[r] = rule[r].cursor
  BY <1>1 DEF TickInv, WholePage
<1>3. moved \in Int /\ tick.lo < moved /\ moved <= tick.hi
  BY <1>1, <1>2, AdvanceBounds
<1>4. rule' = [r \in Rules |-> IF r \in tick.rules
                  THEN [rule[r] EXCEPT !.cursor = ForwardOnly(tick.cursors[r], moved)]
                  ELSE rule[r]]
  BY DEF CommitCursors
<1>5. ghost' = [ghost EXCEPT !.begin = begin,
                             !.tied = @ \cup ({tick.lo} \X SteppedOver(tick.lo, tick.page))]
  <2>1. ghost' = [ghost EXCEPT
                        !.begin = [r \in Rules |-> IF r \in tick.rules /\ @[r] = Null
                                                   THEN tick.lo ELSE @[r]],
                        !.tied = @ \cup ({tick.lo} \X SteppedOver(tick.lo, tick.page))]
    BY DEF CommitCursors
  <2> QED
    BY <2>1
<1> HIDE DEF moved, begin
<1>6. \A r \in tick.rules :
         ForwardOnly(tick.cursors[r], moved) =
            IF rule[r].cursor = Null \/ rule[r].cursor < moved THEN moved ELSE rule[r].cursor
  <2> SUFFICES ASSUME NEW r \in tick.rules
               PROVE  ForwardOnly(tick.cursors[r], moved) =
                        IF rule[r].cursor = Null \/ rule[r].cursor < moved THEN moved
                        ELSE rule[r].cursor
    OBVIOUS
  <2>1. tick.cursors[r] = rule[r].cursor /\ rule[r].cursor \in Cursor
    BY <1>1, <1>2
  <2>2. CASE rule[r].cursor = Null
    BY <2>1, <2>2 DEF ForwardOnly
  <2>3. CASE rule[r].cursor # Null
    <3>1. rule[r].cursor \in Int
      BY <2>1, <2>3 DEF Cursor
    <3>2. Max({rule[r].cursor, moved}) = IF rule[r].cursor >= moved THEN rule[r].cursor ELSE moved
      BY <1>3, <3>1, GreaterOfTwo
    <3> QED
      BY <1>3, <2>1, <2>3, <3>1, <3>2 DEF ForwardOnly
  <2> QED
    BY <2>2, <2>3
<1>7. /\ rule' \in [Rules -> [status : {"draft", "active", "inactive", "deleted"}, cursor : Cursor]]
      /\ \A r \in Rules :
            rule'[r].cursor =
               IF r \notin tick.rules THEN rule[r].cursor
               ELSE IF rule[r].cursor = Null \/ rule[r].cursor < moved THEN moved
               ELSE rule[r].cursor
  <2>1. rule \in [Rules -> [status : {"draft", "active", "inactive", "deleted"}, cursor : Cursor]]
    BY DEF Shape
  <2>2. \A r \in tick.rules : ForwardOnly(tick.cursors[r], moved) \in Cursor
    BY <1>1, <1>3, <1>6, <2>1 DEF Cursor
  <2> QED
    BY <1>1, <1>4, <1>6, <2>1, <2>2
<1>8. begin \in [Rules -> Cursor]
  BY <1>1 DEF begin, Shape, Cursor
<1>9. {tick.lo} \X SteppedOver(tick.lo, tick.page) \in SUBSET (Int \X Txns)
  BY <1>1 DEF SteppedOver
<1>10. /\ ghost'.begin = begin /\ ghost'.lost = ghost.lost
       /\ ghost'.tied = ghost.tied \cup ({tick.lo} \X SteppedOver(tick.lo, tick.page))
       /\ ghost' \in [lost : SUBSET KeyRec, tied : SUBSET (Int \X Txns), begin : [Rules -> Cursor]]
  <2>1. ghost \in [lost : SUBSET KeyRec, tied : SUBSET (Int \X Txns), begin : [Rules -> Cursor]]
    BY DEF Shape
  <2> QED
    BY <1>5, <1>8, <1>9, <2>1
<1> QED
  BY <1>3, <1>7, <1>10 DEF moved, begin

\* Every step keeps the types.
LEMMA ShapeNext == Shape /\ CursorInv /\ TickInv /\ [Next]_vars => Shape'
<1> SUFFICES ASSUME Shape, CursorInv, TickInv, [Next]_vars PROVE Shape'
  OBVIOUS
<1> USE ConstantsAssumption
<1>n. NoTick \in [phase : {"idle", "publishing"}, rules : SUBSET Rules, cursors : [Rules -> Cursor],
                  lo : Int, hi : Int, page : SUBSET PageRec, todo : SUBSET KeyRec]
  BY DEF NoTick, Cursor
<1>1. ASSUME NEW x \in Txns, CommitWrite(x) PROVE Shape'
  BY <1>1 DEF CommitWrite, Shape
<1>2. ASSUME NEW x \in Txns, NEW k \in Kinds, Write(x, k[1], k[2]) PROVE Shape'
  <2>1. Row(k[1], k[2]) \in RowRecord
    BY DEF Row, RowRecord, Shape
  <2>2. writing' \in [Txns -> RowRecord \cup {Null}]
    BY <1>2, <2>1 DEF Write, Shape
  <2> QED
    BY <1>2, <2>2 DEF Write, Shape
<1>3. CASE Pass
  BY <1>3 DEF Pass, Shape, Times
<1>4. CASE ReadFeed
  <2> DEFINE active == ActiveRules
             cursors == [r \in Rules |-> rule[r].cursor]
             lo == GroupLo(active)
             hi == WindowHi
  <2>1. /\ active \in SUBSET Rules /\ active # {} /\ cursors \in [Rules -> Cursor]
        /\ hi \in Int
    BY <1>4 DEF ReadFeed, ActiveRules, Shape, WindowHi, Times
  <2>2. lo \in Int
    BY <2>1, OldestCursor
  <2>3. PICK page \in Pages(lo, hi) :
          tick' = [phase |-> "publishing", rules |-> active, cursors |-> cursors,
                   lo |-> lo, hi |-> hi, page |-> page,
                   todo |-> Candidates(active, cursors, page) \ outbox]
    BY <1>4 DEF ReadFeed
  <2>4. UNCHANGED <<now, rows, writing, rule, outbox, ghost>>
    BY <1>4 DEF ReadFeed
  <2> HIDE DEF active, cursors, lo, hi
  <2>5. page \in SUBSET PageRec
    BY <2>1, <2>2, PageIsPrefix
  <2>6. Candidates(active, cursors, page) \ outbox \in SUBSET KeyRec
    BY <2>1 DEF Candidates, KeyRec
  <2>7. tick' \in [phase : {"idle", "publishing"}, rules : SUBSET Rules, cursors : [Rules -> Cursor],
                   lo : Int, hi : Int, page : SUBSET PageRec, todo : SUBSET KeyRec]
    BY <2>1, <2>2, <2>3, <2>5, <2>6
  <2> QED
    BY <2>4, <2>7 DEF Shape
<1>5. ASSUME NEW e \in tick.todo, Publish(e) PROVE Shape'
  BY <1>5 DEF Publish, Shape
<1>6. ASSUME NEW e \in tick.todo, PublishFails(e) PROVE Shape'
  <2>1. e \in KeyRec
    BY <1>6 DEF Shape
  <2>2. ghost' \in [lost : SUBSET KeyRec, tied : SUBSET (Int \X Txns), begin : [Rules -> Cursor]]
    BY <1>6, <2>1 DEF PublishFails, Shape
  <2>3. tick' \in [phase : {"idle", "publishing"}, rules : SUBSET Rules, cursors : [Rules -> Cursor],
                   lo : Int, hi : Int, page : SUBSET PageRec, todo : SUBSET KeyRec]
    BY <1>6 DEF PublishFails, Shape
  <2> QED
    BY <1>6, <2>2, <2>3 DEF PublishFails, Shape
<1>7. CASE CommitCursors
  <2>1. rule' \in [Rules -> [status : {"draft", "active", "inactive", "deleted"}, cursor : Cursor]]
    BY <1>7, CursorsMove
  <2>2. ghost' \in [lost : SUBSET KeyRec, tied : SUBSET (Int \X Txns), begin : [Rules -> Cursor]]
    BY <1>7, CursorsMove
  <2>3. UNCHANGED <<now, rows, writing, outbox>> /\ tick' = NoTick
    BY <1>7 DEF CommitCursors
  <2> QED
    BY <1>n, <2>1, <2>2, <2>3 DEF Shape
<1>8. CASE CommitRefused \/ Crash
  BY <1>8, <1>n DEF CommitRefused, Crash, Shape
<1>9. ASSUME NEW r \in Rules, NEW s \in {"active", "inactive", "deleted"}, SetRule(r, s) PROVE Shape'
  BY <1>9 DEF SetRule, Shape
<1>10. CASE SwitchTenant
  BY <1>10 DEF SwitchTenant, Shape
<1>11. CASE UNCHANGED vars
  BY <1>11 DEF vars, Shape
<1> QED
  BY <1>1, <1>2, <1>3, <1>4, <1>5, <1>6, <1>7, <1>8, <1>9, <1>10, <1>11 DEF Next, Engine

-----------------------------------------------------------------------------
(* No row is skipped.                                                      *)

\* No cursor has moved, so none has passed a row.
LEMMA FeedInvInit == Init => FeedInv
  BY DEF Init, FeedInv, LateCommits, CursorInv, TickInv, NoRowSkipped, Passed, NoTick

\* A writer commits in time, as the clock waits for it (Pass).
LEMMA LateCommitsNext == Shape /\ LateCommits /\ [Next]_vars => LateCommits'
<1> SUFFICES ASSUME Shape, LateCommits, [Next]_vars, NEW y \in Txns, writing'[y] # Null
             PROVE  now' <= writing'[y].upd + CommitDelay
  BY DEF LateCommits
<1> USE ConstantsAssumption
<1>1. ASSUME NEW x \in Txns, CommitWrite(x) PROVE now' <= writing'[y].upd + CommitDelay
  BY <1>1 DEF CommitWrite, Shape, LateCommits
<1>2. ASSUME NEW x \in Txns, NEW k \in Kinds, Write(x, k[1], k[2])
      PROVE  now' <= writing'[y].upd + CommitDelay
  BY <1>2 DEF Write, Row, Shape, LateCommits, Times
<1>3. CASE Pass
  BY <1>3 DEF Pass, Shape, LateCommits, RowRecord, Times
<1>4. CASE UNCHANGED <<now, writing>>
  BY <1>4 DEF LateCommits
<1> QED
  BY <1>1, <1>2, <1>3, <1>4 DEF Next, Engine, vars, ReadFeed, Publish, PublishFails, CommitCursors,
     CommitRefused, Crash, SetRule, SwitchTenant

\* Cursors stay behind the lag and never go back.
LEMMA CursorNext ==
  ASSUME Shape, CursorInv, TickInv, [Next]_vars
  PROVE  /\ CursorInv'
         /\ \A r \in Rules : rule[r].cursor # Null =>
               rule'[r].cursor # Null /\ rule[r].cursor <= rule'[r].cursor
<1> USE ConstantsAssumption
<1> DEFINE Goal == /\ CursorInv'
                   /\ \A r \in Rules : rule[r].cursor # Null =>
                         rule'[r].cursor # Null /\ rule[r].cursor <= rule'[r].cursor
<1>0. \A r \in Rules : rule[r].cursor # Null => rule[r].cursor \in Int
  BY DEF Shape, Cursor
<1>1. CASE CommitCursors
  <2> DEFINE moved == Advance(tick.lo, tick.hi, tick.page)
  <2>1. /\ moved \in Int /\ tick.lo < moved /\ moved <= tick.hi
        /\ \A r \in Rules :
             /\ rule'[r].cursor =
                  IF r \notin tick.rules THEN rule[r].cursor
                  ELSE IF rule[r].cursor = Null \/ rule[r].cursor < moved THEN moved
                  ELSE rule[r].cursor
             /\ ghost'.begin[r] = IF r \in tick.rules /\ ghost.begin[r] = Null
                                  THEN tick.lo ELSE ghost.begin[r]
    BY <1>1, CursorsMove
  <2> HIDE DEF moved
  <2>2. /\ -Lookback <= tick.lo /\ tick.hi <= now - Lag
        /\ tick.lo \in Int /\ tick.hi \in Int /\ now' = now /\ now \in Int
    BY <1>1 DEF CommitCursors, TickInv, Shape, Times
  <2>3. -Lookback \in Int /\ now - Lag \in Int /\ tick.lo # Null /\ moved # Null
    BY <2>1, <2>2
  <2> SUFFICES ASSUME NEW r \in Rules
               PROVE  /\ rule'[r].cursor = Null <=> ghost'.begin[r] = Null
                      /\ rule'[r].cursor # Null => /\ -Lookback <= rule'[r].cursor
                                                   /\ rule'[r].cursor <= now' - Lag
                      /\ rule[r].cursor # Null => /\ rule'[r].cursor # Null
                                                  /\ rule[r].cursor <= rule'[r].cursor
    BY DEF CursorInv
  <2>4. /\ rule[r].cursor = Null <=> ghost.begin[r] = Null
        /\ rule[r].cursor # Null => -Lookback <= rule[r].cursor /\ rule[r].cursor <= now - Lag
    BY DEF CursorInv
  <2> QED
    BY <1>0, <2>1, <2>2, <2>3, <2>4
<1>2. CASE Pass
  BY <1>0, <1>2 DEF Pass, CursorInv, Shape, Times
<1>3. ASSUME NEW s \in Rules, NEW st \in {"active", "inactive", "deleted"}, SetRule(s, st)
      PROVE  Goal
  <2>1. \A r \in Rules : rule'[r].cursor = rule[r].cursor
    BY <1>3 DEF SetRule, Shape
  <2> QED
    BY <1>0, <1>3, <2>1 DEF SetRule, CursorInv
<1>4. ASSUME NEW e \in tick.todo, PublishFails(e) PROVE Goal
  <2>1. UNCHANGED <<rule, now>> /\ ghost'.begin = ghost.begin
    BY <1>4 DEF PublishFails, Shape
  <2> QED
    BY <1>0, <2>1 DEF CursorInv
<1>5. CASE UNCHANGED <<rule, now, ghost>>
  BY <1>0, <1>5 DEF CursorInv
<1> QED
  BY <1>1, <1>2, <1>3, <1>4, <1>5 DEF Next, Engine, vars, ReadFeed, Publish, CommitWrite, Write,
     CommitRefused, Crash, SwitchTenant

\* A row committed now was stamped after the end of every window read so far.
LEMMA CommittedIsLate ==
  ASSUME Shape, LateCommits, NEW x \in Txns, CommitWrite(x)
  PROVE  /\ rows' = [rows EXCEPT ![x] = writing[x]] /\ rows'[x] = writing[x]
         /\ rows'[x].upd \in Int /\ now - Lag <= rows'[x].upd
         /\ \A y \in Txns : y # x => rows'[y] = rows[y]
<1>1. writing[x] # Null /\ writing[x] \in RowRecord
  BY DEF CommitWrite, Shape
<1> QED
  BY <1>1, ConstantsAssumption DEF CommitWrite, Shape, LateCommits, RowRecord, Times

\* The tick's invariant outlives what leaves its rows, rules and events alone.
LEMMA TickQuiet ==
  ASSUME Shape, TickInv, UNCHANGED <<rows, tick, outbox>>, ghost'.lost = ghost.lost,
         now' \in Int, now <= now', \A r \in Rules : rule'[r].cursor = rule[r].cursor
  PROVE  TickInv'
<1>1. tick.hi \in Int /\ now \in Int /\ tick.rules \subseteq Rules
  BY ConstantsAssumption DEF Shape, Times
<1> SUFFICES ASSUME tick.phase = "publishing" PROVE TickInv'
  BY DEF TickInv
<1>2. tick.hi <= now' - Lag
  BY <1>1, ConstantsAssumption DEF TickInv
<1>3. WholePage(tick.lo, tick.hi, tick.page)'
  BY DEF TickInv, WholePage, PageRow
<1>4. \A r \in tick.rules : /\ tick.cursors[r] = rule'[r].cursor
                            /\ rule'[r].cursor # Null => tick.lo <= rule'[r].cursor
  BY <1>1 DEF TickInv
<1>5. /\ -Lookback <= tick.lo /\ tick.lo < tick.hi
      /\ Candidates(tick.rules, tick.cursors, tick.page) \subseteq outbox \cup tick.todo \cup ghost.lost
  BY DEF TickInv
<1> QED
  BY <1>2, <1>3, <1>4, <1>5 DEF TickInv, Candidates

\* Every step keeps the page in hand complete up to its end.
LEMMA TickNext == Shape /\ LateCommits /\ CursorInv /\ TickInv /\ [Next]_vars => TickInv'
<1> SUFFICES ASSUME Shape, LateCommits, CursorInv, TickInv, [Next]_vars PROVE TickInv'
  OBVIOUS
<1> USE ConstantsAssumption
<1>0. now \in Int /\ tick.hi \in Int /\ tick.lo \in Int
  BY DEF Shape, Times
<1>1. ASSUME NEW x \in Txns, CommitWrite(x) PROVE TickInv'
  <2> SUFFICES ASSUME tick.phase = "publishing" PROVE TickInv'
    BY <1>1 DEF TickInv, CommitWrite
  <2>1. UNCHANGED <<now, rule, outbox, tick, ghost>>
    BY <1>1 DEF CommitWrite
  <2>2. /\ rows'[x].upd \in Int /\ now - Lag <= rows'[x].upd
        /\ \A y \in Txns : y # x => rows'[y] = rows[y]
    BY <1>1, CommittedIsLate
  <2>3. tick.hi <= rows'[x].upd
    BY <1>0, <2>2 DEF TickInv
  <2>4. \A p \in tick.page : p.txn \in Txns
    BY DEF Shape, PageRec
  <2>5. WholePage(tick.lo, tick.hi, tick.page)'
    <3>1. \A p \in tick.page : p = PageRow(p.txn)' \/ tick.hi <= rows'[p.txn].upd
      <4> SUFFICES ASSUME NEW p \in tick.page, p.txn # x
                   PROVE  p = PageRow(p.txn)' \/ tick.hi <= rows'[p.txn].upd
        BY <2>3
      <4>1. rows'[p.txn] = rows[p.txn]
        BY <2>2, <2>4
      <4> QED
        BY <4>1 DEF TickInv, WholePage, PageRow
    <3>2. ASSUME NEW y \in Txns, rows'[y] # Null, Alertable(rows'[y]),
                 tick.lo <= rows'[y].upd, rows'[y].upd < tick.hi
          PROVE  \/ PageRow(y)' \in tick.page
                 \/ Cardinality(tick.page) >= Limit /\ \A p \in tick.page : p.upd <= rows'[y].upd
      <4>1. y # x
        BY <1>0, <2>2, <2>3, <3>2
      <4>2. rows'[y] = rows[y]
        BY <2>2, <4>1
      <4> QED
        BY <3>2, <4>2 DEF TickInv, WholePage, PageRow
    <3>3. /\ IsFiniteSet(tick.page)
          /\ \A p \in tick.page : tick.lo <= p.upd /\ p.upd < tick.hi
      BY DEF TickInv, WholePage
    <3> QED
      BY <2>1, <3>1, <3>2, <3>3 DEF WholePage, PageRow
  <2> QED
    BY <2>1, <2>5 DEF TickInv, Candidates
<1>2. CASE ReadFeed
  <2> DEFINE Read == [r \in Rules |-> rule[r].cursor]
  <2>1. PICK active, cursors, lo, hi :
          /\ active = ActiveRules /\ cursors = Read /\ lo = GroupLo(ActiveRules) /\ hi = WindowHi
    OBVIOUS
  <2>2. /\ active \in SUBSET Rules /\ active # {} /\ lo < hi /\ hi = now - Lag
        /\ UNCHANGED <<now, rows, rule, outbox, ghost>>
    BY <1>2, <2>1 DEF ReadFeed, ActiveRules, WindowHi
  <2>3. PICK page \in Pages(lo, hi) :
          tick' = [phase |-> "publishing", rules |-> active, cursors |-> cursors,
                   lo |-> lo, hi |-> hi, page |-> page,
                   todo |-> Candidates(active, cursors, page) \ outbox]
    BY <1>2, <2>1 DEF ReadFeed
  <2>4. /\ lo \in Int /\ -Lookback <= lo
        /\ \A r \in active : rule[r].cursor # Null => lo <= rule[r].cursor
    BY <2>1, <2>2, OldestCursor
  <2>5. hi \in Int
    BY <1>0, <2>2
  <2>6. WholePage(lo, hi, page)
    BY <2>3, <2>4, <2>5, PageIsPrefix
  <2>7. WholePage(tick.lo, tick.hi, tick.page)'
    BY <2>2, <2>3, <2>6 DEF WholePage, PageRow
  <2>8. \A r \in active : cursors[r] = rule[r].cursor
    BY <2>1, <2>2
  <2> QED
    BY <2>2, <2>3, <2>4, <2>7, <2>8 DEF TickInv, Candidates
<1>3. ASSUME NEW e \in tick.todo, Publish(e) \/ PublishFails(e) PROVE TickInv'
  <2>1. /\ UNCHANGED <<now, rows, rule>>
        /\ tick' = [tick EXCEPT !.todo = @ \ {e}]
        /\ outbox \cup {e} \cup ghost.lost \subseteq outbox' \cup ghost'.lost
    BY <1>3 DEF Publish, PublishFails, Shape
  <2>2. /\ tick'.phase = tick.phase /\ tick'.lo = tick.lo /\ tick'.hi = tick.hi
        /\ tick'.page = tick.page /\ tick'.rules = tick.rules /\ tick'.cursors = tick.cursors
        /\ tick'.todo = tick.todo \ {e}
    BY <2>1 DEF Shape
  <2> QED
    BY <2>1, <2>2 DEF TickInv, WholePage, PageRow, Candidates
<1>4. CASE CommitCursors \/ CommitRefused \/ Crash
  BY <1>4 DEF CommitCursors, CommitRefused, Crash, NoTick, TickInv
<1>5. ASSUME NEW x \in Txns, NEW k \in Kinds, Write(x, k[1], k[2]) PROVE TickInv'
  BY <1>0, <1>5, TickQuiet DEF Write
<1>6. CASE Pass
  BY <1>0, <1>6, TickQuiet DEF Pass
<1>7. ASSUME NEW s \in Rules, NEW st \in {"active", "inactive", "deleted"}, SetRule(s, st)
      PROVE  TickInv'
  <2>1. \A r \in Rules : rule'[r].cursor = rule[r].cursor
    BY <1>7 DEF SetRule, Shape
  <2> QED
    BY <1>0, <1>7, <2>1, TickQuiet DEF SetRule
<1>8. CASE SwitchTenant
  BY <1>0, <1>8, TickQuiet DEF SwitchTenant
<1>9. CASE UNCHANGED vars
  BY <1>0, <1>9, TickQuiet DEF vars
<1> QED
  BY <1>1, <1>2, <1>3, <1>4, <1>5, <1>6, <1>7, <1>8, <1>9 DEF Next, Engine

\* What a commit of the cursors moves past: a row behind a rule's new cursor was
\* behind the old one, was on the page, or is tied with a full page.
LEMMA CommitSkipsNothing ==
  ASSUME Shape, CursorInv, TickInv, NoRowSkipped, CommitCursors
  PROVE  NoRowSkipped'
<1> USE ConstantsAssumption
<1> SUFFICES ASSUME NEW r \in Rules, NEW x \in Txns, Passed(r, x)'
             PROVE  \/ Key(r, x)' \in outbox' \cup ghost'.lost
                    \/ <<rows'[x].upd, x>> \in ghost'.tied
  BY DEF NoRowSkipped
<1>0. PICK moved : moved = Advance(tick.lo, tick.hi, tick.page)
  OBVIOUS
<1>1. /\ UNCHANGED <<now, rows, outbox>> /\ tick.todo = {} /\ tick.phase = "publishing"
      /\ moved \in Int /\ tick.lo < moved /\ moved <= tick.hi
      /\ rule'[r].cursor =
                  IF r \notin tick.rules THEN rule[r].cursor
                  ELSE IF rule[r].cursor = Null \/ rule[r].cursor < moved THEN moved
                  ELSE rule[r].cursor
      /\ ghost'.begin[r] = IF r \in tick.rules /\ ghost.begin[r] = Null
                           THEN tick.lo ELSE ghost.begin[r]
      /\ ghost'.tied = ghost.tied \cup ({tick.lo} \X SteppedOver(tick.lo, tick.page))
      /\ ghost'.lost = ghost.lost
  BY <1>0, CursorsMove DEF CommitCursors
<1>2. /\ rule'[r].cursor # Null /\ rows[x] # Null
      /\ ghost'.begin[r] <= rows[x].upd /\ rows[x].upd < rule'[r].cursor
      /\ Alertable(rows[x]) /\ rows[x].status \in Match[r] /\ Key(r, x)' = Key(r, x)
      /\ rows[x].upd \in Int /\ rows[x].status \in Statuses
  BY <1>1 DEF Passed, Alertable, Key, Shape, RowRecord, Times
<1>3. CASE Passed(r, x)
  BY <1>1, <1>2, <1>3 DEF NoRowSkipped
<1>4. CASE ~Passed(r, x)
  <2>1. rule[r].cursor # Null => rule[r].cursor \in Int
    BY DEF Shape, Cursor
  <2>2. r \in tick.rules
    BY <1>1, <1>2, <1>4 DEF Passed, CursorInv
  <2>3. tick.cursors[r] = rule[r].cursor /\ (rule[r].cursor # Null => tick.lo <= rule[r].cursor)
    BY <1>1, <2>2 DEF TickInv
  <2>4. /\ tick.lo <= rows[x].upd /\ rows[x].upd < moved
        /\ IsAfter(rows[x].upd, tick.cursors[r])
    <3>1. CASE rule[r].cursor = Null
      BY <1>1, <1>2, <2>2, <2>3, <3>1 DEF CursorInv, IsAfter
    <3>2. CASE rule[r].cursor # Null
      <4>1. ~(rows[x].upd < rule[r].cursor)
        BY <1>1, <1>2, <1>4, <3>2 DEF Passed, CursorInv
      <4>2. tick.lo \in Int
        BY DEF Shape
      <4> QED
        BY <1>1, <1>2, <2>1, <2>2, <2>3, <3>2, <4>1, <4>2 DEF IsAfter
    <3> QED
      BY <3>1, <3>2
  <2>5. /\ WholePage(tick.lo, tick.hi, tick.page) /\ tick.lo \in Int /\ tick.hi \in Int
        /\ tick.page \in SUBSET PageRec /\ tick.lo < tick.hi
    BY <1>1 DEF TickInv, Shape
  <2>6. rows[x].upd < tick.hi
    BY <1>1, <1>2, <2>4, <2>5
  <2>7. CASE PageRow(x) \in tick.page
    <3>1. Key(r, x) \in Candidates(tick.rules, tick.cursors, tick.page)
      BY <1>2, <2>2, <2>4, <2>7 DEF Candidates, Key, PageRow
    <3> QED
      BY <1>1, <1>2, <3>1 DEF TickInv
  <2>8. CASE PageRow(x) \notin tick.page
    <3>1. Cardinality(tick.page) >= Limit /\ \A p \in tick.page : p.upd <= rows[x].upd
      BY <1>2, <2>4, <2>5, <2>6, <2>8 DEF WholePage
    <3>2. rows[x].upd = tick.lo /\ \A p \in tick.page : p.upd <= tick.lo
      <4>1. \A u \in Int : /\ \A p \in tick.page : p.upd <= u
                           /\ tick.lo <= u /\ u < moved
                           => u = tick.lo /\ \A p \in tick.page : p.upd <= tick.lo
        BY <1>0, <2>5, <3>1, AdvanceBounds DEF WholePage
      <4> QED
        BY <1>2, <2>4, <3>1, <4>1
    <3>3. x \notin {p.txn : p \in tick.page}
      <4> SUFFICES ASSUME NEW p \in tick.page, p.txn = x PROVE FALSE
        OBVIOUS
      <4>1. p = PageRow(x) \/ tick.hi <= rows[x].upd
        BY <2>5 DEF WholePage
      <4> QED
        BY <1>2, <2>5, <2>6, <2>8, <4>1
    <3>4. x \in SteppedOver(tick.lo, tick.page)
      BY <1>2, <3>1, <3>2, <3>3 DEF SteppedOver
    <3> QED
      BY <1>1, <3>2, <3>4
  <2> QED
    BY <2>7, <2>8
<1> QED
  BY <1>3, <1>4

\* No step moves a cursor over a row whose event is missing.
LEMMA SkippedNext ==
  ASSUME Shape, LateCommits, CursorInv, TickInv, NoRowSkipped, [Next]_vars
  PROVE  NoRowSkipped'
<1> USE ConstantsAssumption
<1>1. ASSUME NEW x \in Txns, CommitWrite(x) PROVE NoRowSkipped'
  <2> SUFFICES ASSUME NEW r \in Rules, NEW y \in Txns, Passed(r, y)'
               PROVE  \/ Key(r, y)' \in outbox' \cup ghost'.lost
                      \/ <<rows'[y].upd, y>> \in ghost'.tied
    BY DEF NoRowSkipped
  <2>1. /\ rows'[x].upd \in Int /\ now - Lag <= rows'[x].upd
        /\ \A z \in Txns : z # x => rows'[z] = rows[z]
    BY <1>1, CommittedIsLate
  <2>2. UNCHANGED <<rule, outbox, ghost, now>>
    BY <1>1 DEF CommitWrite
  <2>3. y # x
    <3>1. rule[r].cursor # Null /\ rows'[y].upd < rule[r].cursor
      BY <2>2 DEF Passed
    <3>2. rule[r].cursor \in Int /\ rule[r].cursor <= now - Lag /\ now \in Int
      BY <3>1 DEF Shape, Cursor, CursorInv, Times
    <3> QED
      BY <2>1, <3>1, <3>2
  <2>4. rows'[y] = rows[y]
    BY <2>1, <2>3
  <2> QED
    BY <2>2, <2>4 DEF NoRowSkipped, Passed, Key
<1>2. CASE CommitCursors
  BY <1>2, CommitSkipsNothing
<1>3. ASSUME NEW e \in tick.todo, Publish(e) \/ PublishFails(e) PROVE NoRowSkipped'
  <2>1. /\ UNCHANGED <<rows, rule>> /\ ghost'.begin = ghost.begin /\ ghost'.tied = ghost.tied
        /\ outbox \cup ghost.lost \subseteq outbox' \cup ghost'.lost
    BY <1>3 DEF Publish, PublishFails, Shape
  <2> QED
    BY <2>1 DEF NoRowSkipped, Passed, Key
<1>4. ASSUME NEW s \in Rules, NEW st \in {"active", "inactive", "deleted"}, SetRule(s, st)
      PROVE  NoRowSkipped'
  <2>1. \A r \in Rules : rule'[r].cursor = rule[r].cursor
    BY <1>4 DEF SetRule, Shape
  <2> QED
    BY <1>4, <2>1 DEF SetRule, NoRowSkipped, Passed, Key
<1>5. CASE UNCHANGED <<rows, rule, outbox, ghost>>
  BY <1>5 DEF NoRowSkipped, Passed, Key
<1> QED
  BY <1>1, <1>2, <1>3, <1>4, <1>5 DEF Next, Engine, vars, Pass, Write, ReadFeed, CommitRefused,
     Crash, SwitchTenant

\* The four parts of the invariant are inductive together.
LEMMA FeedInvNext == Shape /\ FeedInv /\ [Next]_vars => FeedInv'
  BY LateCommitsNext, CursorNext, TickNext, SkippedNext DEF FeedInv

\* The invariant of the feed holds for ever.
LEMMA FeedInvariant == Spec => [](Shape /\ FeedInv)
<1>1. Shape /\ FeedInv /\ [Next]_vars => Shape' /\ FeedInv'
  BY ShapeNext, FeedInvNext DEF FeedInv
<1> QED
  BY <1>1, ShapeInit, FeedInvInit, PTL DEF Spec

-----------------------------------------------------------------------------
\* Type correctness; a cursor stays behind the lag.
THEOREM TypeCorrect == Spec => []TypeOK
<1>1. Shape /\ FeedInv => TypeOK
  BY DEF Shape, FeedInv, CursorInv, TypeOK, KeyRec
<1> QED
  BY <1>1, FeedInvariant, PTL

\* No row is skipped, however rules share pages, rows tie or commit late, pages
\* are cut, publishes fail, ticks crash and rules pause: a row behind a rule's
\* cursor has its event, was lost by the bus, or was tied with a full page.
THEOREM NothingSkipped == Spec => []NoRowSkipped
<1>1. FeedInv => NoRowSkipped
  BY DEF FeedInv
<1> QED
  BY <1>1, FeedInvariant, PTL

\* The cursor of a rule never moves back, a rule that
\* joins a shared window late included.
CursorsMoveOn ==
    [][\A r \in Rules : rule[r].cursor # Null =>
          rule'[r].cursor # Null /\ rule[r].cursor <= rule'[r].cursor]_vars

\* No commit of a tick moves a cursor back or unsets it, whatever the shared cursor
\* of the feed is (advance, _forward_only).
THEOREM CursorsOnlyAdvance == Spec => CursorsMoveOn
<1>1. Shape /\ FeedInv /\ [Next]_vars =>
        [\A r \in Rules : rule[r].cursor # Null =>
            rule'[r].cursor # Null /\ rule[r].cursor <= rule'[r].cursor]_vars
  BY CursorNext DEF FeedInv
<1> QED
  BY <1>1, FeedInvariant, PTL DEF Spec, CursorsMoveOn
=============================================================================
