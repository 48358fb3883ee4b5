------------------------------- MODULE Grouping -------------------------------
(***************************************************************************)
(* Stage 2's grouping pass (_group): one tenant's log lines, in stream     *)
(* order, are dealt into builders, one per request/response conversation.  *)
(*                                                                         *)
(* A line keeps what routing looks at. A builder is an object with         *)
(* identity: the maps below hold builder numbers, so one conversation can  *)
(* sit in several slots and a finished one can still grow.                 *)
(***************************************************************************)
EXTENDS Integers, Sequences, SequencesExt, FiniteSetsExt, TLC

CONSTANTS
    Traffics,    \* kinds of stream: the line shapes and the seconds between lines
    Gap,         \* settings.log_open_gap_seconds
    LateWindow,  \* LATE_WORK_WINDOW
    MaxLines     \* bound: length of the batch

None == "none"
NoTime == -1
Work == {"mi_call", "mi_result", "sql", "info", "error"}    \* _INTERNAL

ShapeOK(s) ==
    /\ DOMAIN s = {"type", "server", "thread", "user", "payload", "rid", "stamped"}
    /\ s.type \in Work \cup {"request", "request_body", "response"}
    /\ s.stamped => s.rid # None /\ s.type \notin {"sql", "info", "error"}
    /\ s.payload # None => s.type \in {"request", "request_body", "mi_call"}

ASSUME GroupingAssumptions ==
    /\ \A t \in Traffics : /\ \A s \in t.shapes : ShapeOK(s)
                           /\ t.advances \subseteq Nat \cup {NoTime}
    /\ LateWindow \in Nat /\ Gap \in Nat /\ LateWindow < Gap
    /\ MaxLines \in Nat

VARIABLES
    stream,   \* the lines read so far, in order
    g,        \* the grouper: bld, open, cur, ids, pending, closed, done
    traffic,  \* the kind of stream this batch is, never changed
    phase     \* "reading" | "emitted"

vars == <<stream, g, traffic, phase>>

(***************************************************************************)
(* Lines and builders.                                                     *)
(***************************************************************************)
\* The log4net user of a line, else the user in its payload (req_user, _entry_user).
ReqUser(e) == IF e.user # None THEN e.user ELSE e.payload

\* txn_user: the first context user of the builder, else its first payload user.
TxnUser(b) ==
    LET ctx  == SelectSeq(b.entries, LAMBDA e : e.user # None)
        paid == SelectSeq(b.entries, LAMBDA e : e.payload # None)
    IN  IF ctx # <<>> THEN Head(ctx).user
        ELSE IF paid # <<>> THEN Head(paid).payload ELSE None

HasRequest(b) == \E i \in DOMAIN b.entries : b.entries[i].type = "request"

\* The timestamp of the last line ADDED to the builder that has one.
LastTs(b) ==
    LET timed == SelectSeq(b.entries, LAMBDA e : e.time # NoTime)
    IN  IF timed = <<>> THEN NoTime ELSE Last(timed).time

\* The last line added is an M3 call.
AwaitingM3(b) == Last(b.entries).type = "mi_call"

\* A builder: its lines, its position in the stream (the number of the line that
\* opened it), the request id it was opened by.
Builder(lines, pos, rid) == [entries |-> lines, pos |-> pos, rid |-> rid]

EmptyMap == [k \in {} |-> 0]

Grouper == [bld |-> <<>>, open |-> EmptyMap, cur |-> EmptyMap, ids |-> EmptyMap,
            pending |-> <<>>, closed |-> EmptyMap, done |-> <<>>]

Without(f, S) == [k \in DOMAIN f \ S |-> f[k]]
With(f, k, v) == [j \in DOMAIN f \cup {k} |-> IF j = k THEN v ELSE f[j]]

\* (bug) the slot is the thread's, whoever its user is.
MutantThreadOnly(server, thread, user) == <<server, thread, None, 0>>

Named(server, thread, user) == <<server, thread, user, 0>>
Anonymous(e) == <<e.server, e.thread, None, e.n>>
ThreadOf(key) == <<key[1], key[2]>>
Fresh(G) == Len(G.bld) + 1

AddLine(G, b, e) == [G EXCEPT !.bld[b].entries = Append(@, e)]
Finish1(G, b) == [G EXCEPT !.done = Append(@, b)]

\* A new builder, kept under a slot that becomes its thread's current stream.
OpenAt(G, key, b) ==
    [G EXCEPT !.open = With(@, key, b), !.cur = With(@, ThreadOf(key), key)]
NewBuilder(G, builder) == [G EXCEPT !.bld = Append(@, builder)]

\* close: the slots leave open_by_key, the threads they are current on forget
\* them, and a stamped builder is no longer found by its id.
Close(G, keys) ==
    LET bs == {G.open[k] : k \in keys}
    IN  [G EXCEPT !.open = Without(@, keys),
                  !.cur  = Without(@, {t \in DOMAIN @ : @[t] \in keys}),
                  !.ids  = Without(@, {r \in DOMAIN @ : @[r] \in bs})]

Remember(G, key, b, e) ==
    IF e.time = NoTime THEN G ELSE [G EXCEPT !.closed = With(@, key, <<b, e.time>>)]

(***************************************************************************)
(* evict_stale: what has been silent longer than the gap is finished.      *)
(***************************************************************************)
Silent(G, b, now) == LastTs(G.bld[b]) # NoTime /\ LastTs(G.bld[b]) < now - Gap

EvictOpen(G, now) ==
    LET keys == {k \in DOMAIN G.open : Silent(G, G.open[k], now)}
        out  == [i \in 1..Cardinality(keys) |-> G.open[SetToSeq(keys)[i]]]
    IN  [Close(G, keys) EXCEPT !.done = @ \o out]

EvictIds(G, now) ==
    LET rids == {r \in DOMAIN G.ids : Silent(G, G.ids[r], now)}
        out  == [i \in 1..Cardinality(rids) |-> G.ids[SetToSeq(rids)[i]]]
    IN  [G EXCEPT !.ids = Without(@, rids), !.done = @ \o out]

EvictPending(G, now) ==
    LET stale(r) == r.time # NoTime /\ r.time < now - Gap
        old      == SelectSeq(G.pending, stale)
        alone    == [i \in DOMAIN old |-> Builder(<<old[i]>>, old[i].n, None)]
    IN  [G EXCEPT !.pending = SelectSeq(@, LAMBDA r : ~stale(r)),
                  !.bld  = @ \o alone,
                  !.done = @ \o [i \in DOMAIN old |-> Len(G.bld) + i]]

\* (bug) nothing is ever evicted.
MutantNoEviction(G, now) == G

EvictStale(G, now) ==
    IF now = NoTime THEN G ELSE EvictPending(EvictIds(EvictOpen(G, now), now), now)

(***************************************************************************)
(* The pools of pending requests. A take returns the index to consume, 0   *)
(* for none: the last index satisfying the first preference that any does. *)
(***************************************************************************)
LastIndex(S) == IF S = {} THEN 0 ELSE Max(S)
FirstIndex(S) == IF S = {} THEN 0 ELSE Min(S)
OrElse(i, j) == IF i # 0 THEN i ELSE j

\* Every pool is scoped to the server that wrote the line.
Pool(G, server) == {i \in DOMAIN G.pending : G.pending[i].server = server}

TakeByReqid(G, e) ==
    IF e.rid = None THEN 0
    ELSE FirstIndex({i \in Pool(G, e.server) : G.pending[i].rid = e.rid})

TakePostRequest(G, e, u) ==
    LET idless == {i \in Pool(G, e.server) : G.pending[i].rid = None}
        mine   == {i \in idless : ReqUser(G.pending[i]) = u}
    IN  IF u = None THEN LastIndex(idless)
        ELSE OrElse(LastIndex({i \in mine : G.pending[i].thread = e.thread}),
                    OrElse(LastIndex(mine), LastIndex(idless)))

TakeByUser(G, e, u) ==
    LET mine == {i \in Pool(G, e.server) : ReqUser(G.pending[i]) = u}
    IN  IF u = None THEN 0
        ELSE OrElse(LastIndex({i \in mine : G.pending[i].thread = e.thread}), LastIndex(mine))

TakeAnonymous(G, e) ==
    LastIndex({i \in Pool(G, e.server) : /\ G.pending[i].thread = e.thread
                                         /\ ReqUser(G.pending[i]) = None})

\* (bug) the request stays in the pool.
MutantBindCopies(G, i, b) ==
    IF i = 0 THEN G ELSE [G EXCEPT !.bld[b].entries = Append(@, G.pending[i]),
                                   !.bld[b].pos = G.pending[i].n]

\* The request at index i moves into builder b, whose position becomes its own.
Bind(G, i, b) ==
    IF i = 0 THEN G
    ELSE [G EXCEPT !.pending = RemoveAt(@, i),
                   !.bld[b].entries = Append(@, G.pending[i]),
                   !.bld[b].pos = G.pending[i].n]

(***************************************************************************)
(* Lines the new log format stamps with the request id.                    *)
(***************************************************************************)
\* open_id_builder, then the line: the conversation of (server, id) takes the
\* line's slot. Headless work found there is absorbed; any other occupant is
\* replaced.
RouteStamped(G, e) ==
    LET id    == <<e.server, e.rid>>
        known == id \in DOMAIN G.ids
        b     == IF known THEN G.ids[id] ELSE Fresh(G)
        G1    == IF known THEN G
                 ELSE [NewBuilder(G, Builder(<<>>, e.n, e.rid)) EXCEPT !.ids = With(@, id, b)]
        key   == Named(e.server, e.thread, e.user)
        prior == IF key \in DOMAIN G1.open THEN G1.open[key] ELSE b
        headless == prior # b /\ G1.bld[prior].rid = None /\ ~HasRequest(G1.bld[prior])
        G2    == IF ~headless THEN G1
                 ELSE [G1 EXCEPT !.bld[b].entries = @ \o G1.bld[prior].entries,
                                 !.bld[b].pos = Min({@, G1.bld[prior].pos})]
    IN  AddLine(OpenAt(G2, key, b), b, e)

\* close_id_builder: the response releases every slot of its conversation.
RouteStampedResponse(G, e) ==
    LET id    == <<e.server, e.rid>>
        known == id \in DOMAIN G.ids
        b     == IF known THEN G.ids[id] ELSE Fresh(G)
        slots == {k \in DOMAIN G.open : G.open[k] = b}
        G1    == IF ~known THEN NewBuilder(G, Builder(<<>>, e.n, None))
                 ELSE [G EXCEPT !.ids  = Without(@, {id}),
                                !.open = Without(@, slots),
                                !.cur  = Without(@, {t \in DOMAIN @ : @[t] \in slots})]
        G2    == Finish1(AddLine(G1, b, e), b)
        head  == Head(G2.bld[b].entries)
    IN  Remember(G2, Named(e.server, head.thread, head.user), b, e)

(***************************************************************************)
(* Lines without a stamp.                                                  *)
(***************************************************************************)
RouteRequest(G, e) == [G EXCEPT !.pending = Append(@, e)]

\* A body opens a new cycle on its (server, thread, user); a cycle still open
\* there had no response.
RouteBody(G, e) ==
    LET u   == ReqUser(e)
        key == Named(e.server, e.thread, u)
        G1  == IF key \in DOMAIN G.open THEN Finish1(Close(G, {key}), G.open[key]) ELSE G
        i   == OrElse(TakeByReqid(G1, e), TakePostRequest(G1, e, u))
        b   == Fresh(G1)
        G2  == Bind(NewBuilder(G1, Builder(<<>>, e.n, None)), i, b)
    IN  OpenAt(AddLine(G2, b, e), key, b)

\* rejoin_late_work: the conversation closed on this key within the window.
LateOwner(G, key, e) ==
    IF key \in DOMAIN G.closed /\ e.time # NoTime /\ e.time - G.closed[key][2] <= LateWindow
    THEN G.closed[key][1] ELSE 0

\* A conversation that is past the window is forgotten when its key is met.
ForgetLate(G, key, e) ==
    IF e.time # NoTime /\ LateOwner(G, key, e) = 0 THEN [G EXCEPT !.closed = Without(@, {key})] ELSE G

\* A GET request is bound to its user's work as soon as the user is known.
BindUser(G, b, e) ==
    LET u == ReqUser(e)
    IN  IF u = None \/ HasRequest(G.bld[b]) THEN G ELSE Bind(G, TakeByUser(G, e, u), b)

RouteUserWork(G, e) ==
    LET key   == Named(e.server, e.thread, e.user)
        tries == /\ key \notin DOMAIN G.open
                 /\ ~\E i \in Pool(G, e.server) : /\ G.pending[i].thread = e.thread
                                                  /\ ReqUser(G.pending[i]) = e.user
        late  == IF tries THEN LateOwner(G, key, e) ELSE 0
        G1    == IF tries THEN ForgetLate(G, key, e) ELSE G
        b     == IF key \in DOMAIN G.open THEN G.open[key] ELSE Fresh(G)
        G2    == IF key \in DOMAIN G.open THEN G1
                 ELSE NewBuilder(G1, Builder(<<>>, e.n, None))
    IN  IF late # 0 THEN AddLine(G1, late, e)
        ELSE BindUser(AddLine(OpenAt(G2, key, b), b, e), b, e)

\* A line with no user belongs to whatever is live on its thread.
RouteAnonymousWork(G, e) ==
    LET thread == <<e.server, e.thread>>
        live   == thread \in DOMAIN G.cur /\ G.cur[thread] \in DOMAIN G.open
        b      == IF live THEN G.open[G.cur[thread]] ELSE Fresh(G)
        G1     == IF live THEN G
                  ELSE Bind(OpenAt(NewBuilder(G, Builder(<<>>, e.n, None)), Anonymous(e), b),
                            TakeAnonymous(G, e), b)
    IN  BindUser(AddLine(G1, b, e), b, e)

\* rank: most recently heard from first, the older position on a tie.
Above(x, y) == x[1] > y[1] \/ (x[1] = y[1] /\ x[2] <= y[2])
BuilderRank(b) == <<LastTs(b), b.pos>>
RequestRank(r) == <<r.time, r.n>>

\* The open slots and pending requests a response without a stamp may close.
Candidates(G, e) ==
    LET keys == {k \in DOMAIN G.open : k[1] = e.server /\ G.bld[G.open[k]].rid = None}
        mine == {k \in keys : TxnUser(G.bld[G.open[k]]) = e.user}
        reqs == Pool(G, e.server)
        own  == {i \in reqs : ReqUser(G.pending[i]) = e.user}
    IN  IF mine = {} /\ own = {} THEN [keys |-> keys, reqs |-> reqs]
        ELSE [keys |-> mine, reqs |-> own]

\* Conversations blocked on M3 are dropped unless nothing else is left.
Unblocked(G, c) ==
    LET settled == {k \in c.keys : ~AwaitingM3(G.bld[G.open[k]])}
    IN  IF settled = {} /\ c.reqs = {} THEN c.keys ELSE settled

\* The slot the response closes (a set of at most one).
BestKey(G, e) ==
    LET c == Candidates(G, e)
        u == Unblocked(G, c)
    IN  {k \in u : /\ \A j \in u : Above(BuilderRank(G.bld[G.open[k]]), BuilderRank(G.bld[G.open[j]]))
                   /\ \A i \in c.reqs : Above(BuilderRank(G.bld[G.open[k]]), RequestRank(G.pending[i]))}

\* The pending request it answers when no slot ranks above all of them.
BestRequest(G, e) ==
    {i \in Candidates(G, e).reqs :
        \A j \in Candidates(G, e).reqs : Above(RequestRank(G.pending[i]), RequestRank(G.pending[j]))}

RouteResponse(G, e) ==
    LET b  == Fresh(G)
        G1 == NewBuilder(G, Builder(<<>>, e.n, None))
    IN  IF BestKey(G, e) # {}
        THEN LET k == CHOOSE k \in BestKey(G, e) : TRUE
             IN  Remember(Finish1(AddLine(Close(G, {k}), G.open[k], e), G.open[k]),
                          Named(k[1], k[2], k[3]), G.open[k], e)
        ELSE IF BestRequest(G, e) # {}
        THEN LET i == CHOOSE i \in BestRequest(G, e) : TRUE
                 r == G.pending[i]
             IN  Remember(Finish1(AddLine(Bind(G1, i, b), b, e), b),
                          Named(e.server, r.thread, ReqUser(r)), b, e)
        ELSE Finish1(AddLine(G1, b, e), b)

\* A body whose id opened a stamped conversation joins it by that id.
ById(G, e) == e.stamped \/ (e.type = "request_body" /\ <<e.server, e.rid>> \in DOMAIN G.ids)

Route(G, e) ==
    CASE ById(G, e) /\ e.type = "response" -> RouteStampedResponse(G, e)
      [] ById(G, e) /\ e.type # "response" -> RouteStamped(G, e)
      [] ~ById(G, e) /\ e.type = "request" -> RouteRequest(G, e)
      [] ~ById(G, e) /\ e.type = "request_body" -> RouteBody(G, e)
      [] ~ById(G, e) /\ e.type = "response" -> RouteResponse(G, e)
      [] ~ById(G, e) /\ e.type \in Work /\ e.user # None -> RouteUserWork(G, e)
      [] ~ById(G, e) /\ e.type \in Work /\ e.user = None -> RouteAnonymousWork(G, e)

(***************************************************************************)
(* The pass.                                                               *)
(***************************************************************************)
Init == stream = <<>> /\ g = Grouper /\ traffic \in Traffics /\ phase = "reading"

\* ORDER BY timestamp NULLS LAST: times do not decrease, untimed lines trail.
TimeAfter(d) ==
    IF stream = <<>> THEN d
    ELSE IF d = NoTime \/ Last(stream).time = NoTime THEN NoTime ELSE Last(stream).time + d

Feed(s, d) ==
    LET e == s @@ [n |-> Len(stream) + 1, time |-> TimeAfter(d)]
        G == EvictStale(g, e.time)
    IN  /\ phase = "reading" /\ Len(stream) < MaxLines
        /\ stream' = Append(stream, e)
        /\ g' = Route(G, e)
        /\ UNCHANGED <<traffic, phase>>

\* The builders still open, by slot or by id, that carry a request id.
OpenById == {b \in {g.open[k] : k \in DOMAIN g.open} \cup {g.ids[r] : r \in DOMAIN g.ids} :
                g.bld[b].rid # None}

\* The end of the pass emits one open stamped builder per request id: the
\* first in map order, which is any of them here.
StampedEmissions == {B \in SUBSET OpenById :
    \A b \in OpenById : Cardinality({c \in B : g.bld[c].rid = g.bld[b].rid}) = 1}

\* Then the old-style builders, one per slot, and every unanswered request.
Emit(B) ==
    LET old   == {k \in DOMAIN g.open : g.bld[g.open[k]].rid = None}
        alone == [i \in DOMAIN g.pending |-> Builder(<<g.pending[i]>>, g.pending[i].n, None)]
    IN  /\ phase = "reading"
        /\ phase' = "emitted"
        /\ g' = [g EXCEPT !.bld  = @ \o alone,
                          !.done = @ \o [i \in 1..Cardinality(old) |-> g.open[SetToSeq(old)[i]]]
                                     \o SetToSeq(B)
                                     \o [i \in DOMAIN alone |-> Len(g.bld) + i],
                          !.pending = <<>>]
        /\ UNCHANGED <<stream, traffic>>

Next ==
    \/ \E s \in traffic.shapes, d \in traffic.advances : Feed(s, d)
    \/ \E B \in StampedEmissions : Emit(B)

Spec == Init /\ [][Next]_vars

-----------------------------------------------------------------------------
(***************************************************************************)
(* Properties.                                                             *)
(***************************************************************************)
TypeOK ==
    /\ phase \in {"reading", "emitted"} /\ traffic \in Traffics
    /\ \A k \in DOMAIN g.open : g.open[k] \in DOMAIN g.bld
    /\ \A r \in DOMAIN g.ids : g.ids[r] \in DOMAIN g.bld
    /\ \A t \in DOMAIN g.cur : g.cur[t] \in DOMAIN g.open
    /\ \A i \in DOMAIN g.done : g.done[i] \in DOMAIN g.bld

Lines(b) == Range(b.entries)
Groups == {g.bld[g.done[i]] : i \in DOMAIN g.done}

\* The places where the line numbered n ends up: emission and place within it.
Places(n) == {<<d, i>> \in (DOMAIN g.done) \X (1..Len(stream)) :
                 /\ i \in DOMAIN g.bld[g.done[d]].entries
                 /\ g.bld[g.done[d]].entries[i].n = n}

\* Every line of the batch is in exactly one group when the pass ends, and in
\* no two before: a line left out stays unassigned and no ticket asks for it
\* again, one emitted twice would be written under two ids or skipped.
EveryLineOnce ==
    \A n \in 1..Len(stream) :
        /\ Cardinality(Places(n)) <= 1
        /\ phase = "emitted" => Places(n) # {}

\* No group mixes conversations, whatever threads, users and request ids they
\* share: its lines are of one server, its work lines of one user even on a
\* thread that flips between users, it holds one response at most, and what
\* follows the response is a tail line within the late-work window.
OneConversation ==
    \A b \in Groups :
        /\ \A e, f \in Lines(b) :
              /\ e.server = f.server
              /\ (e.type \in Work /\ f.type \in Work /\ e.user # None /\ f.user # None)
                    => e.user = f.user
        /\ \A r \in Lines(b) : r.type = "response" =>
              \A e \in Lines(b) : /\ e.type = "response" => e = r
                                  /\ e.n > r.n => e.time - r.time <= LateWindow

\* No group bridges a silence longer than the gap: what follows a quiet gap is
\* grouped as if the stream began there, which scoped rebuilds rely on.
NoBridge ==
    \A b \in Groups : \A e \in Lines(b) :
        \/ e.time = NoTime
        \/ \A f \in Lines(b) : f.time = NoTime \/ f.time <= e.time
        \/ \E f \in Lines(b) : f.time # NoTime /\ f.time > e.time /\ f.time - e.time <= Gap
=============================================================================
