------------------------------ MODULE Stitching ------------------------------
(***************************************************************************)
(* Stage 2 around the grouping pass: the dirty-window queue                *)
(* (log_regroup_pending), the finalizers that drain it window by window,   *)
(* the full or ranged rebuild an operator starts, and the transactions and *)
(* assignments they write, for one tenant.                                 *)
(*                                                                         *)
(* A window rebuild and each half of a full rebuild run in one database    *)
(* transaction under the tenant's advisory lock, so each is one step; any  *)
(* other process may come between two of them.  The grouping pass itself   *)
(* (module Grouping) is abstracted to what rebuilding depends on: lines of *)
(* one stream belong together until a response or a silence ends the group.*)
(***************************************************************************)
EXTENDS Integers, FiniteSets, FiniteSetsExt

CONSTANTS
    Entries,       \* log lines that carry a timestamp, numbered in stream order
    TimeOf,        \* Entries -> Nat
    StreamOf,      \* Entries -> the (server, thread, user) stream of the line
    KindOf,        \* Entries -> "request" | "work" | "response"
    Tickets,       \* ids of log_regroup_pending rows, one per ingested file
    Batch,         \* Tickets -> the entries the ingest commits with the ticket
    Pad,           \* _regroup_pad()
    Gap,           \* settings.log_open_gap_seconds
    MaxWindow,     \* settings.log_regroup_max_window_seconds
    MaxAttempts,   \* settings.log_regroup_max_attempts
    CrossPads,     \* values of settings.stage2_cross_pad; a restart may change it
    Ranges,        \* explicit <<start, end>> ranges an operator may rebuild
    MaxIncidents   \* bound: rebuilds started, windows re-armed, finalizers killed, together

Finalizers == {"worker", "endpoint"}   \* the stitch worker; POST /logs/regroup/finalize
None == 0

ASSUME StitchingAssumptions ==
    /\ Entries \subseteq Nat \ {None} /\ IsFiniteSet(Entries)
    /\ TimeOf \in [Entries -> Nat] /\ \A e, f \in Entries : e < f => TimeOf[e] <= TimeOf[f]
    /\ KindOf \in [Entries -> {"request", "work", "response"}]
    /\ DOMAIN StreamOf = Entries
    /\ Batch \in [Tickets -> SUBSET Entries] /\ \A k \in Tickets : Batch[k] # {}
    /\ {Pad, Gap, MaxWindow, MaxAttempts} \subseteq Nat \ {0}
    /\ CrossPads \subseteq {"shadow", "on"}
    /\ \A r \in Ranges : r[1] < r[2]
    /\ MaxIncidents \in Nat

VARIABLES
    queued,     \* tickets written so far; their entries are in log_entries
    consumed,   \* tickets with consumed_at
    abandoned,  \* tickets with abandoned_at
    attempts,   \* Tickets -> Nat
    due,        \* tickets with available_at <= clock_timestamp()
    owner,      \* log_entry_assignment: Entries -> transaction id or None
    txns,       \* log_transactions rows; members stands for members_fingerprint
    fin,        \* Finalizers -> [pc, todo, at]
    flag,       \* a kind='full' log_regroup_runs row is running and younger than the TTL
    rebuild,    \* the rebuild subprocess: [pc, at, hi]
    owed,       \* history: a full rebuild has deleted and not yet regrouped
    raced,      \* history: a window was rebuilt while that was so
    incidents   \* bound only

ticketVars == <<queued, consumed, abandoned, attempts, due>>
dataVars   == <<owner, txns>>
runVars    == <<flag, rebuild, owed, raced>>
vars == <<ticketVars, dataVars, fin, runVars, incidents>>

Idle == [pc |-> "idle", todo |-> {}, at |-> -1]
NoRebuild == [pc |-> "idle", at |-> -1, hi |-> -1]
Present == UNION {Batch[k] : k \in queued}

TypeOK ==
    /\ queued \subseteq Tickets /\ consumed \subseteq queued /\ abandoned \subseteq queued
    /\ attempts \in [Tickets -> Nat] /\ due \subseteq queued
    /\ owner \in [Entries -> Entries \cup {None}]
    /\ \A t \in txns : t.id \in Entries /\ t.members \in SUBSET Entries /\ t.start <= t.end
    /\ fin \in [Finalizers -> [pc: {"idle", "picked", "run"}, todo: SUBSET Tickets, at: Int]]
    /\ flag \in BOOLEAN
    /\ rebuild.pc \in {"idle", "begun", "emptied", "ranged"}
    /\ owed \in BOOLEAN /\ raced \in BOOLEAN
    /\ incidents \in 0..MaxIncidents

Init ==
    /\ queued = {} /\ consumed = {} /\ abandoned = {} /\ due = {}
    /\ attempts = [k \in Tickets |-> 0]
    /\ owner = [e \in Entries |-> None]
    /\ txns = {}
    /\ fin = [f \in Finalizers |-> Idle]
    /\ flag = FALSE /\ rebuild = NoRebuild
    /\ owed = FALSE /\ raced = FALSE
    /\ incidents = 0

(***************************************************************************)
(* What _group makes of a set of lines.                                    *)
(***************************************************************************)
\* e ends its group among the lines R: a response, or a silence longer than the gap.
Ends(R, e) ==
    \/ KindOf[e] = "response"
    \/ ~\E f \in R : StreamOf[f] = StreamOf[e] /\ e < f /\ TimeOf[f] <= TimeOf[e] + Gap

\* The lines of a stream up to each end and after the end before it.
Group(R) ==
    LET ends == {c \in R : Ends(R, c)}
    IN  {{e \in R : /\ StreamOf[e] = StreamOf[c] /\ e <= c
                    /\ \A d \in ends : d < c /\ StreamOf[d] = StreamOf[c] => d < e} : c \in ends}

Earliest(S) == TimeOf[Min(S)]
Latest(S) == TimeOf[Max(S)]

\* _anchor: the request of the group, else its earliest line; the id is its hash.
Anchor(g) ==
    LET req == {e \in g : KindOf[e] = "request"}
    IN  IF req # {} THEN Min(req) ELSE Min(g)

Row(g, id) == [id |-> id, start |-> Earliest(g), end |-> Latest(g), members |-> g]

(***************************************************************************)
(* continuity: a rebuilt group inherits the freed id most of its lines had.*)
(***************************************************************************)
Votes(g, o) == Cardinality({e \in g : owner[e] = o})

\* The freed ids with the most votes of g; the greatest of them bids.
Bid(g, freed) ==
    LET best == {o \in freed : Votes(g, o) > 0 /\ \A p \in freed : Votes(g, p) <= Votes(g, o)}
    IN  IF best = {} THEN None ELSE Max(best)

\* An id goes to one bidder only: most votes first, then the smaller anchor.
Wins(g, gs, freed) ==
    LET o == Bid(g, freed)
    IN  /\ o # None
        /\ \A h \in gs \ {g} : Bid(h, freed) = o =>
              \/ Votes(h, o) < Votes(g, o)
              \/ Votes(h, o) = Votes(g, o) /\ Anchor(g) < Anchor(h)

\* (bug) every rebuild mints its ids afresh.
MutantMintAlways(g, gs, freed) == Anchor(g)

\* assign: the inherited id, else the one minted from the anchor.
AssignId(g, gs, freed) == IF Wins(g, gs, freed) THEN Bid(g, freed) ELSE Anchor(g)

(***************************************************************************)
(* _persist: stored are the ids of the rows being rebuilt, rows what the   *)
(* grouping produced.  A row whose id another row of the batch has, or a   *)
(* stored row outside the batch, is skipped; its lines stay unassigned.    *)
(***************************************************************************)
\* (bug) the clash with a stored row goes unseen.
MutantNoClash(R) == {}

\* _existing_transaction_ids within _clash_window.
Existing(R) ==
    {t.id : t \in {u \in txns : Earliest(R) - Pad <= u.start /\ u.start <= Latest(R) + Pad}}

\* The rows that get written: one per id, the first in the order _group emits them.
Written(rows, taken) ==
    LET free == {t \in rows : t.id \notin taken}
    IN  {W \in SUBSET free : \A t \in free : Cardinality({u \in W : u.id = t.id}) = 1}

\* (bug) the rows a rebuild did not reproduce are left behind.
MutantKeepVanished(stored, W) == {}

\* Rows being rebuilt that nothing reproduced: a merge, a split or a deleted line.
Vanished(stored, W) == stored \ {t.id : t \in W}

Persist(stored, W) ==
    LET vanished == Vanished(stored, W)
        moved    == {t \in W : ~\E u \in txns : /\ t.id \in stored /\ u.id = t.id
                                                /\ u.members = t.members}
        replaced == {u \in txns : u.id \in stored /\ \E t \in moved : t.id = u.id}
        cleared  == vanished \cup {u.id : u \in replaced}
        taker(e) == {t.id : t \in {u \in moved : e \in u.members}}
    IN  /\ owner' = [e \in Entries |->
                       IF taker(e) # {} THEN CHOOSE i \in taker(e) : TRUE
                       ELSE IF owner[e] \in cleared THEN None ELSE owner[e]]
        /\ txns' = {u \in txns : u.id \notin vanished /\ u \notin replaced}
                     \cup moved

(***************************************************************************)
(* regroup_window over [lo, hi].                                           *)
(***************************************************************************)
\* Conversations that began before the padded floor and could still be joined.
Joinable(lo, hi) ==
    LET floor == lo - Pad
        cand  == {t \in txns : /\ t.start >= floor - 3 * (Pad + Gap) /\ t.start < floor
                               /\ t.end >= floor - Gap}
    IN  IF /\ cand # {}
           /\ \E e \in Present : /\ owner[e] = None /\ TimeOf[e] >= floor
                                 /\ TimeOf[e] <= Max({t.end : t \in cand}) + Gap
                                 /\ TimeOf[e] <= hi + Pad
        THEN cand ELSE {}

InBand(lo, hi) == {t.start : t \in {u \in Joinable(lo, hi) : u.start >= lo - Pad - (Pad + Gap)}}

\* CrossPadSpanExceeded.
SpanExceeded(lo, hi, crossPad) ==
    crossPad = "on" /\ \E t \in Joinable(lo, hi) : t.start < lo - Pad - (Pad + Gap)

\* _cross_pad_floor: in shadow mode the floor only reports.
Floor(lo, hi, crossPad) ==
    IF crossPad = "on" /\ InBand(lo, hi) # {} THEN Min(InBand(lo, hi)) ELSE lo - Pad

\* (bug) sealed history is not freed: only the dirty range itself.
MutantFreeNoPad(floor, lo, hi) == {t.id : t \in {u \in txns : lo <= u.start /\ u.start <= hi}}

\* The transactions the rebuild frees, sealed or not.
Freed(floor, lo, hi) == {t.id : t \in {u \in txns : floor <= u.start /\ u.start <= hi}}

\* The lines it reads: in the padded window, unowned or owned by a freed row.
Eligible(floor, hi, freed) ==
    {e \in Present : /\ floor <= TimeOf[e] /\ TimeOf[e] <= hi + Pad
                     /\ owner[e] \in freed \cup {None}}

\* Where the rebuild may start, over the settings a process may run with.
Floors(lo, hi) == {Floor(lo, hi, c) : c \in {d \in CrossPads : ~SpanExceeded(lo, hi, d)}}

RegroupWindow(lo, hi, floor) ==
    LET freed == Freed(floor, lo, hi)
        R     == Eligible(floor, hi, freed)
        gs    == Group(R)
        rows  == {Row(g, AssignId(g, gs, freed)) : g \in gs}
        taken == IF R = {} THEN {} ELSE Existing(R) \ freed
    IN  /\ \E W \in Written(rows, taken) : Persist(freed, W)
        /\ raced' = (raced \/ owed)

(***************************************************************************)
(* Stage 1: entries and their ticket commit together (see IngestQueue).    *)
(***************************************************************************)
Ingest(k) ==
    /\ k \notin queued
    /\ queued' = queued \cup {k} /\ due' = due \cup {k}
    /\ UNCHANGED <<consumed, abandoned, attempts, dataVars, fin, runVars, incidents>>

Lo(k) == Earliest(Batch[k])
Hi(k) == Latest(Batch[k])

(***************************************************************************)
(* finalize_pending.                                                       *)
(***************************************************************************)
\* Open and due: not consumed, not dead-lettered, past the backoff.
Open == (queued \ (consumed \cup abandoned)) \cap due

\* The first of the coalesced runs of the tickets S: it ends before a ticket that
\* starts more than two pads after everything that started earlier ends.
FirstRun(S) ==
    LET breaks == {k \in S : /\ \E j \in S : Lo(j) < Lo(k)
                             /\ \A j \in S : Lo(j) < Lo(k) => Hi(j) + 2 * Pad < Lo(k)}
    IN  {k \in S : \A b \in breaks : Lo(k) < Lo(b)}

RunLo(S) == Min({Lo(k) : k \in S})
RunHi(S) == Max({Hi(k) : k \in S})

\* customers_with_due_work: the worker passes over a tenant under maintenance.
Pick ==
    /\ fin["worker"].pc = "idle"
    /\ Open # {} /\ ~flag
    /\ fin' = [fin EXCEPT !["worker"].pc = "picked"]
    /\ UNCHANGED <<ticketVars, dataVars, runVars, incidents>>

\* The open rows are read once; the endpoint does not look at the flag.
ReadPending(f) ==
    /\ fin[f].pc = (IF f = "worker" THEN "picked" ELSE "idle")
    /\ f = "worker" \/ Open # {}
    /\ fin' = [fin EXCEPT ![f] = IF Open = {} THEN Idle
                                 ELSE [pc |-> "run", todo |-> Open, at |-> -1]]
    /\ UNCHANGED <<ticketVars, dataVars, runVars, incidents>>

\* _split_run: the next sub-window of the run in hand.
SubLo(f) == IF fin[f].at = -1 THEN RunLo(FirstRun(fin[f].todo)) ELSE fin[f].at
SubHi(f) == Min({SubLo(f) + MaxWindow, RunHi(FirstRun(fin[f].todo))})

RunDone(f) == fin[f].at >= RunHi(FirstRun(fin[f].todo))

RebuildWindow(f) ==
    /\ fin[f].pc = "run" /\ ~RunDone(f)
    /\ \E floor \in Floors(SubLo(f), SubHi(f)) : RegroupWindow(SubLo(f), SubHi(f), floor)
    /\ fin' = [fin EXCEPT ![f].at = SubHi(f)]
    /\ UNCHANGED <<ticketVars, flag, rebuild, owed, incidents>>

\* On to the next run, or done.
NextRun(f) ==
    LET rest == fin[f].todo \ FirstRun(fin[f].todo)
    IN  IF rest = {} THEN Idle ELSE [pc |-> "run", todo |-> rest, at |-> -1]

\* (bug) what lies in the range of the run is consumed, not the rows that were read.
MutantByRange(f) ==
    LET run == FirstRun(fin[f].todo)
    IN  {k \in queued : RunLo(run) <= Lo(k) /\ Hi(k) <= RunHi(run)}

\* The rows of the run in hand, by id: one that arrived since is not among them.
RunRows(f) == FirstRun(fin[f].todo)

\* Every sub-window of the run is committed: its rows are consumed.
ConsumeRun(f) ==
    /\ fin[f].pc = "run" /\ RunDone(f)
    /\ consumed' = consumed \cup RunRows(f)
    /\ fin' = [fin EXCEPT ![f] = NextRun(f)]
    /\ UNCHANGED <<queued, abandoned, attempts, due, dataVars, runVars, incidents>>

\* (bug) the attempt is not recorded.
MutantNoBump(k) == attempts[k]

Bumped(k) == attempts[k] + 1

\* The rows of a failed run that are dead-lettered.
NewlyAbandoned(run, transient) == {k \in run : ~transient \/ Bumped(k) >= MaxAttempts}

\* A sub-window or the bookkeeping after it raised: by ticket id, whatever another
\* finalizer has done with the row meanwhile.
FailRun(f, transient) ==
    LET run == RunRows(f)
    IN  /\ fin[f].pc = "run"
        /\ attempts' = [k \in Tickets |-> IF k \in run THEN Bumped(k) ELSE attempts[k]]
        /\ due' = IF transient THEN due \ run ELSE due
        /\ abandoned' = abandoned \cup NewlyAbandoned(run, transient)
        /\ fin' = [fin EXCEPT ![f] = NextRun(f)]
        /\ UNCHANGED <<queued, consumed, dataVars, runVars, incidents>>

\* The process dies: its rows simply stay open.
Crash(f) ==
    /\ fin[f].pc # "idle" /\ incidents < MaxIncidents
    /\ fin' = [fin EXCEPT ![f] = Idle]
    /\ incidents' = incidents + 1
    /\ UNCHANGED <<ticketVars, dataVars, runVars>>

BackoffElapses(k) ==
    /\ k \in queued \ (due \cup consumed)
    /\ due' = due \cup {k}
    /\ UNCHANGED <<queued, consumed, abandoned, attempts, dataVars, fin, runVars, incidents>>

\* reset_abandoned_windows.
ResetAbandoned ==
    LET armed == abandoned \ consumed
    IN  /\ armed # {} /\ incidents < MaxIncidents
        /\ abandoned' = abandoned \ armed
        /\ attempts' = [k \in Tickets |-> IF k \in armed THEN 0 ELSE attempts[k]]
        /\ incidents' = incidents + 1
        /\ UNCHANGED <<queued, consumed, due, dataVars, fin, runVars>>

(***************************************************************************)
(* POST /logs/regroup/full and the rebuild subprocess.                     *)
(***************************************************************************)
StartRebuild(r) ==
    /\ ~flag /\ rebuild.pc = "idle" /\ incidents < MaxIncidents
    /\ flag' = TRUE
    /\ rebuild' = IF r = <<>> THEN [NoRebuild EXCEPT !.pc = "begun"]
                  ELSE [pc |-> "ranged", at |-> r[1], hi |-> r[2]]
    /\ incidents' = incidents + 1
    /\ UNCHANGED <<ticketVars, dataVars, fin, owed, raced>>

\* regroup_all, first transaction: every assignment and transaction goes.
DeleteAll ==
    /\ rebuild.pc = "begun"
    /\ owner' = [e \in Entries |-> None] /\ txns' = {}
    /\ rebuild' = [rebuild EXCEPT !.pc = "emptied"]
    /\ owed' = TRUE /\ raced' = FALSE
    /\ UNCHANGED <<ticketVars, fin, flag, incidents>>

\* Second transaction: all entries, no predecessors, no stored rows.
RegroupAll ==
    LET rows == {Row(g, Anchor(g)) : g \in Group(Present)}
    IN  /\ rebuild.pc = "emptied"
        /\ \E W \in Written(rows, IF rows = {} THEN {} ELSE Existing(Present)) : Persist({}, W)
        /\ rebuild' = NoRebuild /\ flag' = FALSE
        /\ owed' = FALSE
        /\ UNCHANGED <<ticketVars, fin, raced, incidents>>

\* ranged_regroup: one slice.
RangedWindow ==
    LET hi == Min({rebuild.at + MaxWindow, rebuild.hi})
    IN  /\ rebuild.pc = "ranged"
        /\ \E floor \in Floors(rebuild.at, hi) : RegroupWindow(rebuild.at, hi, floor)
        /\ rebuild' = IF hi = rebuild.hi THEN NoRebuild ELSE [rebuild EXCEPT !.at = hi]
        /\ flag' = (flag /\ hi # rebuild.hi)
        /\ UNCHANGED <<ticketVars, fin, owed, incidents>>

\* The subprocess records the failure, or dies and the watcher records it.
RebuildFails ==
    /\ rebuild.pc # "idle"
    /\ rebuild' = NoRebuild
    /\ flag' = FALSE
    /\ UNCHANGED <<ticketVars, dataVars, fin, owed, raced, incidents>>

\* The service dies with it: the row stays running.
RebuildKilled ==
    /\ rebuild.pc # "idle"
    /\ rebuild' = NoRebuild
    /\ UNCHANGED <<ticketVars, dataVars, fin, flag, owed, raced, incidents>>

\* The maintenance flag expires, whether or not the rebuild is still at work.
FlagExpires ==
    /\ flag
    /\ flag' = FALSE
    /\ UNCHANGED <<ticketVars, dataVars, fin, rebuild, owed, raced, incidents>>

FinalizeStep(f) ==
    \/ f = "worker" /\ Pick
    \/ ReadPending(f) \/ RebuildWindow(f) \/ ConsumeRun(f)

Next ==
    \/ \E k \in Tickets : Ingest(k) \/ BackoffElapses(k)
    \/ \E f \in Finalizers : FinalizeStep(f) \/ Crash(f)
    \/ \E f \in Finalizers, transient \in BOOLEAN : FailRun(f, transient)
    \/ ResetAbandoned
    \/ \E r \in Ranges \cup {<<>>} : StartRebuild(r)
    \/ DeleteAll \/ RegroupAll \/ RangedWindow \/ RebuildFails \/ RebuildKilled \/ FlagExpires

Spec == Init /\ [][Next]_vars

\* The worker has something to do: at the top of its loop a tenant with due work that
\* is not under maintenance, anywhere else the rest of the drain.
WorkerReady == fin["worker"].pc # "idle" \/ (Open # {} /\ ~flag)
WorkerMoves == fin'["worker"] # fin["worker"]

\* The worker's loop runs for ever and time passes; ingestion, the endpoint, failures
\* and operators owe nothing. (The first conjunct is weak fairness of the worker, with
\* what enables it spelled out: a crash or a failed run counts as its step too.)
FairSpec ==
    /\ Spec
    /\ []<>~WorkerReady \/ []<><<WorkerMoves>>_vars
    /\ WF_vars(FlagExpires)
    /\ \A k \in Tickets : WF_vars(BackoffElapses(k))

-----------------------------------------------------------------------------
(***************************************************************************)
(* Properties.                                                             *)
(***************************************************************************)
\* Some ticket over the line is still to be worked on or waits for an operator.
Ticketed(e) == \E k \in queued \ consumed : e \in Batch[k]

\* No line is forgotten: it is assigned, or the ticket that asks for it is not
\* consumed, or a full rebuild is known not to have finished. Nothing else would
\* ever look at it again (finalize_pending, regroup_window, regroup_all).
NoneForgotten == owed \/ \A e \in Present : owner[e] # None \/ Ticketed(e)

\* The same, for every history in which no window was rebuilt between the two
\* transactions of a full rebuild.
NoneForgottenUnraced == raced \/ NoneForgotten

\* Every ticket consumed and no rebuild half done.
Quiet == ~raced /\ ~owed /\ queued \subseteq consumed

\* All files that hold lines of t end before u begins.
EndsBefore(t, u) == \A k \in queued : Batch[k] \cap t.members # {} => Hi(k) < u.start

\* When the queue is empty the transactions are the groups of all lines: neither
\* the order of arrival, nor how runs were coalesced and split, nor retries, nor
\* finalizers interleaving leave a trace.  One case is set aside: a conversation
\* stays in two rows only if the files with the lines of the one all end before the
\* other begins, so that no window over them freed the other.
StitchedExceptAtEdges ==
    Quiet => \A t, u \in txns :
        t # u /\ (\E g \in Group(Present) : t.members \cup u.members \subseteq g)
        => EndsBefore(t, u) \/ EndsBefore(u, t)

\* Two rows never share an id: the unique constraint, being on (id, started_at),
\* would not notice.
OneRowPerId == \A t, u \in txns : t.id = u.id => t = u

\* Every row describes the lines assigned to it: span and members agree with the
\* assignments, and no row is left without lines.
RowsDescribeLines ==
    raced \/ \A t \in txns : /\ t.members = {e \in Present : owner[e] = t.id}
                             /\ t = Row(t.members, t.id)

\* Identity is assigned once and carried: when a finalizer's window makes a
\* conversation grow, or leaves it alone, its id stays.
IdsCarried ==
    [][txns' # txns /\ rebuild' = rebuild =>
         \A t \in txns, u \in txns' :
           /\ t.members \subseteq u.members
           /\ \A v \in txns \ {t} : v.members \cap u.members = {}
           => t.id = u.id]_vars

\* A dead letter only after its budget or a permanent failure, and every ticket
\* leaves the queue: it is consumed or abandoned.
Drains == \A k \in Tickets : k \in queued ~> k \in consumed \cup abandoned
=============================================================================
