-------------------------- MODULE IngestQueueProofs --------------------------
(***************************************************************************)
(* Theorems about IngestQueue for every set of workers, objects and lines: *)
(* type correctness, the retry budget, the truth of `ingested`, and that   *)
(* no downloaded byte range is lost.                                       *)
(***************************************************************************)
EXTENDS IngestQueue, TLAPS

\* What a Stage 1 commit appends is a sequence of at most one window.
LEMMA OneWindow ==
  ASSUME NEW T, NEW S \in SUBSET T, NEW ts \in {<<>>} \cup {<<r>> : r \in S}
  PROVE  ts \in Seq(T)
<1>1. CASE ts = <<>>
  BY <1>1
<1>2. ASSUME NEW r \in S, ts = <<r>> PROVE ts \in Seq(T)
  <2>1. r \in T
    OBVIOUS
  <2> QED
    BY <1>2, <2>1
<1> QED
  BY <1>1, <1>2

\* Appending keeps every earlier position and adds the new ones after them.
LEMMA Appended ==
  ASSUME NEW T, NEW s \in Seq(T), NEW t \in Seq(T)
  PROVE  /\ Len(s \o t) = Len(s) + Len(t)
         /\ \A k \in 1..Len(s) : (s \o t)[k] = s[k]
         /\ Len(t) = 1 => (s \o t)[Len(s) + 1] = t[1]
  OBVIOUS

\* What a row and a worker's progress say of each other: a worker past the
\* Stage 1 commit, and a row marked ingested, have every line stored; a worker
\* with a row in hand holds one that was really queued; the stored copy of a
\* queued row is there or redundant.
CommitInv ==
    /\ \A w \in Workers : pc[w] \in {"committed", "cleanup"} => Stored(cur[w])
    /\ \A w \in Workers : pc[w] \notin {"idle", "drain"} => status[cur[w]] # "absent"
    /\ IngestedIsStored
    /\ NoBytesLost

\* Type correctness: no step of a worker, of time or of an operator writes a
\* value outside its column's domain, and no drain claims more than its batch.
THEOREM TypeCorrect == Spec => []TypeOK
<1> USE QueueAssumptions
<1>1. Init => TypeOK
  BY DEF Init, TypeOK, RowStatus, PCs, JobStatus
<1>2. TypeOK /\ [Next]_vars => TypeOK'
  <2> SUFFICES ASSUME TypeOK, [Next]_vars PROVE TypeOK'
    OBVIOUS
  <2> USE DEF TypeOK, RowStatus, PCs, JobStatus, rowVars, dataVars, workerVars
  <2>1. ASSUME NEW o \in Objects, Enqueue(o) PROVE TypeOK'
    BY <2>1 DEF Enqueue
  <2>2. ASSUME NEW o \in Objects, BackoffElapses(o) PROVE TypeOK'
    BY <2>2 DEF BackoffElapses
  <2>3. ASSUME NEW o \in Objects, LeaseExpires(o) PROVE TypeOK'
    BY <2>3 DEF LeaseExpires
  <2>4. ASSUME NEW w \in Workers, ReclaimExpiredLeases(w) PROVE TypeOK'
    BY <2>4 DEF ReclaimExpiredLeases, StatusAfterFailure, ExpiredLeases
  <2>5. ASSUME NEW w \in Workers, NEW o \in Objects, ClaimOne(w, o) PROVE TypeOK'
    BY <2>5 DEF ClaimOne, BatchLeft
  <2>6. ASSUME NEW w \in Workers, DrainEnds(w) PROVE TypeOK'
    BY <2>6 DEF DrainEnds
  <2>7. ASSUME NEW w \in Workers, CreateJob(w) PROVE TypeOK'
    BY <2>7 DEF CreateJob
  <2>8. ASSUME NEW w \in Workers, LoadAndParse(w) PROVE TypeOK'
    BY <2>8 DEF LoadAndParse
  <2>9. ASSUME NEW w \in Workers, LoadMissing(w) PROVE TypeOK'
    BY <2>9 DEF LoadMissing
  <2>10. ASSUME NEW w \in Workers, CommitStage1(w) PROVE TypeOK'
    <3> DEFINE o == cur[w]
               new == InsertDedup(o, readZone[w])
    <3>1. o \in Objects /\ readZone[w] \in Zones
      OBVIOUS
    <3>2. new \in SUBSET Entry
      BY <3>1 DEF InsertDedup, Entry
    <3>3. entries' \in SUBSET Entry
      BY <2>10, <3>2 DEF CommitStage1
    <3>4. Windows(o) \subseteq Zones \X Int \X Int
      BY <3>1 DEF Windows, NoTime
    <3>5. PICK ts \in {<<>>} \cup {<<r>> : r \in Windows(o)} :
            tickets' = [tickets EXCEPT ![o] = @ \o ts]
      BY <2>10 DEF CommitStage1
    <3>6. tickets' \in [Objects -> Seq(Zones \X Int \X Int)]
      <4>1. ts \in Seq(Zones \X Int \X Int)
        BY <3>4, <3>5, OneWindow
      <4>2. tickets[o] \o ts \in Seq(Zones \X Int \X Int)
        BY <3>1, <4>1
      <4> QED
        BY <3>1, <3>5, <4>2
    <3>7. /\ pc' = [pc EXCEPT ![w] = "committed"]
          /\ job' = [job EXCEPT ![w] = "completed"]
          /\ UNCHANGED <<status, attempts, lease, due, files, zone, cur, readZone, claimed, resets>>
      BY <2>10 DEF CommitStage1
    <3> QED
      BY <3>3, <3>6, <3>7
  <2>11. ASSUME NEW w \in Workers, RecordFailure(w) PROVE TypeOK'
    BY <2>11 DEF RecordFailure, StatusAfterFailure, AfterOutcome
  <2>12. ASSUME NEW w \in Workers, RecordSuccess(w) PROVE TypeOK'
    BY <2>12 DEF RecordSuccess, AfterOutcome
  <2>13. ASSUME NEW w \in Workers, DeleteIngestedFile(w) PROVE TypeOK'
    BY <2>13 DEF DeleteIngestedFile
  <2>14. ASSUME NEW w \in Workers, NEW kind \in {"transient", "permanent"}, Fail(w, kind)
         PROVE TypeOK'
    BY <2>14 DEF Fail
  <2>15. ASSUME NEW w \in Workers, Crash(w) PROVE TypeOK'
    BY <2>15 DEF Crash
  <2>16. ASSUME NEW c \in Customers, ResetAbandoned(c) PROVE TypeOK'
    BY <2>16 DEF ResetAbandoned, DeadLetters
  <2>17. ASSUME NEW c \in Customers, NEW z \in Zones, SetTimezone(c, z) PROVE TypeOK'
    BY <2>17 DEF SetTimezone
  <2>18. CASE UNCHANGED vars
    BY <2>18 DEF vars
  <2> QED
    BY <2>1, <2>2, <2>3, <2>4, <2>5, <2>6, <2>7, <2>8, <2>9, <2>10, <2>11, <2>12, <2>13,
       <2>14, <2>15, <2>16, <2>17, <2>18 DEF Next, WorkerStep
<1> QED
  BY <1>1, <1>2, PTL DEF Spec

\* Every action other than the Stage 1 commit leaves entries alone, and the
\* commit only adds to them: a stored range stays stored.
LEMMA EntriesGrow == [Next]_vars => entries \subseteq entries'
  BY DEF Next, vars, WorkerStep, rowVars, dataVars, workerVars, Enqueue, BackoffElapses,
         LeaseExpires, ReclaimExpiredLeases, ClaimOne, DrainEnds, CreateJob, LoadAndParse,
         LoadMissing, CommitStage1, RecordFailure, RecordSuccess, DeleteIngestedFile,
         Fail, Crash, ResetAbandoned, SetTimezone

\* A range all of whose lines are stored stays so, whatever happens next.
LEMMA StoredStays ==
  ASSUME [Next]_vars, NEW o \in Objects, Stored(o)
  PROVE  Stored(o)'
  BY EntriesGrow DEF Stored

\* The Stage 1 commit stores every line of the range, whatever was there before.
LEMMA CommitStores ==
  ASSUME TypeOK, NEW w \in Workers, CommitStage1(w)
  PROVE  Stored(cur[w])'
<1> DEFINE o == cur[w]
<1>1. o \in Objects /\ cur' = cur
  BY DEF TypeOK, CommitStage1
<1>2. SUFFICES ASSUME NEW l \in Content[o]
               PROVE  \E e \in entries' : e.customer = CustomerOf[o] /\ e.line = l
  BY <1>1 DEF Stored
<1> DEFINE e == [customer |-> CustomerOf[o], line |-> l, zone |-> readZone[w]]
<1>3. e \in entries \cup InsertDedup(o, readZone[w])
  BY <1>2 DEF InsertDedup
<1>4. e \in entries'
  BY <1>3 DEF CommitStage1
<1> QED
  BY <1>4

\* A queued row's bytes are never lost and `ingested` is always true, for any
\* number of workers racing on it (process_claimed, _delete_ingested_file).
LEMMA CommitInvInductive == TypeOK /\ CommitInv /\ [Next]_vars => CommitInv'
<1> SUFFICES ASSUME TypeOK, CommitInv, [Next]_vars PROVE CommitInv'
  OBVIOUS
<1> USE QueueAssumptions
<1>0. \A o \in Objects : Stored(o) => Stored(o)'
  BY StoredStays
<1>t. \A w \in Workers : cur[w] \in Objects
  BY DEF TypeOK
<1> USE <1>0, <1>t DEF CommitInv, IngestedIsStored, NoBytesLost, rowVars, dataVars, workerVars
<1>1. ASSUME NEW o \in Objects, Enqueue(o) PROVE CommitInv'
  BY <1>1 DEF Enqueue, TypeOK
<1>2. ASSUME NEW o \in Objects, BackoffElapses(o) PROVE CommitInv'
  BY <1>2 DEF BackoffElapses
<1>3. ASSUME NEW o \in Objects, LeaseExpires(o) PROVE CommitInv'
  BY <1>3 DEF LeaseExpires
<1>4. ASSUME NEW w \in Workers, ReclaimExpiredLeases(w) PROVE CommitInv'
  BY <1>4 DEF ReclaimExpiredLeases, StatusAfterFailure, ExpiredLeases, TypeOK
<1>5. ASSUME NEW w \in Workers, NEW o \in Objects, ClaimOne(w, o) PROVE CommitInv'
  BY <1>5 DEF ClaimOne, Claimable, TypeOK
<1>6. ASSUME NEW w \in Workers, DrainEnds(w) PROVE CommitInv'
  BY <1>6 DEF DrainEnds, TypeOK
<1>7. ASSUME NEW w \in Workers, CreateJob(w) PROVE CommitInv'
  BY <1>7 DEF CreateJob, TypeOK
<1>8. ASSUME NEW w \in Workers, LoadAndParse(w) PROVE CommitInv'
  BY <1>8 DEF LoadAndParse, TypeOK
<1>9. ASSUME NEW w \in Workers, LoadMissing(w) PROVE CommitInv'
  BY <1>9 DEF LoadMissing, TypeOK
<1>10. ASSUME NEW w \in Workers, CommitStage1(w) PROVE CommitInv'
  <2>1. Stored(cur[w])'
    BY <1>10, CommitStores
  <2>2. /\ pc' = [pc EXCEPT ![w] = "committed"] /\ pc[w] = "loaded"
        /\ UNCHANGED <<status, files, cur>>
    BY <1>10 DEF CommitStage1
  <2> QED
    BY <2>1, <2>2 DEF TypeOK
<1>11. ASSUME NEW w \in Workers, RecordFailure(w) PROVE CommitInv'
  BY <1>11 DEF RecordFailure, StatusAfterFailure, AfterOutcome, TypeOK
<1>12. ASSUME NEW w \in Workers, RecordSuccess(w) PROVE CommitInv'
  BY <1>12 DEF RecordSuccess, AfterOutcome, TypeOK
<1>13. ASSUME NEW w \in Workers, DeleteIngestedFile(w) PROVE CommitInv'
  BY <1>13 DEF DeleteIngestedFile, TypeOK
<1>14. ASSUME NEW w \in Workers, NEW kind \in {"transient", "permanent"}, Fail(w, kind)
       PROVE CommitInv'
  BY <1>14 DEF Fail, TypeOK
<1>15. ASSUME NEW w \in Workers, Crash(w) PROVE CommitInv'
  BY <1>15 DEF Crash, TypeOK
<1>16. ASSUME NEW c \in Customers, ResetAbandoned(c) PROVE CommitInv'
  BY <1>16 DEF ResetAbandoned, DeadLetters, TypeOK
<1>17. ASSUME NEW c \in Customers, NEW z \in Zones, SetTimezone(c, z) PROVE CommitInv'
  BY <1>17 DEF SetTimezone
<1>18. CASE UNCHANGED vars
  BY <1>18 DEF vars
<1> QED
  BY <1>1, <1>2, <1>3, <1>4, <1>5, <1>6, <1>7, <1>8, <1>9, <1>10, <1>11, <1>12, <1>13,
     <1>14, <1>15, <1>16, <1>17, <1>18 DEF Next, WorkerStep

\* No byte range whose row exists is ever lost: its stored copy is there or all
\* of its lines are in log_entries (record_success, _delete_ingested_file).
THEOREM BytesSafe == Spec => []NoBytesLost
<1>1. Init => CommitInv
  BY DEF Init, CommitInv, IngestedIsStored, NoBytesLost
<1>2. CommitInv => NoBytesLost
  BY DEF CommitInv
<1> QED
  BY <1>1, <1>2, CommitInvInductive, TypeCorrect, PTL DEF Spec

\* `ingested` is never recorded for a range with a line missing (record_success).
THEOREM IngestedTruthful == Spec => []IngestedIsStored
<1>1. Init => CommitInv
  BY DEF Init, CommitInv, IngestedIsStored, NoBytesLost
<1>2. CommitInv => IngestedIsStored
  BY DEF CommitInv
<1> QED
  BY <1>1, <1>2, CommitInvInductive, TypeCorrect, PTL DEF Spec

\* The window NewTicket computes for a non-empty insert covers every timed row.
LEMMA TicketCovers ==
  ASSUME NEW new, NEW z, NEW ts, NewTicket(new, z, ts),
         NEW e \in new, TimeOf[e.line] # NoTime
  PROVE  ts[1][1] = z /\ ts[1][2] <= TimeOf[e.line] /\ TimeOf[e.line] <= ts[1][3] /\ Len(ts) = 1
<1>1. PICK lo, hi \in {TimeOf[f.line] : f \in new} :
        IsSpan(new, lo, hi) /\ ts = <<<<z, lo, hi>>>>
  BY DEF NewTicket
<1>2. TimeOf[e.line] \in {TimeOf[f.line] : f \in new} \ {NoTime}
  OBVIOUS
<1>3. lo <= TimeOf[e.line] /\ TimeOf[e.line] <= hi
  BY <1>1, <1>2 DEF IsSpan
<1> QED
  BY <1>1, <1>3

\* Every timed entry lies in a dirty window written with it, so Stage 2 is always
\* told about what Stage 1 stored (run_log_parse_insert's single commit).
THEOREM EntriesAlwaysTicketed == Spec => []EntriesTicketed
<1>1. Init => EntriesTicketed
  BY DEF Init, EntriesTicketed
<1>2. TypeOK /\ EntriesTicketed /\ [Next]_vars => EntriesTicketed'
  <2> SUFFICES ASSUME TypeOK, EntriesTicketed, [Next]_vars PROVE EntriesTicketed'
    OBVIOUS
  <2>1. ASSUME NEW w \in Workers, CommitStage1(w) PROVE EntriesTicketed'
    <3> DEFINE o == cur[w]
               new == InsertDedup(o, readZone[w])
               T == Zones \X Int \X Int
    <3>1. o \in Objects /\ tickets \in [Objects -> Seq(T)]
      BY DEF TypeOK
    <3>2. PICK ts \in {<<>>} \cup {<<r>> : r \in Windows(o)} :
            NewTicket(new, readZone[w], ts) /\ tickets' = [tickets EXCEPT ![o] = @ \o ts]
      BY <2>1 DEF CommitStage1
    <3>3. entries' = entries \cup new
      BY <2>1 DEF CommitStage1
    <3>w. Windows(o) \in SUBSET T
      BY <3>1, QueueAssumptions DEF Windows, NoTime
    <3> HIDE DEF T
    <3>ts. ts \in Seq(T) /\ tickets[o] \in Seq(T)
      BY <3>1, <3>2, <3>w, OneWindow
    <3>a. tickets'[o] = tickets[o] \o ts /\ \A p \in Objects \ {o} : tickets'[p] = tickets[p]
      BY <3>1, <3>2
    <3>len. Len(tickets[o]) \in Nat /\ Len(ts) \in Nat
      BY <3>ts
    <3>4. \A p \in Objects : \A k \in 1..Len(tickets[p]) :
            k \in 1..Len(tickets'[p]) /\ tickets'[p][k] = tickets[p][k]
      <4>1. Len(tickets'[o]) = Len(tickets[o]) + Len(ts)
        BY <3>ts, <3>a, Appended
      <4>2. \A k \in 1..Len(tickets[o]) : tickets'[o][k] = tickets[o][k]
        BY <3>ts, <3>a, Appended
      <4>3. \A k \in 1..Len(tickets[o]) : k \in 1..Len(tickets'[o])
        BY <3>len, <4>1
      <4> QED
        BY <3>a, <4>2, <4>3
    <3>5. ASSUME Len(ts) = 1
          PROVE  \E m \in 1..Len(tickets'[o]) : tickets'[o][m] = ts[1]
      <4>1. Len(tickets[o]) + 1 \in 1..Len(tickets'[o])
        BY <3>ts, <3>a, <3>len, <3>5, Appended
      <4>2. (tickets[o] \o ts)[Len(tickets[o]) + 1] = ts[1]
        BY <3>ts, <3>5, Appended
      <4> QED
        BY <4>1, <4>2, <3>a, <3>len
    <3>6. ASSUME NEW e \in entries', TimeOf[e.line] # NoTime
          PROVE  \E p \in Objects : \E k \in 1..Len(tickets'[p]) :
                   CustomerOf[p] = e.customer /\ Covers(tickets'[p][k], e)
      <4>1. CASE e \in entries
        BY <4>1, <3>4, <3>6 DEF EntriesTicketed
      <4>2. CASE e \in new
        <5>1. e.customer = CustomerOf[o] /\ e.zone = readZone[w]
          BY <4>2 DEF InsertDedup
        <5>2. Covers(ts[1], e) /\ Len(ts) = 1
          BY <4>2, <3>2, <3>6, <5>1, TicketCovers DEF Covers
        <5>3. PICK m \in 1..Len(tickets'[o]) : tickets'[o][m] = ts[1]
          BY <5>2, <3>5
        <5>4. Covers(tickets'[o][m], e)
          BY <5>2, <5>3
        <5> QED
          BY <5>1, <5>3, <5>4, <3>1
      <4> QED
        BY <4>1, <4>2, <3>3
    <3> QED
      BY <3>6 DEF EntriesTicketed, Covers
  <2>2. CASE UNCHANGED <<entries, tickets>>
    BY <2>2 DEF EntriesTicketed, Covers
  <2> QED
    BY <2>1, <2>2 DEF Next, vars, WorkerStep, rowVars, dataVars, workerVars, Enqueue,
         BackoffElapses, LeaseExpires, ReclaimExpiredLeases, ClaimOne, DrainEnds, CreateJob,
         LoadAndParse, LoadMissing, RecordFailure, RecordSuccess, DeleteIngestedFile,
         Fail, Crash, ResetAbandoned, SetTimezone
<1> QED
  BY <1>1, <1>2, TypeCorrect, PTL DEF Spec

\* BudgetLeft with the row that is not queued yet added, which makes it inductive.
BudgetInv == \A o \in Objects :
    status[o] \in {"absent", "pending", "leased"} => attempts[o] < MaxAttempts

\* A row that may still be claimed has attempts left: every route back to
\* `pending` (lease expiry, recorded failure, re-arm) respects the cap.
THEOREM BudgetRespected == Spec => []BudgetLeft
<1> USE QueueAssumptions DEF BudgetInv
<1>1. Init => BudgetInv
  BY DEF Init
<1>2. TypeOK /\ BudgetInv /\ [Next]_vars => BudgetInv'
  <2> SUFFICES ASSUME TypeOK, BudgetInv, [Next]_vars PROVE BudgetInv'
    OBVIOUS
  <2> USE DEF TypeOK, rowVars
  <2>1. ASSUME NEW o \in Objects, Enqueue(o) PROVE BudgetInv'
    BY <2>1 DEF Enqueue
  <2>2. ASSUME NEW w \in Workers, ReclaimExpiredLeases(w) PROVE BudgetInv'
    BY <2>2 DEF ReclaimExpiredLeases, StatusAfterFailure, ExpiredLeases
  <2>3. ASSUME NEW w \in Workers, NEW o \in Objects, ClaimOne(w, o) PROVE BudgetInv'
    BY <2>3 DEF ClaimOne, Claimable
  <2>4. ASSUME NEW w \in Workers, RecordFailure(w) PROVE BudgetInv'
    BY <2>4 DEF RecordFailure, StatusAfterFailure
  <2>5. ASSUME NEW w \in Workers, RecordSuccess(w) PROVE BudgetInv'
    BY <2>5 DEF RecordSuccess
  <2>6. ASSUME NEW c \in Customers, ResetAbandoned(c) PROVE BudgetInv'
    BY <2>6 DEF ResetAbandoned, DeadLetters
  <2>7. CASE UNCHANGED <<status, attempts>>
    BY <2>7
  <2> QED
    BY <2>1, <2>2, <2>3, <2>4, <2>5, <2>6, <2>7 DEF Next, vars, WorkerStep, BackoffElapses,
       LeaseExpires, DrainEnds, CreateJob, LoadAndParse, LoadMissing, CommitStage1,
       DeleteIngestedFile, Fail, Crash, SetTimezone
<1>3. BudgetInv => BudgetLeft
  BY DEF BudgetLeft
<1> QED
  BY <1>1, <1>2, <1>3, TypeCorrect, PTL DEF Spec

(***************************************************************************)
(* Parsing a range again.                                                  *)
(***************************************************************************)
\* Every line of o is stored under the zone its tenant has now.
StoredNow(o) == \A l \in Content[o] :
    [customer |-> CustomerOf[o], line |-> l, zone |-> zone[CustomerOf[o]]] \in entries

\* A tenant's entries all carry its configured zone, and a row that left a
\* ticket has every line stored under it: the dedup key of a second parse
\* finds all of them, so ReparseIsSilent is inductive with this.
SilentInv ==
    /\ \A e \in entries : e.zone = zone[e.customer]
    /\ \A o \in Objects : tickets[o] = <<>> \/ (Len(tickets[o]) = 1 /\ StoredNow(o))

\* The tenant's zone does not change between the read of a parse and its insert
\* (run_log_parse_insert reads it before _set_timezone_guarded may commit).
ZoneHeld == \A w \in Workers : pc[w] = "loaded" => readZone[w] = zone[CustomerOf[cur[w]]]

\* A parse that inserts nothing marks nothing dirty.
LEMMA NothingNewNoTicket ==
  ASSUME NEW z, NEW ts, NewTicket({}, z, ts)
  PROVE  ts = <<>>
  BY DEF NewTicket

\* The commit stores every line of its range under the zone it has read.
LEMMA CommitStoresNow ==
  ASSUME TypeOK, ZoneHeld, NEW w \in Workers, CommitStage1(w)
  PROVE  StoredNow(cur[w])'
<1> DEFINE o == cur[w]
<1>1. o \in Objects /\ cur' = cur /\ zone' = zone /\ readZone[w] = zone[CustomerOf[o]]
  BY DEF TypeOK, CommitStage1, ZoneHeld
<1>2. SUFFICES ASSUME NEW l \in Content[o]
               PROVE  [customer |-> CustomerOf[o], line |-> l, zone |-> zone[CustomerOf[o]]]
                        \in entries'
  BY <1>1 DEF StoredNow
<1> DEFINE e == [customer |-> CustomerOf[o], line |-> l, zone |-> zone[CustomerOf[o]]]
<1>3. e \in entries \cup InsertDedup(o, readZone[w])
  BY <1>1, <1>2 DEF InsertDedup
<1>4. entries' = entries \cup InsertDedup(o, readZone[w])
  BY DEF CommitStage1
<1> QED
  BY <1>3, <1>4

\* SilentInv is inductive while no zone changes under a parse.
LEMMA SilentInvInductive ==
  ASSUME TypeOK, ZoneHeld, SilentInv, [Next]_vars
  PROVE  SilentInv'
<1>1. ASSUME NEW w \in Workers, CommitStage1(w) PROVE SilentInv'
  <2> DEFINE o == cur[w]
             new == InsertDedup(o, readZone[w])
             T == Zones \X Int \X Int
  <2>1. o \in Objects /\ tickets \in [Objects -> Seq(T)]
    BY DEF TypeOK
  <2>2. PICK ts \in {<<>>} \cup {<<r>> : r \in Windows(o)} :
          NewTicket(new, readZone[w], ts) /\ tickets' = [tickets EXCEPT ![o] = @ \o ts]
    BY <1>1 DEF CommitStage1
  <2>3. /\ entries' = entries \cup new /\ cur' = cur /\ zone' = zone
        /\ readZone[w] = zone[CustomerOf[o]]
    BY <1>1 DEF CommitStage1, ZoneHeld
  <2>4. Windows(o) \in SUBSET T
    BY <2>1, QueueAssumptions DEF Windows, NoTime
  <2> HIDE DEF T
  <2>5. ts \in Seq(T) /\ tickets[o] \in Seq(T) /\ tickets'[o] = tickets[o] \o ts
    BY <2>1, <2>2, <2>4, OneWindow
  <2>6. \A e \in entries' : e.zone = zone'[e.customer]
    <3>1. \A e \in new : e.zone = readZone[w] /\ e.customer = CustomerOf[o]
      BY DEF InsertDedup
    <3> QED
      BY <2>3, <3>1 DEF SilentInv
  <2>7. StoredNow(o)'
    BY <1>1, <2>3, CommitStoresNow
  <2>8. tickets'[o] = <<>> \/ Len(tickets'[o]) = 1
    <3>1. CASE tickets[o] = <<>>
      <4>1. tickets'[o] = ts
        BY <2>5, <3>1
      <4> QED
        BY <2>2, <4>1
    <3>2. CASE Len(tickets[o]) = 1 /\ StoredNow(o)
      <4>1. new = {}
        BY <2>3, <3>2 DEF InsertDedup, StoredNow
      <4>2. ts = <<>>
        BY <2>2, <4>1, NothingNewNoTicket
      <4> QED
        BY <2>5, <3>2, <4>2
    <3> QED
      BY <2>1, <3>1, <3>2 DEF SilentInv
  <2>9. ASSUME NEW p \in Objects, p # o
        PROVE  tickets'[p] = <<>> \/ (Len(tickets'[p]) = 1 /\ StoredNow(p)')
    <3>1. tickets'[p] = tickets[p]
      BY <2>1, <2>2, <2>9
    <3>2. StoredNow(p) => StoredNow(p)'
      BY <2>3 DEF StoredNow
    <3> QED
      BY <3>1, <3>2 DEF SilentInv
  <2> QED
    BY <2>6, <2>7, <2>8, <2>9, <2>3 DEF SilentInv
<1>2. ASSUME NEW c \in Customers, NEW z \in Zones, SetTimezone(c, z) PROVE SilentInv'
  <2>1. /\ zone' = [zone EXCEPT ![c] = z] /\ entries' = entries /\ tickets' = tickets
        /\ \A e \in entries : e.customer # c
    BY <1>2 DEF SetTimezone, HasEntries
  <2>2. \A e \in entries : e.zone = zone'[e.customer]
    <3>1. ASSUME NEW e \in entries PROVE zone'[e.customer] = zone[e.customer]
      <4>1. e.customer \in Customers /\ e.customer # c
        BY <2>1 DEF TypeOK, Entry
      <4> QED
        BY <2>1, <4>1 DEF TypeOK
    <3> QED
      BY <3>1 DEF SilentInv
  <2>3. ASSUME NEW o \in Objects, StoredNow(o) PROVE StoredNow(o)'
    <3>1. CASE CustomerOf[o] = c
      <4>1. Content[o] = {}
        BY <2>1, <2>3, <3>1 DEF StoredNow
      <4> QED
        BY <4>1 DEF StoredNow
    <3>2. CASE CustomerOf[o] # c
      <4>1. zone'[CustomerOf[o]] = zone[CustomerOf[o]]
        BY <2>1, <3>2, QueueAssumptions DEF TypeOK
      <4> QED
        BY <2>1, <2>3, <4>1 DEF StoredNow
    <3> QED
      BY <3>1, <3>2
  <2> QED
    BY <2>1, <2>2, <2>3 DEF SilentInv
<1>3. CASE UNCHANGED <<entries, tickets, zone>>
  BY <1>3 DEF SilentInv, StoredNow
<1> QED
  BY <1>1, <1>2, <1>3 DEF Next, vars, WorkerStep, rowVars, dataVars, workerVars, Enqueue,
     BackoffElapses, LeaseExpires, ReclaimExpiredLeases, ClaimOne, DrainEnds, CreateJob,
     LoadAndParse, LoadMissing, RecordFailure, RecordSuccess, DeleteIngestedFile,
     Fail, Crash, ResetAbandoned

\* Parsing a range again after a retry, a lost lease or a crash marks nothing
\* dirty a second time, as long as no zone change overtakes a parse in flight
\* (insert_log_entries_batch's conflict clause, _set_timezone_guarded's refusal).
THEOREM ReparseAddsNothing == Spec /\ []ZoneHeld => []ReparseIsSilent
<1>1. Init => SilentInv
  BY DEF Init, SilentInv
<1>2. TypeOK /\ ZoneHeld /\ SilentInv /\ [Next]_vars => SilentInv'
  BY SilentInvInductive
<1>3. SilentInv => ReparseIsSilent
  <2> SUFFICES ASSUME SilentInv, NEW o \in Objects PROVE Len(tickets[o]) <= 1
    BY DEF ReparseIsSilent
  <2>1. CASE tickets[o] = <<>>
    <3>1. Len(tickets[o]) = 0
      BY <2>1
    <3> QED
      BY <3>1
  <2>2. CASE Len(tickets[o]) = 1
    BY <2>2
  <2> QED
    BY <2>1, <2>2 DEF SilentInv
<1> QED
  BY <1>1, <1>2, <1>3, TypeCorrect, PTL DEF Spec

\* With one time zone configured for everybody no zone change can overtake a
\* parse, so a replay is silent without any condition on the steps.
THEOREM OneZoneIsSilent ==
  ASSUME \A z1, z2 \in Zones : z1 = z2
  PROVE  Spec => []ReparseIsSilent
<1>1. TypeOK => ZoneHeld
  BY QueueAssumptions DEF TypeOK, ZoneHeld
<1> QED
  BY <1>1, TypeCorrect, ReparseAddsNothing, PTL
=============================================================================
