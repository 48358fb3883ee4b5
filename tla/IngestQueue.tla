----------------------------- MODULE IngestQueue -----------------------------
(***************************************************************************)
(* The Stage 1 ingest queue: log_source_objects rows (one downloaded byte  *)
(* range each), the parse workers that lease and parse them, the operator  *)
(* endpoints that re-arm a dead letter or change a tenant's time zone, and *)
(* the log_entries / log_regroup_pending rows Stage 1 writes.              *)
(*                                                                         *)
(* One worker is one process running run_log_parse_worker: its steps are   *)
(* the database transactions and storage calls of drain_once, so another   *)
(* worker, a crash, a lease expiry or an operator may come between any two *)
(* of them.                                                                *)
(***************************************************************************)
EXTENDS Integers, Sequences

CONSTANTS
    Workers,         \* parse-worker processes
    Objects,         \* ids of log_source_objects rows
    Customers,       \* tenants
    CustomerOf,      \* Objects -> Customers
    Lines,           \* distinct raw log lines (entry_hash identifies one)
    Content,         \* Objects -> SUBSET Lines: the bytes of the range, parsed
    TimeOf,          \* Lines -> Int: wall clock of a line, NoTime if unparseable
    Zones,           \* the time zones a tenant may be configured with
    MaxAttempts,     \* settings.log_parse_max_attempts
    BatchSize,       \* settings.log_parse_batch_size
    DeleteIngested,  \* settings.log_parse_delete_ingested_files
    MaxResets        \* bound: operator re-arms of the whole queue

NoTime == -1

ASSUME QueueAssumptions ==
    /\ CustomerOf \in [Objects -> Customers]
    /\ Content \in [Objects -> SUBSET Lines]
    /\ TimeOf \in [Lines -> Nat \cup {NoTime}]
    /\ MaxAttempts \in Nat \ {0}
    /\ BatchSize \in Nat \ {0}
    /\ DeleteIngested \in BOOLEAN
    /\ MaxResets \in Nat
    /\ Zones # {}

VARIABLES
    status,    \* Objects -> row status ("absent": not queued yet)
    attempts,  \* Objects -> Nat
    lease,     \* Objects -> "none" | "live" | "expired": lease_expires_at against now
    due,       \* rows with available_at <= clock_timestamp()
    files,     \* rows whose stored copy exists
    entries,   \* log_entries: set of [customer, line, zone], the dedup key
    tickets,   \* Objects -> <<zone, range_start, range_end>> written by its parses, in order
    zone,      \* Customers -> configured time zone
    pc,        \* Workers -> where drain_once stands
    cur,       \* Workers -> the row in hand
    readZone,  \* Workers -> the zone run_log_parse_insert read for this parse
    job,       \* Workers -> status of the Job row this parse created
    claimed,   \* Workers -> rows claimed in the current drain
    resets     \* re-arms so far (bound only)

rowVars    == <<status, attempts, lease, due>>
dataVars   == <<files, entries, tickets, zone>>
workerVars == <<pc, cur, readZone, job, claimed>>
vars == <<rowVars, dataVars, workerVars, resets>>

RowStatus == {"absent", "pending", "leased", "ingested", "abandoned"}
PCs == {"idle", "drain", "claimed", "parsing", "loaded", "committed",
        "transient", "permanent", "cleanup"}
JobStatus == {"none", "pending", "parsing", "completed", "failed"}
Entry == [customer: Customers, line: Lines, zone: Zones]

TypeOK ==
    /\ status \in [Objects -> RowStatus]
    /\ attempts \in [Objects -> Nat]
    /\ lease \in [Objects -> {"none", "live", "expired"}]
    /\ due \in SUBSET Objects
    /\ files \in SUBSET Objects
    /\ entries \in SUBSET Entry
    /\ tickets \in [Objects -> Seq(Zones \X Int \X Int)]
    /\ zone \in [Customers -> Zones]
    /\ pc \in [Workers -> PCs]
    /\ cur \in [Workers -> Objects]
    /\ readZone \in [Workers -> Zones]
    /\ job \in [Workers -> JobStatus]
    /\ claimed \in [Workers -> 0..BatchSize]
    /\ resets \in 0..MaxResets

Init ==
    /\ status = [o \in Objects |-> "absent"]
    /\ attempts = [o \in Objects |-> 0]
    /\ lease = [o \in Objects |-> "none"]
    /\ due = {}
    /\ files = {}
    /\ entries = {}
    /\ tickets = [o \in Objects |-> <<>>]
    /\ zone \in [Customers -> Zones]
    /\ pc = [w \in Workers |-> "idle"]
    /\ cur \in [Workers -> Objects]
    /\ readZone \in [Workers -> Zones]
    /\ job = [w \in Workers |-> "none"]
    /\ claimed = [w \in Workers |-> 0]
    /\ resets = 0

(***************************************************************************)
(* The producer: the fetcher has saved the bytes and commits the row, due  *)
(* at once, together with the file checkpoint (see RemoteFetch).           *)
(***************************************************************************)
Enqueue(o) ==
    /\ status[o] = "absent"
    /\ status' = [status EXCEPT ![o] = "pending"]
    /\ due' = due \cup {o}
    /\ files' = files \cup {o}
    /\ UNCHANGED <<attempts, lease, entries, tickets, zone, workerVars, resets>>

(***************************************************************************)
(* Time: a backoff elapses, a live lease runs out.                         *)
(***************************************************************************)
BackoffElapses(o) ==
    /\ o \notin due /\ status[o] = "pending"
    /\ due' = due \cup {o}
    /\ UNCHANGED <<status, attempts, lease, dataVars, workerVars, resets>>

LeaseExpires(o) ==
    /\ lease[o] = "live"
    /\ lease' = [lease EXCEPT ![o] = "expired"]
    /\ UNCHANGED <<status, attempts, due, dataVars, workerVars, resets>>

(***************************************************************************)
(* The retry policy shared by lease expiry and recorded failures: one more *)
(* attempt is consumed; a permanent failure or a spent budget is a dead    *)
(* letter, otherwise the row is pending behind a backoff.                  *)
(***************************************************************************)
\* (bug) the budget is compared with > instead of >=.
MutantBudgetOffByOne(a, transient) ==
    IF ~transient \/ a > MaxAttempts THEN "abandoned" ELSE "pending"

StatusAfterFailure(a, transient) ==
    IF ~transient \/ a >= MaxAttempts THEN "abandoned" ELSE "pending"

\* (bug) the sweep is skipped.
MutantNoReclaim == {}

\* The rows reclaim_expired_leases selects.
ExpiredLeases == {o \in Objects : status[o] = "leased" /\ lease[o] = "expired"}

(***************************************************************************)
(* drain_once begins: every expired lease goes back through the retry      *)
(* policy in one transaction, whoever held it.                             *)
(***************************************************************************)
ReclaimExpiredLeases(w) ==
    /\ pc[w] = "idle"
    /\ attempts' = [o \in Objects |->
                      IF o \in ExpiredLeases THEN attempts[o] + 1 ELSE attempts[o]]
    /\ status' = [o \in Objects |->
                    IF o \in ExpiredLeases
                    THEN StatusAfterFailure(attempts[o] + 1, TRUE) ELSE status[o]]
    /\ lease' = [o \in Objects |-> IF o \in ExpiredLeases THEN "none" ELSE lease[o]]
    /\ due' = due \ ExpiredLeases
    /\ pc' = [pc EXCEPT ![w] = "drain"]
    /\ claimed' = [claimed EXCEPT ![w] = 0]
    /\ UNCHANGED <<dataVars, cur, readZone, job, resets>>

\* (bug) one claim too many.
MutantBatchOffByOne(w) == claimed[w] <= BatchSize

\* drain_once claims at most BatchSize rows.
BatchLeft(w) == claimed[w] < BatchSize

Claimable(o) == status[o] = "pending" /\ o \in due

\* claim_one: lease a due pending row (FOR UPDATE SKIP LOCKED: one claimer wins).
ClaimOne(w, o) ==
    /\ pc[w] = "drain" /\ BatchLeft(w)
    /\ Claimable(o)
    /\ status' = [status EXCEPT ![o] = "leased"]
    /\ lease' = [lease EXCEPT ![o] = "live"]
    /\ cur' = [cur EXCEPT ![w] = o]
    /\ claimed' = [claimed EXCEPT ![w] = @ + 1]
    /\ pc' = [pc EXCEPT ![w] = "claimed"]
    /\ UNCHANGED <<attempts, due, dataVars, readZone, job, resets>>

\* The batch is spent or nothing is claimable: the loop sleeps.
DrainEnds(w) ==
    /\ pc[w] = "drain"
    /\ ~BatchLeft(w) \/ \A o \in Objects : ~Claimable(o)
    /\ pc' = [pc EXCEPT ![w] = "idle"]
    /\ UNCHANGED <<rowVars, dataVars, cur, readZone, job, claimed, resets>>

(***************************************************************************)
(* process_claimed: create the Job, run Stage 1, record the outcome.       *)
(***************************************************************************)
CreateJob(w) ==
    /\ pc[w] = "claimed"
    /\ job' = [job EXCEPT ![w] = "pending"]
    /\ pc' = [pc EXCEPT ![w] = "parsing"]
    /\ UNCHANGED <<rowVars, dataVars, cur, readZone, claimed, resets>>

\* run_log_parse_insert up to the insert: status parsing is committed, the
\* stored bytes are loaded and parsed, the tenant's zone is read.
LoadAndParse(w) ==
    /\ pc[w] = "parsing"
    /\ cur[w] \in files
    /\ job' = [job EXCEPT ![w] = "parsing"]
    /\ readZone' = [readZone EXCEPT ![w] = zone[CustomerOf[cur[w]]]]
    /\ pc' = [pc EXCEPT ![w] = "loaded"]
    /\ UNCHANGED <<rowVars, dataVars, cur, claimed, resets>>

\* storage.load finds no file: FileNotFoundError is a permanent failure.
LoadMissing(w) ==
    /\ pc[w] = "parsing"
    /\ cur[w] \notin files
    /\ job' = [job EXCEPT ![w] = "failed"]
    /\ pc' = [pc EXCEPT ![w] = "permanent"]
    /\ UNCHANGED <<rowVars, dataVars, cur, readZone, claimed, resets>>

\* (bug) the last, partial batch is never flushed: a short file inserts nothing.
MutantNoFinalFlush(o, z) == {}

\* (bug) the conflict clause is gone: a replay inserts its lines again.
MutantNoDedup(o, z) ==
    {[customer |-> CustomerOf[o], line |-> l, zone |-> z] : l \in Content[o]}

\* ON CONFLICT (customer_code, entry_hash, timestamp) DO NOTHING: the rows of
\* object o that a parse under zone z really inserts.
InsertDedup(o, z) ==
    {[customer |-> CustomerOf[o], line |-> l, zone |-> z] : l \in Content[o]} \ entries

\* lo and hi are the least and greatest timestamp that RETURNING reported.
IsSpan(new, lo, hi) ==
    LET times == {TimeOf[e.line] : e \in new} \ {NoTime}
    IN  /\ lo \in times /\ hi \in times
        /\ \A t \in times : lo <= t /\ t <= hi

\* (bug) one row without a timestamp empties the range of the whole insert.
MutantUntimedPoisons(new, z, ts) ==
    \/ (\E e \in new : TimeOf[e.line] = NoTime) /\ ts = <<>>
    \/ \E lo, hi \in {TimeOf[e.line] : e \in new} :
         IsSpan(new, lo, hi) /\ ts = <<<<z, lo, hi>>>>

\* ts holds the dirty window of the insert: none when no inserted row has a timestamp.
NewTicket(new, z, ts) ==
    \/ (\A e \in new : TimeOf[e.line] = NoTime) /\ ts = <<>>
    \/ \E lo, hi \in {TimeOf[e.line] : e \in new} :
         IsSpan(new, lo, hi) /\ ts = <<<<z, lo, hi>>>>

\* The windows a parse of o can mark dirty.
Windows(o) == Zones \X {TimeOf[l] : l \in Content[o]} \X {TimeOf[l] : l \in Content[o]}

\* Entries, the Stage 2 ticket over what was inserted and the completed Job
\* commit together.
CommitStage1(w) ==
    LET o   == cur[w]
        new == InsertDedup(o, readZone[w])
    IN  /\ pc[w] = "loaded"
        /\ entries' = entries \cup new
        /\ \E ts \in {<<>>} \cup {<<r>> : r \in Windows(o)} :
             /\ NewTicket(new, readZone[w], ts)
             /\ tickets' = [tickets EXCEPT ![o] = @ \o ts]
        /\ job' = [job EXCEPT ![w] = "completed"]
        /\ pc' = [pc EXCEPT ![w] = "committed"]
        /\ UNCHANGED <<rowVars, files, zone, cur, readZone, claimed, resets>>

\* Any step of process_claimed may raise. A Stage 1 failure rolls the insert
\* back and marks the Job failed; retry_policy.is_transient classifies it.
Fail(w, kind) ==
    /\ pc[w] \in {"claimed", "parsing", "loaded", "committed"}
    /\ kind \in {"transient", "permanent"}
    /\ kind = "permanent" => pc[w] \in {"parsing", "loaded"}
    /\ job' = [job EXCEPT ![w] = IF pc[w] \in {"parsing", "loaded"} THEN "failed" ELSE @]
    /\ pc' = [pc EXCEPT ![w] = kind]
    /\ UNCHANGED <<rowVars, dataVars, cur, readZone, claimed, resets>>

\* (bug) the stored copy is reclaimed whatever the outcome was.
MutantCleanupAlways(s) == "cleanup"

\* drain_once reclaims the stored copy of a row it reports ingested only.
AfterOutcome(s) == IF s = "ingested" THEN "cleanup" ELSE "drain"

\* record_failure: the row is looked up by id alone, whoever holds it now.
RecordFailure(w) ==
    LET o == cur[w]
        s == StatusAfterFailure(attempts[o] + 1, pc[w] = "transient")
    IN  /\ pc[w] \in {"transient", "permanent"}
        /\ attempts' = [attempts EXCEPT ![o] = @ + 1]
        /\ status' = [status EXCEPT ![o] = s]
        /\ lease' = [lease EXCEPT ![o] = "none"]
        /\ due' = IF s = "pending" THEN due \ {o} ELSE due
        /\ pc' = [pc EXCEPT ![w] = AfterOutcome(s)]
        /\ UNCHANGED <<dataVars, cur, readZone, job, claimed, resets>>

\* record_success: again by id alone.
RecordSuccess(w) ==
    /\ pc[w] = "committed"
    /\ status' = [status EXCEPT ![cur[w]] = "ingested"]
    /\ lease' = [lease EXCEPT ![cur[w]] = "none"]
    /\ pc' = [pc EXCEPT ![w] = AfterOutcome("ingested")]
    /\ UNCHANGED <<attempts, due, dataVars, cur, readZone, job, claimed, resets>>

\* _delete_ingested_file: best effort, then on to the next claim.
DeleteIngestedFile(w) ==
    /\ pc[w] = "cleanup"
    /\ \/ DeleteIngested /\ files' = files \ {cur[w]}
       \/ UNCHANGED files
    /\ pc' = [pc EXCEPT ![w] = "drain"]
    /\ UNCHANGED <<rowVars, entries, tickets, zone, cur, readZone, job, claimed, resets>>

\* The process dies, or record_failure itself raises out of drain_once: what
\* is committed stays, the row keeps its lease until it expires.
Crash(w) ==
    /\ pc[w] \notin {"idle", "drain"}
    /\ pc' = [pc EXCEPT ![w] = "idle"]
    /\ UNCHANGED <<rowVars, dataVars, cur, readZone, job, claimed, resets>>

(***************************************************************************)
(* Operator endpoints.                                                     *)
(***************************************************************************)
\* The rows reset_abandoned_objects updates.
DeadLetters(c) == {o \in Objects : CustomerOf[o] = c /\ status[o] = "abandoned"}

\* reset_abandoned_objects: re-arm every dead letter of one tenant.
ResetAbandoned(c) ==
    LET rearmed == DeadLetters(c)
    IN  /\ resets < MaxResets /\ rearmed # {}
        /\ status' = [o \in Objects |-> IF o \in rearmed THEN "pending" ELSE status[o]]
        /\ attempts' = [o \in Objects |-> IF o \in rearmed THEN 0 ELSE attempts[o]]
        /\ lease' = [o \in Objects |-> IF o \in rearmed THEN "none" ELSE lease[o]]
        /\ due' = due \cup rearmed
        /\ resets' = resets + 1
        /\ UNCHANGED <<dataVars, workerVars>>

\* has_entries: the tenant has committed entries.
HasEntries(c) == \E e \in entries : e.customer = c

\* _set_timezone_guarded without the allow_mixed override.
SetTimezone(c, z) ==
    /\ zone[c] # z
    /\ ~HasEntries(c)
    /\ zone' = [zone EXCEPT ![c] = z]
    /\ UNCHANGED <<rowVars, files, entries, tickets, workerVars, resets>>

WorkerStep(w) ==
    \/ ReclaimExpiredLeases(w)
    \/ \E o \in Objects : ClaimOne(w, o)
    \/ DrainEnds(w)
    \/ CreateJob(w)
    \/ LoadAndParse(w)
    \/ LoadMissing(w)
    \/ CommitStage1(w)
    \/ RecordFailure(w)
    \/ RecordSuccess(w)
    \/ DeleteIngestedFile(w)

Next ==
    \/ \E o \in Objects : Enqueue(o) \/ BackoffElapses(o) \/ LeaseExpires(o)
    \/ \E w \in Workers : WorkerStep(w)
    \/ \E w \in Workers, kind \in {"transient", "permanent"} : Fail(w, kind)
    \/ \E w \in Workers : Crash(w)
    \/ \E c \in Customers : ResetAbandoned(c)
    \/ \E c \in Customers, z \in Zones : SetTimezone(c, z)

Spec == Init /\ [][Next]_vars

\* The loop runs forever (run_log_parse_worker) and time passes; the producer,
\* failures, crashes and the operator owe nothing.
Fairness ==
    /\ \A w \in Workers : WF_vars(WorkerStep(w))
    /\ \A o \in Objects : WF_vars(BackoffElapses(o)) /\ WF_vars(LeaseExpires(o))

FairSpec == Spec /\ Fairness

-----------------------------------------------------------------------------
(***************************************************************************)
(* Properties.                                                             *)
(***************************************************************************)
Stored(o) == \A l \in Content[o] : \E e \in entries :
                e.customer = CustomerOf[o] /\ e.line = l

\* No byte range is lost: once its row exists, either the stored copy is still
\* there to be parsed or every line of it is in log_entries. The checkpoint is
\* already past these bytes, so nothing would download them again
\* (_delete_ingested_file, record_success, record_failure).
NoBytesLost == \A o \in Objects : status[o] # "absent" => o \in files \/ Stored(o)

\* A row says `ingested` only when all of its lines are committed, however many
\* workers raced on it (record_success after run_log_parse_insert).
IngestedIsStored == \A o \in Objects : status[o] = "ingested" => Stored(o)

Covers(r, e) == r[1] = e.zone /\ r[2] <= TimeOf[e.line] /\ TimeOf[e.line] <= r[3]

\* Every entry with a timestamp lies inside a dirty window that Stage 1 wrote:
\* whichever parse inserted it also left the ticket that gets it stitched.
EntriesTicketed ==
    \A e \in entries : TimeOf[e.line] # NoTime =>
        \E o \in Objects : \E k \in 1..Len(tickets[o]) :
            CustomerOf[o] = e.customer /\ Covers(tickets[o][k], e)

\* A row that can still be claimed or is being worked on has budget left, so a
\* row that always fails or crashes its worker reaches the dead letter.
BudgetLeft == \A o \in Objects :
    status[o] \in {"pending", "leased"} => attempts[o] < MaxAttempts

\* Parsing a range again (retry, expired lease, crash before record_success)
\* marks no further window dirty: a row leaves at most one ticket.
ReparseIsSilent == \A o \in Objects : Len(tickets[o]) <= 1

\* Every queued row keeps reaching a settled state: it is neither stranded under
\* a dead worker's lease nor retried for ever, and a dead letter settles with its
\* bytes where its log line says they are, so that re-arming it can work
\* ("Bytes remain at %s; re-arm with ...").
Settles == \A o \in Objects :
    []<>(\/ status[o] \in {"absent", "ingested"}
         \/ status[o] = "abandoned" /\ o \in files)
=============================================================================
