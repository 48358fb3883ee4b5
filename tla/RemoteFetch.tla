----------------------------- MODULE RemoteFetch -----------------------------
(***************************************************************************)
(* One SSH source being fetched (remote_fetcher._fetch_source) while the   *)
(* remote server appends to its live log and rotates it by rename cascade  *)
(* (app.txt -> app.txt.1 -> ...).  The per-host advisory lock admits one   *)
(* fetch at a time, so the fetcher is one process; every SFTP operation of *)
(* it interleaves with the server.                                         *)
(*                                                                         *)
(* A remote file is an inode holding bytes 1..size; byte k ends a line     *)
(* when k is in LineEnds.  Path 1 is the live file.  The head hash of a    *)
(* file is the inode it belongs to and how many head bytes were hashed:    *)
(* distinct contents never collide, and all empty files hash alike.        *)
(***************************************************************************)
EXTENDS Integers, FiniteSets

CONSTANTS
    NPaths,      \* names of the rotation chain, 1 = live
    MaxInode,    \* bound: files the server ever creates
    MaxSize,     \* bound: bytes per file
    HeadBytes,   \* settings.ssh_fingerprint_bytes
    Window,      \* settings.ssh_max_file_size: bytes per read
    LineEnds,    \* positions k such that byte k of a file is a newline
    QueueModes,  \* values log_parse_worker_enabled takes over restarts
    Modes,       \* fetch modes requested
    MaxAborts    \* bound: fetches cut short

ASSUME FetchAssumptions ==
    /\ {NPaths, MaxInode, MaxSize, HeadBytes, Window} \subseteq Nat \ {0}
    /\ LineEnds \subseteq Nat \ {0}
    /\ QueueModes \subseteq BOOLEAN /\ QueueModes # {}
    /\ Modes \subseteq {"incremental", "seed", "timestamp", "full"}
    /\ MaxAborts \in Nat

VARIABLES
    at,      \* path -> inode, 0 when the name is absent
    size,    \* inode -> bytes
    mtime,   \* inode -> coarse modification time (whole seconds on the wire)
    made,    \* inodes created so far
    ckpt,    \* path -> checkpoint row or NoCkpt
    staged,  \* inode -> its bytes that were handed to Stage 1
    seeded,  \* inode -> offset up to which a seed declared it consumed
    pc,      \* where _fetch_source stands
    mode,    \* mode of the fetch in progress
    queue,   \* queue_mode of the fetch in progress
    listing, \* paths listed at the start of the poll
    cursor,  \* the last path handled: the loop goes through the listing in order
    sigs,    \* sig_consumed: content identities of the pre-poll snapshot
    probe,   \* the file in hand: path, size, mtime, head
    off,     \* read offset
    handle,  \* inode of the open download handle
    aborts   \* (bound only)

remoteVars == <<at, size, mtime, made>>
dbVars     == <<ckpt, staged, seeded>>
fetchVars  == <<pc, mode, queue, listing, cursor, sigs, probe, off, handle>>
vars == <<remoteVars, dbVars, fetchVars, aborts>>

Paths  == 1..NPaths
Inodes == 1..MaxInode
Lesser(a, b) == IF a <= b THEN a ELSE b

\* _head_hash of the first HeadBytes bytes of inode i when it holds n bytes.
HeadHash(i, n) == IF n = 0 THEN <<0, 0>> ELSE <<i, Lesser(n, HeadBytes)>>

NoCkpt  == [size |-> -1, mtime |-> -1, off |-> -1, head |-> <<0, 0>>]
Heads   == (0..MaxInode) \X (0..HeadBytes)
Ckpt    == [size: 0..MaxSize, mtime: 0..1, off: 0..MaxSize, head: Heads] \cup {NoCkpt}
NoProbe == [path |-> 0, size |-> 0, mtime |-> 0, head |-> <<0, 0>>]

TypeOK ==
    /\ at \in [Paths -> 0..MaxInode]
    /\ size \in [Inodes -> 0..MaxSize]
    /\ mtime \in [Inodes -> 0..1]
    /\ made \in 0..MaxInode
    /\ ckpt \in [Paths -> Ckpt]
    /\ staged \in [Inodes -> SUBSET (1..MaxSize)]
    /\ seeded \in [Inodes -> 0..MaxSize]
    /\ pc \in {"idle", "next", "open", "read"}
    /\ mode \in Modes \cup {"none"} /\ queue \in BOOLEAN
    /\ listing \subseteq Paths
    /\ cursor \in 0..NPaths
    /\ probe \in [path: 0..NPaths, size: 0..MaxSize, mtime: 0..1, head: Heads]
    /\ off \in 0..MaxSize
    /\ handle \in 0..MaxInode
    /\ aborts \in 0..MaxAborts

Init ==
    /\ at = [p \in Paths |-> IF p = 1 THEN 1 ELSE 0]
    /\ size = [i \in Inodes |-> 0]
    /\ mtime = [i \in Inodes |-> 0]
    /\ made = 1
    /\ ckpt = [p \in Paths |-> NoCkpt]
    /\ staged = [i \in Inodes |-> {}]
    /\ seeded = [i \in Inodes |-> 0]
    /\ pc = "idle"
    /\ mode = "none" /\ queue = TRUE
    /\ listing = {}
    /\ cursor = 0
    /\ sigs = {}
    /\ probe = NoProbe
    /\ off = 0
    /\ handle = 0
    /\ aborts = 0

(***************************************************************************)
(* The remote server (external).                                           *)
(***************************************************************************)
\* The live file grows; the wire mtime may or may not show it.
AppendBytes ==
    LET i == at[1]
    IN  /\ i # 0 /\ size[i] < MaxSize
        /\ size' = [size EXCEPT ![i] = @ + 1]
        /\ \E m \in mtime[i]..1 : mtime' = [mtime EXCEPT ![i] = m]
        /\ UNCHANGED <<at, made, dbVars, fetchVars, aborts>>

\* Metadata changes without new bytes.
Touch ==
    LET i == at[1]
    IN  /\ i # 0 /\ mtime[i] = 0
        /\ mtime' = [mtime EXCEPT ![i] = 1]
        /\ UNCHANGED <<at, size, made, dbVars, fetchVars, aborts>>

\* The rename cascade: the oldest file is dropped, the live name is briefly absent.
Rotate ==
    /\ at[1] # 0 /\ made < MaxInode
    /\ at' = [p \in Paths |-> IF p = 1 THEN 0 ELSE at[p - 1]]
    /\ UNCHANGED <<size, mtime, made, dbVars, fetchVars, aborts>>

Reopen ==
    /\ at[1] = 0 /\ made < MaxInode
    /\ at' = [at EXCEPT ![1] = made + 1]
    /\ made' = made + 1
    /\ UNCHANGED <<size, mtime, dbVars, fetchVars, aborts>>

(***************************************************************************)
(* The per-file decision of incremental mode (_plan_incremental): what to  *)
(* do with a probed file, given this path's checkpoint and the content     *)
(* identities consumed before this poll.                                   *)
(***************************************************************************)
Skip(save)  == [pull |-> FALSE, start |-> 0, save |-> save]
Pull(start) == [pull |-> TRUE, start |-> start, save |-> -1]

\* The head identifies content only when both sides hold HeadBytes bytes.
Rotated(ck, pr) ==
    /\ ck # NoCkpt /\ ck.size >= HeadBytes /\ pr.size >= HeadBytes
    /\ ck.head # pr.head

Truncated(ck, pr) == ck # NoCkpt /\ pr.size < ck.size

\* The same file at this path needs no transfer.
Unchanged(ck, pr) ==
    ck # NoCkpt /\ ~Rotated(ck, pr) /\ pr.size = ck.size /\ pr.mtime = ck.mtime

\* (bug) the recorded file may have been read in part, or have grown since.
MutantSkipPartlyRead(pr, s) ==
    pr.size >= HeadBytes /\ \E c \in s : c.head = pr.head

\* These very bytes were consumed whole under some path: a cascaded file.
ContentConsumed(pr, s) ==
    /\ pr.size >= HeadBytes
    /\ \E c \in s : /\ c.head = pr.head /\ c.size = pr.size /\ c.mtime = pr.mtime
                     /\ c.off >= pr.size

PlanIncremental(ck, pr, s) ==
    IF Unchanged(ck, pr) THEN Skip(-1)
    ELSE IF ContentConsumed(pr, s) THEN Skip(pr.size)
    ELSE IF Rotated(ck, pr) \/ Truncated(ck, pr) \/ ck = NoCkpt THEN Pull(0)
    ELSE IF ck.off >= pr.size THEN Skip(ck.off)
    ELSE Pull(ck.off)

Checkpoint(pr, o) == [size |-> pr.size, mtime |-> pr.mtime, off |-> o, head |-> pr.head]

(***************************************************************************)
(* _fetch_source.                                                          *)
(***************************************************************************)
\* The lock is held, the checkpoints are loaded, the directory is listed.
Begin(m) ==
    /\ pc = "idle"
    /\ mode' = m /\ queue' \in QueueModes
    /\ sigs' = {ckpt[p] : p \in Paths} \ {NoCkpt}
    /\ listing' = {p \in Paths : at[p] # 0}
    /\ pc' = "next"
    /\ UNCHANGED <<remoteVars, dbVars, cursor, probe, off, handle, aborts>>

Remaining == {p \in listing : p > cursor}
NextListed(p) == p \in Remaining /\ \A q \in Remaining : p <= q

\* _probe: the name vanished since the listing; this file waits for the next poll.
ProbeVanished(p) ==
    /\ pc = "next" /\ NextListed(p)
    /\ at[p] = 0
    /\ cursor' = p
    /\ UNCHANGED <<remoteVars, dbVars, pc, mode, queue, listing, sigs, probe, off, handle, aborts>>

\* The decision for the probed file: the requested mode settles it, or the
\* incremental plan does. A timestamp fetch reads the files its mtime rule
\* selects and seeds the others.
Decisions(p, pr) ==
    CASE mode = "seed"        -> {Skip(pr.size)}
      [] mode = "full"        -> {Pull(0)}
      [] mode = "timestamp"   -> {Skip(pr.size), Pull(0)}
      [] mode = "incremental" -> {PlanIncremental(ckpt[p], pr, sigs)}

\* _probe samples size, mtime and head from one handle; a skipped file's
\* checkpoint is saved at once.
Probe(p) ==
    LET i  == at[p]
        pr == [path |-> p, size |-> size[i], mtime |-> mtime[i], head |-> HeadHash(i, size[i])]
    IN  /\ pc = "next" /\ NextListed(p)
        /\ i # 0
        /\ cursor' = p
        /\ \E d \in Decisions(p, pr) :
             /\ pc' = IF d.pull THEN "open" ELSE "next"
             /\ probe' = IF d.pull THEN pr ELSE NoProbe
             /\ off' = d.start
             /\ ckpt' = IF ~d.pull /\ d.save # -1
                        THEN [ckpt EXCEPT ![p] = Checkpoint(pr, d.save)] ELSE ckpt
             /\ seeded' = IF ~d.pull /\ mode # "incremental"
                          THEN [seeded EXCEPT ![i] = pr.size] ELSE seeded
        /\ UNCHANGED <<remoteVars, staged, mode, queue, listing, sigs, handle, aborts>>

\* (bug) the download handle is opened without re-hashing the head.
MutantOpenUnverified(i) == i # 0

\* _open_verified: the download handle still shows the head the probe hashed;
\* a file shorter than HeadBytes opens unverified.
SameFile(i) ==
    /\ i # 0
    /\ probe.size >= HeadBytes => HeadHash(i, size[i]) = probe.head

OpenVerified ==
    /\ pc = "open"
    /\ SameFile(at[probe.path])
    /\ handle' = at[probe.path]
    /\ pc' = "read"
    /\ UNCHANGED <<remoteVars, dbVars, mode, queue, listing, cursor, sigs, probe, off, aborts>>

\* _FileChanged: swapped or gone, the file waits for the next poll.
OpenChanged ==
    /\ pc = "open"
    /\ ~SameFile(at[probe.path])
    /\ pc' = "next"
    /\ probe' = NoProbe /\ off' = 0
    /\ UNCHANGED <<remoteVars, dbVars, mode, queue, listing, cursor, sigs, handle, aborts>>

\* Where a read of [off, n) ends: at n, the probed size, untrimmed; otherwise
\* after the last newline of the window, or with the whole window if it has none.
WindowEnd(n) ==
    LET e  == Lesser(off + Window, n)
        nl == LineEnds \cap (off + 1 .. e)
    IN  IF e >= n \/ nl = {} THEN e
        ELSE CHOOSE k \in nl : \A j \in nl : j <= k

\* One window: saved, then queued together with its checkpoint (_stage_range), or
\* parsed inline with the checkpoint left for the end of the file (_pull_range).
StageWindow ==
    LET n == probe.size
        e == WindowEnd(n)
    IN  /\ pc = "read" /\ off < n
        /\ staged' = [staged EXCEPT ![handle] = @ \cup (off + 1 .. e)]
        /\ ckpt' = IF queue
                   THEN [ckpt EXCEPT ![probe.path] = Checkpoint(probe, e)]
                   ELSE ckpt
        /\ off' = e
        /\ UNCHANGED <<remoteVars, seeded, pc, mode, queue, listing, cursor, sigs, probe, handle, aborts>>

FinishFile ==
    /\ pc = "read" /\ off >= probe.size
    /\ ckpt' = IF queue THEN ckpt
               ELSE [ckpt EXCEPT ![probe.path] = Checkpoint(probe, off)]
    /\ handle' = 0 /\ probe' = NoProbe /\ off' = 0
    /\ pc' = "next"
    /\ UNCHANGED <<remoteVars, staged, seeded, mode, queue, listing, cursor, sigs, aborts>>

\* A disk fault while a file is transferred skips that file only.
SkipFile ==
    /\ pc = "read" /\ aborts < MaxAborts
    /\ pc' = "next"
    /\ handle' = 0 /\ probe' = NoProbe /\ off' = 0
    /\ aborts' = aborts + 1
    /\ UNCHANGED <<remoteVars, dbVars, mode, queue, listing, cursor, sigs>>

\* Any other error, a timeout or a crash ends the fetch. What was committed stays.
Abort ==
    /\ pc # "idle" /\ aborts < MaxAborts
    /\ pc' = "idle" /\ mode' = "none" /\ queue' = TRUE
    /\ listing' = {} /\ sigs' = {} /\ cursor' = 0
    /\ handle' = 0 /\ probe' = NoProbe /\ off' = 0
    /\ aborts' = aborts + 1
    /\ UNCHANGED <<remoteVars, dbVars>>

\* The listing is done; checkpoints of names long gone may be pruned.
EndPoll ==
    /\ pc = "next" /\ Remaining = {}
    /\ \E gone \in SUBSET (IF listing = {} THEN {} ELSE Paths \ listing) :
         ckpt' = [p \in Paths |-> IF p \in gone THEN NoCkpt ELSE ckpt[p]]
    /\ pc' = "idle" /\ mode' = "none" /\ queue' = TRUE
    /\ listing' = {} /\ sigs' = {} /\ cursor' = 0
    /\ UNCHANGED <<remoteVars, staged, seeded, probe, off, handle, aborts>>

FetchStep ==
    \/ \E m \in Modes : Begin(m)
    \/ \E p \in Paths : ProbeVanished(p) \/ Probe(p)
    \/ OpenVerified \/ OpenChanged \/ StageWindow \/ FinishFile \/ EndPoll

Next == AppendBytes \/ Touch \/ Rotate \/ Reopen \/ FetchStep \/ SkipFile \/ Abort

Spec == Init /\ [][Next]_vars

\* The poller's loop comes round for ever; the server and failures owe nothing.
FairSpec == Spec /\ WF_vars(FetchStep)

-----------------------------------------------------------------------------
(***************************************************************************)
(* Properties.                                                             *)
(***************************************************************************)
Handled(i, k) == k \in staged[i] \/ k <= seeded[i]

\* A checkpoint is "a promise that everything behind it is handled": its offset
\* lies within the size it records, and each byte behind it of the file its head
\* names was handed to Stage 1, unless a seed declared it consumed, whatever the
\* server renamed or cut short during the poll.
CheckpointHonest ==
    \A p \in Paths : LET ck == ckpt[p] i == ck.head[1] IN
        ck # NoCkpt => /\ ck.off <= ck.size
                       /\ i # 0 => \A k \in 1..ck.off : Handled(i, k)

\* Once the server is quiet every byte of every file still named is staged or
\* seeded: polling catches up with rotations, vanished names and aborted polls.
Behind(p) == at[p] # 0 /\ \E k \in 1..size[at[p]] : ~Handled(at[p], k)

EventuallyCaughtUp == <>[](\A p \in Paths : ~Behind(p))

\* The same, except for a file whose transfer was cut short between two windows
\* and that has not changed since: its checkpoint already shows its full size.
CutShort(p) ==
    LET i == at[p] IN
    /\ ckpt[p] # NoCkpt /\ ckpt[p].off < ckpt[p].size
    /\ <<ckpt[p].size, ckpt[p].mtime, ckpt[p].head>> = <<size[i], mtime[i], HeadHash(i, size[i])>>

CatchesUpUnlessCut == <>[](\A p \in Paths : Behind(p) => CutShort(p))
=============================================================================
