-------------------------- MODULE RemoteFetchProofs --------------------------
(***************************************************************************)
(* Theorems about RemoteFetch for any chain of names, number of files,     *)
(* window and fingerprint length: type correctness, and what a checkpoint  *)
(* promises.  A file shorter than the fingerprint has no identity, so the  *)
(* promise is proved as long as no poll records such a file, and outright  *)
(* when one byte is enough to identify a file.                             *)
(***************************************************************************)
EXTENDS RemoteFetch, SetFacts, TLAPS

\* The identities a poll starts with are those of stored checkpoints.
Shape ==
    /\ TypeOK
    /\ sigs \subseteq Ckpt \ {NoCkpt}
    /\ pc # "idle" => mode \in Modes
    /\ pc \in {"open", "read"} => probe.path \in Paths

\* The head of a file names the file as soon as it holds a byte.
LEMMA HeadShape ==
  ASSUME NEW i \in Inodes, NEW n \in 0 .. MaxSize
  PROVE  /\ HeadHash(i, n) \in Heads
         /\ n # 0 => HeadHash(i, n)[1] = i /\ i # 0
         /\ n = 0 => HeadHash(i, n) = <<0, 0>>
         /\ n >= HeadBytes => HeadHash(i, n) = <<i, HeadBytes>>
  BY FetchAssumptions DEF HeadHash, Heads, Lesser, Inodes

\* The greatest element of a bounded set, where the code takes the last one.
LEMMA GreatestChosen ==
  ASSUME NEW S \in SUBSET Int, S # {}, NEW b \in Int, \A x \in S : x <= b
  PROVE  (CHOOSE k \in S : \A j \in S : j <= k) \in S
<1>1. Max(S) \in S /\ \A j \in S : j <= Max(S)
  BY MaxIsGreatest
<1> QED
  BY <1>1

\* A read ends within the probed size and never before it began.
LEMMA WindowEndBounds ==
  ASSUME NEW n \in Nat, off \in Nat, off < n
  PROVE  WindowEnd(n) \in off + 1 .. n
<1> DEFINE e  == Lesser(off + Window, n)
           nl == LineEnds \cap (off + 1 .. e)
<1>1. e \in off + 1 .. n /\ e \in Nat
  BY FetchAssumptions DEF Lesser
<1>2. CASE e >= n \/ nl = {}
  BY <1>1, <1>2 DEF WindowEnd
<1>3. CASE ~(e >= n) /\ nl # {}
  <2>1. nl \in SUBSET Int /\ nl # {} /\ \A k \in nl : k <= e
    BY <1>1, <1>3
  <2>2. e \in Int
    BY <1>1
  <2> HIDE DEF nl, e
  <2>3. (CHOOSE k \in nl : \A j \in nl : j <= k) \in nl
    BY <2>1, <2>2, GreatestChosen
  <2>4. WindowEnd(n) \in nl
    BY <1>3, <2>3 DEF WindowEnd, nl, e
  <2> QED
    BY <1>1, <2>4 DEF nl
<1> QED
  BY <1>2, <1>3

\* Before the first poll there is no checkpoint and nothing is in hand.
LEMMA ShapeInit == Init => Shape
  BY FetchAssumptions DEF Init, Shape, TypeOK, Paths, Inodes, Ckpt, NoProbe, Heads

\* A checkpoint written for a probed file is one.
LEMMA CheckpointShape ==
  ASSUME NEW pr \in [path: 0..NPaths, size: 0..MaxSize, mtime: 0..1, head: Heads],
         NEW o \in 0 .. MaxSize
  PROVE  Checkpoint(pr, o) \in Ckpt /\ Checkpoint(pr, o) # NoCkpt
  BY FetchAssumptions DEF Checkpoint, Ckpt, NoCkpt

\* Whatever the mode decides starts and saves within the file.
LEMMA DecisionShape ==
  ASSUME Shape, NEW p \in Paths, NEW pr \in [path: 0..NPaths, size: 0..MaxSize, mtime: 0..1, head: Heads],
         mode \in Modes, NEW d \in Decisions(p, pr)
  PROVE  d.pull \in BOOLEAN /\ d.start \in 0 .. MaxSize /\ d.save \in -1 .. MaxSize
<1>1. pr.size \in 0 .. MaxSize /\ 0 \in 0 .. MaxSize
  BY FetchAssumptions
<1>2. ckpt[p] # NoCkpt => ckpt[p].off \in 0 .. MaxSize
  BY DEF Shape, TypeOK, Ckpt
<1>3. \/ d = Skip(pr.size) \/ d = Pull(0)
      \/ mode = "incremental" /\ d = PlanIncremental(ckpt[p], pr, sigs)
  BY FetchAssumptions DEF Decisions
<1>4. \/ d = Skip(pr.size) \/ d = Pull(0) \/ d = Skip(-1)
      \/ ckpt[p] # NoCkpt /\ (d = Skip(ckpt[p].off) \/ d = Pull(ckpt[p].off))
  BY <1>3 DEF PlanIncremental
<1>5. MaxSize \in Nat /\ -1 \in -1 .. MaxSize /\ 0 .. MaxSize \subseteq -1 .. MaxSize
  BY FetchAssumptions
<1> DEFINE Good(x) == x.pull \in BOOLEAN /\ x.start \in 0 .. MaxSize /\ x.save \in -1 .. MaxSize
<1>6. \A o \in -1 .. MaxSize : Good(Skip(o))
  BY <1>1 DEF Skip
<1>7. \A o \in 0 .. MaxSize : Good(Pull(o))
  BY <1>5 DEF Pull
<1> HIDE DEF Good
<1>8. CASE ckpt[p] # NoCkpt /\ (d = Skip(ckpt[p].off) \/ d = Pull(ckpt[p].off))
  <2>1. ckpt[p].off \in 0 .. MaxSize /\ ckpt[p].off \in -1 .. MaxSize
    BY <1>2, <1>5, <1>8
  <2>2. Good(d)
    BY <1>6, <1>7, <1>8, <2>1
  <2> QED
    BY <2>2 DEF Good
<1>9. CASE d = Skip(pr.size) \/ d = Pull(0) \/ d = Skip(-1)
  <2>1. pr.size \in -1 .. MaxSize
    BY <1>1, <1>5
  <2>2. Good(d)
    BY <1>1, <1>5, <1>6, <1>7, <1>9, <2>1
  <2> QED
    BY <2>2 DEF Good
<1> QED
  BY <1>4, <1>8, <1>9

\* Every step keeps the types, and what the fetcher has in hand within its file.
LEMMA ShapeNext == Shape /\ [Next]_vars => Shape'
<1> SUFFICES ASSUME Shape, [Next]_vars PROVE Shape'
  OBVIOUS
<1> USE FetchAssumptions
<1> USE DEF remoteVars, dbVars, fetchVars
<1>1. CASE AppendBytes
  <2>1. at[1] \in Inodes /\ UNCHANGED <<at, made, dbVars, fetchVars, aborts>>
    BY <1>1 DEF AppendBytes, Shape, TypeOK, Paths, Inodes
  <2>2. size' = [size EXCEPT ![at[1]] = @ + 1] /\ size[at[1]] < MaxSize
    BY <1>1 DEF AppendBytes
  <2>3. PICK m \in mtime[at[1]]..1 : mtime' = [mtime EXCEPT ![at[1]] = m]
    BY <1>1 DEF AppendBytes
  <2>4. size' \in [Inodes -> 0..MaxSize]
    BY <2>1, <2>2 DEF Shape, TypeOK
  <2>5. mtime' \in [Inodes -> 0..1]
    BY <2>1, <2>3 DEF Shape, TypeOK
  <2> QED
    BY <2>1, <2>4, <2>5 DEF Shape, TypeOK
<1>2. CASE Touch
  <2>0. mtime' = [mtime EXCEPT ![at[1]] = 1]
    BY <1>2 DEF Touch
  <2>1. mtime' \in [Inodes -> 0..1]
    <3>1. mtime \in [Inodes -> 0..1] /\ 1 \in 0..1
      BY DEF Shape, TypeOK
    <3> QED
      BY <2>0, <3>1
  <2>2. UNCHANGED <<at, size, made, dbVars, fetchVars, aborts>>
    BY <1>2 DEF Touch
  <2> QED
    BY <2>1, <2>2 DEF Shape, TypeOK
<1>3. CASE Rotate
  BY <1>3 DEF Rotate, Shape, TypeOK, Paths, Inodes
<1>4. CASE Reopen
  BY <1>4 DEF Reopen, Shape, TypeOK, Paths, Inodes
<1>5. ASSUME NEW m \in Modes, Begin(m) PROVE Shape'
  <2>1. sigs' \subseteq Ckpt \ {NoCkpt}
    BY <1>5 DEF Begin, Shape, TypeOK, Ckpt
  <2> QED
    BY <1>5, <2>1 DEF Begin, Shape, TypeOK, Paths
<1>6. ASSUME NEW p \in Paths, ProbeVanished(p) PROVE Shape'
  BY <1>6 DEF ProbeVanished, Shape, TypeOK, Paths
<1>7. ASSUME NEW p \in Paths, Probe(p) PROVE Shape'
  <2> DEFINE i == at[p]
             pr == [path |-> p, size |-> size[i], mtime |-> mtime[i], head |-> HeadHash(i, size[i])]
  <2>1. i \in Inodes /\ mode \in Modes /\ pc = "next"
    BY <1>7 DEF Probe, Shape, TypeOK, Inodes
  <2>2. pr \in [path: 0..NPaths, size: 0..MaxSize, mtime: 0..1, head: Heads]
    BY <2>1, HeadShape DEF Shape, TypeOK, Paths
  <2>3. PICK d \in Decisions(p, pr) :
          /\ pc' = IF d.pull THEN "open" ELSE "next"
          /\ probe' = IF d.pull THEN pr ELSE NoProbe
          /\ off' = d.start
          /\ ckpt' = IF ~d.pull /\ d.save # -1
                     THEN [ckpt EXCEPT ![p] = Checkpoint(pr, d.save)] ELSE ckpt
          /\ seeded' = IF ~d.pull /\ mode # "incremental"
                       THEN [seeded EXCEPT ![i] = pr.size] ELSE seeded
    BY <1>7 DEF Probe
  <2> HIDE DEF pr
  <2>4. d.pull \in BOOLEAN /\ d.start \in 0 .. MaxSize /\ d.save \in -1 .. MaxSize
    BY <2>1, <2>2, DecisionShape
  <2>5. d.save # -1 => Checkpoint(pr, d.save) \in Ckpt
    BY <2>2, <2>4, CheckpointShape
  <2>6. ckpt' \in [Paths -> Ckpt]
    BY <2>3, <2>5 DEF Shape, TypeOK
  <2>7. seeded' \in [Inodes -> 0..MaxSize]
    BY <2>1, <2>2, <2>3 DEF Shape, TypeOK
  <2>8. probe' \in [path: 0..NPaths, size: 0..MaxSize, mtime: 0..1, head: Heads]
    BY <2>2, <2>3 DEF NoProbe, Heads
  <2>9. pc' \in {"next", "open"} /\ (pc' = "open" => probe'.path = p)
    BY <2>3 DEF pr
  <2>10. /\ UNCHANGED <<remoteVars, staged, mode, queue, listing, sigs, handle, aborts>>
         /\ cursor' = p /\ p \in 0..NPaths /\ off' \in 0..MaxSize
    BY <1>7, <2>3, <2>4 DEF Probe, Paths
  <2> QED
    BY <2>1, <2>6, <2>7, <2>8, <2>9, <2>10 DEF Shape, TypeOK
<1>8. CASE OpenVerified
  <2>1. at[probe.path] \in 0..MaxInode
    BY <1>8 DEF OpenVerified, Shape, TypeOK
  <2> QED
    BY <1>8, <2>1 DEF OpenVerified, Shape, TypeOK
<1>9. CASE OpenChanged
  BY <1>9 DEF OpenChanged, Shape, TypeOK, NoProbe, Heads
<1>10. CASE StageWindow
  <2> DEFINE e == WindowEnd(probe.size)
  <2>1. /\ off < probe.size /\ off' = e
        /\ staged' = [staged EXCEPT ![handle] = @ \cup (off + 1 .. e)]
        /\ ckpt' = IF queue THEN [ckpt EXCEPT ![probe.path] = Checkpoint(probe, e)] ELSE ckpt
        /\ UNCHANGED <<remoteVars, seeded, pc, mode, queue, listing, cursor, sigs, probe, handle, aborts>>
    BY <1>10 DEF StageWindow
  <2>2. off \in Nat /\ probe.size \in 0 .. MaxSize
    BY DEF Shape, TypeOK
  <2>3. e \in off + 1 .. probe.size
    BY <2>1, <2>2, WindowEndBounds
  <2> HIDE DEF e
  <2>4. e \in 0 .. MaxSize /\ off + 1 .. e \subseteq 1 .. MaxSize
    BY <2>2, <2>3
  <2>5. staged' \in [Inodes -> SUBSET (1..MaxSize)]
    BY <2>1, <2>4 DEF Shape, TypeOK
  <2>6. ckpt' \in [Paths -> Ckpt]
    <3>1. Checkpoint(probe, e) \in Ckpt
      BY <2>4, CheckpointShape DEF Shape, TypeOK
    <3> QED
      BY <2>1, <3>1 DEF Shape, TypeOK
  <2> QED
    BY <2>1, <2>4, <2>5, <2>6 DEF Shape, TypeOK
<1>11. CASE FinishFile
  <2>1. Checkpoint(probe, off) \in Ckpt
    BY CheckpointShape DEF Shape, TypeOK
  <2> QED
    BY <1>11, <2>1 DEF FinishFile, Shape, TypeOK, NoProbe, Heads
<1>12. CASE SkipFile
  BY <1>12 DEF SkipFile, Shape, TypeOK, NoProbe, Heads
<1>13. CASE Abort
  BY <1>13 DEF Abort, Shape, TypeOK, NoProbe, Heads
<1>14. CASE EndPoll
  BY <1>14 DEF EndPoll, Shape, TypeOK, Ckpt
<1>15. CASE UNCHANGED vars
  BY <1>15 DEF vars, Shape, TypeOK
<1> QED
  BY <1>1, <1>2, <1>3, <1>4, <1>5, <1>6, <1>7, <1>8, <1>9, <1>10, <1>11, <1>12, <1>13,
     <1>14, <1>15 DEF Next, FetchStep

\* Type correctness: offsets, sizes and heads stay within the file they are of.
THEOREM TypeCorrect == Spec => []TypeOK
<1>1. Shape => TypeOK
  BY DEF Shape
<1> QED
  BY <1>1, ShapeInit, ShapeNext, PTL DEF Spec

\* What an offset recorded for a file promises: it lies within the size, and
\* every byte behind it of the file the head names was handled.
Covered(i, o) == i # 0 => \A k \in 1..o : Handled(i, k)
Promise(rec, o) == o <= rec.size /\ Covered(rec.head[1], o)

Honest(ck) == ck # NoCkpt => Promise(ck, ck.off)

\* Empty, or long enough for its head to identify it.
Identified(n) == n = 0 \/ n >= HeadBytes

\* No checkpoint records a file while it is shorter than the fingerprint.
NoShortCheckpoint == \A p \in Paths : ckpt[p] # NoCkpt => Identified(ckpt[p].size)

\* The offset read up to is a promise too, and the handle open for reading is
\* the file that was probed.
InHand ==
    pc \in {"open", "read"} /\ Identified(probe.size) =>
        /\ Promise(probe, off)
        /\ probe.size # 0 => /\ probe.head[1] \in Inodes
                             /\ pc = "read" => handle = probe.head[1]

\* The promise holds of every stored checkpoint and of the identities the poll
\* started with, and of the file in hand.
HonestInv ==
    /\ \A p \in Paths : Honest(ckpt[p])
    /\ \A c \in sigs : Honest(c)
    /\ \A i \in Inodes : seeded[i] <= size[i]
    /\ InHand

\* Files only grow, and what was staged or declared consumed stays so.
Grows ==
    \A i \in Inodes : size[i] <= size'[i] /\ seeded[i] <= seeded'[i] /\ staged[i] \subseteq staged'[i]

\* The same of the state the step leads to.
CoveredNext(i, o) == i # 0 => \A k \in 1..o : k \in staged'[i] \/ k <= seeded'[i]

\* What was handed on stays handed on while the staged bytes only grow.
LEMMA CoveredStays ==
  ASSUME Shape, Shape', Grows
  PROVE  \A i \in 0..MaxInode, o \in Nat : Covered(i, o) => CoveredNext(i, o)
<1> SUFFICES ASSUME NEW i \in Inodes, NEW o \in Nat, \A k \in 1..o : Handled(i, k),
                    NEW k \in 1..o
             PROVE  k \in staged'[i] \/ k <= seeded'[i]
  BY DEF Covered, CoveredNext, Inodes
<1>1. seeded[i] \in Nat /\ seeded'[i] \in Nat /\ k \in Nat
  BY DEF Shape, TypeOK
<1> QED
  BY <1>1 DEF Grows, Handled

\* What the incremental plan skips or resumes from is handled: a cascaded file
\* was consumed under its old name, and a checkpoint is only carried over to a
\* file with the same head.
LEMMA PlanHonest ==
  ASSUME Shape, HonestInv, NoShortCheckpoint, NEW p \in Paths, NEW i \in Inodes,
         NEW pr, pr.size \in 0 .. MaxSize, Identified(pr.size), pr.head = HeadHash(i, pr.size),
         NEW d, d = PlanIncremental(ckpt[p], pr, sigs)
  PROVE  /\ d.pull => Promise(pr, d.start)
         /\ ~d.pull /\ d.save # -1 => Promise(pr, d.save)
<1> DEFINE ck == ckpt[p]
<1> USE FetchAssumptions
<1>h. /\ pr.size # 0 => pr.head = <<i, HeadBytes>> /\ pr.head[1] = i
      /\ pr.size = 0 => pr.head[1] = 0
  BY HeadShape DEF Identified
<1>c. ck # NoCkpt => /\ ck.size \in Nat /\ ck.off \in Nat /\ ck.head \in Heads
                     /\ Promise(ck, ck.off) /\ Identified(ck.size)
  BY DEF Shape, TypeOK, HonestInv, Honest, NoShortCheckpoint, Ckpt
<1> HIDE DEF ck
<1>0. Promise(pr, 0)
  BY <1>h DEF Promise, Covered
<1>1. CASE Unchanged(ck, pr)
  BY <1>1 DEF PlanIncremental, Skip, ck
<1>2. CASE ~Unchanged(ck, pr) /\ ContentConsumed(pr, sigs)
  <2>1. PICK c \in sigs : c.head = pr.head /\ c.off >= pr.size
    BY <1>2 DEF ContentConsumed
  <2>2. Promise(c, c.off) /\ c.off \in Nat
    BY <2>1 DEF HonestInv, Honest, Shape, Ckpt
  <2>3. Promise(pr, pr.size)
    BY <2>1, <2>2 DEF Promise, Covered
  <2> QED
    BY <1>2, <2>3 DEF PlanIncremental, Skip, ck
<1>3. CASE /\ ~Unchanged(ck, pr) /\ ~ContentConsumed(pr, sigs)
           /\ Rotated(ck, pr) \/ Truncated(ck, pr) \/ ck = NoCkpt
  <2>1. d = Pull(0)
    BY <1>3 DEF PlanIncremental, ck
  <2> QED
    BY <1>0, <2>1 DEF Pull
<1>4. CASE /\ ~Unchanged(ck, pr) /\ ~ContentConsumed(pr, sigs)
           /\ ~(Rotated(ck, pr) \/ Truncated(ck, pr) \/ ck = NoCkpt)
  <2>1. ck.size <= pr.size /\ ck.off <= ck.size
    BY <1>4, <1>c DEF Truncated, Promise
  <2>2. Promise(pr, ck.off)
    <3>1. CASE ck.off = 0
      BY <3>1, <1>0
    <3>2. CASE ck.off # 0
      <4>1. ck.size >= HeadBytes /\ pr.size >= HeadBytes
        BY <1>c, <1>4, <2>1, <3>2 DEF Identified
      <4>2. ck.head = pr.head
        BY <1>4, <4>1 DEF Rotated
      <4> QED
        BY <1>c, <1>4, <2>1, <4>2 DEF Promise
    <3> QED
      BY <3>1, <3>2
  <2>3. d = Skip(ck.off) \/ d = Pull(ck.off)
    BY <1>4 DEF PlanIncremental, ck
  <2> QED
    BY <2>2, <2>3 DEF Skip, Pull
<1> QED
  BY <1>1, <1>2, <1>3, <1>4

\* Sizes, seeded offsets and staged bytes only grow (AppendBytes, Probe, StageWindow).
LEMMA StepGrows == Shape /\ HonestInv /\ [Next]_vars => Grows
<1> SUFFICES ASSUME Shape, HonestInv, [Next]_vars, NEW i \in Inodes
             PROVE  size[i] <= size'[i] /\ seeded[i] <= seeded'[i] /\ staged[i] \subseteq staged'[i]
  BY DEF Grows
<1>t. size[i] \in Nat /\ seeded[i] \in Nat
  BY DEF Shape, TypeOK
<1>1. CASE AppendBytes
  BY <1>1, <1>t DEF AppendBytes, Shape, TypeOK, dbVars
<1>2. ASSUME NEW p \in Paths, Probe(p)
      PROVE  size[i] <= size'[i] /\ seeded[i] <= seeded'[i] /\ staged[i] \subseteq staged'[i]
  <2>1. seeded' = seeded \/ seeded' = [seeded EXCEPT ![at[p]] = size[at[p]]]
    BY <1>2 DEF Probe
  <2>2. seeded[i] <= seeded'[i]
    BY <1>t, <2>1 DEF Shape, TypeOK, HonestInv
  <2> QED
    BY <1>2, <1>t, <2>2 DEF Probe, remoteVars
<1>3. CASE StageWindow
  BY <1>3, <1>t DEF StageWindow, Shape, TypeOK, remoteVars
<1>4. CASE UNCHANGED <<size, seeded, staged>>
  BY <1>4, <1>t
<1> QED
  BY <1>1, <1>2, <1>3, <1>4 DEF Next, FetchStep, vars, remoteVars, dbVars, fetchVars, Touch, Rotate,
     Reopen, Begin, ProbeVanished, OpenVerified, OpenChanged, FinishFile, SkipFile, Abort, EndPoll

\* With no checkpoint there is nothing to be dishonest about.
LEMMA HonestInit == Init => HonestInv
  BY DEF Init, HonestInv, InHand, Honest

\* What a stored checkpoint names is a file of the model, or no file.
LEMMA CkptShape ==
  ASSUME Shape, NEW p \in Paths, ckpt[p] # NoCkpt
  PROVE  ckpt[p].head[1] \in 0..MaxInode /\ ckpt[p].off \in Nat
  BY DEF Shape, TypeOK, Ckpt, Heads

\* A step that changes no checkpoint keeps what they promise.
LEMMA CkptsStay ==
  ASSUME Shape, Shape', HonestInv, Grows, ckpt' = ckpt
  PROVE  \A p \in Paths : Honest(ckpt[p])'
<1> SUFFICES ASSUME NEW p \in Paths, ckpt'[p] # NoCkpt PROVE Promise(ckpt[p], ckpt[p].off)'
  BY DEF Honest
<1>1. Promise(ckpt[p], ckpt[p].off)
  BY DEF HonestInv, Honest
<1>2. Covered(ckpt[p].head[1], ckpt[p].off)'
  BY <1>1, CkptShape, CoveredStays DEF Promise, Covered, CoveredNext, Handled
<1> QED
  BY <1>1, <1>2 DEF Promise

\* A step that saves one checkpoint keeps what the others promise.
LEMMA CkptSaved ==
  ASSUME Shape, Shape', HonestInv, Grows, NEW r \in Paths, NEW c,
         ckpt' = [ckpt EXCEPT ![r] = c],
         c.off <= c.size, CoveredNext(c.head[1], c.off)
  PROVE  \A p \in Paths : Honest(ckpt[p])'
<1> SUFFICES ASSUME NEW p \in Paths, ckpt'[p] # NoCkpt PROVE Promise(ckpt[p], ckpt[p].off)'
  BY DEF Honest
<1>1. CASE p = r
  <2>1. ckpt'[p] = c
    BY <1>1 DEF Shape, TypeOK
  <2> QED
    BY <2>1 DEF Promise, Covered, CoveredNext, Handled
<1>2. CASE p # r
  <2>1. ckpt'[p] = ckpt[p]
    BY <1>2 DEF Shape, TypeOK
  <2>2. Promise(ckpt[p], ckpt[p].off)
    BY <2>1 DEF HonestInv, Honest
  <2>3. Covered(ckpt[p].head[1], ckpt[p].off)'
    BY <2>1, <2>2, CkptShape, CoveredStays DEF Promise, Covered, CoveredNext, Handled
  <2> QED
    BY <2>1, <2>2, <2>3 DEF Promise
<1> QED
  BY <1>1, <1>2

\* The identities of the poll's start keep their promise while the poll runs.
LEMMA SigsStay ==
  ASSUME Shape, Shape', HonestInv, Grows, sigs' \subseteq sigs
  PROVE  \A c \in sigs' : c # NoCkpt => /\ c.off <= c.size
                                        /\ CoveredNext(c.head[1], c.off)
<1> SUFFICES ASSUME NEW c \in sigs', c # NoCkpt
             PROVE  /\ c.off <= c.size
                    /\ CoveredNext(c.head[1], c.off)
  OBVIOUS
<1>1. c.head[1] \in 0..MaxInode /\ c.off \in Nat
  BY DEF Shape, Ckpt, Heads
<1>2. c.off <= c.size /\ Covered(c.head[1], c.off)
  BY DEF HonestInv, Honest, Promise
<1> QED
  BY <1>1, <1>2, CoveredStays DEF Covered

\* A step that leaves the consumer's state alone keeps every promise.
LEMMA QuietStep ==
  ASSUME Shape, Shape', HonestInv, Grows,
         UNCHANGED <<ckpt, seeded, sigs, pc, probe, off, handle>>
  PROVE  HonestInv'
<1>1. \A p \in Paths : Honest(ckpt[p])'
  BY CkptsStay
<1>2. \A c \in sigs' : Honest(c)'
  BY SigsStay DEF Honest, Promise, Covered, CoveredNext, Handled
<1>3. \A i \in Inodes : seeded'[i] <= size'[i]
  BY DEF Grows, HonestInv, Shape, TypeOK
<1>4. InHand'
  <2> SUFFICES ASSUME pc \in {"open", "read"}, Identified(probe.size)
               PROVE  /\ Promise(probe, off)'
                      /\ probe.size # 0 => /\ probe.head[1] \in Inodes
                                           /\ pc = "read" => handle = probe.head[1]
    BY DEF InHand, Identified
  <2>1. probe.head[1] \in 0..MaxInode /\ off \in Nat
    BY DEF Shape, TypeOK, Heads
  <2>2. Covered(probe.head[1], off)'
    BY <2>1, CoveredStays DEF HonestInv, InHand, Promise, Covered, CoveredNext, Handled
  <2> QED
    BY <2>2 DEF HonestInv, InHand, Promise
<1> QED
  BY <1>1, <1>2, <1>3, <1>4 DEF HonestInv

\* A step that puts the file in hand down and saves nothing keeps every promise.
LEMMA PutDown ==
  ASSUME Shape, Shape', HonestInv, Grows, pc' \notin {"open", "read"},
         \A p \in Paths : Honest(ckpt[p])', sigs' \subseteq sigs, UNCHANGED seeded
  PROVE  HonestInv'
<1>1. \A c \in sigs' : Honest(c)'
  BY SigsStay DEF Honest, Promise, Covered, CoveredNext, Handled
<1>2. \A i \in Inodes : seeded'[i] <= size'[i]
  BY DEF Grows, HonestInv, Shape, TypeOK
<1> QED
  BY <1>1, <1>2 DEF HonestInv, InHand

\* Every step keeps the promises, as long as no short file is recorded.
LEMMA HonestNext ==
  ASSUME Shape, Shape', HonestInv, NoShortCheckpoint, NoShortCheckpoint', [Next]_vars
  PROVE  HonestInv'
<1> USE FetchAssumptions
<1>g. Grows
  BY StepGrows
<1>1. CASE AppendBytes \/ Touch \/ Rotate \/ Reopen \/ UNCHANGED vars
  <2>1. UNCHANGED <<ckpt, seeded, sigs, pc, probe, off, handle>>
    BY <1>1 DEF AppendBytes, Touch, Rotate, Reopen, vars, dbVars, fetchVars
  <2> QED
    BY <1>g, <2>1, QuietStep
<1>2. ASSUME NEW m \in Modes, Begin(m) PROVE HonestInv'
  <2>1. UNCHANGED <<size, ckpt, seeded, staged>> /\ pc' = "next"
    BY <1>2 DEF Begin, remoteVars, dbVars
  <2>2. \A p \in Paths : Honest(ckpt[p])'
    BY <1>g, <2>1, CkptsStay
  <2>3. \A c \in sigs' : Honest(c)'
    BY <1>2, <2>1, <2>2 DEF Begin, Honest, Promise, Covered, CoveredNext, Handled
  <2> QED
    BY <2>1, <2>2, <2>3 DEF HonestInv, InHand
<1>3. ASSUME NEW p \in Paths, ProbeVanished(p) PROVE HonestInv'
  <2>1. \A q \in Paths : Honest(ckpt[q])'
    BY <1>3, <1>g, CkptsStay DEF ProbeVanished, dbVars
  <2> QED
    BY <1>3, <1>g, <2>1, PutDown DEF ProbeVanished, dbVars
<1>4. ASSUME NEW p \in Paths, Probe(p) PROVE HonestInv'
  <2> DEFINE found == [path |-> p, size |-> size[at[p]], mtime |-> mtime[at[p]],
                       head |-> HeadHash(at[p], size[at[p]])]
  <2>0. PICK i, pr : i = at[p] /\ pr = found
    OBVIOUS
  <2>1. /\ i \in Inodes /\ mode \in Modes
        /\ UNCHANGED <<size, staged, sigs, handle>>
    BY <1>4, <2>0 DEF Probe, Shape, TypeOK, Inodes, remoteVars
  <2>2. PICK d \in Decisions(p, pr) :
          /\ pc' = IF d.pull THEN "open" ELSE "next"
          /\ probe' = IF d.pull THEN pr ELSE NoProbe
          /\ off' = d.start
          /\ ckpt' = IF ~d.pull /\ d.save # -1
                     THEN [ckpt EXCEPT ![p] = Checkpoint(pr, d.save)] ELSE ckpt
          /\ seeded' = IF ~d.pull /\ mode # "incremental"
                       THEN [seeded EXCEPT ![i] = pr.size] ELSE seeded
    BY <1>4, <2>0 DEF Probe
  <2>3. /\ size[i] \in 0 .. MaxSize /\ pr.size = size[i] /\ pr.head = HeadHash(i, pr.size)
        /\ pr.head \in Heads
        /\ pr.size # 0 => pr.head[1] = i
        /\ pr.size = 0 => pr.head[1] = 0
    BY <2>0, <2>1, HeadShape DEF Shape, TypeOK
  <2>4. pr \in [path: 0..NPaths, size: 0..MaxSize, mtime: 0..1, head: Heads] /\ p \in 0..NPaths
    <3>1. mtime[i] \in 0..1
      BY <2>1 DEF Shape, TypeOK
    <3>2. pr = [path |-> p, size |-> pr.size, mtime |-> mtime[i], head |-> pr.head]
      BY <2>0
    <3>3. p \in 0..NPaths
      BY DEF Paths
    <3> QED
      BY <2>3, <3>1, <3>2, <3>3
  <2>5. d.pull \in BOOLEAN /\ d.start \in Nat /\ d.save \in -1 .. MaxSize
    BY <2>1, <2>2, <2>4, DecisionShape
  \* What is started from or saved is a promise about the probed file.
  <2>6. ASSUME Identified(pr.size) PROVE /\ d.pull => Promise(pr, d.start)
                                         /\ ~d.pull /\ d.save # -1 =>
                                               /\ d.save <= pr.size
                                               /\ CoveredNext(pr.head[1], d.save)
    <3>1. CASE mode = "incremental"
      <4>1. d = PlanIncremental(ckpt[p], pr, sigs)
        BY <3>1, <2>2 DEF Decisions
      <4>2. /\ d.pull => Promise(pr, d.start)
            /\ ~d.pull /\ d.save # -1 => Promise(pr, d.save)
        BY <4>1, <2>1, <2>3, <2>6, PlanHonest
      <4>3. ~d.pull /\ d.save # -1 => d.save \in Nat /\ pr.head[1] \in 0..MaxInode
        BY <2>3, <2>5 DEF Heads
      <4> QED
        BY <4>2, <4>3, <1>g, CoveredStays DEF Promise, Covered
    <3>2. CASE mode # "incremental"
      <4>1. d = Skip(pr.size) \/ d = Pull(0)
        BY <3>2, <2>1, <2>2 DEF Decisions
      <4>2. CASE d = Pull(0)
        BY <4>2, <2>3 DEF Pull, Promise, Covered
      <4>3. CASE d = Skip(pr.size)
        <5>1. ~d.pull /\ d.save = pr.size
          BY <4>3 DEF Skip
        <5>2. seeded'[i] = pr.size
          BY <5>1, <3>2, <2>1, <2>2 DEF Shape, TypeOK
        <5> QED
          BY <5>1, <5>2, <2>3 DEF CoveredNext
      <4> QED
        BY <4>1, <4>2, <4>3
    <3> QED
      BY <3>1, <3>2
  <2>7. \A q \in Paths : Honest(ckpt[q])'
    <3>1. CASE d.pull \/ d.save = -1
      BY <3>1, <2>2, <1>g, CkptsStay
    <3>2. CASE ~d.pull /\ d.save # -1
      <4> DEFINE c == Checkpoint(pr, d.save)
      <4>1. /\ ckpt' = [ckpt EXCEPT ![p] = c]
            /\ c.size = pr.size /\ c.off = d.save /\ c.head = pr.head
        BY <3>2, <2>2 DEF Checkpoint
      <4>2. c # NoCkpt /\ ckpt'[p] = c
        BY <4>1, <2>3 DEF NoCkpt, Shape, TypeOK
      <4>3. Identified(pr.size)
        BY <4>1, <4>2 DEF NoShortCheckpoint
      <4> HIDE DEF c
      <4> QED
        BY <3>2, <4>1, <4>3, <2>6, <1>g, CkptSaved
    <3> QED
      BY <3>1, <3>2
  <2>8. \A c \in sigs' : Honest(c)'
    BY <1>g, <2>1, SigsStay DEF Honest, Promise, Covered, CoveredNext, Handled
  <2>9. \A j \in Inodes : seeded'[j] <= size'[j]
    <3>1. seeded' = seeded \/ seeded' = [seeded EXCEPT ![i] = size[i]]
      BY <2>2, <2>3
    <3> QED
      BY <3>1, <2>1 DEF HonestInv, Shape, TypeOK
  <2>10. InHand'
    <3> SUFFICES ASSUME d.pull, Identified(pr.size)
                 PROVE  /\ Promise(pr, d.start)'
                        /\ pr.size # 0 => pr.head[1] \in Inodes
      BY <2>2 DEF InHand, Promise, Covered, CoveredNext, Handled, Identified
    <3>1. Promise(pr, d.start) /\ pr.head[1] \in 0..MaxInode
      BY <2>3, <2>6 DEF Heads
    <3>2. CoveredNext(pr.head[1], d.start)
      BY <3>1, <2>5, <1>g, CoveredStays DEF Promise, Covered
    <3> QED
      BY <3>1, <3>2, <2>1, <2>3 DEF Promise, Covered, CoveredNext, Handled
  <2> QED
    BY <2>7, <2>8, <2>9, <2>10 DEF HonestInv
\* The handle shows the head that was probed, so it is the file of that head.
<1>5. CASE OpenVerified
  <2>1. /\ UNCHANGED <<ckpt, seeded, sigs, probe, off, size, staged>>
        /\ pc = "open" /\ handle' = at[probe.path] /\ SameFile(at[probe.path])
    BY <1>5 DEF OpenVerified, dbVars, remoteVars
  <2>2. \A p \in Paths : Honest(ckpt[p])'
    BY <1>g, <2>1, CkptsStay
  <2>3. \A c \in sigs' : Honest(c)'
    BY <1>g, <2>1, SigsStay DEF Honest, Promise, Covered, CoveredNext, Handled
  <2>4. \A i \in Inodes : seeded'[i] <= size'[i]
    BY <2>1 DEF HonestInv
  <2>5. InHand'
    <3> SUFFICES ASSUME Identified(probe.size)
                 PROVE  /\ Promise(probe, off)
                        /\ probe.size # 0 => /\ probe.head[1] \in Inodes
                                             /\ handle' = probe.head[1]
      BY <2>1 DEF InHand, Promise, Covered, CoveredNext, Handled, Identified
    <3>1. InHand => Promise(probe, off) /\ (probe.size # 0 => probe.head[1] \in Inodes)
      BY <2>1 DEF InHand
    <3>2. ASSUME probe.size # 0 PROVE at[probe.path] = probe.head[1]
      <4> DEFINE j == at[probe.path]
      <4>1. j \in Inodes /\ HeadHash(j, size[j]) = probe.head
        BY <2>1, <3>2 DEF SameFile, Identified, Shape, TypeOK, Inodes
      <4>2. probe.head[1] # 0 /\ size[j] \in 0 .. MaxSize
        <5>1. probe.head[1] \in Inodes
          BY <3>1, <3>2 DEF HonestInv
        <5>2. size[j] \in 0 .. MaxSize
          BY <4>1 DEF Shape, TypeOK
        <5> QED
          BY <5>1, <5>2 DEF Inodes
      <4> HIDE DEF j
      <4>3. size[j] # 0
        BY <4>1, <4>2, HeadShape
      <4>4. probe.head[1] = j
        BY <4>1, <4>2, <4>3, HeadShape
      <4> QED
        BY <4>4 DEF j
    <3> QED
      BY <2>1, <3>1, <3>2 DEF HonestInv
  <2> QED
    BY <2>2, <2>3, <2>4, <2>5 DEF HonestInv
<1>6. CASE OpenChanged \/ SkipFile \/ Abort
  <2>1. /\ UNCHANGED <<ckpt, seeded>> /\ pc' \notin {"open", "read"}
        /\ sigs' \subseteq sigs
    BY <1>6 DEF OpenChanged, SkipFile, Abort, dbVars
  <2>2. \A p \in Paths : Honest(ckpt[p])'
    BY <1>g, <2>1, CkptsStay
  <2> QED
    BY <1>g, <2>1, <2>2, PutDown
<1>7. CASE StageWindow
  <2> DEFINE e == WindowEnd(probe.size)
  <2>1. /\ pc = "read" /\ off < probe.size /\ off' = e
        /\ staged' = [staged EXCEPT ![handle] = @ \cup (off + 1 .. e)]
        /\ ckpt' = IF queue THEN [ckpt EXCEPT ![probe.path] = Checkpoint(probe, e)] ELSE ckpt
        /\ UNCHANGED <<size, seeded, pc, sigs, probe, handle>>
    BY <1>7 DEF StageWindow, remoteVars
  <2>2. off \in Nat /\ probe.size \in 0 .. MaxSize /\ probe.head \in Heads /\ probe.path \in Paths
    BY <2>1 DEF Shape, TypeOK
  <2>3. e \in off + 1 .. probe.size
    BY <2>1, <2>2, WindowEndBounds
  <2> HIDE DEF e
  \* The window joins what was handled before it.
  <2>4. ASSUME Identified(probe.size)
        PROVE  /\ probe.head[1] \in Inodes /\ handle = probe.head[1]
               /\ CoveredNext(probe.head[1], e)
    <3>1. InHand /\ probe.size # 0
      BY <2>1, <2>2 DEF HonestInv
    <3>2. probe.head[1] \in Inodes /\ handle = probe.head[1] /\ Promise(probe, off)
      BY <2>1, <2>4, <3>1 DEF InHand
    <3>3. CoveredNext(probe.head[1], off)
      BY <2>2, <3>2, <1>g, CoveredStays DEF Promise, Covered, Inodes
    <3>4. \A k \in off + 1 .. e : k \in staged'[probe.head[1]]
      BY <2>1, <3>2 DEF Shape, TypeOK
    <3>5. \A k \in 1..e : k \in 1..off \/ k \in off + 1 .. e
      BY <2>2, <2>3
    <3> QED
      BY <3>2, <3>3, <3>4, <3>5 DEF CoveredNext
  <2>5. \A p \in Paths : Honest(ckpt[p])'
    <3>1. CASE ~queue
      BY <3>1, <2>1, <1>g, CkptsStay
    <3>2. CASE queue
      <4> DEFINE c == Checkpoint(probe, e)
      <4>1. /\ ckpt' = [ckpt EXCEPT ![probe.path] = c]
            /\ c.size = probe.size /\ c.off = e /\ c.head = probe.head
        BY <3>2, <2>1 DEF Checkpoint
      <4>2. c # NoCkpt /\ ckpt'[probe.path] = c
        BY <4>1, <2>2 DEF NoCkpt, Shape, TypeOK
      <4>3. Identified(probe.size)
        BY <4>1, <4>2, <2>2 DEF NoShortCheckpoint
      <4>4. c.off <= c.size /\ CoveredNext(c.head[1], c.off)
        BY <4>1, <4>3, <2>3, <2>4
      <4> HIDE DEF c
      <4> QED
        BY <2>2, <4>1, <4>4, <1>g, CkptSaved
    <3> QED
      BY <3>1, <3>2
  <2>6. \A c \in sigs' : Honest(c)'
    BY <1>g, <2>1, SigsStay DEF Honest, Promise, Covered, CoveredNext, Handled
  <2>7. InHand'
    <3> SUFFICES ASSUME Identified(probe.size)
                 PROVE  /\ e <= probe.size
                        /\ CoveredNext(probe.head[1], e)
                        /\ probe.head[1] \in Inodes /\ handle = probe.head[1]
      BY <2>1 DEF InHand, Promise, Covered, CoveredNext, Handled, Identified
    <3> QED
      BY <2>3, <2>4
  <2> QED
    BY <2>1, <2>5, <2>6, <2>7 DEF HonestInv
<1>8. CASE FinishFile
  <2>1. /\ pc = "read" /\ pc' = "next" /\ UNCHANGED <<size, staged, seeded, sigs>>
        /\ ckpt' = IF queue THEN ckpt
                   ELSE [ckpt EXCEPT ![probe.path] = Checkpoint(probe, off)]
    BY <1>8 DEF FinishFile, remoteVars
  <2>2. off \in Nat /\ probe.size \in 0 .. MaxSize /\ probe.head \in Heads /\ probe.path \in Paths
    BY <2>1 DEF Shape, TypeOK
  <2>3. \A p \in Paths : Honest(ckpt[p])'
    <3>1. CASE queue
      BY <3>1, <2>1, <1>g, CkptsStay
    <3>2. CASE ~queue
      <4> DEFINE c == Checkpoint(probe, off)
      <4>1. /\ ckpt' = [ckpt EXCEPT ![probe.path] = c]
            /\ c.size = probe.size /\ c.off = off /\ c.head = probe.head
        BY <3>2, <2>1 DEF Checkpoint
      <4>2. c # NoCkpt /\ ckpt'[probe.path] = c
        BY <4>1, <2>2 DEF NoCkpt, Shape, TypeOK
      <4>3. Identified(probe.size)
        BY <4>1, <4>2, <2>2 DEF NoShortCheckpoint
      <4>4. Promise(probe, off)
        BY <4>3, <2>1 DEF HonestInv, InHand
      <4>5. c.off <= c.size /\ CoveredNext(c.head[1], c.off)
        BY <4>1, <4>4, <2>1 DEF Promise, Covered, CoveredNext, Handled
      <4> HIDE DEF c
      <4> QED
        BY <2>2, <4>1, <4>5, <1>g, CkptSaved
    <3> QED
      BY <3>1, <3>2
  <2> QED
    BY <1>g, <2>1, <2>3, PutDown
<1>9. CASE EndPoll
  <2>1. /\ pc' = "idle" /\ sigs' = {} /\ UNCHANGED <<size, staged, seeded>>
        /\ \A p \in Paths : ckpt'[p] \in {ckpt[p], NoCkpt}
    BY <1>9 DEF EndPoll, remoteVars
  <2>2. \A p \in Paths : Honest(ckpt[p])'
    BY <2>1 DEF HonestInv, Honest, Promise, Covered, CoveredNext, Handled
  <2> QED
    BY <1>g, <2>1, <2>2, PutDown
<1> QED
  BY <1>1, <1>2, <1>3, <1>4, <1>5, <1>6, <1>7, <1>8, <1>9 DEF Next, FetchStep

\* With a fingerprint of one byte every file that holds a byte is identified.
LEMMA OneByteIdentifies == Shape /\ HeadBytes = 1 => NoShortCheckpoint
  BY DEF Shape, TypeOK, Ckpt, NoShortCheckpoint, Identified

\* As long as every file recorded is empty or as long as the fingerprint, each
\* checkpoint is honest: everything behind it was handed to Stage 1 or declared
\* consumed, whatever the server renames and wherever a fetch is cut short.
THEOREM CheckpointsKeepTheirPromise == Spec /\ []NoShortCheckpoint => []CheckpointHonest
<1>1. HonestInv => CheckpointHonest
  BY DEF HonestInv, Honest, Promise, Covered, CheckpointHonest
<1> QED
  BY <1>1, ShapeInit, ShapeNext, HonestInit, HonestNext, PTL DEF Spec

\* A one-byte fingerprint needs no such condition.
THEOREM OneByteIsEnough == HeadBytes = 1 => (Spec => []CheckpointHonest)
<1> SUFFICES ASSUME HeadBytes = 1 PROVE Spec => []CheckpointHonest
  OBVIOUS
<1>1. Shape => NoShortCheckpoint
  BY OneByteIdentifies
<1> QED
  BY <1>1, CheckpointsKeepTheirPromise, ShapeInit, ShapeNext, PTL DEF Spec
=============================================================================
