---------------------------- MODULE MCIngestQueue ----------------------------
(***************************************************************************)
(* Small instances of IngestQueue.  Two byte ranges of one file overlap in *)
(* line 2 (a rotation re-read downloads lines again) and line 4 carries no *)
(* timestamp.                                                              *)
(***************************************************************************)
EXTENDS IngestQueue, TLC

CONSTANTS w1, w2, o1, o2, c1

MCLines == 1..4
MCCustomerOf == [o \in Objects |-> c1]
MCContent == [o \in Objects |-> IF o = o1 THEN {1, 2} ELSE {2, 3, 4}]
MCTimeOf == [l \in Lines |-> IF l = 4 THEN NoTime ELSE l]

WorkerSymmetry == Permutations(Workers)
=============================================================================
