-------------------------- MODULE MCAnalyticsFold --------------------------
(* Small instances of AnalyticsFold. *)
EXTENDS AnalyticsFold, TLC

CONSTANTS t1, t2, X, Y, Z, all, built, rec

Row(a, n, e) == [at |-> a, name |-> n, end |-> e]

(* Two business days of two hours each.  X is the name whose switches are  *)
(* flipped and whose responses carry records; rows named Z cannot be used. *)
MCRows == {Row(2, X, 2), Row(3, X, 3), Row(3, Y, 3), Row(2, X, 3), Row(4, Z, 4)}
MCInitial == {[x \in Txns |-> IF x = t1 THEN Row(3, X, 3) ELSE None]}
MCFilter == [m \in Metrics |-> IF m = built THEN {X} ELSE Names]
=============================================================================
