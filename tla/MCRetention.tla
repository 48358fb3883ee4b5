---------------------------- MODULE MCRetention ----------------------------
(* Small instances of Retention: the two daily log tables and a monthly    *)
(* table, with a month of two days.                                        *)
EXTENDS Retention, TLC

CONSTANTS nA, nB

MCTables == {"entries", "txns", "quality", "facts"}
MCGrain == [t \in Tables |-> IF t \in HealthGated THEN 1 ELSE 2]
MCRetentionDays == [t \in Tables |-> IF t = "facts" THEN Null ELSE 0]

TenantSymmetry == Permutations(Tenants)
=============================================================================
