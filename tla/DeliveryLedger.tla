--------------------------- MODULE DeliveryLedger ---------------------------
(***************************************************************************)
(* What the outbox promises of the deliveries that rules cause             *)
(* (models/notification.py, DeliveryStatus): a delivery is recorded as     *)
(* pending or suppressed and stays on record; attempts change one delivery *)
(* at a time; delivered, dead and suppressed are final.                    *)
(***************************************************************************)

VARIABLE ledger     \* delivery -> its status

Owed(d) == ledger[d] \in {"pending", "failed"}

(* One event is recorded with all its deliveries, all of one status.       *)
Open(new, status) ==
    /\ new \cap DOMAIN ledger = {}
    /\ ledger' = [d \in DOMAIN ledger \cup new |-> IF d \in new THEN status ELSE ledger[d]]

(* An attempt that failed, succeeded or was the last.                      *)
Attempt(d, status) ==
    /\ Owed(d)
    /\ ledger' = [ledger EXCEPT ![d] = status]

Init == ledger = [d \in {} |-> "pending"]

Next ==
    \/ \E status \in {"pending", "suppressed"} : Open(DOMAIN ledger' \ DOMAIN ledger, status)
    \/ \E d \in DOMAIN ledger, status \in {"failed", "delivered", "dead"} : Attempt(d, status)

Spec == Init /\ [][Next]_ledger
=============================================================================
