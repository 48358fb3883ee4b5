------------------------------ MODULE MCOutbox ------------------------------
(* Small instances of Outbox: a tenant with a working channel and one with *)
(* a channel whose adapter is a stub.                                      *)
EXTENDS Outbox

CONSTANTS tA, tB, rA, rB, cA, cB

MCRuleOf == [r \in Rules |-> IF r = rA THEN tA ELSE tB]
MCOwner == [c \in Channels |-> IF c = cA THEN tA ELSE tB]
=============================================================================
