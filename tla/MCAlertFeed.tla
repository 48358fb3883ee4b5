---------------------------- MODULE MCAlertFeed ----------------------------
(* Small instances of AlertFeed. *)
EXTENDS AlertFeed, TLC

CONSTANTS x1, x2, r1, r2

MCMatch == [r \in Rules |-> IF r = r1 THEN {"error"} ELSE {"error", "incomplete"}]

MCLive == {{r1}, {r1, r2}}

MCKinds == {<<"error", FALSE>>, <<"incomplete", FALSE>>, <<"incomplete", TRUE>>}
=============================================================================
