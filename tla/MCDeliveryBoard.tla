-------------------------- MODULE MCDeliveryBoard --------------------------
(* Small instances of DeliveryBoard: one delivery over two and a half days *)
(* of two units each.                                                      *)
EXTENDS DeliveryBoard
=============================================================================
