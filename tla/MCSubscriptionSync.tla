------------------------- MODULE MCSubscriptionSync -------------------------
(* Small instances of SubscriptionSync for TLC.                            *)
EXTENDS SubscriptionSync
CONSTANTS i1, i2
=============================================================================
