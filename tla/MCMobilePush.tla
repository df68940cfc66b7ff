----------------------------- MODULE MCMobilePush -----------------------------
(* Values for MobilePush: two notifications, of two accounts, and two workers. *)
EXTENDS MobilePush

CONSTANTS w1, w2

MCAccountOf == [n \in Notes |-> n]
=============================================================================
