---------------------------- MODULE MCRateTier ------------------------------
(* Small instances of RateTier. *)
EXTENDS RateTier, TLC

CONSTANTS t1, t2, k1, r1, r2, free

MCOneTier == k1 :> [max_burst |-> 1, window |-> 1]
=============================================================================
