-------------------------- MODULE MCMemoryWindow ----------------------------
(* Small instances of MemoryWindow. *)
EXTENDS MemoryWindow, TLC

CONSTANTS t1, t2, k1

\* A burst of 2 and an interval of 2; the window is not a multiple of the burst.
MCOneTier == k1 :> [max_burst |-> 2, window |-> 5]

\* A window longer than u64::MAX nanoseconds (Quota::with_window(1, Duration::MAX)).
MCEndless == k1 :> [max_burst |-> 1, window |-> 12]

\* The first instance is one that the theorems cover; the second is not.
ASSUME OneTierCovered == QuotaOf = MCOneTier => NoSaturation /\ RoomForTwoBursts
ASSUME EndlessNotCovered == QuotaOf = MCEndless => ~NoSaturation

Symmetry == Permutations({t1, t2})
=============================================================================
