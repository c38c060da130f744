-------------------------- MODULE MCBreakerTiming ---------------------------
(* A small instance of BreakerTiming. *)
EXTENDS BreakerTiming, TLC

CONSTANTS t1, t2, t3, k1

MCQuota == [k \in Keys |-> [max_burst |-> 1, window |-> 1]]

\* The instance is one that the theorem covers.
ASSUME TimingCovered == OpenForOutlasts

Symmetry == Permutations(Tasks)
=============================================================================
