-------------------------- MODULE MCBreakerOutage ---------------------------
(* Small instances of BreakerOutage. *)
EXTENDS BreakerOutage, TLC

CONSTANTS t1, t2, k1

\* A burst of 2 and an interval of 2.
MCQuota == [k \in Keys |-> [max_burst |-> 2, window |-> 4]]

\* The instance is one that the theorem covers.
ASSUME OutageCovered == FallbackUnsaturated

Symmetry == Permutations(Tasks)
=============================================================================
