-------------------------- MODULE MCCircuitBreaker --------------------------
(* Small instances of CircuitBreaker. *)
EXTENDS CircuitBreaker, Builders, TLC

CONSTANTS t1, t2, k1

\* Every key has a burst of 1 and an interval of 1.
MCQuota == [k \in Keys |-> [max_burst |-> 1, window |-> 1]]

\* Two failures open the breaker for two time units.
MCPolicy == WithOpenFor(WithFailureThreshold(NewPolicy, 2), 2)
MCFailureThreshold == MCPolicy.failure_threshold
MCOpenFor == MCPolicy.open_for

Symmetry == Permutations(Tasks)
=============================================================================
