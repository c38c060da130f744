-------------------------- MODULE MemoryMapProofs ---------------------------
(* What the proofs about the storages need to know of MemoryMap. *)
EXTENDS MemoryMap, GcraProofs

\* A configured quota has a natural interval and burst; its emission interval
\* and burst offset fit a u64.
LEMMA QuotaTypes ==
    ASSUME NEW k \in Keys
    PROVE  /\ Burst(k) \in Nat \ {0}
           /\ ReplenishInterval(QuotaOf[k]) \in Nat
           /\ Ei(k) \in Nanos
           /\ Bo(k) \in Nanos
  BY QuotaAssumption, LimitedQuotaTypes DEF Ei, Bo, Burst

\* check_gcra's answer says whether the request is allowed, and the TAT to store.
LEMMA DecisionAllowed ==
    ASSUME NEW map, NEW k, NEW now, NEW cost
    PROVE  /\ Decision(map, k, now, cost).allowed
                <=> Allows(map[k], now, Ei(k), Bo(k), cost)
           /\ Decision(map, k, now, cost).allowed
                => Decision(map, k, now, cost).new_tat = NewTat(map[k], now, Ei(k), cost)
  BY DEF Decision, CheckGcra, Granted, Denied

\* Charging, retaining and clearing keep the map a map of TATs.
LEMMA MapTypes ==
    ASSUME NEW map \in [Keys -> Tat], NEW k \in Keys, NEW now \in Nat, NEW cost \in Nat
    PROVE  /\ Charged(map, k, now, cost) \in [Keys -> Tat]
           /\ Retained(map, k, now) \in [Keys -> Tat]
           /\ Cleared(map, k) \in [Keys -> Tat]
<1>1. NewTat(map[k], now, Ei(k), cost) \in Tat
  <2>1. Ei(k) \in Nat
    BY QuotaTypes, U64Assumption DEF Nanos
  <2> QED
    BY <2>1, NewTatType DEF Tat
<1>2. Charged(map, k, now, cost) \in [Keys -> Tat]
  BY <1>1, DecisionAllowed DEF Charged
<1>3. Retained(map, k, now) \in [Keys -> Tat]
  BY DEF Retained, Tat
<1>4. Cleared(map, k) \in [Keys -> Tat]
  BY DEF Cleared, Tat
<1> QED
  BY <1>2, <1>3, <1>4

\* A quota whose burst fits a u64 keeps its interval and its offset.
LEMMA ExactQuota ==
    ASSUME NEW k \in Keys, ReplenishInterval(QuotaOf[k]) * Burst(k) < U64Max
    PROVE  /\ Ei(k) \in Nat /\ Bo(k) \in Nat
           /\ Ei(k) = ReplenishInterval(QuotaOf[k])
           /\ Bo(k) = ReplenishInterval(QuotaOf[k]) * Burst(k)
<1>1. LimitedQuota(QuotaOf[k])
  BY QuotaAssumption
<1>2. Ei(k) \in Nat /\ Bo(k) \in Nat
  BY QuotaTypes, U64Assumption DEF Nanos
<1> QED
  BY <1>1, <1>2, UnsaturatedQuota DEF Ei, Bo, Burst
=============================================================================
