----------------------------- MODULE MemoryMap ------------------------------
(***************************************************************************)
(* The data of storage/memory.rs: a map from (user, tier) to a TAT, None   *)
(* where the map has no entry.  Each operator is what one visit of one     *)
(* entry does while its shard is locked.  Requests of a key always use the *)
(* quota of the key's tier.                                                *)
(***************************************************************************)
EXTENDS Gcra

CONSTANTS
    Keys,           \* the (user, tier) pairs
    QuotaOf         \* the quota of each key's tier

ASSUME QuotaAssumption ==
    /\ Keys # {}
    /\ QuotaOf \in [Keys -> [max_burst : Nat, window : Nat]]
    /\ \A k \in Keys : LimitedQuota(QuotaOf[k])

Ei(k) == EmissionInterval(QuotaOf[k])
Bo(k) == BurstOffset(QuotaOf[k])
Burst(k) == QuotaOf[k].max_burst

\* What the map answers to a request.
Decision(map, k, now, cost) == CheckGcra(map[k], now, Ei(k), Bo(k), cost)

\* The map after that request.  The entry is locked from the read to the write,
\* so no other request comes between them.
Charged(map, k, now, cost) ==
    LET decision == Decision(map, k, now, cost)
    IN  IF decision.allowed THEN [map EXCEPT ![k] = decision.new_tat] ELSE map

\* Fault: an entry that owes less than two nanoseconds is dropped.
ActiveRounded(tat, now) == tat # None /\ tat >= now + 2

\* Fault: an entry stays for a nanosecond after it expired.
ActiveLonger(tat, now) == tat # None /\ tat + 1 >= now

\* retain keeps the entries whose TAT has not expired.
Active(tat, now) == tat # None /\ tat >= now

Retained(map, k, now) == [map EXCEPT ![k] = IF Active(@, now) THEN @ ELSE None]

Cleared(map, k) == [map EXCEPT ![k] = None]

=============================================================================
