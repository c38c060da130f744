------------------------------ MODULE Builders ------------------------------
(***************************************************************************)
(* How a limiter is configured: the quotas of quota.rs, RateTierBuilder of *)
(* tier.rs, TierLimitLayer of layer.rs and the policy of CircuitBreaker.   *)
(* A builder is a record, a setter returns the record it leaves, and an    *)
(* assertion that fails is Panic.  A callback or closure is TRUE where one *)
(* is set; what it computes is external.                                   *)
(***************************************************************************)
EXTENDS Gcra

CONSTANT Panic      \* the call does not return

ASSUME PanicAssumption == Panic # None

(***************************************************************************)
(* quota.rs                                                                *)
(***************************************************************************)
WithWindow(count, window) ==
    LET quota == [max_burst |-> count, window |-> window]
    IN  IF LimitedQuota(quota) THEN quota ELSE Panic

PerSecond(count) == WithWindow(count, NanosPerSec)
PerMinute(count) == WithWindow(count, 60 * NanosPerSec)
PerHour(count) == WithWindow(count, 3600 * NanosPerSec)
PerDay(count) == WithWindow(count, 86400 * NanosPerSec)

Unlimited == [max_burst |-> 0, window |-> 0]
IsUnlimited(quota) == quota.max_burst = 0

(***************************************************************************)
(* RateTierBuilder                                                         *)
(***************************************************************************)
\* The enums OnMissing, OnUnknownTier and OnStorageError.
MissingPolicy == {"UseDefault", "Allow", "Deny"}
UnknownTierPolicy == {"UseDefault", "Deny", "Allow"}
StorageErrorPolicy == {"Allow", "Deny"}

NewBuilder ==
    [tiers           |-> [name \in {} |-> Unlimited],
     default_tier    |-> None,
     on_missing      |-> "UseDefault",
     on_unknown_tier |-> "UseDefault",
     custom_storage  |-> FALSE,
     gc_interval     |-> 60 * NanosPerSec,
     gc_enabled      |-> TRUE]

\* A second call with the same name replaces the quota.
Tier(b, name, quota) ==
    [b EXCEPT !.tiers =
        [n \in DOMAIN b.tiers \cup {name} |-> IF n = name THEN quota ELSE b.tiers[n]]]

DefaultTier(b, name) == [b EXCEPT !.default_tier = name]
OnMissing(b, policy) == [b EXCEPT !.on_missing = policy]
OnUnknownTier(b, policy) == [b EXCEPT !.on_unknown_tier = policy]
Storage(b) == [b EXCEPT !.custom_storage = TRUE, !.gc_enabled = FALSE]
DisableGc(b) == [b EXCEPT !.gc_enabled = FALSE]

GcInterval(b, interval) ==
    IF interval = 0
    THEN Panic
    ELSE [b EXCEPT !.gc_interval = interval, !.gc_enabled = TRUE]

\* Fault: the collector is set up for whatever storage there is.
BuildCollecting(b) ==
    IF \/ DOMAIN b.tiers = {}
       \/ b.default_tier # None /\ b.default_tier \notin DOMAIN b.tiers
    THEN Panic
    ELSE [tiers           |-> b.tiers,
          default_tier    |-> b.default_tier,
          on_missing      |-> b.on_missing,
          on_unknown_tier |-> b.on_unknown_tier,
          custom_storage  |-> b.custom_storage,
          gc              |-> b.gc_enabled]

\* The RateTier; gc says whether it has a LazyGc.
Build(b) ==
    IF \/ DOMAIN b.tiers = {}
       \/ b.default_tier # None /\ b.default_tier \notin DOMAIN b.tiers
    THEN Panic
    ELSE [tiers           |-> b.tiers,
          default_tier    |-> b.default_tier,
          on_missing      |-> b.on_missing,
          on_unknown_tier |-> b.on_unknown_tier,
          custom_storage  |-> b.custom_storage,
          gc              |-> ~b.custom_storage /\ b.gc_enabled]

(***************************************************************************)
(* TierLimitLayer and BufferedTierLimitLayer.  The services that a layer   *)
(* makes share its settings.                                               *)
(***************************************************************************)
NewLayer(rate_tier) ==
    [rate_tier             |-> rate_tier,
     identifier            |-> FALSE,
     on_storage_error      |-> "Allow",
     on_limited            |-> FALSE,
     rate_limited_response |-> FALSE,
     on_event              |-> FALSE,
     cost_fn               |-> None]

Identifier(l) == [l EXCEPT !.identifier = TRUE]
OnStorageError(l, policy) == [l EXCEPT !.on_storage_error = policy]
OnLimited(l) == [l EXCEPT !.on_limited = TRUE]
CustomResponse(l) == [l EXCEPT !.rate_limited_response = TRUE]
OnEvent(l) == [l EXCEPT !.on_event = TRUE]

\* The closure is any that answers `cost' to the requests of interest.
CostFn(l, cost) == [l EXCEPT !.cost_fn = cost]

BufferBody(l) == [settings |-> l, max_body_size |-> 64 * 1024]
MaxBodySize(b, size) == [b EXCEPT !.max_body_size = size]

(***************************************************************************)
(* CircuitBreaker's policy.                                                *)
(***************************************************************************)
DurationNanos(d) == AtMost(d, U64Max)

NewPolicy == [failure_threshold |-> 3, open_for |-> DurationNanos(5 * NanosPerSec)]

WithFailureThreshold(policy, threshold) ==
    IF threshold = 0 THEN Panic ELSE [policy EXCEPT !.failure_threshold = threshold]

WithOpenFor(policy, duration) ==
    IF duration = 0 THEN Panic ELSE [policy EXCEPT !.open_for = DurationNanos(duration)]

=============================================================================
