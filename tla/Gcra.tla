-------------------------------- MODULE Gcra --------------------------------
(***************************************************************************)
(* The arithmetic of the rate limiter: quota.rs (how a quota becomes an    *)
(* emission interval and a burst offset) and gcra.rs (the Generic Cell     *)
(* Rate Algorithm).  Times are nanoseconds in a u64, and every operation   *)
(* of the code that could leave the u64 range saturates, so U64Max is a    *)
(* parameter: a run that puts it within reach sees what saturation does.   *)
(*                                                                         *)
(* A quota is a record [max_burst, window].  The two casts to u32 of       *)
(* check_gcra lose nothing: burst_offset / emission_interval never exceeds *)
(* max_burst, itself a u32, and the remaining count is at most that.       *)
(***************************************************************************)
EXTENDS Integers

CONSTANTS
    U64Max,         \* u64::MAX
    NanosPerSec,    \* nanoseconds in a second
    None            \* Option::None

ASSUME U64Assumption == U64Max \in Nat
ASSUME NanosPerSecAssumption == NanosPerSec \in Nat \ {0}
ASSUME NoneAssumption == None \notin Nat

Nanos == 0 .. U64Max

\* What a bucket holds: the theoretical arrival time, or nothing yet.
Tat == Nanos \cup {None}

AtMost(m, n) == IF m <= n THEN m ELSE n
AtLeast(m, n) == IF m >= n THEN m ELSE n

SaturatingAdd(m, n) == AtMost(m + n, U64Max)
SaturatingSub(m, n) == AtLeast(m - n, 0)
SaturatingMul(m, n) == AtMost(m * n, U64Max)

(***************************************************************************)
(* Quotas.                                                                 *)
(***************************************************************************)
\* The quotas Quota::with_window accepts; Quota::unlimited never reaches a
\* storage.
LimitedQuota(q) ==
    /\ q.max_burst \in Nat \ {0}
    /\ q.window \in Nat \ {0}
    /\ q.window >= q.max_burst

\* Duration / u32 truncates; the result may still be above u64::MAX.
ReplenishInterval(q) == q.window \div q.max_burst

EmissionInterval(q) == AtMost(ReplenishInterval(q), U64Max)

BurstOffset(q) == SaturatingMul(EmissionInterval(q), q.max_burst)

(***************************************************************************)
(* check_gcra.                                                             *)
(***************************************************************************)
\* Fault: rounded down.
CeilSecsFloor(d) == d \div NanosPerSec

\* A duration rounded up to whole seconds, for the Retry-After header.
CeilSecs(d) == (d + NanosPerSec - 1) \div NanosPerSec

\* Fault: an expired TAT is a credit.
CurrentTatCredit(tat, now) == IF tat = None THEN now ELSE tat

\* An expired TAT behaves like no TAT at all.
CurrentTat(tat, now) == IF tat = None THEN now ELSE AtLeast(tat, now)

NewTat(tat, now, ei, cost) ==
    SaturatingAdd(CurrentTat(tat, now), SaturatingMul(ei, cost))

AllowAt(tat, now, ei, bo, cost) == SaturatingSub(NewTat(tat, now, ei, cost), bo)

\* Err(RateLimited)
Denied(tat, now, ei, bo, cost) ==
    [allowed     |-> FALSE,
     limit       |-> bo \div ei,
     retry_after |-> AllowAt(tat, now, ei, bo, cost) - now,
     reset_after |-> CurrentTat(tat, now) - now]

\* Ok((new_tat, info))
Granted(tat, now, ei, bo, cost) ==
    LET new_tat == NewTat(tat, now, ei, cost)
    IN  [allowed     |-> TRUE,
         limit       |-> bo \div ei,
         remaining   |-> SaturatingSub(bo, new_tat - now) \div ei,
         reset_after |-> new_tat - now,
         new_tat     |-> new_tat]

\* Fault: off by one nanosecond.
AllowsEarly(tat, now, ei, bo, cost) == AllowAt(tat, now, ei, bo, cost) <= now + 1

Allows(tat, now, ei, bo, cost) == AllowAt(tat, now, ei, bo, cost) <= now

CheckGcra(tat, now, ei, bo, cost) ==
    IF Allows(tat, now, ei, bo, cost)
    THEN Granted(tat, now, ei, bo, cost)
    ELSE Denied(tat, now, ei, bo, cost)

=============================================================================
