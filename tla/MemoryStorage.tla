--------------------------- MODULE MemoryStorage ----------------------------
(***************************************************************************)
(* The in-memory storage under concurrent requests, garbage collection and *)
(* clear().  A request samples the clock (RateTier::check) and only later  *)
(* reaches the entry (check_and_update), so requests arrive in an order    *)
(* that is not the order of their timestamps.  The garbage collector also  *)
(* samples the clock first and then visits the map shard by shard; every   *)
(* key is its own shard here, the finest interleaving DashMap allows.      *)
(***************************************************************************)
EXTENDS MemoryMap

CONSTANTS
    Tasks,          \* the tasks that make requests
    MaxTime         \* bound: the clock stops here

ASSUME MaxTimeAssumption == MaxTime \in Nat

VARIABLES
    clock,          \* what Clock::now returns
    state,          \* MemoryStorage::state
    call,           \* per task, the request that has sampled the clock, or None
    gc,             \* the collection under way, or None
    clearing        \* the keys that a clear() under way has yet to visit

vars == <<clock, state, call, gc, clearing>>

Time == 0 .. MaxTime

Costs(k) == 0 .. Burst(k)

Request == [key : Keys, now : Time, cost : Nat]
Collection == [now : Time, todo : (SUBSET Keys) \ {{}}]

ASSUME RequestAssumption == None \notin Request \cup Collection

Init ==
    /\ clock = 0
    /\ state = [k \in Keys |-> None]
    /\ call = [t \in Tasks |-> None]
    /\ gc = None
    /\ clearing = {}

Tick ==
    /\ clock < MaxTime
    /\ clock' = clock + 1
    /\ UNCHANGED <<state, call, gc, clearing>>

\* RateTier::check up to the storage call.  A cost above the limit is refused
\* before the clock is read.
Check(t) ==
    /\ call[t] = None
    /\ \E k \in Keys : \E cost \in Costs(k) :
         call' = [call EXCEPT ![t] = [key |-> k, now |-> clock, cost |-> cost]]
    /\ UNCHANGED <<clock, state, gc, clearing>>

\* MemoryStorage::check_and_update, one entry lock.
CheckAndUpdate(t) ==
    /\ call[t] # None
    /\ state' = Charged(state, call[t].key, call[t].now, call[t].cost)
    /\ call' = [call EXCEPT ![t] = None]
    /\ UNCHANGED <<clock, gc, clearing>>

\* The collector's interval elapses: it reads the clock and starts retain.
GcTick ==
    /\ gc = None
    /\ gc' = [now |-> clock, todo |-> Keys]
    /\ UNCHANGED <<clock, state, call, clearing>>

\* What is left of a sweep over the map once it has visited key k.
Remaining(sweep, k) ==
    IF sweep.todo = {k} THEN None ELSE [sweep EXCEPT !.todo = @ \ {k}]

\* retain_active visits one shard.
GcVisit(k) ==
    /\ gc # None
    /\ k \in gc.todo
    /\ state' = Retained(state, k, gc.now)
    /\ gc' = Remaining(gc, k)
    /\ UNCHANGED <<clock, call, clearing>>

Clear ==
    /\ clearing = {}
    /\ clearing' = Keys
    /\ UNCHANGED <<clock, state, call, gc>>

\* clear visits one shard.
ClearVisit(k) ==
    /\ k \in clearing
    /\ state' = Cleared(state, k)
    /\ clearing' = clearing \ {k}
    /\ UNCHANGED <<clock, call, gc>>

Next ==
    \/ Tick
    \/ \E t \in Tasks : Check(t)
    \/ \E t \in Tasks : CheckAndUpdate(t)
    \/ GcTick
    \/ \E k \in Keys : GcVisit(k)
    \/ Clear
    \/ \E k \in Keys : ClearVisit(k)

Spec == Init /\ [][Next]_vars

-----------------------------------------------------------------------------

\* The variables have their types; a TAT fits a u64.
TypeOK ==
    /\ clock \in Time
    /\ state \in [Keys -> Tat]
    /\ call \in [Tasks -> Request \cup {None}]
    /\ gc \in Collection \cup {None}
    /\ clearing \in SUBSET Keys

\* The answer a pending request would get now.
Answer(t) ==
    Decision(state, call[t].key, call[t].now, call[t].cost)

\* The decision on a request for key k at time n, when the entry holds tat.
Later(k, tat, n, cost) == Allows(tat, n, Ei(k), Bo(k), cost)

\* A denied request is told the exact wait: the same request is allowed
\* retry_after later and not a nanosecond before, and a client that waits the
\* whole seconds of the Retry-After header is allowed (gcra.rs,
\* retry_after_secs: "A client that waits this long is allowed").
RetryAfterExact ==
    \A t \in Tasks :
        call[t] # None /\ ~Answer(t).allowed =>
            LET k == call[t].key
                now == call[t].now
                cost == call[t].cost
                wait == Answer(t).retry_after
            IN  /\ Later(k, state[k], now + wait, cost)
                /\ \A n \in now .. now + wait - 1 : ~Later(k, state[k], n, cost)
                /\ Later(k, state[k], now + CeilSecs(wait) * NanosPerSec, cost)

\* No timestamp plus two bursts reaches u64::MAX: a TAT may be one burst ahead, and
\* a request for all of the burst is compared with a TAT one more ahead.
RoomForTwoBursts ==
    \A k \in Keys : MaxTime + 2 * (ReplenishInterval(QuotaOf[k]) * Burst(k)) < U64Max

\* The limit is the burst, and `remaining` is the largest cost that the next
\* request at the same instant may have.
RemainingExact(t, answer) ==
    /\ answer.limit = Burst(call[t].key)
    /\ answer.remaining <= Burst(call[t].key)
    /\ \A cost \in Costs(call[t].key) :
         cost <= answer.remaining <=> Later(call[t].key, answer.new_tat, call[t].now, cost)

\* A full burst is allowed again reset_after later, and not a nanosecond before.
ResetExact(t, answer) ==
    LET k == call[t].key
        full == call[t].now + answer.reset_after
    IN  /\ Later(k, answer.new_tat, full, Burst(k))
        /\ \A n \in call[t].now .. full - 1 : ~Later(k, answer.new_tat, n, Burst(k))

\* An allowed request is told exactly what is left and when the bucket will be
\* full again.
AllowanceExact ==
    \A t \in Tasks :
        call[t] # None =>
            LET answer == Answer(t)
            IN  answer.allowed => RemainingExact(t, answer) /\ ResetExact(t, answer)

\* Once the clock has stopped, no entry that had expired by then stays for good.
\* RateTier says under which conditions.
ExpiredReclaimed ==
    <>[](\A k \in Keys : state[k] # None => state[k] >= clock)

=============================================================================
