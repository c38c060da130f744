# A TLA+ model of tower-rate-tier

tower-rate-tier limits the requests of a user by the quota of the user's tier,
with the Generic Cell Rate Algorithm (GCRA). It is a Tower middleware and a
programmatic check over a storage that is an in-memory map, a Redis server, or a
circuit breaker that puts the map behind the server.

## The system

| Part | State | Operations | Interacts with | What makes it correct |
|---|---|---|---|---|
| GCRA, quotas (`gcra.rs`, `quota.rs`) | none; u64 nanoseconds, saturating | `check_gcra`, `emission_interval_nanos`, `burst_offset_nanos`, `ceil_secs` | called under the storage's lock | the wait, the remaining cells and the reset it reports are exact |
| `MemoryStorage` (`storage/memory.rs`) | a DashMap from (user, tier) to a TAT | `check_and_update`, `retain_active`, `clear` | requests, the collector, the breaker | a key is never granted more than its quota, in any order of arrivals |
| Garbage collector (`gc.rs`, `LazyGc` in `tier.rs`) | a task and its handle in a `OnceLock` | spawn, tick: read the clock, retain; abort on drop | shares the map; lives on a Tokio runtime | one per limiter and only where there should be one; expired entries go, entries that owe stay |
| `CircuitBreaker` (`storage/breaker.rs`, `breaker/transition.rs`) | a state under a mutex, `last_pruned`, the fallback map, a guard per call | `admit`, the call, `after_call`, prune, clear, events | primary storage, callback | one probe at a time, never stuck, late results ignored, one quota per outage |
| `RedisStorage` (`storage/redis.rs`, `gcra.lua`) | a key per bucket with an expiry, on the server | script call with a timeout | server, its clock, its script cache | acts as one token bucket for all instances |
| Middleware (`service.rs`, `buffered.rs`, `check.rs`, `cost.rs`) | one future per request | identify, resolve, cost, consult, answer | storage, inner service, identifier | nobody escapes the quota except by a policy |
| `RateTier` (`tier.rs`) | the configuration, the storage, `LazyGc` | the builder, `build`, `check`, `storage` | storage, clock, collector | the same limits as the middleware; starts the collector by itself |
| Redis keys (`redis_key`, `hmac_sha1`) | none | name a bucket | server | two users never share a name |
| Layers and policies (`layer.rs`, `on_*.rs`) | settings | setters | middleware | any order of calls gives what the docs say |
| Responses (`response.rs`) | none | headers | wall clock | a client that waits as told is allowed |
| Events (`event.rs`) | none | callbacks | middleware | no request passes uncounted and unreported |
| `FakeClock` (`clock.rs`) | one atomic u64 | `advance`, `set`, `now` | tests, from any thread | no advance is lost |

What is hard here: a request samples the clock and reaches its entry later, so
timestamps arrive out of order; the sweeps over the map are not atomic; a future
may be dropped at any await; the breaker works outside its lock after each call;
a Redis command may run after its caller gave up; keys expire in milliseconds
while TATs are in microseconds; the server's clock may move back; a collector is
started by whoever comes first inside a runtime, and runtimes end. The file
`PROJECT.json` lists these hazards with their lines and the properties about them.

## The modules

| Module | Models |
|---|---|
| `Gcra` | the arithmetic of `gcra.rs` and `quota.rs`; `U64Max` is a parameter so that saturation can be reached |
| `MemoryMap` | what one visit of one map entry does |
| `MemoryStorage` | requests, collection and clear over the map, one shard at a time |
| `MemoryWindow` | `MemoryStorage` with a record of what was granted in a period an observer chose |
| `CircuitBreaker` | a request is a task with a program counter; a step is one lock or one atomic operation |
| `BreakerTiming` | the breaker whose primary keeps to a latency |
| `BreakerOutage` | the breaker with an account of what the fallback granted |
| `TokenBucket` | abstract: a debt per key that time pays off and a granted request raises, once |
| `RedisStorage` | the script, the client and the server; refines `TokenBucket` |
| `RedisQuota` | `RedisStorage` next to the in-memory limiter in nanoseconds |
| `RedisKey` | the names of keys, as operators over sequences of characters |
| `Builders` | quotas, `RateTierBuilder`, the layers and the breaker's policy: records and the setters on them, a failed assertion is `Panic` |
| `RateTier` | the life of a limiter and its collector, over `MemoryStorage` |
| `Responses` | the rate limit headers |
| `TierLimit` | both services and `RateTier::check`, with every policy, over any storage; its layers are made with `Builders` |
| `AtomicClock` | abstract: each `advance` or `set` takes effect once and at once |
| `FakeClock` | the compare-and-exchange loop; refines `AtomicClock` |
| `GcraProofs`, `MemoryMapProofs` | lemmas about the arithmetic and about one visit of an entry |
| `LimiterProofs`, `CircuitBreakerProofs`, `RedisProofs`, `TierLimitProofs`, `FakeClockProofs`, `RedisKeyProofs` | theorems, with the invariants and lemmas they need; `LimiterProofs` is about `MemoryStorage`, `MemoryWindow` and `RateTier` |
| `MC*` | small instances, one or more configurations each |

How the code appears in them:

* **Steps.** `CheckAndUpdate` of `MemoryStorage` is one step since the entry is
  locked from the read to the write. `retain` and `clear` lock one shard at a
  time; each key is a shard of its own, the finest interleaving possible.
* **The breaker.** `Admit` and the answers `Succeed` and `Fail` are the two
  critical sections; clearing, pruning and reporting come after them, as separate
  steps, since the code does them after it released the mutex. The PrimaryFailed event
  is left out: there is one for each failed call, and it tells no state. `Cancel` drops the
  future unpolled or at its await, and `Released` is what the guard's `Drop` does.
  The primary is external and answers or fails.
* **Redis.** `Execute` is a whole run of the script, which Redis makes atomic.
  `GiveUp` is the timeout; the command is lost or stays on its way (`ExecuteLate`).
  `Reload` is the client library's answer to NOSCRIPT. `Evict`, `Lose`,
  `MoveBack` and `Flush` are the server. A key is hidden once the clock, in whole
  milliseconds, is past its deadline. The server's time is used, as by default.
* **The limiter's life.** `Configure` is one call of a setter, so every order of
  calls occurs, panics included. `BuildLimiter` is one step, as nobody else has the
  limiter yet. `storage()` is two steps: the look at the handle and for a runtime
  (`LookForCollector`), and `get_or_init` (`GetOrInit`), which a `OnceLock` makes
  atomic. Each call runs inside some runtime or none. `Shutdown` ends a runtime and
  its tasks; what is spawned on a runtime that is down never runs, though the handle
  is set. A tier gets the quota of some key or is unlimited, and a check reaches the storage only
  for a limited tier that is configured. `gc_enabled` of the limiter is a history: what
  the builder's setters had come to when it was built.
* **Redis keys.** Strings are sequences over an alphabet with the separator, digits
  and letters. SHA-1 is external: a digest is a character of its own that tells the
  message, which is to say that there are no collisions.
* **FakeClock.** `Exchange` and `Retry` are the two outcomes of
  `compare_exchange_weak`; `Retry` is always possible, since it may fail spuriously.
  The operations are sequentially consistent, as in the code.
* **The middleware.** A request waits at the body, the identifier, the storage and
  the inner service, and `Drop` may end it there. `Identify` is the synchronous
  stretch between two awaits and holds all of `resolve_identity`, `resolve_quota`,
  `request_cost` and `reject_cost_over_limit`. The configuration is a variable that
  never changes, so that one run covers several. The storage decides as
  `check_gcra` does or fails, counted or not. `ProcessResult` reads the wall clock,
  which is the limiter's clock at an offset, and makes the headers; `Serve` adds them
  to the inner service's response. `call` swaps the inner service that was polled ready
  into the future and keeps a clone, so `CallService` leaves the service not ready. (The
  comment at `service.rs:48` has it the other way round: "the clone gets future calls,
  self keeps the ready one".) Events are kept with their request. `spent` is a
  history: the cells the storage granted to each account, a user and the tier that
  applies to it, so that it can be seen whether a client gets a second bucket.
* **Lines.** `map` in `PROJECT.json` gives each definition the lines it stands for,
  with the comment that states the item's contract where the definition is about the
  whole item.
* **Faults.** A definition whose comment begins with "Fault" is a plausible bug of
  the definition below it. No specification uses it; it shows that a property can
  tell the two apart (`mutants` in `PROJECT.json`).

## What the runs check

Passing:

| Run | Properties | Bounds |
|---|---|---|
| `memory_window` | `RetryAfterExact`, `AllowanceExact`, `WindowBound`, `DebtCovers` | 2 tasks, 1 key, burst 2, interval 2, time 0..3, every period in it |
| `rate_tier` | `OneCollector`, `NoStrayCollector`, `StartedOnUse`, `CollectedWhileRunning` | 2 tasks, 2 runtimes, 1 tier, 1 key with burst 1, time 0..1 |
| `fake_clock` | `TakesEffectOnce` | 3 threads, a u64 of 0..3, advances by 1, 2 and 5, sets to 0 and 2: sums pass the end of the range |
| `breaker` | `ProbeOwned`, `ProbeInReach`, `StaleResultsIgnored`, `DuePrunesApart`, `ProbeResolves`, `Recovery` | 2 tasks, threshold 2, open_for 2, time 0..3 |
| `breaker_timing` | `NoStaleVerdict` | 3 tasks, latency 1, open_for 3, time 0..4 |
| `breaker_outage` | `FallbackBound` | 2 tasks, costs 1 and 2, time 0..3 |
| `redis` | `ImplementsBucket`, `ScriptMatchesReference`, `CapStored`, `NeverLooser` | a call and a late command, burst 2, interval 1.5 us, 3 us to the ms, time 0..6, one move back and one lost key |
| `tier_limit` | `SpendBound`, `RefusedUncounted`, `LimitedMayRetry`, `CountedOrExcused`, `HeadersHonest`, `NothingSilent` | 2 requests, a limited, an unlimited and an unknown tier, 6 layers, 3 ns to the second, time 0..1 |

Why these bounds are enough for the cases that matter: two tasks let a request
with an old timestamp overtake, and be overtaken by, another one and by a sweep;
in `breaker` they let an old call and a probe coexist, and the third task of
`breaker_timing` adds a bystander; the theorems below are for any number of tasks.
The clock passes at least one full interval and one open period. In `redis` three
microseconds to the millisecond make a deadline fall inside an interval, `MaxExact`
is reached at the latest times, and since a run of the script is atomic, one task
with a command left behind is two concurrent commands. In `rate_tier` two tasks on two
runtimes race for the first use, the tier is limited or not, and one time unit is enough for an entry to expire
before, during and after a sweep. The builder's space of call orders is finite, since a
builder is a record of settings, and is covered completely. In `tier_limit` each value of
each policy occurs, with a limited, an unlimited and no default tier.
Three nanoseconds to the second make resets fall inside a second.
Runs with tasks that are interchangeable use symmetry, except where liveness is checked.

Three assumptions of MC modules check pure functions over bounded inputs:
`KeysChecked` (distinct keys have distinct names, for all tiers and user ids of up to two
characters out of a separator, a digit and a letter, in both forms, with and without
a secret, shorter and longer than a block), `DecimalChecked`, and `QuotasChecked` (each
quota that a constructor makes has an emission interval in the u64 range above 0).
Four more check that the instances satisfy the hypotheses of the theorems below, so that
none of them is empty: `OneTierCovered`, `TimingCovered`, `OutageCovered`, `LayersCovered`.
`EndlessNotCovered` checks that the instance of `memory_endless` does not.

Violations. These runs state what a comment says and TLC shows a behaviour of the
code that contradicts it:

* `memory_endless`: a window that does not fit u64 nanoseconds saturates the TAT
  and the burst offset alike, and everything is granted (`quota.rs:143`).
* `breaker_late_clear`: the fallback is cleared after the lock is released, so a
  slow clear erases the counts of the next outage and one instance grants more than
  one quota in it (`breaker.rs:304`).
* `breaker_events`: the events are emitted outside the lock. A failed call opens the
  breaker and is slow to report it; the open period ends, a probe closes the breaker and
  reports Closed, and only then Opened arrives. The last event the callback sees is
  Opened, with the breaker closed and no request under way (`breaker.rs:313`).
* `rate_tier_restart`: `storage()` "starts the garbage collector of the built-in storage
  if it is not running yet and a Tokio runtime is available", but the code looks whether
  a handle was ever set. Once the runtime of the collector has shut down, a use inside
  another runtime starts none, and expired entries stay (`tier.rs:111`). `StartedOnUse`
  states what does hold: up to that point, every use inside a runtime ends with the
  collector running.

One more divergence has no run of its own: "A cost of `0` [...] is always allowed"
(`gcra.rs:56`) does not hold for a request with an older timestamp that meets a TAT
more than a burst ahead of it. `RetryAfterExact` covers such answers: the wait they
state is exact.

`NoStaleVerdict` makes the documented advice "Keep that timeout well below
`open_for`" exact: it holds for `open_for` above twice the latency and fails at
twice.

### Fairness

* `RateTier!LimiterFairness`: the clock moves, a call that has begun runs to its end
  (with the in-memory storage it awaits nothing), and a collector that was neither
  aborted nor shut down is woken by its interval again and again. Nobody has to build,
  use or drop a limiter, and `CollectedWhileRunning` only speaks of behaviours in which
  a collector keeps running.
* `CircuitBreaker!Fairness`: the clock moves, requests keep coming and the runtime
  runs each polled future. Callers may give up, so polling and the primary's answer
  only get strong fairness: not every single call is dropped first. The primary is
  free to stay broken; `Recovery` only speaks of behaviours in which it works for
  good, and exempts an open period that ends past the clock's bound.

## What is proved

All theorems are about the same definitions the runs use and hold for every value
of the constants that satisfies the modules' `ASSUME`s: `U64Max` a natural number, a
positive second, quotas that `Quota::with_window` accepts or unlimited ones, a positive
threshold and open period, clocks within u64, layers that the builders can make, and
`None`, `Panic` and `Junk` being no values of the sets they are added to. Every safety
property that a passing run checks is a theorem. Some need a hypothesis that no code
enforces; it is a definition of the model and named in the theorem:

| Hypothesis | Says | Why it is needed |
|---|---|---|
| `NoSaturation` (`MemoryWindow`, `TierLimit`), `FallbackUnsaturated` | no timestamp plus a tier's burst reaches `u64::MAX` | otherwise TATs stop moving while requests are granted: `memory_endless` |
| `RoomForTwoBursts` | nor plus two bursts | a full burst may be asked of a TAT that is a burst ahead; the probe at the end of the range saturates and would be granted |
| `OpenForOutlasts` | `open_for` is above twice the latency of a call | at twice, a late result meets the closed breaker |
| `WallClockFits` | the wall clock is past the epoch and `SystemTime` has room for a wait | otherwise `reset_header_value` saturates, to 0 or to `u64::MAX` |

**Arithmetic and map.** `GcraProofs` has the facts about `ceil_secs`, saturating
operations and division that all other proofs cite; `MemoryMapProofs` what a visit does
to an entry.

**In-memory limiter** (`LimiterProofs`).

* `TypeCorrect`: `TypeOK`; saturation keeps each TAT a u64.
* `WindowAlwaysBounded` and `DebtAlwaysCovers`, under `NoSaturation`. The bound on the
  granted cells is not inductive: it says nothing about the map. The invariant
  `Covering` adds that the TAT of a key (or the time its entry was dropped) has moved
  past the start of the period by what was granted in it, less the gap. A grant moves
  both sides by the same amount and is only given while the TAT is within a burst of
  the timestamp, which yields the bound.
* `WaitsAlwaysExact`: `RetryAfterExact`, with no hypothesis at all. It rests on `TypeOK`
  only: until the TAT has passed, `allow_at` does not depend on the time of the request, and
  from then on a cost within the burst is granted; both stay true where the sums
  saturate.
* `AllowancesAlwaysExact`: `AllowanceExact` under `RoomForTwoBursts`. `remaining` is a
  quotient; a request for one cell more would pass the burst offset, since the
  remainder is below the emission interval.
* `LimiterTypeCorrect`, `AlwaysOneCollector`, `NeverStrayCollector`, `AlwaysStartedOnUse`,
  all from the invariant `Life`. The last one is as `StartedOnUse` says: it promises
  nothing once the runtime of the first collector is gone. `OneCollector` is not inductive: `Life` adds that a
  handle belongs to a limiter that collects, that a use under way keeps the limiter
  alive, that a use which is about to call `get_or_init` saw a runtime, and that the
  collector of a handle runs as long as its runtime does.

**Circuit breaker** (`CircuitBreakerProofs`).

* `TypeCorrect`: `TypeOK` is inductive.
* `ProbeAlwaysOwned`: `ProbeOwned`, together with `TypeOK`, is inductive. Its third part,
  that a guard is armed exactly while the primary has not answered its probe, is what
  the first two need: without it a dropped future could leave the half-open state
  without an owner.
* `StaleResultsAlwaysIgnored`: from `ProbeOwned`, by a case for each action that changes
  the state.
* `ProbeAlwaysInReach`: needs that no request is stamped later than the clock
  (`Timestamps`), since the open period counts from a timestamp.
* `DuePrunesAlwaysApart`: the check that a prune is due and the swap are two steps. The
  invariant `SwapsDue` carries the check to the swap, which only succeeds on the value
  that was checked. Two sweeps with the same timestamp are excluded too.
* `NeverStaleVerdict`, under `OpenForOutlasts`: a call lasts no longer than its budget
  (`WithinBudget`), and while the breaker is open the calls sent before it opened are
  older than the end of the period by more than a budget (`StaleAreOld`). A probe that
  closes it therefore finds none of them left.
* `FallbackAlwaysBounded`, under `FallbackUnsaturated`: as for the window, what was
  granted since the last clear is paid for by the TAT or by the time of the prune that
  dropped the entry, and no TAT is more than a burst ahead (`AllPaid`).

**Redis** (`RedisProofs`). The invariant has four parts: `TypeOK`; `Deadlines`, a key lives
until its TAT at least, so that expiry hides only what is paid off; `Ahead`, no TAT is
more than a burst ahead while the clock has not moved back; `CommandsFit`, commands that
were left behind ask for a cost the client accepted.

* `RedisTypeCorrect`, `CapAlwaysStored`, `ScriptAlwaysMatches`: the script decides and
  answers as `check_gcra` does, below the largest exact number.
* `RedisImplementsBucket`: `RedisStorage` implements `TokenBucket`. The debt of a key is
  the distance of its visible TAT from the server's clock, `asked` is the command that a
  waiting task has sent and the server has not run (`Pending`), `left` the one it has
  given up. Only a request in `asked` or `left` can be counted, and it leaves them when it
  is, so a command that ran cannot be charged again by a retry. `Tick` pays debts off,
  `MoveBack` is the bucket's own, `Send` asks, `Execute` and `ExecuteLate` take the cost
  or refuse, `GiveUp` refuses or abandons, a lost key forgives; a first NOSCRIPT, the
  reload, the answer's arrival and eviction are stutters.
* `RedisNeverLooser`: whatever Redis grants the in-memory limiter would grant. The
  invariant `MapOwesLess` says that the map never owes more cells than Redis; it is a
  comparison of products, as the two emission intervals differ by the rounding.

**Middleware** (`TierLimitProofs`). The invariant says of each request in flight that its
fields fit its place in the code (`Placed`), its result is what the storage answered
(`Decided`), its answer follows from the result (`Answered`), it was let in for a reason
(`Excused`) and reported (`Reported`), and its headers are those of the answer (`Printed`).

* `MiddlewareTypeCorrect`, `RefusedNeverCounted`, `AlwaysCountedOrExcused` and
  `NeverSilent` follow from it directly.
* `LimitedAlwaysMayRetry`: a 429 is only sent for a cost that `reject_cost_over_limit`
  let pass, so a bucket at rest grants it, at the end of the range too.
* `SpendAlwaysBounded`, under `NoSaturation`: the invariant `Paid` says that the TAT of an
  account has moved by an emission interval for each cell granted. Tiers that are not
  configured, failures and dropped requests never open a second bucket.
* `HeadersAlwaysHonest`, under `WallClockFits`: rounding up to whole seconds of wall-clock
  time never makes a promise come too early, nor by a second or more too late.

**Clock and names.**

* `FakeClockProofs!FakeClockIsAtomic`: `FakeClock` implements `AtomicClock`, with the
  identity on `nanos` and `op`. `Load` and `Retry` are stutters; `Exchange` is
  `TakeEffect`, as it only succeeds while the clock is what the thread has last seen. No
  invariant is needed.
* `RedisKeyProofs!RedisKeysDistinct`: `KeysDistinct` for all strings and every
  configuration, from the assumptions that a number's digits are no separators and tell
  it. In the plain form the first separator ends the length, the length tells where the
  tier ends, and the rest is the user id; in the hashed form the digest has a fixed
  length. `hmac_sha1` is injective as its two blocks have a fixed length.

Only model-checked: the liveness properties (`CollectedWhileRunning`, `ProbeResolves`,
`Recovery`), since this prover has no rules for fairness; that decimal notation tells
numbers apart (`DecimalChecked`), which takes an induction over the digits; and the
counterexamples of the violation runs.

## What is not modelled

* Bodies of responses, the escaping of tier names in them, status codes, `Debug` and
  `Display` output: layout.
* `use_client_clock`: for tests. The length of the Redis timeout: a call may give up at
  any moment, which covers every length.
* The value of the collector's interval: its next tick may come at any moment. A runtime
  without a time driver, on which the collector's task panics at `gc.rs:26`. Which clock
  a limiter is given.
* Which of several closures is set: a callback is there or not.
* What an application's identifier, cost function or callback does; any answer of
  an identifier is possible.
* Weak memory: `last_pruned` is the one relaxed atomic, and a single location is
  coherent. A poisoned mutex is used as it is, as the code does.
* Evidence beyond the bounds: the runs are exhaustive only within them.

## Plan

Done: the arithmetic, the map, the limiter's life and its collector, the breaker, Redis with
its abstract bucket and its key names, the builders, the middleware with headers and
events, the fake clock; a theorem for each safety property and each refinement that a
passing run checks. Next, in this order:

1. A composition of the breaker with `RedisStorage` as its primary: what one user
   gets from several instances across an outage, in which timed-out commands count.
2. `RedisStorage` with the client clock, whose keys still expire by the server's.
3. Shorter proofs: the window's and the fallback's argument have the same shape and
   could share an abstract account.
