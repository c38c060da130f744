--------------------------- MODULE CircuitBreaker ---------------------------
(***************************************************************************)
(* storage/breaker.rs and storage/breaker/transition.rs: requests go to a  *)
(* primary storage while it works and to an in-memory fallback while it    *)
(* does not.  A request is a task with a program counter; a step is what   *)
(* it does under one lock (the breaker's mutex, or one shard of the        *)
(* fallback's map) or with one atomic operation on last_pruned.  The steps *)
(* of concurrent requests interleave freely, and a request may be dropped  *)
(* wherever the code awaits.                                               *)
(*                                                                         *)
(* The primary is external: its answer is a success or a failure, and      *)
(* `healthy' says whether failures are possible.  Since health may change  *)
(* at any moment, any sequence of outcomes is possible.                    *)
(***************************************************************************)
EXTENDS MemoryMap

CONSTANTS
    Tasks,              \* the tasks that make requests
    RequestCosts,       \* the costs they ask for
    FailureThreshold,   \* Policy::failure_threshold
    OpenFor,            \* Policy::open_for
    MaxTime             \* bound: the clock stops here

ASSUME PolicyAssumption ==
    /\ FailureThreshold \in Nat \ {0}
    /\ OpenFor \in Nanos \ {0}
ASSUME MaxTimeAssumption == MaxTime \in Nanos
ASSUME CostAssumption ==
    /\ RequestCosts \subseteq Nat
    /\ \A k \in Keys : \A cost \in RequestCosts : cost <= Burst(k)

VARIABLES
    clock,          \* what Clock::now returns
    healthy,        \* whether the primary storage answers every call
    state,          \* CircuitBreaker::state
    last_pruned,    \* CircuitBreaker::last_pruned
    fallback,       \* CircuitBreaker::fallback
    call,           \* per task, the request it is serving, or None
    reported        \* the last Opened or Closed delivered to the callback

vars == <<clock, healthy, state, last_pruned, fallback, call, reported>>

Time == 0 .. MaxTime

Closed(n) == [kind |-> "Closed", failures |-> n]
Open(u) == [kind |-> "Open", until |-> u]
HalfOpen == [kind |-> "HalfOpen"]

IsClosed(s) == s.kind = "Closed"
IsOpen(s) == s.kind = "Open"

State ==
    {Closed(n) : n \in 0 .. FailureThreshold - 1}
        \cup {Open(u) : u \in Nanos} \cup {HalfOpen}

\* Where a request is: before admit; in its future, unpolled; pruning the
\* fallback as a probe; awaiting the primary; clearing the fallback and
\* reporting Closed; pruning and reporting Opened; pruning if due; at the
\* fallback.
Pc == {"arrived", "admitted", "prune_probe", "calling",
       "clear", "report_closed",
       "opened", "prune_opened", "report_opened",
       "load_pruned", "swap_pruned", "prune_due",
       "fallback"}

Request ==
    [pc    : Pc,
     key   : Keys,
     cost  : RequestCosts,
     now   : Time,
     route : {"Primary", "Probe", None},
     armed : BOOLEAN,           \* ProbeGuard::armed
     todo  : SUBSET Keys,       \* keys a sweep of the fallback has yet to visit
     last  : Time]              \* last_pruned as prune_fallback_if_due read it

ASSUME RequestAssumption == None \notin Request

Init ==
    /\ clock = 0
    /\ healthy \in BOOLEAN
    /\ state = Closed(0)
    /\ last_pruned = 0
    /\ fallback = [k \in Keys |-> None]
    /\ call = [t \in Tasks |-> None]
    /\ reported = "Closed"

(***************************************************************************)
(* transition.rs                                                           *)
(***************************************************************************)
\* Fault: no open period.
ReopenAtOnce(now) == Open(now)

\* The open period counts from the timestamp of the failed call.
Reopen(now) == Open(SaturatingAdd(now, OpenFor))

\* Fault: one failure too many is tolerated.
AfterFailureLate(failures, now) ==
    IF failures + 1 > FailureThreshold THEN Reopen(now) ELSE Closed(failures + 1)

AfterFailure(failures, now) ==
    IF failures + 1 >= FailureThreshold THEN Reopen(now) ELSE Closed(failures + 1)

\* Fault: a late failure prolongs the open period.
AfterCallProlonging(s, route, success, now) ==
    CASE IsClosed(s) /\ route = "Primary" ->
           IF success THEN Closed(0) ELSE AfterFailure(s.failures, now)
      [] s = HalfOpen /\ route = "Probe" -> IF success THEN Closed(0) ELSE Reopen(now)
      [] IsOpen(s) /\ ~success -> Open(SaturatingAdd(s.until, OpenFor))
      [] OTHER -> s

\* Fault: any success closes the breaker.
AfterCallTrusting(s, route, success, now) ==
    CASE success -> Closed(0)
      [] IsClosed(s) /\ route = "Primary" /\ ~success -> AfterFailure(s.failures, now)
      [] s = HalfOpen /\ route = "Probe" /\ ~success -> Reopen(now)
      [] OTHER -> s

\* Fault: a successful probe only ends the half-open state.
AfterCallDistrusting(s, route, success, now) ==
    CASE IsClosed(s) /\ route = "Primary" ->
           IF success THEN Closed(0) ELSE AfterFailure(s.failures, now)
      [] s = HalfOpen /\ route = "Probe" -> IF success THEN Open(now) ELSE Reopen(now)
      [] OTHER -> s

\* The breaker's state after a call to the primary: results of calls it no
\* longer waits for leave it alone.
AfterCall(s, route, success, now) ==
    CASE IsClosed(s) /\ route = "Primary" ->
           IF success THEN Closed(0) ELSE AfterFailure(s.failures, now)
      [] s = HalfOpen /\ route = "Probe" -> IF success THEN Closed(0) ELSE Reopen(now)
      [] OTHER -> s

(***************************************************************************)
(* The environment: time, the primary's health, new requests.              *)
(***************************************************************************)
Tick ==
    /\ clock < MaxTime
    /\ clock' = clock + 1
    /\ UNCHANGED <<healthy, state, last_pruned, fallback, call, reported>>

ChangeHealth ==
    /\ healthy' = ~healthy
    /\ UNCHANGED <<clock, state, last_pruned, fallback, call, reported>>

\* RateTier::check reads the clock and calls the storage.
Arrive(t) ==
    /\ call[t] = None
    /\ \E k \in Keys, cost \in RequestCosts :
         call' = [call EXCEPT ![t] =
                    [pc |-> "arrived", key |-> k, cost |-> cost, now |-> clock,
                     route |-> None, armed |-> FALSE, todo |-> {}, last |-> 0]]
    /\ UNCHANGED <<clock, healthy, state, last_pruned, fallback, reported>>

(***************************************************************************)
(* The steps of a request.                                                 *)
(***************************************************************************)
At(t, pc) == call[t] # None /\ call[t].pc = pc

Goto(t, pc) == call' = [call EXCEPT ![t].pc = pc]

\* Start a sweep of the whole fallback.
Sweep(t, pc) == call' = [call EXCEPT ![t].pc = pc, ![t].todo = Keys]

\* Visit key k; after the last key go to pc.
Visited(t, k, pc) ==
    call' = [call EXCEPT ![t].todo = @ \ {k},
                         ![t].pc = IF call[t].todo = {k} THEN pc ELSE @]

\* Fault: a dropped probe is forgotten.
ReleasedNever(c, s) == s

\* What a dropped ProbeGuard makes of the state: an armed one releases the
\* probe, so the next request probes again.
Released(c, s) == IF c.armed /\ s = HalfOpen THEN Open(c.now) ELSE s

\* The future is dropped, finished or not, and the guard with it.
Drop(t) ==
    /\ state' = Released(call[t], state)
    /\ call' = [call EXCEPT ![t] = None]

\* admit, under the lock: the first request after the open period is the probe.
Admit(t) ==
    /\ At(t, "arrived")
    /\ \/ /\ IsClosed(state)
          /\ call' = [call EXCEPT ![t].pc = "admitted", ![t].route = "Primary"]
          /\ UNCHANGED state
       \/ /\ IsOpen(state) /\ call[t].now >= state.until
          /\ state' = HalfOpen
          /\ call' = [call EXCEPT ![t].pc = "admitted", ![t].route = "Probe",
                                  ![t].armed = TRUE]
       \/ /\ state = HalfOpen \/ (IsOpen(state) /\ call[t].now < state.until)
          /\ Goto(t, "fallback")
          /\ UNCHANGED state
    /\ UNCHANGED <<clock, healthy, last_pruned, fallback, reported>>

\* The future's first poll: a probe first prunes the fallback.
Poll(t) ==
    /\ At(t, "admitted")
    /\ \/ /\ call[t].route = "Probe"
          /\ last_pruned' = call[t].now
          /\ Sweep(t, "prune_probe")
       \/ /\ call[t].route = "Primary"
          /\ Goto(t, "calling")
          /\ UNCHANGED last_pruned
    /\ UNCHANGED <<clock, healthy, state, fallback, reported>>

\* The primary answers Ok; the state changes under the lock.
Succeed(t) ==
    /\ At(t, "calling")
    /\ state' = AfterCall(state, call[t].route, TRUE, call[t].now)
    /\ call' = IF state = HalfOpen /\ IsClosed(state')
               THEN [call EXCEPT ![t].pc = "clear", ![t].todo = Keys, ![t].armed = FALSE]
               ELSE [call EXCEPT ![t] = None]
    /\ UNCHANGED <<clock, healthy, last_pruned, fallback, reported>>

\* The primary answers Err, a timeout included.  The PrimaryFailed event, one for
\* each failed call, is left out: unlike Opened and Closed it tells no state.
Fail(t) ==
    /\ At(t, "calling")
    /\ ~healthy
    /\ state' = AfterCall(state, call[t].route, FALSE, call[t].now)
    /\ call' = [call EXCEPT ![t].armed = FALSE,
                            ![t].pc = IF IsClosed(state) /\ IsOpen(state')
                                      THEN "opened" ELSE "load_pruned"]
    /\ UNCHANGED <<clock, healthy, last_pruned, fallback, reported>>

\* The success that closed the breaker: fallback.clear(), shard by shard, and
\* then the event, both after the lock is released.
ClearKey(t, k) ==
    /\ At(t, "clear") /\ k \in call[t].todo
    /\ fallback' = Cleared(fallback, k)
    /\ Visited(t, k, "report_closed")
    /\ UNCHANGED <<clock, healthy, state, last_pruned, reported>>

ReportClosed(t) ==
    /\ At(t, "report_closed")
    /\ reported' = "Closed"
    /\ Drop(t)
    /\ UNCHANGED <<clock, healthy, last_pruned, fallback>>

\* The failure that opened the breaker: prune_fallback, then the event.
PruneOpened(t) ==
    /\ At(t, "opened")
    /\ last_pruned' = call[t].now
    /\ Sweep(t, "prune_opened")
    /\ UNCHANGED <<clock, healthy, state, fallback, reported>>

ReportOpened(t) ==
    /\ At(t, "report_opened")
    /\ reported' = "Opened"
    /\ Goto(t, "fallback")
    /\ UNCHANGED <<clock, healthy, state, last_pruned, fallback>>

\* Any other failure: prune_fallback_if_due reads last_pruned ...
LoadPruned(t) ==
    /\ At(t, "load_pruned")
    /\ call' = IF SaturatingSub(call[t].now, last_pruned) >= OpenFor
               THEN [call EXCEPT ![t].pc = "swap_pruned", ![t].last = last_pruned]
               ELSE [call EXCEPT ![t].pc = "fallback"]
    /\ UNCHANGED <<clock, healthy, state, last_pruned, fallback, reported>>

\* Fault: a plain store instead of the compare-and-exchange.
SwapPrunedBlindly(t) ==
    /\ At(t, "swap_pruned")
    /\ last_pruned' = call[t].now
    /\ Sweep(t, "prune_due")
    /\ UNCHANGED <<clock, healthy, state, fallback, reported>>

\* ... and the compare-and-exchange elects the one request that prunes.
SwapPruned(t) ==
    /\ At(t, "swap_pruned")
    /\ \/ /\ last_pruned = call[t].last
          /\ last_pruned' = call[t].now
          /\ Sweep(t, "prune_due")
       \/ /\ last_pruned # call[t].last
          /\ Goto(t, "fallback")
          /\ UNCHANGED last_pruned
    /\ UNCHANGED <<clock, healthy, state, fallback, reported>>

AfterPrune ==
    [prune_probe |-> "calling", prune_opened |-> "report_opened", prune_due |-> "fallback"]

\* retain_active visits one shard.
PruneKey(t, k) ==
    /\ call[t] # None
    /\ call[t].pc \in DOMAIN AfterPrune
    /\ k \in call[t].todo
    /\ fallback' = Retained(fallback, k, call[t].now)
    /\ Visited(t, k, AfterPrune[call[t].pc])
    /\ UNCHANGED <<clock, healthy, state, last_pruned, reported>>

\* The fallback answers and the request is over.
Fallback(t) ==
    /\ At(t, "fallback")
    /\ fallback' = Charged(fallback, call[t].key, call[t].now, call[t].cost)
    /\ Drop(t)
    /\ UNCHANGED <<clock, healthy, last_pruned, reported>>

\* The caller goes away: the future is dropped unpolled or while it awaits the
\* primary, the only places where it is not running.
Cancel(t) ==
    /\ At(t, "admitted") \/ At(t, "calling")
    /\ Drop(t)
    /\ UNCHANGED <<clock, healthy, last_pruned, fallback, reported>>

\* What the runtime does for an admitted request once its future is polled.
Run(t) ==
    \/ Admit(t)
    \/ \E k \in Keys : ClearKey(t, k)
    \/ ReportClosed(t)
    \/ PruneOpened(t)
    \/ ReportOpened(t)
    \/ LoadPruned(t)
    \/ SwapPruned(t)
    \/ \E k \in Keys : PruneKey(t, k)
    \/ Fallback(t)

Answered(t) == Succeed(t) \/ Fail(t)

Next ==
    \/ Tick
    \/ ChangeHealth
    \/ \E t \in Tasks : Arrive(t)
    \/ \E t \in Tasks : Run(t)
    \/ \E t \in Tasks : Poll(t)
    \/ \E t \in Tasks : Answered(t)
    \/ \E t \in Tasks : Cancel(t)

Spec == Init /\ [][Next]_vars

(***************************************************************************)
(* Time passes, requests keep coming, and the runtime runs them.  Callers  *)
(* may give up, but not each time: a task that is polled, or answered, over*)
(* and over is not dropped first every single time.                        *)
(***************************************************************************)
Fairness ==
    /\ WF_vars(Tick)
    /\ \A t \in Tasks :
         /\ WF_vars(Arrive(t))
         /\ WF_vars(Run(t))
         /\ SF_vars(Poll(t))
         /\ SF_vars(Answered(t))

FairSpec == Spec /\ Fairness
-----------------------------------------------------------------------------

\* The variables have their types; in particular a closed breaker has counted
\* fewer failures than open it.
TypeOK ==
    /\ clock \in Time
    /\ healthy \in BOOLEAN
    /\ state \in State
    /\ last_pruned \in Time
    /\ fallback \in [Keys -> Tat]
    /\ call \in [Tasks -> Request \cup {None}]
    /\ reported \in {"Opened", "Closed"}

Armed(t) == call[t] # None /\ call[t].armed

\* A probe that the primary has not answered.
Probing(t) ==
    /\ call[t] # None
    /\ call[t].route = "Probe"
    /\ call[t].pc \in {"admitted", "prune_probe", "calling"}

\* The breaker is half-open exactly while one request holds the probe, and that
\* request's guard is armed as long as the primary has not answered it: never
\* two probes at once, and never a half-open state that nobody will end
\* (ProbeGuard: "Without this it would stay half-open, and every request would
\* use the fallback forever").
ProbeOwned ==
    /\ \A t, u \in Tasks : Probing(t) /\ Probing(u) => t = u
    /\ state = HalfOpen <=> \E t \in Tasks : Probing(t)
    /\ \A t \in Tasks : Armed(t) <=> Probing(t)

\* after_call: "a slow call that finally succeeds must not close the breaker
\* without a probe, and a late failure must not push `until` further away".
\* An open breaker keeps its period until a request becomes its probe; only the
\* answer to that very probe closes it.
StaleResultsIgnored ==
    [][/\ IsOpen(state) => state' = state \/ state' = HalfOpen
       /\ state = HalfOpen /\ IsClosed(state') =>
            \E t \in Tasks : Armed(t) /\ call[t].pc = "calling" /\ call'[t].pc = "clear"
      ]_vars

\* However calls fail, are dropped and overtake each other, an open breaker is
\* at most open_for away from its next probe.
ProbeInReach == IsOpen(state) => state.until <= SaturatingAdd(clock, OpenFor)

\* A request that goes from the compare-and-exchange to a sweep of the fallback
\* does so open_for after the last sweep.
PrunesApart(t) ==
    At(t, "swap_pruned") /\ At(t, "prune_due")' => last_pruned' >= last_pruned + OpenFor

\* breaker.rs, last_pruned: "pruned at most once per `open_for` while failures
\* come and go without opening the breaker", even when several failures find
\* the prune due at once.
DuePrunesApart == [][\A t \in Tasks : PrunesApart(t)]_vars

\* A probe that was admitted is answered, or released by its guard.
ProbeResolves == state = HalfOpen ~> state # HalfOpen

\* Once the primary works for good and requests keep coming, the breaker closes
\* for good, wherever callers gave up before (unless its open period ends after
\* the clock's bound).
Recovery ==
    <>[]healthy => <>[](IsClosed(state) \/ (IsOpen(state) /\ state.until > MaxTime))

Quiet == \A t \in Tasks : call[t] = None

\* BreakerEvent: Opened means "requests stop going to the primary storage",
\* Closed that "requests go back to the primary storage".  When no request is
\* under way, the last event the callback saw agrees with the breaker.
EventsAgree == Quiet => (reported = "Closed" <=> IsClosed(state))

=============================================================================
