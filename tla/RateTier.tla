------------------------------ MODULE RateTier ------------------------------
(***************************************************************************)
(* The life of a RateTier (tier.rs) and of the garbage collector it owns   *)
(* (gc.rs): the builder, build, checks by concurrent tasks, the collector  *)
(* that is spawned once a Tokio runtime is at hand, and the end of either. *)
(* The storage is that of MemoryStorage; clear() cannot be reached through *)
(* a RateTier.  A custom storage is a MemoryStorage too, one that its      *)
(* owner never collects.                                                   *)
(*                                                                         *)
(* Tokio is external: a task spawned on a runtime runs until it is aborted *)
(* or the runtime shuts down, and then finishes the poll it is in.  Code   *)
(* that has entered a runtime may outlive it; what it spawns never runs.   *)
(***************************************************************************)
EXTENDS MemoryStorage, Builders

CONSTANTS
    TierNames,      \* the names tiers are given
    Intervals,      \* the intervals gc_interval is called with
    Runtimes        \* the Tokio runtimes of the process

VARIABLES
    builder,        \* the RateTierBuilder, None once build has consumed it
    limiter,        \* the part of the RateTier that concerns the storage, or None
    handle,         \* LazyGc::handle: None, or the collector it was set to
    use,            \* per task, its call of RateTier::storage, or None
    live,           \* the runtimes that have not shut down
    collectors      \* the collectors that will wake up again

lifecycle == <<builder, limiter, handle, use, live, collectors>>
limiterVars == <<vars, lifecycle>>

\* Where Handle::try_current finds a runtime, or None.
Context == Runtimes \cup {None}

\* The quotas that tiers are given.
Quotas == {QuotaOf[k] : k \in Keys} \cup {Unlimited}

\* gc says whether there is a LazyGc; gc_enabled is a history, the builder's setting.
Limiter == {l \in [quotas : SUBSET Quotas, custom_storage : BOOLEAN, gc_enabled : BOOLEAN,
                   gc : BOOLEAN, dropped : BOOLEAN] :
              l.gc => l.gc_enabled /\ ~l.custom_storage}
Collector == [host : Runtimes, by : Tasks \cup {None}]
Use == [context : Context, pc : {"ensure", "init", "storage"}]

\* The builders that the setters below make out of a new one.
Builder ==
    [tiers           : UNION {[names -> Quotas] : names \in SUBSET TierNames},
     default_tier    : TierNames \cup {None},
     on_missing      : MissingPolicy,
     on_unknown_tier : UnknownTierPolicy,
     custom_storage  : BOOLEAN,
     gc_interval     : Nat,
     gc_enabled      : BOOLEAN]

ASSUME IntervalAssumption == Intervals \subseteq Nat
ASSUME LifeAssumption ==
    None \notin Runtimes \cup Builder \cup Limiter \cup Collector \cup Use

LimiterInit ==
    /\ Init
    /\ builder = NewBuilder
    /\ limiter = None
    /\ handle = None
    /\ use = [t \in Tasks |-> None]
    /\ live = Runtimes
    /\ collectors = {}

\* One setter.  A panic ends this attempt and the program starts again.  The setter
\* of the clock is left out, as any clock will do.
Configure ==
    /\ builder # None
    /\ LET next == {Tier(builder, name, quota) : name \in TierNames, quota \in Quotas}
                     \cup {DefaultTier(builder, name) : name \in TierNames}
                     \cup {OnMissing(builder, policy) : policy \in MissingPolicy}
                     \cup {OnUnknownTier(builder, policy) : policy \in UnknownTierPolicy}
                     \cup {GcInterval(builder, interval) : interval \in Intervals}
                     \cup {Storage(builder), DisableGc(builder)}
       IN  \E b \in next : builder' = IF b = Panic THEN NewBuilder ELSE b
    /\ UNCHANGED <<vars, limiter, handle, use, live, collectors>>

\* GcHandle::spawn, on a runtime with a time driver.
Spawn(collector) ==
    IF collector.host \in live THEN collectors \cup {collector} ELSE collectors

\* build: nobody else has the limiter yet when it starts the collector.
BuildLimiter ==
    /\ builder # None
    /\ LET built == Build(builder)
       IN  \/ /\ built = Panic
              /\ builder' = NewBuilder
              /\ UNCHANGED <<limiter, handle, collectors>>
           \/ /\ built # Panic
              /\ builder' = None
              /\ limiter' = [quotas |-> {built.tiers[name] : name \in DOMAIN built.tiers},
                             custom_storage |-> built.custom_storage,
                             gc_enabled |-> builder.gc_enabled,
                             gc |-> built.gc,
                             dropped |-> FALSE]
              /\ \E context \in Context :
                   IF built.gc /\ context # None
                   THEN /\ handle' = [host |-> context, by |-> None]
                        /\ collectors' = Spawn(handle')
                   ELSE UNCHANGED <<handle, collectors>>
    /\ UNCHANGED <<vars, use, live>>

InUse == limiter # None /\ ~limiter.dropped

Enter(t) ==
    \E context \in Context :
        use' = [use EXCEPT ![t] = [context |-> context, pc |-> "ensure"]]

\* RateTier::check reads the clock and asks for the storage, for a limited tier that
\* is configured; for any other it returns before.
BeginCheck(t) ==
    /\ InUse /\ use[t] = None
    /\ Check(t)
    /\ QuotaOf[call'[t].key] \in limiter.quotas
    /\ Enter(t)
    /\ UNCHANGED <<builder, limiter, handle, live, collectors>>

\* RateTier::storage is called by itself.
BeginStorage(t) ==
    /\ InUse /\ use[t] = None
    /\ Enter(t)
    /\ UNCHANGED <<vars, builder, limiter, handle, live, collectors>>

UseAt(t, pc) == use[t] # None /\ use[t].pc = pc

\* storage() returns, to the check that called it or to the application.  From
\* here on the runtime makes no difference.
Obtained(t) ==
    use' = [use EXCEPT ![t] =
              IF call[t] = None THEN None ELSE [context |-> None, pc |-> "storage"]]

\* Fault: only build starts the collector.
WouldStartNever(t) == FALSE

\* ensure_started: no collector yet, and a runtime at hand.
WouldStart(t) == limiter.gc /\ handle = None /\ use[t].context # None

LookForCollector(t) ==
    /\ UseAt(t, "ensure")
    /\ IF WouldStart(t)
       THEN use' = [use EXCEPT ![t].pc = "init"]
       ELSE Obtained(t)
    /\ UNCHANGED <<vars, builder, limiter, handle, live, collectors>>

\* Fault: the handle is set by whoever saw none, and the task it held is detached.
GetOrInitBlindly(t) ==
    /\ UseAt(t, "init")
    /\ handle' = [host |-> use[t].context, by |-> t]
    /\ collectors' = Spawn(handle')
    /\ Obtained(t)
    /\ UNCHANGED <<vars, builder, limiter, live>>

\* OnceLock::get_or_init: whoever comes second finds the handle set.
GetOrInit(t) ==
    /\ UseAt(t, "init")
    /\ \/ /\ handle = None
          /\ handle' = [host |-> use[t].context, by |-> t]
          /\ collectors' = Spawn(handle')
       \/ /\ handle # None
          /\ UNCHANGED <<handle, collectors>>
    /\ Obtained(t)
    /\ UNCHANGED <<vars, builder, limiter, live>>

EndCheck(t) ==
    /\ UseAt(t, "storage")
    /\ CheckAndUpdate(t)
    /\ use' = [use EXCEPT ![t] = None]
    /\ UNCHANGED <<builder, limiter, handle, live, collectors>>

Wake ==
    /\ collectors # {}
    /\ GcTick
    /\ UNCHANGED lifecycle

\* Fault: a dropped JoinHandle leaves its task running.
AbortedNever == collectors

\* Dropping the GcHandle aborts its task.
Aborted == collectors \ {handle}

\* The last owner drops the RateTier.
DropLimiter ==
    /\ InUse
    /\ \A t \in Tasks : use[t] = None
    /\ limiter' = [limiter EXCEPT !.dropped = TRUE]
    /\ collectors' = Aborted
    /\ UNCHANGED <<vars, builder, handle, use, live>>

\* A runtime shuts down, and its tasks with it.
Shutdown(r) ==
    /\ r \in live
    /\ live' = live \ {r}
    /\ collectors' = {c \in collectors : c.host # r}
    /\ UNCHANGED <<vars, builder, limiter, handle, use>>

\* A call that has begun goes on.
Proceed(t) == LookForCollector(t) \/ GetOrInit(t) \/ EndCheck(t)

LimiterNext ==
    \/ Configure
    \/ BuildLimiter
    \/ \E t \in Tasks : BeginCheck(t) \/ BeginStorage(t) \/ Proceed(t)
    \/ Tick /\ UNCHANGED lifecycle
    \/ Wake
    \/ \E k \in Keys : GcVisit(k) /\ UNCHANGED lifecycle
    \/ DropLimiter
    \/ \E r \in Runtimes : Shutdown(r)

LimiterSpec == LimiterInit /\ [][LimiterNext]_limiterVars

(***************************************************************************)
(* The clock moves on, a call that was begun runs without awaiting         *)
(* anything, and a collector that was neither aborted nor shut down is     *)
(* woken by its interval again and again.  Nobody has to build a limiter,  *)
(* use it or drop it.                                                      *)
(***************************************************************************)
LimiterFairness ==
    /\ WF_limiterVars(Tick /\ UNCHANGED lifecycle)
    /\ \A t \in Tasks : WF_limiterVars(Proceed(t))
    /\ WF_limiterVars(Wake)
    /\ \A k \in Keys : WF_limiterVars(GcVisit(k) /\ UNCHANGED lifecycle)

FairLimiterSpec == LimiterSpec /\ LimiterFairness

-----------------------------------------------------------------------------

\* The variables have their types; only a built-in storage has a LazyGc.
LimiterTypeOK ==
    /\ TypeOK
    /\ builder \in Builder \cup {None}
    /\ limiter \in Limiter \cup {None}
    /\ handle \in Collector \cup {None}
    /\ use \in [Tasks -> Use \cup {None}]
    /\ live \in SUBSET Runtimes
    /\ collectors \in SUBSET Collector

\* tier.rs, ensure_started: "Spawn the GC task once".  However many first uses
\* race, from whatever runtimes, a limiter never has two collectors, and its
\* handle names the one it has, so that a drop can abort it.
OneCollector == \A c \in collectors : c = handle

\* tier.rs, storage: "Garbage collection never runs for a custom storage, even if
\* gc_interval is called afterwards"; disable_gc: "Disable automatic garbage
\* collection"; gc.rs: "The GC task is aborted when this handle is dropped."  A
\* collector runs only for a built-in storage in use whose builder wanted one.
NoStrayCollector ==
    collectors # {} => InUse /\ ~limiter.custom_storage /\ limiter.gc_enabled

\* The task is on its way to the storage.
Entered(t) == UseAt(t, "ensure") \/ UseAt(t, "init")

\* storage() returns to a limiter that collects, inside a runtime that is up.
Obtains(t) == Entered(t) /\ ~Entered(t)' /\ limiter.gc /\ use[t].context \in live

\* Unless the runtime of an earlier collector is gone, there is a collector then.
Started(t) ==
    Obtains(t) /\ (handle = None \/ handle.host \in live)
        => handle' # None /\ handle' \in collectors'

\* tier.rs, build: the collector "starts on the first use of the storage [...] that
\* happens inside" a runtime, by whichever of several racing uses, and every use
\* finds it running until its own runtime shuts down.
StartedOnUse == [][\A t \in Tasks : Started(t)]_limiterVars

\* tier.rs, RateTier::storage: "Also starts the garbage collector of the built-in
\* storage if it is not running yet and a Tokio runtime is available".  After every
\* use inside a runtime a collector runs.
StartsIfNotRunning == [][\A t \in Tasks : Obtains(t) => collectors' # {}]_limiterVars

\* Once the clock has stopped, no expired entry stays for good in a limiter whose
\* collector keeps running, even one that a slow request writes after a
\* collection has passed it or before the collector was started.
CollectedWhileRunning ==
    <>[](collectors # {}) => ExpiredReclaimed

=============================================================================
