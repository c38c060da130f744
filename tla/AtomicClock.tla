---------------------------- MODULE AtomicClock -----------------------------
(***************************************************************************)
(* What FakeClock promises (clock.rs): each advance or set takes effect    *)
(* once, in one step between its call and its return, and an advance moves *)
(* the clock by its whole duration, up to the end of the u64 range.        *)
(***************************************************************************)
EXTENDS Gcra

CONSTANTS
    Threads,        \* the threads that hold a clone of the clock
    Durations,      \* the durations they advance it by, in nanoseconds
    Settings        \* the times they set it to

ASSUME ClockAssumption ==
    /\ Durations \subseteq Nat
    /\ Settings \subseteq Nanos

VARIABLES
    nanos,          \* FakeClock::nanos
    op              \* per thread, the call it is making, or None

Advance(d) == [fn |-> "advance", by |-> d]
Set(n) == [fn |-> "set", to |-> n]

Op == {Advance(d) : d \in Durations} \cup {Set(n) : n \in Settings}

ASSUME OpAssumption == None \notin Op

\* The clock after a call.  A duration of more than u64::MAX nanoseconds is cut
\* to u64::MAX, which saturates all the same.
Effect(time, o) ==
    IF o.fn = "advance" THEN SaturatingAdd(time, AtMost(o.by, U64Max)) ELSE o.to

AtomicInit ==
    /\ nanos = 0
    /\ op = [t \in Threads |-> None]

Call(t) ==
    /\ op[t] = None
    /\ \E o \in Op : op' = [op EXCEPT ![t] = o]
    /\ UNCHANGED nanos

TakeEffect(t) ==
    /\ op[t] # None
    /\ nanos' = Effect(nanos, op[t])
    /\ op' = [op EXCEPT ![t] = None]

AtomicNext == \E t \in Threads : Call(t) \/ TakeEffect(t)

AtomicSpec == AtomicInit /\ [][AtomicNext]_<<nanos, op>>

=============================================================================
