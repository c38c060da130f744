-------------------------- MODULE FakeClockProofs ---------------------------
(***************************************************************************)
(* FakeClock implements AtomicClock, for any threads, durations and size   *)
(* of the u64.  An exchange that succeeds is the step in which its advance *)
(* takes effect: the value it saw is still the clock's, whatever the clock *)
(* was in between.  No invariant is needed.                                *)
(***************************************************************************)
EXTENDS FakeClock, TLAPS

\* A step of the clock is a call, the effect of a call, or invisible.
LEMMA StepRefines ==
    [Next]_vars => [AtomicNext]_<<nanos, op>>
<1> SUFFICES ASSUME [Next]_vars
             PROVE  [AtomicNext]_<<nanos, op>>
    OBVIOUS
<1>1. ASSUME NEW t \in Threads, Begin(t)
      PROVE  AtomicNext
    BY <1>1 DEF Begin, AtomicNext
<1>2. ASSUME NEW t \in Threads, Load(t) \/ Retry(t)
      PROVE  UNCHANGED <<nanos, op>>
    BY <1>2 DEF Load, Retry
<1>3. ASSUME NEW t \in Threads, Exchange(t)
      PROVE  TakeEffect(t)
    BY <1>3 DEF Exchange, Advancing, Return, TakeEffect
<1>4. ASSUME NEW t \in Threads, Store(t)
      PROVE  TakeEffect(t)
    BY <1>4 DEF Store, Return, TakeEffect
<1>5. CASE UNCHANGED vars
    BY <1>5 DEF vars
<1>6. CASE Next
    BY <1>1, <1>2, <1>3, <1>4, <1>6 DEF Next, AtomicNext
<1> QED
    BY <1>5, <1>6

\* Each advance and each set of a FakeClock takes effect once and at once
\* (clock.rs, the compare-exchange loop of advance).
THEOREM FakeClockIsAtomic == Spec => TakesEffectOnce
<1>1. Init => AtomicInit
    BY DEF Init
<1> QED
    BY <1>1, StepRefines, PTL DEF Spec, TakesEffectOnce, AtomicSpec

=============================================================================
