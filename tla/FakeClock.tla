----------------------------- MODULE FakeClock ------------------------------
(***************************************************************************)
(* FakeClock of clock.rs: an AtomicU64 that the clones of the clock share. *)
(* advance loads it and then tries to exchange the value it has seen for   *)
(* the sum, until nobody came between; set stores.  compare_exchange_weak  *)
(* may also fail although the value is the expected one.                   *)
(***************************************************************************)
EXTENDS AtomicClock

VARIABLE
    current         \* per thread, the value its advance has last seen, or None

vars == <<nanos, op, current>>

Init == AtomicInit /\ current = [t \in Threads |-> None]

\* advance or set is called.
Begin(t) == Call(t) /\ UNCHANGED current

Advancing(t) == op[t] # None /\ op[t].fn = "advance"

Load(t) ==
    /\ Advancing(t) /\ current[t] = None
    /\ current' = [current EXCEPT ![t] = nanos]
    /\ UNCHANGED <<nanos, op>>

Return(t) ==
    /\ op' = [op EXCEPT ![t] = None]
    /\ current' = [current EXCEPT ![t] = None]

\* Fault: the sum is stored without looking whether the clock has changed.
ExchangeBlindly(t) ==
    /\ Advancing(t) /\ current[t] # None
    /\ nanos' = Effect(current[t], op[t])
    /\ Return(t)

\* The exchange succeeds.
Exchange(t) ==
    /\ Advancing(t) /\ current[t] # None
    /\ nanos = current[t]
    /\ nanos' = Effect(current[t], op[t])
    /\ Return(t)

\* The exchange fails, with or without a reason, and returns the actual value.
Retry(t) ==
    /\ Advancing(t) /\ current[t] # None
    /\ current' = [current EXCEPT ![t] = nanos]
    /\ UNCHANGED <<nanos, op>>

Store(t) ==
    /\ op[t] # None /\ op[t].fn = "set"
    /\ nanos' = Effect(nanos, op[t])
    /\ Return(t)

Next ==
    \E t \in Threads : Begin(t) \/ Load(t) \/ Exchange(t) \/ Retry(t) \/ Store(t)

Spec == Init /\ [][Next]_vars

-----------------------------------------------------------------------------

\* No advance is lost and none counts twice, however advances and sets of the
\* clock's clones interleave: each call takes effect once and at once (clock.rs,
\* advance: "Saturates at `u64::MAX` if the total would overflow").
TakesEffectOnce == AtomicSpec

=============================================================================
