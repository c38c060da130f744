--------------------------- MODULE BreakerTiming ----------------------------
(***************************************************************************)
(* CircuitBreaker in which every request finishes within CallBudget of its *)
(* timestamp: the breaker "has no timeout of its own", so the primary must *)
(* bound its latency (breaker.rs, "During an outage").  The open period    *)
(* "counts from when the failed call started", so how large open_for has   *)
(* to be for the breaker never to take a result from before an outage for  *)
(* one from after it is a question of timing.                              *)
(***************************************************************************)
EXTENDS CircuitBreaker

CONSTANT CallBudget     \* the latency the primary keeps to

ASSUME CallBudgetAssumption == CallBudget \in Nat \ {0}

VARIABLE stale          \* requests sent to the primary before it was given up

timedVars == <<vars, stale>>

\* Sent to the primary while the breaker was closed, and not answered.
InFlight(t) ==
    /\ call[t] # None
    /\ call[t].route = "Primary"
    /\ call[t].pc \in {"admitted", "calling"}

\* No request is so late that time has to wait for it.
InTime == \A t \in Tasks : call[t] # None => clock - call[t].now < CallBudget

TimedInit == Init /\ stale = {}

TrackStale ==
    stale' = {t \in Tasks : /\ InFlight(t)'
                            /\ t \in stale \/ (IsClosed(state) /\ IsOpen(state'))}

TimedNext ==
    /\ Next
    /\ clock' # clock => InTime
    /\ TrackStale

TimedSpec == TimedInit /\ [][TimedNext]_timedVars
-----------------------------------------------------------------------------

\* An open period is longer than two calls, and its end can be represented.
OpenForOutlasts ==
    /\ OpenFor > 2 * CallBudget
    /\ MaxTime + OpenFor <= U64Max

\* With a timeout well below open_for (twice the budget is the exact limit),
\* results from before an outage are all in before a probe ends it: a closed
\* breaker never counts, or is reset by, a call it sent before it last opened.
NoStaleVerdict == IsClosed(state) => stale = {}

=============================================================================
