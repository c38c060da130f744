--------------------------- MODULE BreakerOutage ----------------------------
(***************************************************************************)
(* CircuitBreaker with a record of what the fallback has granted: since a  *)
(* key was last cleared, and in the outage under way.                      *)
(***************************************************************************)
EXTENDS CircuitBreaker

VARIABLES
    dropped,    \* per key, the timestamp of the prune that dropped it last
    ledger,     \* per key, what was granted since it was last cleared
    outage      \* per key, what was granted since the breaker opened, until it closes

history == <<dropped, ledger, outage>>
outageVars == <<vars, history>>

\* cells granted, the earliest timestamp among them, and how far they lagged
\* behind a prune that had dropped their entry.
Fresh == [spent |-> 0, since |-> MaxTime, gap |-> 0]

OutageInit ==
    /\ Init
    /\ dropped = [k \in Keys |-> 0]
    /\ ledger = [k \in Keys |-> Fresh]
    /\ outage = [k \in Keys |-> Fresh]

Lag(k, now) == IF fallback[k] = None THEN AtLeast(dropped[k] - now, 0) ELSE 0

Enter(account, k, now, cost) ==
    [account EXCEPT ![k] = [spent |-> @.spent + cost,
                            since |-> AtMost(@.since, now),
                            gap   |-> @.gap + Lag(k, now)]]

RecordedFallback(t) ==
    LET k == call[t].key
        now == call[t].now
        cost == call[t].cost
    IN  /\ Fallback(t)
        /\ IF Decision(fallback, k, now, cost).allowed
           THEN /\ ledger' = Enter(ledger, k, now, cost)
                /\ outage' = IF IsClosed(state) THEN outage ELSE Enter(outage, k, now, cost)
           ELSE UNCHANGED <<ledger, outage>>
        /\ UNCHANGED dropped

RecordedPruneKey(t, k) ==
    /\ PruneKey(t, k)
    /\ dropped' = [dropped EXCEPT ![k] =
                     IF fallback[k] # None /\ fallback'[k] = None THEN call[t].now ELSE @]
    /\ UNCHANGED <<ledger, outage>>

RecordedClearKey(t, k) ==
    /\ ClearKey(t, k)
    /\ ledger' = [ledger EXCEPT ![k] = Fresh]
    /\ dropped' = [dropped EXCEPT ![k] = 0]
    /\ UNCHANGED outage

RecordedAnswer(t) ==
    /\ Answered(t)
    /\ outage' = IF IsClosed(state) /\ IsOpen(state') THEN [k \in Keys |-> Fresh] ELSE outage
    /\ UNCHANGED <<dropped, ledger>>

\* The steps that neither touch the fallback nor open the breaker.
Unrecorded ==
    /\ \/ Tick
       \/ ChangeHealth
       \/ \E t \in Tasks :
            \/ Arrive(t) \/ Admit(t) \/ Poll(t) \/ Cancel(t)
            \/ ReportClosed(t) \/ PruneOpened(t) \/ ReportOpened(t)
            \/ LoadPruned(t) \/ SwapPruned(t)
    /\ UNCHANGED history

OutageNext ==
    \/ Unrecorded
    \/ \E t \in Tasks : RecordedFallback(t) \/ RecordedAnswer(t)
    \/ \E t \in Tasks, k \in Keys : RecordedPruneKey(t, k) \/ RecordedClearKey(t, k)

OutageSpec == OutageInit /\ [][OutageNext]_outageVars
-----------------------------------------------------------------------------

\* No timestamp plus a tier's burst reaches u64::MAX.
FallbackUnsaturated ==
    \A k \in Keys : MaxTime + ReplenishInterval(QuotaOf[k]) * Burst(k) < U64Max

\* A burst, plus what replenished since the first timestamp of the account,
\* plus the documented gap.
WithinQuota(account, k) ==
    LET interval == ReplenishInterval(QuotaOf[k])
    IN  account[k].spent > 0 =>
          interval * account[k].spent
            <= interval * Burst(k) + (clock - account[k].since) + account[k].gap

\* prune_fallback: expired entries are dropped by probes, by the failure that
\* opens the breaker and by failures that find a prune due, each with its own,
\* possibly old, timestamp.  Between two clears the fallback still grants a user
\* no more than one quota; "a slower request with an older `now` can at most
\* regain the tokens of that gap".
FallbackBound == \A k \in Keys : WithinQuota(ledger, k)

\* breaker.rs, "During an outage": "Each instance applies each tier's full quota
\* from its own memory, so with N instances a user can make up to N times their
\* quota while the primary is down."  So one instance grants one quota from an
\* opening of the breaker until it closes.
OutageBound == \A k \in Keys : WithinQuota(outage, k)

=============================================================================
