---------------------------- MODULE MemoryWindow ----------------------------
(***************************************************************************)
(* MemoryStorage with a record of what it has granted.  An observer picks  *)
(* a period of timestamps to watch; cells counts, for each key, the cells  *)
(* granted to requests stamped within it.  No action of MemoryStorage is   *)
(* restricted: each step of Next is extended by what it adds to the record.*)
(***************************************************************************)
EXTENDS MemoryStorage

VARIABLES
    window,         \* the period an observer has chosen to watch
    cells,          \* per key, cells granted in that period since the last clear
    dropped,        \* per key, the time of the collection that dropped it last
    gap             \* per key, how far requests lagged behind such a drop, summed

history == <<window, cells, dropped, gap>>
allVars == <<vars, history>>

Window == {w \in [from : Time, until : Time] : w.from <= w.until}

WindowInit ==
    /\ Init
    /\ window \in Window
    /\ cells = [k \in Keys |-> 0]
    /\ dropped = [k \in Keys |-> 0]
    /\ gap = [k \in Keys |-> 0]

Watched(now) == window.from <= now /\ now <= window.until

\* How far a request stamped now lies before the collection that dropped its key.
Lag(k, now) == IF state[k] = None THEN AtLeast(dropped[k] - now, 0) ELSE 0

\* The cells a request takes from the observer's count.
Granting(k, now, cost) ==
    IF Decision(state, k, now, cost).allowed /\ Watched(now) THEN cost ELSE 0

RecordedCheckAndUpdate(t) ==
    /\ CheckAndUpdate(t)
    /\ LET k == call[t].key
           now == call[t].now
       IN  /\ cells' = [cells EXCEPT ![k] = @ + Granting(k, now, call[t].cost)]
           /\ gap' = [gap EXCEPT ![k] = @ + Lag(k, now)]
    /\ UNCHANGED <<window, dropped>>

RecordedGcVisit(k) ==
    /\ GcVisit(k)
    /\ dropped' = [dropped EXCEPT ![k] =
                      IF state[k] # None /\ state'[k] = None THEN gc.now ELSE @]
    /\ UNCHANGED <<window, cells, gap>>

\* clear() hands out full quotas, so the record of the key starts again.
RecordedClearVisit(k) ==
    /\ ClearVisit(k)
    /\ cells' = [cells EXCEPT ![k] = 0]
    /\ dropped' = [dropped EXCEPT ![k] = 0]
    /\ gap' = [gap EXCEPT ![k] = 0]
    /\ UNCHANGED window

Unrecorded ==
    /\ \/ Tick
       \/ \E t \in Tasks : Check(t)
       \/ GcTick
       \/ Clear
    /\ UNCHANGED history

WindowNext ==
    \/ Unrecorded
    \/ \E t \in Tasks : RecordedCheckAndUpdate(t)
    \/ \E k \in Keys : RecordedGcVisit(k)
    \/ \E k \in Keys : RecordedClearVisit(k)

WindowSpec == WindowInit /\ [][WindowNext]_allVars

-----------------------------------------------------------------------------

\* The record has its types, and so has the storage.
WindowTypeOK ==
    /\ TypeOK
    /\ window \in Window
    /\ cells \in [Keys -> Nat]
    /\ dropped \in [Keys -> Time]
    /\ gap \in [Keys -> Nat]

\* No timestamp plus a tier's burst reaches u64::MAX: windows below some 584 years
\* less the uptime.
NoSaturation ==
    \A k \in Keys : MaxTime + ReplenishInterval(QuotaOf[k]) * Burst(k) < U64Max

\* Quota: "the maximum number of requests allowed within a time window"
\* (quota.rs).  Whatever the order in which requests reach their entry and
\* wherever the collector's visits fall between them, the requests stamped
\* within any period of length L are granted a full burst plus what replenishes
\* in L, plus the documented exception (breaker.rs, prune_fallback): a request
\* older than the collection that dropped its entry regains "at most [...] the
\* tokens of that gap".
WindowBound ==
    \A k \in Keys :
        LET interval == ReplenishInterval(QuotaOf[k])
        IN  interval * cells[k]
              <= (window.until - window.from) + interval * Burst(k) + gap[k]

\* The debt recorded in the map covers what was granted: the part of a key's TAT
\* that lies after the start of the watched period (the time of the drop, when a
\* collection has dropped the entry).  This is what makes WindowBound inductive.
DebtCovers ==
    \A k \in Keys :
        LET tat == IF state[k] = None THEN dropped[k] ELSE state[k]
        IN  Ei(k) * cells[k] <= AtLeast(tat - window.from, 0) + gap[k]

=============================================================================
