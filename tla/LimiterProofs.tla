--------------------------- MODULE LimiterProofs ----------------------------
(***************************************************************************)
(* The limiter on its in-memory storage, for every set of tasks, keys and  *)
(* runtimes, every quota and every bound on time.  MemoryStorage never     *)
(* grants more than the quota of any period, as long as the arithmetic     *)
(* does not saturate, and the waits and allowances it reports are exact.   *)
(* A RateTier has at most one garbage collector, only where there should   *)
(* be one, and has it after the first use inside a runtime.                *)
(***************************************************************************)
EXTENDS RateTier, MemoryWindow, MemoryMapProofs

(***************************************************************************)
(* MemoryStorage and MemoryWindow                                          *)
(***************************************************************************)
\* A pending request has the fields check_and_update reads.
LEMMA CallType ==
    ASSUME TypeOK, NEW t \in Tasks, call[t] # None
    PROVE  /\ call[t].key \in Keys
           /\ call[t].now \in Time
           /\ call[t].now \in Nat
           /\ call[t].cost \in Nat
  BY MaxTimeAssumption DEF TypeOK, Request, Time

\* Every step of the storage keeps its types.
LEMMA TypeStep == TypeOK /\ [Next]_vars => TypeOK'
<1> SUFFICES ASSUME TypeOK, [Next]_vars PROVE TypeOK'
  OBVIOUS
<1>1. CASE Tick
  BY <1>1, MaxTimeAssumption DEF Tick, TypeOK, Time
<1>2. ASSUME NEW t \in Tasks, Check(t) PROVE TypeOK'
  <2>1. PICK k \in Keys : \E cost \in Costs(k) :
          call' = [call EXCEPT ![t] = [key |-> k, now |-> clock, cost |-> cost]]
    BY <1>2 DEF Check
  <2>2. Costs(k) \subseteq Nat
    BY QuotaTypes DEF Costs
  <2>3. call' \in [Tasks -> Request \cup {None}]
    BY <2>1, <2>2 DEF TypeOK, Request
  <2> QED
    BY <1>2, <2>3 DEF Check, TypeOK
<1>3. ASSUME NEW t \in Tasks, CheckAndUpdate(t) PROVE TypeOK'
  <2>1. state' \in [Keys -> Tat]
    BY <1>3, CallType, MapTypes DEF CheckAndUpdate, TypeOK
  <2>2. call' \in [Tasks -> Request \cup {None}]
    BY <1>3 DEF CheckAndUpdate, TypeOK
  <2> QED
    BY <1>3, <2>1, <2>2 DEF CheckAndUpdate, TypeOK
<1>4. CASE GcTick
  <2>1. gc' \in Collection
    BY <1>4, QuotaAssumption DEF GcTick, Collection, TypeOK
  <2> QED
    BY <1>4, <2>1 DEF GcTick, TypeOK
<1>5. ASSUME NEW k \in Keys, GcVisit(k) PROVE TypeOK'
  <2>1. gc \in Collection
    BY <1>5 DEF GcVisit, TypeOK
  <2>2. state' \in [Keys -> Tat]
    BY <1>5, <2>1 DEF GcVisit, Retained, Tat, TypeOK
  <2>3. gc' \in Collection \cup {None}
    BY <1>5, <2>1 DEF GcVisit, Remaining, Collection
  <2> QED
    BY <1>5, <2>2, <2>3 DEF GcVisit, TypeOK
<1>6. CASE Clear
  BY <1>6 DEF Clear, TypeOK
<1>7. ASSUME NEW k \in Keys, ClearVisit(k) PROVE TypeOK'
  BY <1>7 DEF ClearVisit, Cleared, Tat, TypeOK
<1>8. CASE UNCHANGED vars
  BY <1>8 DEF vars, TypeOK
<1> QED
  BY <1>1, <1>2, <1>3, <1>4, <1>5, <1>6, <1>7, <1>8 DEF Next

\* In every run of the storage every TAT fits a u64 and a collection under way
\* has keys left to visit.
THEOREM TypeCorrect == Spec => []TypeOK
<1>1. Init => TypeOK
  BY MaxTimeAssumption DEF Init, TypeOK, Time, Tat
<1> QED
  BY <1>1, TypeStep, PTL DEF Spec

-----------------------------------------------------------------------------

\* Recording what a step grants restricts no step of the storage.
LEMMA RecordedIsNext == [WindowNext]_allVars => [Next]_vars
  BY DEF WindowNext, Unrecorded, RecordedCheckAndUpdate, RecordedGcVisit,
         RecordedClearVisit, Next, allVars

\* The lag of a request behind a drop is a duration.
LEMMA LagType ==
    ASSUME WindowTypeOK, NEW k \in Keys, NEW now \in Nat
    PROVE  Lag(k, now) \in Nat
<1>1. dropped[k] \in Nat
  BY MaxTimeAssumption DEF WindowTypeOK, Time
<1> QED
  BY <1>1 DEF Lag, AtLeast

\* Every recorded step keeps the types of the record.
LEMMA WindowTypeStep == WindowTypeOK /\ [WindowNext]_allVars => WindowTypeOK'
<1> SUFFICES ASSUME WindowTypeOK, [WindowNext]_allVars PROVE WindowTypeOK'
  OBVIOUS
<1>1. TypeOK /\ TypeOK'
  BY RecordedIsNext, TypeStep DEF WindowTypeOK
<1>2. CASE Unrecorded \/ UNCHANGED allVars
  BY <1>1, <1>2 DEF Unrecorded, allVars, history, WindowTypeOK
<1>3. ASSUME NEW t \in Tasks, RecordedCheckAndUpdate(t) PROVE WindowTypeOK'
  <2> DEFINE k == call[t].key
             now == call[t].now
             g == Granting(k, now, call[t].cost)
             l == Lag(k, now)
  <2>1. call[t] # None /\ k \in Keys /\ now \in Nat /\ call[t].cost \in Nat
    BY <1>1, <1>3, CallType DEF RecordedCheckAndUpdate, CheckAndUpdate
  <2>2. g \in Nat /\ l \in Nat
    BY <2>1, LagType DEF Granting
  <2>3. cells' = [cells EXCEPT ![k] = @ + g] /\ gap' = [gap EXCEPT ![k] = @ + l]
    BY <1>3 DEF RecordedCheckAndUpdate
  <2> HIDE DEF k, now, g, l
  <2>4. cells' \in [Keys -> Nat] /\ gap' \in [Keys -> Nat]
    BY <2>1, <2>2, <2>3 DEF WindowTypeOK
  <2> QED
    BY <1>1, <1>3, <2>4 DEF RecordedCheckAndUpdate, WindowTypeOK
<1>4. ASSUME NEW k \in Keys, RecordedGcVisit(k) PROVE WindowTypeOK'
  <2>1. gc.now \in Time
    BY <1>1, <1>4 DEF RecordedGcVisit, GcVisit, TypeOK, Collection
  <2> QED
    BY <1>1, <1>4, <2>1 DEF RecordedGcVisit, WindowTypeOK
<1>5. ASSUME NEW k \in Keys, RecordedClearVisit(k) PROVE WindowTypeOK'
  BY <1>1, <1>5, MaxTimeAssumption DEF RecordedClearVisit, WindowTypeOK, Time
<1> QED
  BY <1>2, <1>3, <1>4, <1>5 DEF WindowNext

-----------------------------------------------------------------------------

\* Without saturation the interval and the offset are the quota's own.
LEMMA QuotaExact ==
    ASSUME NoSaturation, NEW k \in Keys
    PROVE  /\ Ei(k) \in Nat /\ Bo(k) \in Nat
           /\ Ei(k) = ReplenishInterval(QuotaOf[k])
           /\ Bo(k) = ReplenishInterval(QuotaOf[k]) * Burst(k)
           /\ MaxTime + Bo(k) < U64Max
<1>1. ReplenishInterval(QuotaOf[k]) * Burst(k) \in Nat
  BY QuotaTypes, Products
<1> QED
  BY <1>1, ExactQuota, MaxTimeAssumption, U64Assumption DEF NoSaturation, Nanos

\* The TAT that stands for a key's debt, the time of the drop once dropped.
Debt(k) == IF state[k] = None THEN dropped[k] ELSE state[k]

\* DebtCovers and WindowBound for one key.
Covered(k) == Ei(k) * cells[k] <= AtLeast(Debt(k) - window.from, 0) + gap[k]
Bounded(k) == Ei(k) * cells[k] <= (window.until - window.from) + Bo(k) + gap[k]

\* The inductive invariant, key by key.
Covering == \A k \in Keys : Covered(k) /\ Bounded(k)

\* Debts and periods are natural numbers.
LEMMA RecordTypes ==
    ASSUME WindowTypeOK, NEW k \in Keys
    PROVE  /\ state[k] \in Tat /\ Debt(k) \in Nat
           /\ cells[k] \in Nat /\ gap[k] \in Nat /\ dropped[k] \in Nat
           /\ window.from \in Nat /\ window.until \in Nat /\ window.from <= window.until
<1>1. state[k] \in Tat
  BY DEF WindowTypeOK, TypeOK
<1>2. dropped[k] \in Nat /\ cells[k] \in Nat /\ gap[k] \in Nat
  BY MaxTimeAssumption DEF WindowTypeOK, Time
<1>3. window.from \in Nat /\ window.until \in Nat /\ window.from <= window.until
  BY MaxTimeAssumption DEF WindowTypeOK, Window, Time
<1> QED
  BY <1>1, <1>2, <1>3, U64Assumption DEF Debt, Tat, Nanos

\* A request keeps its own key covered and bounded.
LEMMA RequestCovered ==
    ASSUME NoSaturation, WindowTypeOK, WindowTypeOK', Covering,
           NEW t \in Tasks, RecordedCheckAndUpdate(t),
           NEW k \in Keys, k = call[t].key
    PROVE  Covered(k)' /\ Bounded(k)'
<1> DEFINE now == call[t].now
           cost == call[t].cost
           ei == Ei(k)
           bo == Bo(k)
           c == CurrentTat(state[k], now)
           p == ei * cost
           x == ei * cells[k]
           l == Lag(k, now)
           granted == Granting(k, now, cost)
           allowed == Allows(state[k], now, ei, bo, cost)
<1>1. now \in Nat /\ now <= MaxTime /\ cost \in Nat
  <2>1. TypeOK /\ call[t] # None
    BY DEF RecordedCheckAndUpdate, CheckAndUpdate, WindowTypeOK
  <2> QED
    BY <2>1, CallType DEF Time
<1>2. ei \in Nat /\ bo \in Nat /\ now + bo < U64Max
  <2>1. ei \in Nat /\ bo \in Nat /\ MaxTime + bo < U64Max
    BY <1>1, QuotaExact
  <2> QED
    BY <1>1, <2>1, MaxTimeAssumption, U64Assumption
<1>3. /\ state[k] \in Tat /\ Debt(k) \in Nat /\ cells[k] \in Nat
      /\ gap[k] \in Nat /\ dropped[k] \in Nat
      /\ window.from \in Nat /\ window.until \in Nat /\ window.from <= window.until
  BY <1>1, RecordTypes
<1>4. p \in Nat /\ x \in Nat /\ c \in Nat /\ l \in Nat
  BY <1>1, <1>2, <1>3, Products, NewTatType, LagType
<1>5. now <= c /\ Debt(k) <= c + l
  BY <1>1, <1>3, NoneAssumption, U64Assumption
     DEF CurrentTat, Lag, Debt, AtLeast, Tat, Nanos
<1>6. /\ window' = window /\ dropped' = dropped
      /\ cells'[k] = cells[k] + granted /\ gap'[k] = gap[k] + l
  BY <1>1 DEF RecordedCheckAndUpdate, WindowTypeOK
<1>7. granted = IF allowed /\ Watched(now) THEN cost ELSE 0
  BY DecisionAllowed DEF Granting
<1>8. /\ allowed => state'[k] = c + p /\ c + p <= now + bo
      /\ ~allowed => state'[k] = state[k]
  <2>1. state' = Charged(state, k, now, cost)
    BY DEF RecordedCheckAndUpdate, CheckAndUpdate
  <2>2. state \in [Keys -> Tat]
    BY DEF WindowTypeOK, TypeOK
  <2>3. /\ allowed => state'[k] = NewTat(state[k], now, ei, cost)
        /\ ~allowed => state'[k] = state[k]
    BY <1>1, <2>1, <2>2, DecisionAllowed DEF Charged
  <2>4. allowed => /\ NewTat(state[k], now, ei, cost) = c + p
                   /\ NewTat(state[k], now, ei, cost) <= now + bo
    BY <1>1, <1>2, <1>3, GrantChargesInFull
  <2> QED
    BY <2>3, <2>4
<1>9. /\ x <= AtLeast(Debt(k) - window.from, 0) + gap[k]
      /\ x <= (window.until - window.from) + bo + gap[k]
  BY <1>1 DEF Covering, Covered, Bounded
<1>10. ei * cells'[k] = IF granted = 0 THEN x ELSE x + p
  <2>1. granted \in Nat /\ (granted # 0 => granted = cost)
    BY <1>1, <1>7
  <2> QED
    BY <1>2, <1>3, <1>6, <2>1, Products
<1>12. granted # 0 => allowed /\ window.from <= now /\ now <= window.until
  BY <1>7 DEF Watched
<1>13. Debt(k)' = IF allowed THEN c + p ELSE Debt(k)
  BY <1>4, <1>6, <1>8, NoneAssumption DEF Debt
<1>14. Covered(k)' <=> ei * cells'[k] <= AtLeast(Debt(k)' - window.from, 0) + (gap[k] + l)
  BY <1>6 DEF Covered
<1>15. Bounded(k)' <=> ei * cells'[k] <= (window.until - window.from) + bo + (gap[k] + l)
  BY <1>6 DEF Bounded
<1> HIDE DEF now, cost, ei, bo, c, p, x, l, granted, allowed
<1>11. /\ x <= AtLeast((c + p) - window.from, 0) + (gap[k] + l)
       /\ window.from <= c =>
            /\ x + p <= AtLeast((c + p) - window.from, 0) + (gap[k] + l)
            /\ AtLeast((c + p) - window.from, 0) = (c + p) - window.from
  <2> DEFINE d == Debt(k)
             from == window.from
             g == gap[k]
  <2>1. d \in Nat /\ from \in Nat /\ g \in Nat
    BY <1>3
  <2>2. x <= AtLeast(d - from, 0) + g /\ d <= c + l
    BY <1>5, <1>9
  <2> HIDE DEF d, from, g
  <2>3. /\ x <= AtLeast((c + p) - from, 0) + (g + l)
        /\ from <= c => x + p <= AtLeast((c + p) - from, 0) + (g + l)
        /\ from <= c => AtLeast((c + p) - from, 0) = (c + p) - from
    BY <1>4, <2>1, <2>2 DEF AtLeast
  <2> QED
    BY <2>3 DEF from, g
<1>16. Covered(k)'
  <2>1. CASE granted = 0 /\ ~allowed
    BY <1>3, <1>4, <1>9, <1>10, <1>13, <1>14, <2>1 DEF AtLeast
  <2>2. CASE granted = 0 /\ allowed
    BY <1>10, <1>11, <1>13, <1>14, <2>2
  <2>3. CASE granted # 0
    <3>1. window.from <= c
      BY <1>1, <1>3, <1>4, <1>5, <1>12, <2>3
    <3> QED
      BY <1>10, <1>11, <1>12, <1>13, <1>14, <2>3, <3>1
  <2> QED
    BY <2>1, <2>2, <2>3
<1>17. Bounded(k)'
  <2>1. CASE granted = 0
    BY <1>2, <1>3, <1>4, <1>9, <1>10, <1>15, <2>1
  <2>2. CASE granted # 0
    <3>1. window.from <= c /\ c + p <= now + bo /\ now <= window.until
      BY <1>1, <1>3, <1>4, <1>5, <1>8, <1>12, <2>2
    <3>2. x + p <= ((c + p) - window.from) + (gap[k] + l)
      BY <1>11, <3>1
    <3> QED
      BY <1>1, <1>2, <1>3, <1>4, <1>10, <1>15, <2>2, <3>1, <3>2
  <2> QED
    BY <2>1, <2>2
<1> QED
  BY <1>16, <1>17

\* A key whose entry and record a step leaves alone stays covered and bounded.
LEMMA UntouchedCovered ==
    ASSUME Covering, NEW k \in Keys, window' = window,
           state'[k] = state[k], cells'[k] = cells[k],
           dropped'[k] = dropped[k], gap'[k] = gap[k]
    PROVE  Covered(k)' /\ Bounded(k)'
  BY DEF Covering, Covered, Bounded, Debt

\* Every recorded step keeps every key covered and bounded.
LEMMA CoveringStep ==
    ASSUME NoSaturation, WindowTypeOK, WindowTypeOK', Covering, [WindowNext]_allVars
    PROVE  Covering'
<1>1. CASE Unrecorded
  <2>1. state' = state /\ UNCHANGED history
    BY <1>1 DEF Unrecorded, Tick, Check, GcTick, Clear
  <2> QED
    BY <2>1, UntouchedCovered DEF Covering, history
<1>2. ASSUME NEW t \in Tasks, RecordedCheckAndUpdate(t), NEW k \in Keys
      PROVE  Covered(k)' /\ Bounded(k)'
  <2>1. CASE k = call[t].key
    BY <1>2, <2>1, RequestCovered
  <2>2. CASE k # call[t].key
    <3>1. state'[k] = state[k]
      BY <1>2, <2>2 DEF RecordedCheckAndUpdate, CheckAndUpdate, Charged, WindowTypeOK, TypeOK
    <3>2. /\ window' = window /\ dropped' = dropped
          /\ cells'[k] = cells[k] /\ gap'[k] = gap[k]
      BY <1>2, <2>2 DEF RecordedCheckAndUpdate, WindowTypeOK
    <3> QED
      BY <3>1, <3>2, UntouchedCovered
  <2> QED
    BY <2>1, <2>2
<1>3. ASSUME NEW j \in Keys, RecordedGcVisit(j), NEW k \in Keys
      PROVE  Covered(k)' /\ Bounded(k)'
  <2>1. /\ window' = window /\ cells' = cells /\ gap' = gap
        /\ state' = Retained(state, j, gc.now)
        /\ dropped' = [dropped EXCEPT ![j] =
                         IF state[j] # None /\ state'[j] = None THEN gc.now ELSE @]
    BY <1>3 DEF RecordedGcVisit, GcVisit
  <2>2. CASE k # j
    BY <2>1, <2>2, UntouchedCovered DEF Retained, WindowTypeOK, TypeOK
  <2>3. CASE k = j /\ state'[k] = state[k]
    <3>1. dropped'[k] = dropped[k]
      BY <2>1, <2>3 DEF WindowTypeOK
    <3> QED
      BY <2>1, <2>3, <3>1, UntouchedCovered
  <2>4. CASE k = j /\ state'[k] # state[k]
    <3>1. /\ state[k] # None /\ state'[k] = None
          /\ ~(state[k] >= gc.now)
      BY <2>1, <2>4 DEF Retained, Active, WindowTypeOK, TypeOK
    <3>2. gc.now \in Nat
      BY <1>3, MaxTimeAssumption
         DEF RecordedGcVisit, GcVisit, WindowTypeOK, TypeOK, Collection, Time
    <3>3. Debt(k)' = gc.now /\ Debt(k) = state[k]
      BY <2>1, <2>4, <3>1 DEF Debt, WindowTypeOK
    <3>4. /\ Debt(k) \in Nat /\ gap[k] \in Nat /\ cells[k] \in Nat
          /\ window.from \in Nat /\ window.until \in Nat
      BY RecordTypes
    <3>5. Ei(k) * cells[k] \in Nat
      <4>1. Ei(k) \in Nat
        BY QuotaExact
      <4> QED
        BY <3>4, <4>1, Products
    <3>6. AtLeast(Debt(k) - window.from, 0) <= AtLeast(gc.now - window.from, 0)
      BY <3>1, <3>2, <3>3, <3>4 DEF AtLeast
    <3>7. Ei(k) * cells[k] <= AtLeast(Debt(k) - window.from, 0) + gap[k]
      BY DEF Covering, Covered
    <3> DEFINE x == Ei(k) * cells[k]
               a == AtLeast(Debt(k) - window.from, 0)
               b == AtLeast(gc.now - window.from, 0)
    <3>8. a \in Nat /\ b \in Nat
      BY <3>2, <3>4 DEF AtLeast
    <3>9. x <= b + gap[k]
      <4>1. x \in Nat /\ x <= a + gap[k] /\ a <= b
        BY <3>5, <3>6, <3>7
      <4> HIDE DEF x, a, b
      <4> QED
        BY <3>4, <3>8, <4>1
    <3>10. Covered(k)'
      BY <2>1, <3>3, <3>9 DEF Covered
    <3>11. Bounded(k)'
      BY <2>1 DEF Covering, Bounded
    <3> QED
      BY <3>10, <3>11
  <2> QED
    BY <2>2, <2>3, <2>4
<1>4. ASSUME NEW j \in Keys, RecordedClearVisit(j), NEW k \in Keys
      PROVE  Covered(k)' /\ Bounded(k)'
  <2>1. window' = window
    BY <1>4 DEF RecordedClearVisit
  <2>2. CASE k # j
    BY <1>4, <2>1, <2>2, UntouchedCovered
       DEF RecordedClearVisit, ClearVisit, Cleared, WindowTypeOK, TypeOK
  <2>3. CASE k = j
    <3>1. cells'[k] = 0 /\ gap'[k] = 0
      BY <1>4, <2>3 DEF RecordedClearVisit, WindowTypeOK
    <3>2. Ei(k) \in Nat /\ Bo(k) \in Nat
      BY QuotaExact
    <3>3. Ei(k) * cells'[k] = 0
      BY <3>1, <3>2
    <3>4. Debt(k)' \in Nat /\ window.from \in Nat /\ window.until \in Nat
          /\ window.from <= window.until
      <4>1. dropped'[k] \in Nat /\ state'[k] \in Tat
        BY MaxTimeAssumption DEF WindowTypeOK, TypeOK, Time
      <4> QED
        BY <4>1, RecordTypes, U64Assumption DEF Debt, Tat, Nanos
    <3>5. Covered(k)'
      BY <2>1, <3>1, <3>3, <3>4 DEF Covered, AtLeast
    <3>6. Bounded(k)'
      BY <2>1, <3>1, <3>2, <3>3, <3>4 DEF Bounded
    <3> QED
      BY <3>5, <3>6
  <2> QED
    BY <2>2, <2>3
<1>5. CASE UNCHANGED allVars
  <2>1. state' = state /\ UNCHANGED history
    BY <1>5 DEF allVars, vars
  <2> QED
    BY <2>1, UntouchedCovered DEF Covering, history
<1> QED
  BY <1>1, <1>2, <1>3, <1>4, <1>5 DEF WindowNext, Covering

\* The inductive invariant holds throughout.
LEMMA AlwaysCovering ==
    ASSUME NoSaturation PROVE WindowSpec => [](WindowTypeOK /\ Covering)
<1>1. WindowInit => WindowTypeOK /\ Covering
  <2> SUFFICES ASSUME WindowInit PROVE WindowTypeOK /\ Covering
    OBVIOUS
  <2>1. WindowTypeOK
    BY MaxTimeAssumption DEF WindowInit, Init, WindowTypeOK, TypeOK, Time, Tat
  <2>2. ASSUME NEW k \in Keys PROVE Covered(k) /\ Bounded(k)
    <3>1. cells[k] = 0 /\ gap[k] = 0 /\ Ei(k) \in Nat /\ Bo(k) \in Nat
      BY QuotaExact DEF WindowInit
    <3>2. Ei(k) * cells[k] = 0
      BY <3>1
    <3> QED
      BY <2>1, <3>1, <3>2, RecordTypes DEF Covered, Bounded, AtLeast
  <2> QED
    BY <2>1, <2>2 DEF Covering
<1>2. WindowTypeOK /\ Covering /\ [WindowNext]_allVars => WindowTypeOK' /\ Covering'
  BY WindowTypeStep, CoveringStep
<1> QED
  BY <1>1, <1>2, PTL DEF WindowSpec

\* In every run the requests stamped within any period are granted at most a
\* full burst, what replenishes in the period, and the documented gap, for every
\* quota whose arithmetic stays below u64::MAX.
THEOREM WindowAlwaysBounded ==
    ASSUME NoSaturation PROVE WindowSpec => []WindowBound
<1>1. Covering => WindowBound
  BY QuotaExact DEF Covering, Bounded, WindowBound
<1> QED
  BY <1>1, AlwaysCovering, PTL

\* In every run the TAT of a key, or the time at which a collection dropped its
\* entry, is past the start of the watched period by what was granted in it, less
\* the documented gap: a collector never makes the map forget a debt.
THEOREM DebtAlwaysCovers ==
    ASSUME NoSaturation PROVE WindowSpec => []DebtCovers
<1>1. Covering => DebtCovers
  BY DEF Covering, Covered, Debt, DebtCovers
<1> QED
  BY <1>1, AlwaysCovering, PTL

(***************************************************************************)
(* What a request is told.                                                 *)
(***************************************************************************)
\* A pending request has a cost within its key's burst, since RateTier::check
\* refuses any other before it reads the clock.
CostsFit == \A t \in Tasks : call[t] # None => call[t].cost <= Burst(call[t].key)

LEMMA CostsFitStep == TypeOK /\ CostsFit /\ [Next]_vars => CostsFit'
<1> SUFFICES ASSUME TypeOK, CostsFit, [Next]_vars PROVE CostsFit'
  OBVIOUS
<1>1. ASSUME NEW t \in Tasks, Check(t) PROVE CostsFit'
  <2>1. PICK k \in Keys : \E cost \in Costs(k) :
          call' = [call EXCEPT ![t] = [key |-> k, now |-> clock, cost |-> cost]]
    BY <1>1 DEF Check
  <2>2. \A cost \in Costs(k) : cost <= Burst(k)
    BY QuotaTypes DEF Costs
  <2> QED
    BY <2>1, <2>2 DEF CostsFit, TypeOK
<1>2. ASSUME NEW t \in Tasks, CheckAndUpdate(t) PROVE CostsFit'
  BY <1>2 DEF CheckAndUpdate, CostsFit, TypeOK
<1>3. CASE call' = call
  BY <1>3 DEF CostsFit
<1> QED
  BY <1>1, <1>2, <1>3 DEF Next, Tick, GcTick, GcVisit, Clear, ClearVisit, vars

LEMMA AlwaysCostsFit == Spec => [](TypeOK /\ CostsFit)
<1>1. Init => CostsFit
  BY DEF Init, CostsFit
<1> QED
  BY <1>1, TypeCorrect, CostsFitStep, PTL DEF Spec

\* What a cost within the burst adds to a TAT, saturated or not, is no more than
\* the burst offset, and all of the burst adds just that.
LEMMA CostWithinBurst ==
    ASSUME NEW k \in Keys, NEW cost \in Nat, cost <= Burst(k)
    PROVE  /\ SaturatingMul(Ei(k), cost) <= Bo(k)
           /\ SaturatingMul(Ei(k), Burst(k)) = Bo(k)
<1>1. Ei(k) \in Nat /\ Burst(k) \in Nat
  BY QuotaTypes, U64Assumption DEF Nanos
<1> DEFINE m == Ei(k) * cost
           n == Ei(k) * Burst(k)
<1>2. m \in Nat /\ n \in Nat /\ m <= n
  BY <1>1
<1>3. AtMost(m, U64Max) <= AtMost(n, U64Max)
  <2> HIDE DEF m, n
  <2> QED
    BY <1>2, U64Assumption DEF AtMost
<1> QED
  BY <1>3 DEF SaturatingMul, Bo, BurstOffset, Ei, Burst

\* In every run a denied request is told the exact wait, whatever the quota, at
\* the end of the u64 range too, and one that waits for the whole seconds of
\* Retry-After is allowed.
THEOREM WaitsAlwaysExact == Spec => []RetryAfterExact
<1>1. TypeOK /\ CostsFit => RetryAfterExact
  <2> SUFFICES ASSUME TypeOK, CostsFit, NEW t \in Tasks, call[t] # None, ~Answer(t).allowed
               PROVE  LET k == call[t].key
                          now == call[t].now
                          cost == call[t].cost
                          wait == Answer(t).retry_after
                      IN  /\ Later(k, state[k], now + wait, cost)
                          /\ \A n \in now .. now + wait - 1 : ~Later(k, state[k], n, cost)
                          /\ Later(k, state[k], now + CeilSecs(wait) * NanosPerSec, cost)
    BY DEF RetryAfterExact
  <2> DEFINE k == call[t].key
             now == call[t].now
             cost == call[t].cost
             wait == Answer(t).retry_after
             at == AllowAt(state[k], now, Ei(k), Bo(k), cost)
             up == CeilSecs(wait) * NanosPerSec
  <2>1. k \in Keys /\ now \in Nat /\ cost \in Nat /\ state[k] \in Tat
    BY CallType DEF TypeOK
  <2>2. Ei(k) \in Nat /\ Bo(k) \in Nat
    BY <2>1, QuotaTypes, U64Assumption DEF Nanos
  <2>3. SaturatingMul(Ei(k), cost) <= Bo(k)
    BY <2>1, CostWithinBurst DEF CostsFit
  <2>4. ~Allows(state[k], now, Ei(k), Bo(k), cost)
    BY DecisionAllowed DEF Answer
  <2>5. wait = at - now
    BY <2>4 DEF Answer, Decision, CheckGcra, Denied
  <2>6. \A n \in Nat : Later(k, state[k], n, cost) <=> Allows(state[k], n, Ei(k), Bo(k), cost)
    BY DEF Later
  <2> HIDE DEF k, now, cost, wait
  <2>7. /\ at \in Nat /\ now < at
        /\ \A n \in Nat : now <= n => (Later(k, state[k], n, cost) <=> at <= n)
    BY <2>1, <2>2, <2>3, <2>4, <2>6, WaitExact
  <2> HIDE DEF at
  <2>8. wait \in Nat /\ now + wait = at
    BY <2>1, <2>5, <2>7
  <2>9. up \in Nat /\ wait <= up
    BY <2>8, CeilSecsCovers, NanosPerSecAssumption
  <2> HIDE DEF up
  <2>10. Later(k, state[k], now + wait, cost)
    BY <2>1, <2>7, <2>8
  <2>11. \A n \in now .. now + wait - 1 : ~Later(k, state[k], n, cost)
    BY <2>1, <2>7, <2>8
  <2>12. Later(k, state[k], now + up, cost)
    BY <2>1, <2>7, <2>8, <2>9
  <2> QED
    BY <2>10, <2>11, <2>12 DEF k, now, cost, wait, up
<1> QED
  BY <1>1, AlwaysCostsFit, PTL

\* The offset is a burst of intervals, which are not zero.
LEMMA Roomy ==
    ASSUME RoomForTwoBursts, NEW k \in Keys
    PROVE  /\ Ei(k) \in Nat \ {0} /\ Bo(k) \in Nat /\ Burst(k) \in Nat
           /\ Bo(k) = Ei(k) * Burst(k)
           /\ MaxTime + 2 * Bo(k) < U64Max
           /\ Bo(k) \div Ei(k) = Burst(k)
<1> DEFINE r == ReplenishInterval(QuotaOf[k])
           b == Burst(k)
<1>1. \A j \in Keys : ReplenishInterval(QuotaOf[j]) * Burst(j) \in Nat
  BY QuotaTypes, Products
<1>2. NoSaturation
  BY <1>1, MaxTimeAssumption, U64Assumption DEF RoomForTwoBursts, NoSaturation
<1>3. r \in Nat /\ b \in Nat \ {0}
  BY QuotaTypes
<1>4. 1 <= r
  <2>1. QuotaOf[k].window \in Nat /\ b * 1 <= QuotaOf[k].window
    BY <1>3, QuotaAssumption DEF LimitedQuota, Burst
  <2> QED
    BY <1>3, <2>1, Division DEF ReplenishInterval, Burst
<1>5. Ei(k) = r /\ Bo(k) = r * b /\ Bo(k) \in Nat
  BY <1>2, QuotaExact
<1>6. (r * b) \div r = b
  <2>1. r * b \in Nat /\ r * (b + 1) = r * b + r
    BY <1>3
  <2>2. b <= (r * b) \div r /\ ~(b + 1 <= (r * b) \div r) /\ (r * b) \div r \in Nat
    BY <1>3, <1>4, <2>1, Division
  <2> QED
    BY <1>3, <2>2
<1> QED
  BY <1>3, <1>4, <1>5, <1>6 DEF RoomForTwoBursts

\* A bucket with the TAT nt, at most a burst ahead of now, allows just the costs
\* that fit the rest, and all of the burst from nt on and no earlier.
LEMMA RestExact ==
    ASSUME RoomForTwoBursts, NEW k \in Keys, NEW now \in Time, NEW nt \in Nat,
           now <= nt, nt <= now + Bo(k)
    PROVE  /\ \A cost \in Costs(k) : Later(k, nt, now, cost)
                 <=> cost <= SaturatingSub(Bo(k), nt - now) \div Ei(k)
           /\ \A n \in now .. nt : Later(k, nt, n, Burst(k)) <=> nt <= n
<1> DEFINE e == Ei(k)
           b == Bo(k)
           x == b - (nt - now)
<1>1. /\ e \in Nat \ {0} /\ b \in Nat /\ Burst(k) \in Nat /\ b = e * Burst(k)
      /\ MaxTime + 2 * b < U64Max
  BY Roomy
<1>2. now \in Nat /\ now <= MaxTime /\ nt # None /\ x \in Nat
  BY <1>1, MaxTimeAssumption, NoneAssumption DEF Time
<1>3. SaturatingSub(b, nt - now) = x
  BY <1>1, <1>2 DEF SaturatingSub, AtLeast
<1>4. \A n, cost \in Nat : Later(k, nt, n, cost) <=> Allows(nt, n, e, b, cost)
  BY DEF Later
<1>5. ASSUME NEW n \in now .. nt, NEW cost \in Nat, cost <= Burst(k)
      PROVE  Later(k, nt, n, cost) <=> nt + e * cost <= n + b
  <2> DEFINE p == e * cost
  <2>1. p \in Nat /\ p <= b
    BY <1>1, <1>5
  <2>2. n \in Nat /\ CurrentTat(nt, n) = nt
    BY <1>2, <1>5 DEF CurrentTat, AtLeast
  <2>3. SaturatingMul(e, cost) = p
    <3> HIDE DEF p, e, b
    <3>1. AtMost(p, U64Max) = p
      BY <1>1, <2>1, MaxTimeAssumption, U64Assumption DEF AtMost
    <3> QED
      BY <3>1 DEF SaturatingMul, p
  <2> HIDE DEF p, e, b
  <2>4. NewTat(nt, n, e, cost) = nt + p
    <3>1. nt + p <= U64Max
      BY <1>1, <1>2, <2>1, MaxTimeAssumption, U64Assumption DEF b
    <3> QED
      BY <2>1, <2>2, <2>3, <3>1 DEF NewTat, SaturatingAdd, AtMost
  <2>5. Allows(nt, n, e, b, cost) <=> nt + p <= n + b
    BY <1>1, <2>1, <2>2, <2>4 DEF Allows, AllowAt, SaturatingSub, AtLeast
  <2> QED
    BY <1>4, <2>2, <2>5 DEF p
<1>6. ASSUME NEW cost \in Costs(k)
      PROVE  Later(k, nt, now, cost) <=> cost <= x \div e
  <2>1. cost \in Nat /\ cost <= Burst(k)
    BY <1>1 DEF Costs
  <2>2. Later(k, nt, now, cost) <=> nt + e * cost <= now + b
    BY <1>2, <1>5, <2>1
  <2>3. nt + e * cost <= now + b <=> e * cost <= x
    <3> DEFINE p == e * cost
    <3>1. p \in Nat
      BY <1>1, <2>1
    <3> HIDE DEF p, e, b
    <3>2. nt + p <= now + b <=> p <= x
      BY <1>1, <1>2, <3>1
    <3> QED
      BY <3>2 DEF p
  <2> QED
    BY <1>1, <1>2, <2>1, <2>2, <2>3, Division
<1>7. ASSUME NEW n \in now .. nt PROVE Later(k, nt, n, Burst(k)) <=> nt <= n
  <2>1. Later(k, nt, n, Burst(k)) <=> nt + b <= n + b
    BY <1>1, <1>5
  <2> QED
    BY <1>1, <1>2, <2>1
<1> QED
  BY <1>3, <1>6, <1>7

\* In every run an allowed request is told exactly what is left and when the
\* bucket is full again, for every quota with room for two bursts in a u64.
THEOREM AllowancesAlwaysExact ==
    ASSUME RoomForTwoBursts PROVE Spec => []AllowanceExact
<1>1. TypeOK /\ CostsFit => AllowanceExact
  <2> SUFFICES ASSUME TypeOK, CostsFit, NEW t \in Tasks, call[t] # None, Answer(t).allowed
               PROVE  RemainingExact(t, Answer(t)) /\ ResetExact(t, Answer(t))
    BY DEF AllowanceExact
  <2> DEFINE k == call[t].key
             now == call[t].now
             cost == call[t].cost
             answer == Answer(t)
             nt == NewTat(state[k], now, Ei(k), cost)
             left == SaturatingSub(Bo(k), nt - now)
  <2>1. k \in Keys /\ now \in Time /\ now \in Nat /\ cost \in Nat /\ state[k] \in Tat
    BY CallType DEF TypeOK
  <2>2. Allows(state[k], now, Ei(k), Bo(k), cost)
    BY DecisionAllowed DEF Answer
  <2>3. answer = Granted(state[k], now, Ei(k), Bo(k), cost)
    BY <2>2 DEF Answer, Decision, CheckGcra
  <2>4. /\ answer.limit = Bo(k) \div Ei(k)
        /\ answer.remaining = left \div Ei(k)
        /\ answer.reset_after = nt - now
        /\ answer.new_tat = nt
    BY <2>3 DEF Granted
  <2> HIDE DEF k, now, cost, answer
  <2>5. /\ Ei(k) \in Nat \ {0} /\ Bo(k) \in Nat /\ Burst(k) \in Nat
        /\ MaxTime + 2 * Bo(k) < U64Max /\ Bo(k) = Ei(k) * Burst(k)
        /\ Bo(k) \div Ei(k) = Burst(k)
    BY <2>1, Roomy
  <2>6. now + Bo(k) < U64Max
    BY <2>1, <2>5, MaxTimeAssumption, U64Assumption DEF Time
  <2>7. nt = CurrentTat(state[k], now) + Ei(k) * cost /\ nt <= now + Bo(k)
    BY <2>1, <2>2, <2>5, <2>6, GrantChargesInFull
  <2>8. nt \in Nat /\ now <= nt
    <3> DEFINE p == Ei(k) * cost
               c == CurrentTat(state[k], now)
    <3>1. p \in Nat
      BY <2>1, <2>5
    <3>2. c \in Nat /\ now <= c
      BY <2>1, NoneAssumption, U64Assumption DEF CurrentTat, AtLeast, Tat, Nanos
    <3>3. nt = c + p
      BY <2>7
    <3> HIDE DEF p, c, nt
    <3> QED
      BY <2>1, <3>1, <3>2, <3>3
  <2> HIDE DEF nt
  <2>9. /\ \A c \in Costs(k) : Later(k, nt, now, c) <=> c <= left \div Ei(k)
        /\ \A n \in now .. nt : Later(k, nt, n, Burst(k)) <=> nt <= n
    BY <2>1, <2>7, <2>8, RestExact
  <2>10. left \div Ei(k) <= Burst(k)
    <3> DEFINE x == Ei(k) * Burst(k)
               y == Ei(k) * (Burst(k) + 1)
    <3>1. left \in Nat /\ left <= Bo(k)
      BY <2>1, <2>5, <2>8 DEF SaturatingSub, AtLeast
    <3>2. Bo(k) < Ei(k) * (Burst(k) + 1)
      <4>1. y = x + Ei(k) /\ x \in Nat /\ Bo(k) = x
        BY <2>5
      <4> HIDE DEF x, y
      <4>2. Bo(k) < y
        BY <2>5, <4>1
      <4> QED
        BY <4>2 DEF y
    <3> HIDE DEF left
    <3>3. ~(Ei(k) * (Burst(k) + 1) <= left)
      <4>1. y \in Nat
        BY <2>5
      <4>2. Bo(k) < y
        BY <3>2
      <4> HIDE DEF y
      <4>3. ~(y <= left)
        BY <2>5, <3>1, <4>1, <4>2
      <4> QED
        BY <4>3 DEF y
    <3>4. ~(Burst(k) + 1 <= left \div Ei(k)) /\ left \div Ei(k) \in Nat
      BY <2>5, <3>1, <3>3, Division
    <3> QED
      BY <2>5, <3>4
  <2>11. now + answer.reset_after = nt
    BY <2>1, <2>4, <2>8
  <2>12. Later(k, answer.new_tat, now + answer.reset_after, Burst(k))
    BY <2>1, <2>4, <2>8, <2>9, <2>11
  <2>13. \A n \in now .. now + answer.reset_after - 1 : ~Later(k, answer.new_tat, n, Burst(k))
    BY <2>1, <2>4, <2>8, <2>9, <2>11
  <2>14. RemainingExact(t, answer)
    BY <2>4, <2>5, <2>9, <2>10 DEF RemainingExact, k, now
  <2>15. ResetExact(t, answer)
    BY <2>1, <2>4, <2>8, <2>12, <2>13 DEF ResetExact, k, now
  <2> QED
    BY <2>14, <2>15 DEF answer
<1> QED
  BY <1>1, AlwaysCostsFit, PTL

(***************************************************************************)
(* RateTier                                                                *)
(***************************************************************************)
\* The life of a limiter restricts its storage; it does nothing else to it.
LEMMA LifeIsStorage == [LimiterNext]_limiterVars => [Next]_vars
<1> SUFFICES ASSUME [LimiterNext]_limiterVars PROVE [Next]_vars
  OBVIOUS
<1>1. CASE \E t \in Tasks : BeginCheck(t) \/ EndCheck(t)
  BY <1>1 DEF BeginCheck, EndCheck, Next
<1>2. CASE Tick \/ Wake \/ \E k \in Keys : GcVisit(k)
  BY <1>2 DEF Wake, Next
<1>3. CASE UNCHANGED vars
  BY <1>3
<1> QED
  BY <1>1, <1>2, <1>3
     DEF LimiterNext, limiterVars, Configure, BuildLimiter, BeginStorage, Proceed,
         LookForCollector, GetOrInit, DropLimiter, Shutdown

\* What build makes of a builder.
LEMMA BuildTypes ==
    ASSUME NEW b \in Builder, Build(b) # Panic
    PROVE  /\ Build(b).gc \in BOOLEAN
           /\ [quotas |-> {Build(b).tiers[name] : name \in DOMAIN Build(b).tiers},
               custom_storage |-> Build(b).custom_storage, gc_enabled |-> b.gc_enabled,
               gc |-> Build(b).gc, dropped |-> FALSE] \in Limiter
<1>1. b.custom_storage \in BOOLEAN /\ b.gc_enabled \in BOOLEAN
  BY DEF Builder
<1>2. /\ Build(b).tiers = b.tiers
      /\ Build(b).custom_storage = b.custom_storage
      /\ Build(b).gc = (~b.custom_storage /\ b.gc_enabled)
  BY DEF Build
<1>3. PICK names \in SUBSET TierNames : b.tiers \in [names -> Quotas]
  BY DEF Builder
<1>4. {Build(b).tiers[name] : name \in DOMAIN Build(b).tiers} \in SUBSET Quotas
  BY <1>2, <1>3
<1> QED
  BY <1>1, <1>2, <1>4 DEF Limiter

LEMMA NewBuilderType == NewBuilder \in Builder
<1>1. [name \in {} |-> Unlimited] \in [{} -> Quotas]
  OBVIOUS
<1>2. {} \in SUBSET TierNames
  OBVIOUS
<1>3. NewBuilder.tiers \in UNION {[names -> Quotas] : names \in SUBSET TierNames}
  BY <1>1, <1>2 DEF NewBuilder
<1> QED
  BY <1>3, NanosPerSecAssumption DEF NewBuilder, Builder, MissingPolicy, UnknownTierPolicy

\* Every setter leaves a builder, or panics.
LEMMA SetterTypes ==
    ASSUME NEW b \in Builder
    PROVE  /\ \A name \in TierNames, quota \in Quotas : Tier(b, name, quota) \in Builder
           /\ \A name \in TierNames : DefaultTier(b, name) \in Builder
           /\ \A policy \in MissingPolicy : OnMissing(b, policy) \in Builder
           /\ \A policy \in UnknownTierPolicy : OnUnknownTier(b, policy) \in Builder
           /\ \A interval \in Intervals : GcInterval(b, interval) \in Builder \cup {Panic}
           /\ Storage(b) \in Builder
           /\ DisableGc(b) \in Builder
<1>1. ASSUME NEW name \in TierNames PROVE DefaultTier(b, name) \in Builder
  BY DEF DefaultTier, Builder
<1>2. ASSUME NEW interval \in Intervals PROVE GcInterval(b, interval) \in Builder \cup {Panic}
  BY IntervalAssumption DEF GcInterval, Builder
<1>3. Storage(b) \in Builder /\ DisableGc(b) \in Builder
  BY DEF Storage, DisableGc, Builder
<1>4. ASSUME NEW name \in TierNames, NEW quota \in Quotas PROVE Tier(b, name, quota) \in Builder
  <2> DEFINE tiers == [n \in DOMAIN b.tiers \cup {name} |->
                         IF n = name THEN quota ELSE b.tiers[n]]
  <2>1. PICK names \in SUBSET TierNames : b.tiers \in [names -> Quotas]
    BY DEF Builder
  <2>2. names \cup {name} \in SUBSET TierNames
    OBVIOUS
  <2>3. tiers \in [names \cup {name} -> Quotas]
    BY <2>1
  <2>4. tiers \in UNION {[ns -> Quotas] : ns \in SUBSET TierNames}
    BY <2>2, <2>3
  <2> HIDE DEF tiers
  <2>5. [b EXCEPT !.tiers = tiers] \in Builder
    BY <2>4 DEF Builder
  <2> QED
    BY <2>5 DEF Tier, tiers
<1>5. ASSUME NEW policy \in MissingPolicy PROVE OnMissing(b, policy) \in Builder
  BY DEF OnMissing, Builder
<1>6. ASSUME NEW policy \in UnknownTierPolicy PROVE OnUnknownTier(b, policy) \in Builder
  BY DEF OnUnknownTier, Builder
<1> QED
  BY <1>1, <1>2, <1>3, <1>4, <1>5, <1>6

\* Starting a collector, or not, leaves a set of collectors.
LEMMA SpawnTypes ==
    ASSUME collectors \in SUBSET Collector, NEW c \in Collector
    PROVE  Spawn(c) \in SUBSET Collector
  BY DEF Spawn

\* A call of storage() returns with the record of a check under way, or none.
LEMMA ObtainedTypes ==
    ASSUME use \in [Tasks -> Use \cup {None}], NEW t \in Tasks, Obtained(t)
    PROVE  /\ use' \in [Tasks -> Use \cup {None}]
           /\ \A u \in Tasks \ {t} : use'[u] = use[u]
           /\ ~UseAt(t, "ensure")' /\ ~UseAt(t, "init")'
<1>1. [context |-> None, pc |-> "storage"] \in Use
  BY DEF Use, Context
<1> QED
  BY <1>1 DEF Obtained, UseAt

LEMMA EnterTypes ==
    ASSUME use \in [Tasks -> Use \cup {None}], NEW t \in Tasks, Enter(t)
    PROVE  /\ use' \in [Tasks -> Use \cup {None}]
           /\ \A u \in Tasks \ {t} : use'[u] = use[u]
           /\ UseAt(t, "ensure")'
<1>1. PICK context \in Context :
        use' = [use EXCEPT ![t] = [context |-> context, pc |-> "ensure"]]
  BY DEF Enter
<1>2. [context |-> context, pc |-> "ensure"] \in Use
  BY DEF Use
<1> QED
  BY <1>1, <1>2, LifeAssumption DEF UseAt

\* A setter, or a new attempt after a panic, leaves a builder.
LEMMA ConfigureTypes ==
    ASSUME LimiterTypeOK, Configure
    PROVE  builder \in Builder /\ builder' \in Builder
<1>1. builder \in Builder
  BY DEF Configure, LimiterTypeOK
<1> DEFINE next == {Tier(builder, name, quota) : name \in TierNames, quota \in Quotas}
                     \cup {DefaultTier(builder, name) : name \in TierNames}
                     \cup {OnMissing(builder, policy) : policy \in MissingPolicy}
                     \cup {OnUnknownTier(builder, policy) : policy \in UnknownTierPolicy}
                     \cup {GcInterval(builder, interval) : interval \in Intervals}
                     \cup {Storage(builder), DisableGc(builder)}
<1>2. \A b \in next : b \in Builder \cup {Panic}
  BY <1>1, SetterTypes
<1>3. \E b \in next : builder' = IF b = Panic THEN NewBuilder ELSE b
  BY DEF Configure
<1> HIDE DEF next
<1>4. builder' \in Builder
  BY <1>2, <1>3, NewBuilderType
<1> QED
  BY <1>1, <1>4

(***************************************************************************)
(* The inductive invariant: a builder until there is a limiter, a handle   *)
(* only in a limiter that collects, calls only on a limiter in use, and    *)
(* get_or_init only with a runtime at hand.  The handle's collector runs   *)
(* for as long as its runtime and its limiter.                             *)
(***************************************************************************)
Life ==
    /\ builder = None <=> limiter # None
    /\ handle # None => limiter # None /\ limiter.gc
    /\ \A t \in Tasks : use[t] # None => InUse
    /\ \A t \in Tasks : UseAt(t, "init") => limiter.gc /\ use[t].context # None
    /\ handle # None /\ InUse /\ handle.host \in live => handle \in collectors
    /\ OneCollector
    /\ NoStrayCollector

LEMMA LimiterTypeStep == LimiterTypeOK /\ Life /\ [LimiterNext]_limiterVars => LimiterTypeOK'
<1> SUFFICES ASSUME LimiterTypeOK, Life, [LimiterNext]_limiterVars PROVE LimiterTypeOK'
  OBVIOUS
<1>0. TypeOK'
  BY LifeIsStorage, TypeStep DEF LimiterTypeOK
<1>1. CASE Configure
  BY <1>0, <1>1, ConfigureTypes DEF Configure, LimiterTypeOK
<1>2. CASE BuildLimiter
  <2>1. builder \in Builder
    BY <1>2 DEF BuildLimiter, LimiterTypeOK
  <2>2. CASE Build(builder) = Panic
    BY <1>0, <1>2, <2>2, NewBuilderType DEF BuildLimiter, LimiterTypeOK
  <2>3. CASE Build(builder) # Panic
    <3>1. limiter' \in Limiter /\ builder' = None
      BY <1>2, <2>1, <2>3, BuildTypes DEF BuildLimiter
    <3>2. handle' \in Collector \cup {None} /\ collectors' \in SUBSET Collector
      <4>1. PICK context \in Context :
              IF Build(builder).gc /\ context # None
              THEN /\ handle' = [host |-> context, by |-> None]
                   /\ collectors' = Spawn(handle')
              ELSE UNCHANGED <<handle, collectors>>
        BY <1>2, <2>3 DEF BuildLimiter
      <4>2. CASE Build(builder).gc /\ context # None
        <5>1. handle' \in Collector
          BY <4>1, <4>2 DEF Context, Collector
        <5> QED
          BY <4>1, <4>2, <5>1, SpawnTypes DEF LimiterTypeOK
      <4> QED
        BY <4>1, <4>2 DEF LimiterTypeOK
    <3> QED
      BY <1>0, <1>2, <3>1, <3>2 DEF BuildLimiter, LimiterTypeOK
  <2> QED
    BY <2>2, <2>3
<1>3. ASSUME NEW t \in Tasks, BeginCheck(t) \/ BeginStorage(t) PROVE LimiterTypeOK'
  BY <1>0, <1>3, EnterTypes DEF BeginCheck, BeginStorage, LimiterTypeOK
<1>4. ASSUME NEW t \in Tasks, LookForCollector(t) PROVE LimiterTypeOK'
  <2>1. use' \in [Tasks -> Use \cup {None}]
    <3>1. CASE WouldStart(t)
      <4>1. use[t] \in Use
        BY <1>4 DEF LookForCollector, UseAt, LimiterTypeOK
      <4>2. [use[t] EXCEPT !.pc = "init"] \in Use
        BY <4>1 DEF Use
      <4> QED
        BY <1>4, <3>1, <4>2 DEF LookForCollector, LimiterTypeOK
    <3>2. CASE ~WouldStart(t)
      BY <1>4, <3>2, ObtainedTypes DEF LookForCollector, LimiterTypeOK
    <3> QED
      BY <3>1, <3>2
  <2> QED
    BY <1>0, <1>4, <2>1 DEF LookForCollector, LimiterTypeOK
<1>5. ASSUME NEW t \in Tasks, GetOrInit(t) PROVE LimiterTypeOK'
  <2>1. use' \in [Tasks -> Use \cup {None}]
    BY <1>5, ObtainedTypes DEF GetOrInit, LimiterTypeOK
  <2>2. handle' \in Collector \cup {None} /\ collectors' \in SUBSET Collector
    <3>1. [host |-> use[t].context, by |-> t] \in Collector
      BY <1>5 DEF GetOrInit, UseAt, LimiterTypeOK, Life, Use, Context, Collector
    <3> QED
      BY <1>5, <3>1, SpawnTypes DEF GetOrInit, LimiterTypeOK
  <2> QED
    BY <1>0, <1>5, <2>1, <2>2 DEF GetOrInit, LimiterTypeOK
<1>6. ASSUME NEW t \in Tasks, EndCheck(t) PROVE LimiterTypeOK'
  BY <1>0, <1>6 DEF EndCheck, LimiterTypeOK
<1>7. CASE DropLimiter
  <2>1. limiter' \in Limiter
    BY <1>7 DEF DropLimiter, InUse, Limiter, LimiterTypeOK
  <2> QED
    BY <1>0, <1>7, <2>1 DEF DropLimiter, Aborted, LimiterTypeOK
<1>8. ASSUME NEW r \in Runtimes, Shutdown(r) PROVE LimiterTypeOK'
  BY <1>0, <1>8 DEF Shutdown, LimiterTypeOK
<1>9. CASE UNCHANGED lifecycle
  BY <1>0, <1>9 DEF lifecycle, LimiterTypeOK
<1> QED
  BY <1>1, <1>2, <1>3, <1>4, <1>5, <1>6, <1>7, <1>8, <1>9
     DEF LimiterNext, Wake, Proceed, limiterVars

\* Each step keeps the invariant.
LEMMA LifeStep ==
    LimiterTypeOK /\ LimiterTypeOK' /\ Life /\ [LimiterNext]_limiterVars => Life'
<1> SUFFICES ASSUME LimiterTypeOK, LimiterTypeOK', Life, [LimiterNext]_limiterVars PROVE Life'
  OBVIOUS
<1>0. None \notin Builder /\ None \notin Limiter /\ None \notin Collector
  BY LifeAssumption
<1>1. CASE Configure
  <2>1. builder # None /\ builder' # None
    BY <1>0, <1>1, ConfigureTypes
  <2> QED
    BY <1>1, <2>1 DEF Configure, Life, InUse, UseAt, OneCollector, NoStrayCollector
<1>2. CASE BuildLimiter
  <2>1. /\ builder \in Builder /\ limiter = None /\ handle = None
        /\ collectors = {} /\ \A t \in Tasks : use[t] = None
    BY <1>2 DEF BuildLimiter, LimiterTypeOK, Life, InUse, NoStrayCollector
  <2>2. CASE Build(builder) = Panic
    <3>1. builder' # None
      BY <1>0, <1>2, <2>2, NewBuilderType DEF BuildLimiter
    <3> QED
      BY <1>2, <2>1, <2>2, <3>1 DEF BuildLimiter, Life, InUse, UseAt, OneCollector, NoStrayCollector
  <2>3. CASE Build(builder) # Panic
    <3>1. /\ builder' = None /\ limiter' # None /\ ~limiter'.dropped
          /\ limiter'.gc = Build(builder).gc
          /\ limiter'.gc => limiter'.gc_enabled /\ ~limiter'.custom_storage
      <4>1. /\ builder' = None
            /\ limiter' = [quotas |-> {Build(builder).tiers[name] :
                                         name \in DOMAIN Build(builder).tiers},
                           custom_storage |-> Build(builder).custom_storage,
                           gc_enabled |-> builder.gc_enabled,
                           gc |-> Build(builder).gc, dropped |-> FALSE]
        BY <1>2, <2>3 DEF BuildLimiter
      <4>2. limiter' \in Limiter
        BY <2>1, <2>3, <4>1, BuildTypes
      <4> QED
        BY <1>0, <4>1, <4>2 DEF Limiter
    <3>2. use' = use /\ live' = live
      BY <1>2 DEF BuildLimiter
    <3>3. \/ handle' = None /\ collectors' = {}
          \/ handle' # None /\ limiter'.gc /\ collectors' = Spawn(handle')
      <4>1. PICK context \in Context :
              IF Build(builder).gc /\ context # None
              THEN /\ handle' = [host |-> context, by |-> None]
                   /\ collectors' = Spawn(handle')
              ELSE UNCHANGED <<handle, collectors>>
        BY <1>2, <2>3 DEF BuildLimiter
      <4>2. CASE Build(builder).gc /\ context # None
        <5>1. [host |-> context, by |-> None] \in Collector
          BY <4>2 DEF Context, Collector
        <5> QED
          BY <1>0, <3>1, <4>1, <4>2, <5>1
      <4> QED
        BY <2>1, <4>1, <4>2
    <3> QED
      BY <2>1, <3>1, <3>2, <3>3
         DEF Life, InUse, UseAt, OneCollector, NoStrayCollector, Spawn
  <2> QED
    BY <2>2, <2>3
<1>3. ASSUME NEW t \in Tasks, BeginCheck(t) \/ BeginStorage(t) PROVE Life'
  <2>1. /\ InUse /\ UseAt(t, "ensure")'
        /\ \A u \in Tasks \ {t} : use'[u] = use[u]
        /\ UNCHANGED <<builder, limiter, handle, live, collectors>>
    BY <1>3, EnterTypes DEF BeginCheck, BeginStorage, LimiterTypeOK
  <2> QED
    BY <2>1 DEF Life, InUse, UseAt, OneCollector, NoStrayCollector
<1>4. ASSUME NEW t \in Tasks, LookForCollector(t) PROVE Life'
  <2>1. /\ UseAt(t, "ensure")
        /\ UNCHANGED <<builder, limiter, handle, live, collectors>>
    BY <1>4 DEF LookForCollector
  <2>2. \A u \in Tasks \ {t} : use'[u] = use[u]
    BY <1>4, ObtainedTypes DEF LookForCollector, LimiterTypeOK
  <2>3. UseAt(t, "init")' => limiter.gc /\ use'[t].context # None
    <3>1. CASE WouldStart(t)
      <4>1. use[t] \in Use
        BY <2>1 DEF UseAt, LimiterTypeOK
      <4>2. use'[t] = [use[t] EXCEPT !.pc = "init"]
        BY <1>4, <3>1 DEF LookForCollector, LimiterTypeOK
      <4>3. use'[t].context = use[t].context
        BY <4>1, <4>2 DEF Use
      <4> QED
        BY <3>1, <4>3 DEF WouldStart
    <3>2. CASE ~WouldStart(t)
      BY <1>4, <3>2, ObtainedTypes DEF LookForCollector, LimiterTypeOK
    <3> QED
      BY <3>1, <3>2
  <2>4. InUse
    BY <2>1 DEF Life, UseAt
  <2> QED
    BY <2>1, <2>2, <2>3, <2>4 DEF Life, InUse, UseAt, OneCollector, NoStrayCollector
<1>5. ASSUME NEW t \in Tasks, GetOrInit(t) PROVE Life'
  <2>1. /\ UseAt(t, "init") /\ InUse
        /\ limiter.gc /\ limiter.gc_enabled /\ ~limiter.custom_storage
        /\ UNCHANGED <<builder, limiter, live>>
    BY <1>5 DEF GetOrInit, Life, UseAt, InUse, LimiterTypeOK, Limiter
  <2>2. /\ \A u \in Tasks \ {t} : use'[u] = use[u]
        /\ ~UseAt(t, "init")'
    BY <1>5, ObtainedTypes DEF GetOrInit, LimiterTypeOK
  <2>3. CASE handle = None
    <3>1. collectors = {}
      BY <1>0, <2>3 DEF Life, OneCollector, LimiterTypeOK
    <3>2. handle' # None /\ collectors' = Spawn(handle')
      <4>1. [host |-> use[t].context, by |-> t] \in Collector
        BY <2>1 DEF UseAt, LimiterTypeOK, Life, Use, Context, Collector
      <4> QED
        BY <1>0, <1>5, <2>3, <4>1 DEF GetOrInit
    <3> QED
      BY <2>1, <2>2, <3>1, <3>2 DEF Life, InUse, UseAt, OneCollector, NoStrayCollector, Spawn
  <2>4. CASE handle # None
    <3>1. UNCHANGED <<handle, collectors>>
      BY <1>5, <2>4 DEF GetOrInit
    <3> QED
      BY <2>1, <2>2, <3>1 DEF Life, InUse, UseAt, OneCollector, NoStrayCollector
  <2> QED
    BY <2>3, <2>4
<1>6. ASSUME NEW t \in Tasks, EndCheck(t) PROVE Life'
  BY <1>6 DEF EndCheck, LimiterTypeOK, Life, InUse, UseAt, OneCollector, NoStrayCollector
<1>7. CASE DropLimiter
  <2>1. limiter \in Limiter /\ limiter' # None /\ limiter'.dropped /\ limiter'.gc = limiter.gc
    BY <1>0, <1>7 DEF DropLimiter, InUse, LimiterTypeOK, Limiter
  <2>2. collectors' = {}
    BY <1>7 DEF DropLimiter, Aborted, Life, OneCollector
  <2> QED
    BY <1>7, <2>1, <2>2 DEF DropLimiter, Life, InUse, UseAt, OneCollector, NoStrayCollector
<1>8. ASSUME NEW r \in Runtimes, Shutdown(r) PROVE Life'
  BY <1>8 DEF Shutdown, Life, InUse, UseAt, OneCollector, NoStrayCollector
<1>9. CASE UNCHANGED lifecycle
  BY <1>9 DEF lifecycle, Life, InUse, UseAt, OneCollector, NoStrayCollector
<1> QED
  BY <1>1, <1>2, <1>3, <1>4, <1>5, <1>6, <1>7, <1>8, <1>9
     DEF LimiterNext, Wake, Proceed, limiterVars

LEMMA AlwaysLife == LimiterSpec => [](LimiterTypeOK /\ Life)
<1>1. LimiterInit => LimiterTypeOK /\ Life
  <2> SUFFICES ASSUME LimiterInit PROVE LimiterTypeOK /\ Life
    OBVIOUS
  <2>1. TypeOK
    BY MaxTimeAssumption DEF LimiterInit, Init, TypeOK, Time, Tat
  <2>2. builder # None /\ builder \in Builder
    BY NewBuilderType, LifeAssumption DEF LimiterInit
  <2> QED
    BY <2>1, <2>2
       DEF LimiterInit, LimiterTypeOK, Life, InUse, UseAt, OneCollector, NoStrayCollector
<1>2. LimiterTypeOK /\ Life /\ [LimiterNext]_limiterVars => LimiterTypeOK' /\ Life'
  BY LimiterTypeStep, LifeStep
<1> QED
  BY <1>1, <1>2, PTL DEF LimiterSpec

\* In every run the variables keep their types, and only a built-in storage has a
\* LazyGc, whatever the order of the setters.
THEOREM LimiterTypeCorrect == LimiterSpec => []LimiterTypeOK
  BY AlwaysLife, PTL

\* tier.rs, ensure_started: however many first uses race, from however many
\* runtimes, a limiter never has two collectors, and its handle names the one it
\* has.
THEOREM AlwaysOneCollector == LimiterSpec => []OneCollector
<1>1. Life => OneCollector
  BY DEF Life
<1> QED
  BY <1>1, AlwaysLife, PTL

\* A collector runs only for a built-in storage whose builder wanted one, and never
\* after the limiter was dropped.
THEOREM NeverStrayCollector == LimiterSpec => []NoStrayCollector
<1>1. Life => NoStrayCollector
  BY DEF Life
<1> QED
  BY <1>1, AlwaysLife, PTL

\* tier.rs, build: each time storage() returns to a limiter that collects, inside a
\* runtime that is up, its collector is running, unless one was started before on a
\* runtime that has shut down since.
THEOREM AlwaysStartedOnUse == LimiterSpec => StartedOnUse
<1>1. LimiterTypeOK /\ LimiterTypeOK' /\ Life /\ Life' /\ [LimiterNext]_limiterVars
        => [\A t \in Tasks : Started(t)]_limiterVars
  <2> SUFFICES ASSUME LimiterTypeOK, LimiterTypeOK', Life, Life', LimiterNext,
                      NEW t \in Tasks, Entered(t), ~Entered(t)',
                      limiter.gc, use[t].context \in live,
                      handle = None \/ handle.host \in live
               PROVE  handle' # None /\ handle' \in collectors'
    BY DEF Started, Obtains
  <2>1. InUse /\ use[t].context # None
    BY LifeAssumption DEF Life, Entered, UseAt, LimiterTypeOK
  <2>2. LookForCollector(t) \/ GetOrInit(t)
    <3>1. ~BeginCheck(t) /\ ~BeginStorage(t) /\ ~EndCheck(t)
      BY DEF BeginCheck, BeginStorage, EndCheck, Entered, UseAt
    <3>2. ASSUME NEW u \in Tasks \ {t},
                 \/ BeginCheck(u) \/ BeginStorage(u) \/ EndCheck(u)
                 \/ LookForCollector(u) \/ GetOrInit(u)
          PROVE  use'[t] = use[t]
      BY <3>2, EnterTypes, ObtainedTypes
         DEF BeginCheck, BeginStorage, EndCheck, LookForCollector, GetOrInit, LimiterTypeOK
    <3>3. use'[t] # use[t]
      BY DEF Entered, UseAt
    <3>4. CASE use' = use
      BY <3>3, <3>4
    <3>5. ASSUME NEW u \in Tasks, BeginCheck(u) \/ BeginStorage(u) \/ Proceed(u)
          PROVE  LookForCollector(t) \/ GetOrInit(t)
      BY <3>1, <3>2, <3>3, <3>5 DEF Proceed
    <3> QED
      BY <3>4, <3>5
         DEF LimiterNext, Configure, BuildLimiter, Wake, DropLimiter, Shutdown, lifecycle
  <2>3. InUse' /\ live' = live
    BY <2>1, <2>2 DEF LookForCollector, GetOrInit, InUse
  <2>4. handle' # None /\ handle'.host \in live
    <3>1. CASE LookForCollector(t)
      <4>1. ~WouldStart(t)
        <5>1. SUFFICES ASSUME WouldStart(t) PROVE FALSE
          OBVIOUS
        <5>2. use[t] \in Use /\ use'[t] = [use[t] EXCEPT !.pc = "init"]
          BY <3>1, <5>1 DEF LookForCollector, UseAt, LimiterTypeOK
        <5>3. use'[t] \in Use /\ use'[t].pc = "init"
          BY <5>2 DEF Use
        <5> QED
          BY <5>3, LifeAssumption DEF Entered, UseAt
      <4> QED
        BY <2>1, <3>1, <4>1 DEF LookForCollector, WouldStart
    <3>2. CASE GetOrInit(t)
      <4>1. [host |-> use[t].context, by |-> t] \in Collector
        BY <2>1, <3>2 DEF GetOrInit, UseAt, LimiterTypeOK, Use, Context, Collector
      <4> QED
        BY <3>2, <4>1, LifeAssumption DEF GetOrInit
    <3> QED
      BY <2>2, <3>1, <3>2
  <2> QED
    BY <2>3, <2>4 DEF Life
<1> QED
  BY <1>1, AlwaysLife, PTL DEF LimiterSpec, StartedOnUse
=============================================================================
