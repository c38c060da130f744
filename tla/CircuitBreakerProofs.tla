------------------------ MODULE CircuitBreakerProofs ------------------------
(***************************************************************************)
(* CircuitBreaker, for every set of tasks and keys, every policy and every *)
(* bound on time: its type, that a half-open breaker belongs to exactly    *)
(* one probe, that the probe of an open one is in reach, and that results  *)
(* of calls from before it opened leave it alone.                          *)
(***************************************************************************)
EXTENDS BreakerTiming, BreakerOutage, MemoryMapProofs

\* Timestamps are u64 values, and natural numbers.
LEMMA TimeIsNanos == Time \subseteq Nanos /\ Time \subseteq Nat
  BY MaxTimeAssumption, U64Assumption DEF Time, Nanos

\* The values after_call returns, and those a dropped guard leaves.
LEMMA TransitionTypes ==
    ASSUME NEW s \in State, NEW now \in Time, NEW route
    PROVE  /\ AfterCall(s, route, TRUE, now) \in State
           /\ AfterCall(s, route, FALSE, now) \in State
           /\ Open(now) \in State
           /\ HalfOpen \in State
<1>1. \A u \in Nanos : Open(u) \in State
  BY DEF State
<1>2. Reopen(now) \in State
  BY <1>1, TimeIsNanos, PolicyAssumption, SaturatingTypes, U64Assumption
     DEF Reopen, Nanos
<1>3. Closed(0) \in State
  BY PolicyAssumption DEF State
<1>4. IsClosed(s) => AfterFailure(s.failures, now) \in State
  <2> SUFFICES ASSUME IsClosed(s) PROVE AfterFailure(s.failures, now) \in State
    OBVIOUS
  <2>1. PICK n \in 0 .. FailureThreshold - 1 : s = Closed(n)
    BY DEF State, IsClosed, Open, HalfOpen
  <2>2. s.failures = n
    BY <2>1 DEF Closed
  <2>3. n + 1 < FailureThreshold => Closed(n + 1) \in State
    BY PolicyAssumption DEF State
  <2> QED
    BY <1>2, <2>2, <2>3, PolicyAssumption DEF AfterFailure
<1> QED
  BY <1>1, <1>2, <1>3, <1>4, TimeIsNanos DEF AfterCall, State

\* A task at a program counter serves a request.
LEMMA AtIsRequest ==
    ASSUME TypeOK, NEW t \in Tasks, call[t] # None
    PROVE  /\ call[t] \in Request
           /\ call[t].key \in Keys
           /\ call[t].cost \in Nat
           /\ call[t].now \in Time
           /\ call[t].now \in Nat
           /\ call[t].armed \in BOOLEAN
  BY TimeIsNanos, CostAssumption DEF TypeOK, Request

\* A dropped future leaves a state and an idle task.
LEMMA DropType ==
    ASSUME TypeOK, NEW t \in Tasks, call[t] # None, Drop(t)
    PROVE  state' \in State /\ call' \in [Tasks -> Request \cup {None}]
<1>1. call[t].now \in Time
  BY AtIsRequest
<1>2. Open(call[t].now) \in State
  BY <1>1, TransitionTypes DEF TypeOK
<1> QED
  BY <1>2 DEF Drop, Released, TypeOK

\* Every step keeps the variables' types.
LEMMA TypeStep == TypeOK /\ [Next]_vars => TypeOK'
<1> SUFFICES ASSUME TypeOK, [Next]_vars PROVE TypeOK'
  OBVIOUS
<1>1. CASE Tick
  BY <1>1, MaxTimeAssumption, U64Assumption DEF Tick, TypeOK, Time, Nanos
<1>2. CASE ChangeHealth
  BY <1>2 DEF ChangeHealth, TypeOK
<1>3. ASSUME NEW t \in Tasks, Arrive(t) PROVE TypeOK'
  <2>1. 0 \in Time
    BY MaxTimeAssumption DEF Time, Nanos
  <2>2. PICK k \in Keys, cost \in RequestCosts :
          call' = [call EXCEPT ![t] =
                    [pc |-> "arrived", key |-> k, cost |-> cost, now |-> clock,
                     route |-> None, armed |-> FALSE, todo |-> {}, last |-> 0]]
    BY <1>3 DEF Arrive
  <2>3. call' \in [Tasks -> Request \cup {None}]
    BY <2>1, <2>2 DEF TypeOK, Request, Pc
  <2> QED
    BY <1>3, <2>3 DEF Arrive, TypeOK
<1>4. ASSUME NEW t \in Tasks, Run(t) PROVE TypeOK'
  <2>1. CASE Admit(t)
    <3>1. call[t] \in Request
      BY <2>1, AtIsRequest DEF Admit, At
    <3>2. call' \in [Tasks -> Request \cup {None}]
      BY <2>1, <3>1 DEF Admit, Goto, TypeOK, Request, Pc
    <3>3. state' \in State
      BY <2>1 DEF Admit, TypeOK, State
    <3> QED
      BY <2>1, <3>2, <3>3 DEF Admit, TypeOK
  <2>2. ASSUME NEW k \in Keys, ClearKey(t, k) PROVE TypeOK'
    <3>1. call[t] \in Request
      BY <2>2, AtIsRequest DEF ClearKey, At
    <3>2. call' \in [Tasks -> Request \cup {None}]
      BY <2>2, <3>1 DEF ClearKey, Visited, TypeOK, Request, Pc
    <3>3. fallback' \in [Keys -> Tat]
      BY <2>2 DEF ClearKey, Cleared, Tat, TypeOK
    <3> QED
      BY <2>2, <3>2, <3>3 DEF ClearKey, TypeOK
  <2>3. CASE ReportClosed(t)
    BY <2>3, DropType DEF ReportClosed, At, TypeOK
  <2>4. CASE PruneOpened(t)
    <3>1. call[t] \in Request /\ call[t].now \in Time
      BY <2>4, AtIsRequest DEF PruneOpened, At
    <3>2. call' \in [Tasks -> Request \cup {None}]
      BY <2>4, <3>1 DEF PruneOpened, Sweep, TypeOK, Request, Pc
    <3> QED
      BY <2>4, <3>1, <3>2 DEF PruneOpened, TypeOK
  <2>5. CASE ReportOpened(t)
    <3>1. call[t] \in Request
      BY <2>5, AtIsRequest DEF ReportOpened, At
    <3>2. call' \in [Tasks -> Request \cup {None}]
      BY <2>5, <3>1 DEF ReportOpened, Goto, TypeOK, Request, Pc
    <3> QED
      BY <2>5, <3>2 DEF ReportOpened, TypeOK
  <2>6. CASE LoadPruned(t)
    <3>1. call[t] \in Request
      BY <2>6, AtIsRequest DEF LoadPruned, At
    <3>2. call' \in [Tasks -> Request \cup {None}]
      BY <2>6, <3>1 DEF LoadPruned, TypeOK, Request, Pc
    <3> QED
      BY <2>6, <3>2 DEF LoadPruned, TypeOK
  <2>7. CASE SwapPruned(t)
    <3>1. call[t] \in Request /\ call[t].now \in Time
      BY <2>7, AtIsRequest DEF SwapPruned, At
    <3>2. call' \in [Tasks -> Request \cup {None}]
      BY <2>7, <3>1 DEF SwapPruned, Sweep, Goto, TypeOK, Request, Pc
    <3> QED
      BY <2>7, <3>1, <3>2 DEF SwapPruned, TypeOK
  <2>8. ASSUME NEW k \in Keys, PruneKey(t, k) PROVE TypeOK'
    <3>1. call[t] \in Request /\ call[t].now \in Nat
      BY <2>8, AtIsRequest DEF PruneKey
    <3>2. AfterPrune[call[t].pc] \in Pc
      BY <2>8 DEF PruneKey, AfterPrune, Pc
    <3>3. call' \in [Tasks -> Request \cup {None}]
      BY <2>8, <3>1, <3>2 DEF PruneKey, Visited, TypeOK, Request
    <3>4. fallback' \in [Keys -> Tat]
      BY <2>8 DEF PruneKey, Retained, Tat, TypeOK
    <3> QED
      BY <2>8, <3>3, <3>4 DEF PruneKey, TypeOK
  <2>9. CASE Fallback(t)
    <3>1. /\ call[t] # None
          /\ call[t].key \in Keys
          /\ call[t].now \in Nat
          /\ call[t].cost \in Nat
      BY <2>9, AtIsRequest DEF Fallback, At
    <3>2. fallback' \in [Keys -> Tat]
      BY <2>9, <3>1, MapTypes DEF Fallback, TypeOK
    <3> QED
      BY <2>9, <3>1, <3>2, DropType DEF Fallback, TypeOK
  <2> QED
    BY <1>4, <2>1, <2>2, <2>3, <2>4, <2>5, <2>6, <2>7, <2>8, <2>9 DEF Run
<1>5. ASSUME NEW t \in Tasks, Poll(t) PROVE TypeOK'
  <2>1. call[t] \in Request /\ call[t].now \in Time
    BY <1>5, AtIsRequest DEF Poll, At
  <2>2. call' \in [Tasks -> Request \cup {None}]
    BY <1>5, <2>1 DEF Poll, Sweep, Goto, TypeOK, Request, Pc
  <2> QED
    BY <1>5, <2>1, <2>2 DEF Poll, TypeOK
<1>6. ASSUME NEW t \in Tasks, Answered(t) PROVE TypeOK'
  <2>1. call[t] \in Request /\ call[t].now \in Time
    BY <1>6, AtIsRequest DEF Answered, Succeed, Fail, At
  <2>2. CASE Succeed(t)
    <3>1. state' \in State
      BY <2>1, <2>2, TransitionTypes DEF Succeed, TypeOK
    <3>2. call' \in [Tasks -> Request \cup {None}]
      BY <2>1, <2>2 DEF Succeed, TypeOK, Request, Pc
    <3> QED
      BY <2>2, <3>1, <3>2 DEF Succeed, TypeOK
  <2>3. CASE Fail(t)
    <3>1. state' \in State
      BY <2>1, <2>3, TransitionTypes DEF Fail, TypeOK
    <3>2. call' \in [Tasks -> Request \cup {None}]
      <4> DEFINE pc == IF IsClosed(state) /\ IsOpen(state') THEN "opened" ELSE "load_pruned"
      <4>1. pc \in Pc
        BY DEF Pc
      <4>2. call' = [call EXCEPT ![t].armed = FALSE, ![t].pc = pc]
        BY <2>3 DEF Fail
      <4> HIDE DEF pc
      <4> QED
        BY <2>1, <4>1, <4>2 DEF TypeOK, Request
    <3> QED
      BY <2>3, <3>1, <3>2 DEF Fail, TypeOK
  <2> QED
    BY <1>6, <2>2, <2>3 DEF Answered
<1>7. ASSUME NEW t \in Tasks, Cancel(t) PROVE TypeOK'
  BY <1>7, DropType DEF Cancel, At, TypeOK
<1>8. CASE UNCHANGED vars
  BY <1>8 DEF vars, TypeOK
<1> QED
  BY <1>1, <1>2, <1>3, <1>4, <1>5, <1>6, <1>7, <1>8 DEF Next

\* In every run every variable keeps its type; a closed breaker has counted
\* fewer failures than the threshold, and no TAT of the fallback leaves u64.
THEOREM TypeCorrect == Spec => []TypeOK
<1>1. Init => TypeOK
  <2> SUFFICES ASSUME Init PROVE TypeOK
    OBVIOUS
  <2>1. 0 \in Time
    BY MaxTimeAssumption DEF Time, Nanos
  <2>2. Closed(0) \in State
    BY PolicyAssumption DEF State
  <2> QED
    BY <2>1, <2>2 DEF Init, TypeOK, Tat
<1> QED
  BY <1>1, TypeStep, PTL DEF Spec

-----------------------------------------------------------------------------

\* The three kinds of state exclude each other.
LEMMA Kinds ==
    ASSUME NEW s \in State
    PROVE  /\ s = HalfOpen <=> s.kind = "HalfOpen"
           /\ s = HalfOpen => ~IsClosed(s) /\ ~IsOpen(s)
           /\ IsClosed(s) => ~IsOpen(s)
           /\ IsClosed(s) \/ IsOpen(s) \/ s = HalfOpen
           /\ IsOpen(s) => s.until \in Nanos /\ s = Open(s.until)
  BY DEF State, IsClosed, IsOpen, Closed, Open, HalfOpen

\* What after_call makes of each kind of state.
LEMMA AfterCallKinds ==
    ASSUME NEW s \in State, NEW now \in Time, NEW route, NEW success \in BOOLEAN,
           NEW r, r = AfterCall(s, route, success, now)
    PROVE  /\ s = HalfOpen /\ route = "Probe" => r # HalfOpen
           /\ ~(s = HalfOpen /\ route = "Probe") => (r = HalfOpen <=> s = HalfOpen)
           /\ IsOpen(s) => r = s
           /\ s = HalfOpen /\ IsClosed(r) => route = "Probe" /\ success
           /\ IsOpen(r) => r = s \/ r = Reopen(now)
  BY Kinds DEF AfterCall, AfterFailure, Reopen, Closed, Open, HalfOpen, IsClosed, IsOpen

\* A step of task t that neither moves the breaker nor makes t a probe or ends
\* its probe leaves the probe where it was.
LEMMA SameProbe ==
    ASSUME TypeOK, ProbeOwned, NEW t \in Tasks,
           state' = state,
           \A u \in Tasks \ {t} : call'[u] = call[u],
           Probing(t)' <=> Probing(t),
           Armed(t)' <=> Armed(t)
    PROVE  ProbeOwned'
<1>1. \A u \in Tasks : (Probing(u)' <=> Probing(u)) /\ (Armed(u)' <=> Armed(u))
  BY DEF Probing, Armed
<1> QED
  BY <1>1 DEF ProbeOwned

\* A future dropped anywhere takes its probe with it.
LEMMA DropProbe ==
    ASSUME TypeOK, ProbeOwned, NEW t \in Tasks, call[t] # None, Drop(t)
    PROVE  ProbeOwned'
<1>1. /\ call'[t] = None
      /\ \A u \in Tasks \ {t} : call'[u] = call[u]
  BY DEF Drop, TypeOK
<1>2. /\ ~Probing(t)' /\ ~Armed(t)'
      /\ \A u \in Tasks \ {t} : (Probing(u)' <=> Probing(u)) /\ (Armed(u)' <=> Armed(u))
  BY <1>1 DEF Probing, Armed
<1>3. CASE Armed(t)
  <2>1. state = HalfOpen /\ \A u \in Tasks \ {t} : ~Probing(u)
    BY <1>3 DEF ProbeOwned
  <2>2. state' = Open(call[t].now)
    BY <1>3, <2>1 DEF Drop, Released, Armed
  <2>3. state' # HalfOpen
    BY <2>2 DEF Open, HalfOpen
  <2> QED
    BY <1>2, <2>1, <2>3 DEF ProbeOwned
<1>4. CASE ~Armed(t)
  <2>1. state' = state
    BY <1>4 DEF Drop, Released, Armed
  <2>2. ~Probing(t)
    BY <1>4 DEF ProbeOwned
  <2> QED
    BY <1>1, <1>2, <1>4, <2>1, <2>2, SameProbe
<1> QED
  BY <1>3, <1>4

\* The primary's answer ends the probe, and no answer but the probe's ends a
\* half-open state.
LEMMA AnswerProbe ==
    ASSUME TypeOK, ProbeOwned, NEW t \in Tasks, Answered(t)
    PROVE  ProbeOwned'
<1>1. call[t] \in Request /\ call[t] # None /\ call[t].now \in Time /\ call[t].pc = "calling"
  BY AtIsRequest DEF Answered, Succeed, Fail, At
<1>2. PICK success \in BOOLEAN :
        state' = AfterCall(state, call[t].route, success, call[t].now)
  BY DEF Answered, Succeed, Fail
<1>3. /\ \A u \in Tasks \ {t} : call'[u] = call[u]
      /\ ~Probing(t)' /\ ~Armed(t)'
  <2>1. CASE Succeed(t)
    BY <1>1, <2>1 DEF Succeed, Probing, Armed, TypeOK, Request
  <2>2. CASE Fail(t)
    BY <1>1, <2>2 DEF Fail, Probing, Armed, TypeOK, Request
  <2> QED
    BY <2>1, <2>2 DEF Answered
<1>4. \A u \in Tasks \ {t} : (Probing(u)' <=> Probing(u)) /\ (Armed(u)' <=> Armed(u))
  BY <1>3 DEF Probing, Armed
<1>5. CASE Probing(t)
  <2>1. state = HalfOpen /\ call[t].route = "Probe" /\ \A u \in Tasks \ {t} : ~Probing(u)
    BY <1>5 DEF ProbeOwned, Probing
  <2>2. state' # HalfOpen
    BY <1>1, <1>2, <2>1, AfterCallKinds DEF TypeOK
  <2> QED
    BY <1>3, <1>4, <2>1, <2>2 DEF ProbeOwned
<1>6. CASE ~Probing(t)
  <2>1. call[t].route # "Probe"
    BY <1>1, <1>6 DEF Probing
  <2>2. state' = HalfOpen <=> state = HalfOpen
    BY <1>1, <1>2, <2>1, AfterCallKinds DEF TypeOK
  <2> QED
    BY <1>3, <1>4, <1>6, <2>2 DEF ProbeOwned
<1> QED
  BY <1>5, <1>6

\* A request takes the probe only from an open breaker, which has none.
LEMMA AdmitProbe ==
    ASSUME TypeOK, ProbeOwned, NEW t \in Tasks, Admit(t)
    PROVE  ProbeOwned'
<1>1. call[t] \in Request /\ call[t] # None /\ call[t].pc = "arrived"
  BY AtIsRequest DEF Admit, At
<1>2. ~Probing(t) /\ ~Armed(t) /\ ~call[t].armed
  BY <1>1 DEF Probing, Armed, ProbeOwned
<1>3. \A u \in Tasks \ {t} : call'[u] = call[u]
  BY DEF Admit, Goto, TypeOK
<1>4. CASE IsOpen(state) /\ call[t].now >= state.until
  <2>1. state # HalfOpen /\ ~IsClosed(state)
    BY <1>4, Kinds DEF TypeOK
  <2>2. \A u \in Tasks : ~Probing(u) /\ ~Armed(u)
    BY <2>1 DEF ProbeOwned
  <2>3. /\ state' = HalfOpen
        /\ call' = [call EXCEPT ![t].pc = "admitted", ![t].route = "Probe",
                                ![t].armed = TRUE]
    <3>1. call[t].now \in Nat /\ state.until \in Nat
      BY <1>1, <1>4, AtIsRequest, Kinds, U64Assumption DEF TypeOK, Nanos
    <3>2. ~(call[t].now < state.until)
      BY <1>4, <3>1
    <3> QED
      BY <2>1, <3>2 DEF Admit
  <2>4. Probing(t)' /\ Armed(t)'
    <3>1. call'[t] = [call[t] EXCEPT !.pc = "admitted", !.route = "Probe", !.armed = TRUE]
      BY <2>3 DEF TypeOK
    <3>2. call'[t] \in Request
      BY <1>1, <3>1 DEF Request, Pc
    <3> QED
      BY <1>1, <3>1, <3>2, RequestAssumption DEF Probing, Armed, Request
  <2>5. \A u \in Tasks \ {t} : ~Probing(u)' /\ ~Armed(u)'
    BY <1>3, <2>2 DEF Probing, Armed
  <2> QED
    BY <2>3, <2>4, <2>5 DEF ProbeOwned
<1>5. CASE ~(IsOpen(state) /\ call[t].now >= state.until)
  <2>1. state' = state /\ ~Probing(t)' /\ ~Armed(t)'
    BY <1>1, <1>2, <1>5 DEF Admit, Goto, Probing, Armed, TypeOK, Request
  <2> QED
    BY <1>2, <1>3, <2>1, SameProbe
<1> QED
  BY <1>4, <1>5

\* A step that moves neither the breaker nor any request.
LEMMA IdleProbe ==
    ASSUME ProbeOwned, state' = state, call' = call
    PROVE  ProbeOwned'
  BY DEF ProbeOwned, Probing, Armed

\* A request moves on with its route and its guard, within the part of its code
\* that the guard covers or outside it.
LEMMA MoveProbe ==
    ASSUME TypeOK, ProbeOwned, NEW t \in Tasks, call[t] # None,
           state' = state,
           NEW pc \in Pc, NEW todo \in SUBSET Keys, NEW last \in Time,
           call' = [call EXCEPT ![t] = [@ EXCEPT !.pc = pc, !.todo = todo, !.last = last]],
           pc \in {"admitted", "prune_probe", "calling"}
             <=> call[t].pc \in {"admitted", "prune_probe", "calling"}
    PROVE  ProbeOwned'
<1>1. call[t] \in Request
  BY AtIsRequest
<1> DEFINE c == [call[t] EXCEPT !.pc = pc, !.todo = todo, !.last = last]
<1>2. call'[t] = c
  BY DEF TypeOK
<1>3. /\ c \in Request
      /\ c.armed = call[t].armed
      /\ c.route = call[t].route
      /\ c.pc = pc
  BY <1>1 DEF Request
<1> HIDE DEF c
<1>4. (Probing(t)' <=> Probing(t)) /\ (Armed(t)' <=> Armed(t))
  BY <1>2, <1>3, RequestAssumption DEF Probing, Armed
<1>5. \A u \in Tasks \ {t} : call'[u] = call[u]
  BY DEF TypeOK
<1> QED
  BY <1>4, <1>5, SameProbe

\* The visit of a key, in the form MoveProbe asks for.
LEMMA VisitedMoves ==
    ASSUME TypeOK, NEW t \in Tasks, call[t] # None, NEW k, NEW pc, Visited(t, k, pc)
    PROVE  /\ call' = [call EXCEPT ![t] =
                        [@ EXCEPT !.pc = IF call[t].todo = {k} THEN pc ELSE call[t].pc,
                                  !.todo = call[t].todo \ {k},
                                  !.last = call[t].last]]
           /\ call'[t].now = call[t].now
<1>1. call[t] \in Request
  BY AtIsRequest
<1> DEFINE p == IF call[t].todo = {k} THEN pc ELSE call[t].pc
           d == call[t].todo \ {k}
<1>2. call' = [call EXCEPT ![t].todo = d, ![t].pc = p]
  BY DEF Visited
<1> HIDE DEF p, d
<1>3. call' = [call EXCEPT ![t] = [@ EXCEPT !.pc = p, !.todo = d, !.last = call[t].last]]
  BY <1>1, <1>2 DEF TypeOK, Request
<1>4. call'[t].now = call[t].now
  BY <1>1, <1>3 DEF TypeOK, Request
<1> QED
  BY <1>3, <1>4 DEF p, d

\* Every step keeps the probe owned.
LEMMA ProbeStep == TypeOK /\ TypeOK' /\ ProbeOwned /\ [Next]_vars => ProbeOwned'
<1> SUFFICES ASSUME TypeOK, TypeOK', ProbeOwned, [Next]_vars PROVE ProbeOwned'
  OBVIOUS
<1>1. CASE Tick
  BY <1>1, IdleProbe DEF Tick
<1>2. CASE ChangeHealth
  BY <1>2, IdleProbe DEF ChangeHealth
<1>3. ASSUME NEW t \in Tasks, Arrive(t) PROVE ProbeOwned'
  <2>1. ~Probing(t) /\ ~Armed(t)
    BY <1>3 DEF Arrive, Probing, Armed
  <2>2. ~Probing(t)' /\ ~Armed(t)'
    BY <1>3 DEF Arrive, Probing, Armed, TypeOK
  <2> QED
    BY <1>3, <2>1, <2>2, SameProbe DEF Arrive, TypeOK
<1>4. ASSUME NEW t \in Tasks, Run(t) PROVE ProbeOwned'
  <2>1. CASE Admit(t)
    BY <2>1, AdmitProbe
  <2>2. CASE ReportClosed(t) \/ Fallback(t)
    BY <2>2, DropProbe DEF ReportClosed, Fallback, At
  <2>3. CASE PruneOpened(t)
    <3> DEFINE pc == "prune_opened"
               todo == Keys
               last == call[t].last
    <3>1. call[t] # None /\ call[t] \in Request
      BY <2>3, AtIsRequest DEF PruneOpened, At
    <3>2. /\ pc \in Pc /\ todo \in SUBSET Keys /\ last \in Time
          /\ pc \in {"admitted", "prune_probe", "calling"}
               <=> call[t].pc \in {"admitted", "prune_probe", "calling"}
      BY <2>3, <3>1 DEF PruneOpened, At, Pc, Request, TypeOK
    <3>3. /\ state' = state
          /\ call' = [call EXCEPT ![t] = [@ EXCEPT !.pc = pc, !.todo = todo, !.last = last]]
      BY <2>3, <3>1 DEF PruneOpened, Sweep, TypeOK, Request
    <3> QED
      BY <3>1, <3>2, <3>3, MoveProbe
  <2>4. CASE ReportOpened(t)
    <3> DEFINE pc == "fallback"
               todo == call[t].todo
               last == call[t].last
    <3>1. call[t] # None /\ call[t] \in Request
      BY <2>4, AtIsRequest DEF ReportOpened, At
    <3>2. /\ pc \in Pc /\ todo \in SUBSET Keys /\ last \in Time
          /\ pc \in {"admitted", "prune_probe", "calling"}
               <=> call[t].pc \in {"admitted", "prune_probe", "calling"}
      BY <2>4, <3>1 DEF ReportOpened, At, Pc, Request, TypeOK
    <3>3. /\ state' = state
          /\ call' = [call EXCEPT ![t] = [@ EXCEPT !.pc = pc, !.todo = todo, !.last = last]]
      BY <2>4, <3>1 DEF ReportOpened, Goto, TypeOK, Request
    <3> QED
      BY <3>1, <3>2, <3>3, MoveProbe
  <2>5. CASE LoadPruned(t)
    <3> DEFINE pc == IF SaturatingSub(call[t].now, last_pruned) >= OpenFor
                     THEN "swap_pruned" ELSE "fallback"
               todo == call[t].todo
               last == IF SaturatingSub(call[t].now, last_pruned) >= OpenFor
                       THEN last_pruned ELSE call[t].last
    <3>1. call[t] # None /\ call[t] \in Request
      BY <2>5, AtIsRequest DEF LoadPruned, At
    <3>2. /\ pc \in Pc /\ todo \in SUBSET Keys /\ last \in Time
          /\ pc \in {"admitted", "prune_probe", "calling"}
               <=> call[t].pc \in {"admitted", "prune_probe", "calling"}
      BY <2>5, <3>1 DEF LoadPruned, At, Pc, Request, TypeOK
    <3>3. /\ state' = state
          /\ call' = [call EXCEPT ![t] = [@ EXCEPT !.pc = pc, !.todo = todo, !.last = last]]
      BY <2>5, <3>1 DEF LoadPruned, TypeOK, Request
    <3> QED
      BY <3>1, <3>2, <3>3, MoveProbe
  <2>6. CASE SwapPruned(t)
    <3> DEFINE pc == IF last_pruned = call[t].last THEN "prune_due" ELSE "fallback"
               todo == IF last_pruned = call[t].last THEN Keys ELSE call[t].todo
               last == call[t].last
    <3>1. call[t] # None /\ call[t] \in Request
      BY <2>6, AtIsRequest DEF SwapPruned, At
    <3>2. /\ pc \in Pc /\ todo \in SUBSET Keys /\ last \in Time
          /\ pc \in {"admitted", "prune_probe", "calling"}
               <=> call[t].pc \in {"admitted", "prune_probe", "calling"}
      BY <2>6, <3>1 DEF SwapPruned, At, Pc, Request, TypeOK
    <3>3. /\ state' = state
          /\ call' = [call EXCEPT ![t] = [@ EXCEPT !.pc = pc, !.todo = todo, !.last = last]]
      BY <2>6, <3>1 DEF SwapPruned, Sweep, Goto, TypeOK, Request
    <3> QED
      BY <3>1, <3>2, <3>3, MoveProbe
  <2>7. ASSUME NEW k \in Keys, ClearKey(t, k) PROVE ProbeOwned'
    <3> DEFINE pc == IF call[t].todo = {k} THEN "report_closed" ELSE call[t].pc
               todo == call[t].todo \ {k}
               last == call[t].last
    <3>1. call[t] # None /\ call[t] \in Request
      BY <2>7, AtIsRequest DEF ClearKey, At
    <3>2. /\ pc \in Pc /\ todo \in SUBSET Keys /\ last \in Time
          /\ pc \in {"admitted", "prune_probe", "calling"}
               <=> call[t].pc \in {"admitted", "prune_probe", "calling"}
      BY <2>7, <3>1 DEF ClearKey, At, Pc, Request, TypeOK
    <3>3. /\ state' = state
          /\ call' = [call EXCEPT ![t] = [@ EXCEPT !.pc = pc, !.todo = todo, !.last = last]]
      BY <2>7, <3>1, VisitedMoves DEF ClearKey, At
    <3> QED
      BY <3>1, <3>2, <3>3, MoveProbe
  <2>8. ASSUME NEW k \in Keys, PruneKey(t, k) PROVE ProbeOwned'
    <3> DEFINE pc == IF call[t].todo = {k} THEN AfterPrune[call[t].pc] ELSE call[t].pc
               todo == call[t].todo \ {k}
               last == call[t].last
    <3>1. call[t] # None /\ call[t] \in Request
      BY <2>8, AtIsRequest DEF PruneKey, At
    <3>2. /\ pc \in Pc /\ todo \in SUBSET Keys /\ last \in Time
          /\ pc \in {"admitted", "prune_probe", "calling"}
               <=> call[t].pc \in {"admitted", "prune_probe", "calling"}
      BY <2>8, <3>1 DEF PruneKey, At, Pc, Request, TypeOK, AfterPrune
    <3>3. /\ state' = state
          /\ call' = [call EXCEPT ![t] = [@ EXCEPT !.pc = pc, !.todo = todo, !.last = last]]
      <4>1. state' = state /\ Visited(t, k, AfterPrune[call[t].pc])
        BY <2>8 DEF PruneKey
      <4> QED
        BY <3>1, <4>1, VisitedMoves
    <3> HIDE DEF pc, todo, last
    <3> QED
      BY <3>1, <3>2, <3>3, MoveProbe
  <2> QED
    BY <1>4, <2>1, <2>2, <2>3, <2>4, <2>5, <2>6, <2>7, <2>8 DEF Run
<1>5. ASSUME NEW t \in Tasks, Poll(t) PROVE ProbeOwned'
  <2>1. call[t] \in Request /\ call[t] # None /\ call[t].pc = "admitted"
    BY <1>5, AtIsRequest DEF Poll, At
  <2>2. \A u \in Tasks \ {t} : call'[u] = call[u]
    BY <1>5 DEF Poll, Sweep, Goto, TypeOK
  <2>3. /\ call'[t].armed = call[t].armed
        /\ call'[t].route = call[t].route
        /\ call'[t].pc \in {"prune_probe", "calling"}
        /\ call'[t] # None
    <3>1. call'[t] \in Request
      BY <1>5, <2>1 DEF Poll, Sweep, Goto, TypeOK, Request, Pc
    <3> QED
      BY <1>5, <2>1, <3>1, RequestAssumption DEF Poll, Sweep, Goto, TypeOK, Request
  <2>4. (Probing(t)' <=> Probing(t)) /\ (Armed(t)' <=> Armed(t))
    BY <2>1, <2>3 DEF Probing, Armed
  <2> QED
    BY <1>5, <2>2, <2>4, SameProbe DEF Poll
<1>6. ASSUME NEW t \in Tasks, Answered(t) PROVE ProbeOwned'
  BY <1>6, AnswerProbe
<1>7. ASSUME NEW t \in Tasks, Cancel(t) PROVE ProbeOwned'
  BY <1>7, DropProbe DEF Cancel, At
<1>8. CASE UNCHANGED vars
  BY <1>8, IdleProbe DEF vars
<1> QED
  BY <1>1, <1>2, <1>3, <1>4, <1>5, <1>6, <1>7, <1>8 DEF Next

\* In every run the breaker is half-open exactly while one request holds the
\* probe with an armed guard.
THEOREM ProbeAlwaysOwned == Spec => []ProbeOwned
<1>1. Init => ProbeOwned
  BY DEF Init, ProbeOwned, Probing, Armed, Closed, HalfOpen
<1> QED
  BY <1>1, ProbeStep, TypeCorrect, PTL DEF Spec

-----------------------------------------------------------------------------

\* The steps that move the breaker: an admission, an answer, a dropped future.
LEMMA StateMovers ==
    ASSUME TypeOK, [Next]_vars
    PROVE  \/ state' = state
           \/ \E t \in Tasks : Admit(t) \/ Answered(t) \/ (call[t] # None /\ Drop(t))
<1>1. CASE Tick \/ ChangeHealth \/ UNCHANGED vars
  BY <1>1 DEF Tick, ChangeHealth, vars
<1>2. ASSUME NEW t \in Tasks, Arrive(t) \/ Poll(t) PROVE state' = state
  BY <1>2 DEF Arrive, Poll
<1>3. ASSUME NEW t \in Tasks, Run(t)
      PROVE  state' = state \/ Admit(t) \/ (call[t] # None /\ Drop(t))
  BY <1>3 DEF Run, ClearKey, ReportClosed, PruneOpened, ReportOpened, LoadPruned,
              SwapPruned, PruneKey, Fallback, At
<1>4. ASSUME NEW t \in Tasks, Cancel(t) PROVE call[t] # None /\ Drop(t)
  BY <1>4 DEF Cancel, At
<1> QED
  BY <1>1, <1>2, <1>3, <1>4 DEF Next

\* The step of StaleResultsIgnored, from the invariant.
LEMMA StaleStep ==
    ASSUME TypeOK, ProbeOwned, [Next]_vars
    PROVE  /\ IsOpen(state) => state' = state \/ state' = HalfOpen
           /\ state = HalfOpen /\ IsClosed(state') =>
                \E t \in Tasks : Armed(t) /\ call[t].pc = "calling" /\ call'[t].pc = "clear"
<1> DEFINE Goal ==
      /\ IsOpen(state) => state' = state \/ state' = HalfOpen
      /\ state = HalfOpen /\ IsClosed(state') =>
           \E t \in Tasks : Armed(t) /\ call[t].pc = "calling" /\ call'[t].pc = "clear"
<1>0. state \in State
  BY DEF TypeOK
<1>1. CASE state' = state
  BY <1>0, <1>1, Kinds
<1>2. ASSUME NEW t \in Tasks, Admit(t) PROVE Goal
  <2>1. state' = state \/ (IsOpen(state) /\ state' = HalfOpen)
    BY <1>2 DEF Admit
  <2>2. ~IsClosed(HalfOpen)
    BY DEF IsClosed, HalfOpen
  <2> QED
    BY <1>0, <2>1, <2>2, Kinds
<1>3. ASSUME NEW t \in Tasks, Answered(t) PROVE Goal
  <2>1. call[t] # None /\ call[t].pc = "calling" /\ call[t].now \in Time
    BY <1>3, AtIsRequest DEF Answered, Succeed, Fail, At
  <2>2. PICK success \in BOOLEAN :
          /\ state' = AfterCall(state, call[t].route, success, call[t].now)
          /\ success => Succeed(t)
    BY <1>3 DEF Answered, Succeed, Fail
  <2>3. IsOpen(state) => state' = state
    BY <1>0, <2>1, <2>2, AfterCallKinds
  <2>4. ASSUME state = HalfOpen, IsClosed(state')
        PROVE  Armed(t) /\ call[t].pc = "calling" /\ call'[t].pc = "clear"
    <3>1. call[t].route = "Probe" /\ success
      BY <1>0, <2>1, <2>2, <2>4, AfterCallKinds
    <3>2. Armed(t)
      BY <2>1, <3>1 DEF ProbeOwned, Probing
    <3>3. call'[t].pc = "clear"
      BY <2>1, <2>2, <2>4, <3>1, AtIsRequest DEF Succeed, TypeOK, Request
    <3> QED
      BY <2>1, <3>2, <3>3
  <2> QED
    BY <2>3, <2>4
<1>4. ASSUME NEW t \in Tasks, call[t] # None, Drop(t) PROVE Goal
  <2>1. state' = state \/ (state = HalfOpen /\ state' = Open(call[t].now))
    BY <1>4 DEF Drop, Released
  <2>2. ~IsClosed(Open(call[t].now))
    BY DEF IsClosed, Open
  <2> QED
    BY <1>0, <2>1, <2>2, Kinds
<1> QED
  BY <1>1, <1>2, <1>3, <1>4, StateMovers

\* In every run an open breaker keeps its period until a request becomes its
\* probe, and only the answer to that probe closes it.
THEOREM StaleResultsAlwaysIgnored == Spec => StaleResultsIgnored
<1>1. TypeOK /\ ProbeOwned /\ [Next]_vars =>
        [/\ IsOpen(state) => state' = state \/ state' = HalfOpen
         /\ state = HalfOpen /\ IsClosed(state') =>
              \E t \in Tasks : Armed(t) /\ call[t].pc = "calling" /\ call'[t].pc = "clear"
        ]_vars
  BY StaleStep
<1> QED
  BY <1>1, TypeCorrect, ProbeAlwaysOwned, PTL DEF Spec, StaleResultsIgnored

-----------------------------------------------------------------------------

\* A request's timestamp is in the past: the clock was read before.
Timestamps == \A t \in Tasks : call[t] # None => call[t].now <= clock

\* Only its own steps change a request.
LEMMA OwnStep ==
    ASSUME TypeOK, [Next]_vars, NEW t \in Tasks
    PROVE  \/ call'[t] = call[t]
           \/ Arrive(t) \/ Run(t) \/ Poll(t) \/ Answered(t) \/ Cancel(t)
<1>1. CASE UNCHANGED vars \/ Tick \/ ChangeHealth
  BY <1>1 DEF vars, Tick, ChangeHealth
<1>2. ASSUME NEW u \in Tasks, u # t,
             Arrive(u) \/ Run(u) \/ Poll(u) \/ Answered(u) \/ Cancel(u)
      PROVE  call'[t] = call[t]
  BY <1>2 DEF Arrive, Run, Admit, ClearKey, ReportClosed, PruneOpened, ReportOpened,
              LoadPruned, SwapPruned, PruneKey, Fallback, Poll, Answered, Succeed, Fail,
              Cancel, Goto, Sweep, Visited, Drop, TypeOK
<1> QED
  BY <1>1, <1>2 DEF Next

\* A request keeps the timestamp it arrived with.
LEMMA KeepsTimestamp ==
    ASSUME TypeOK, [Next]_vars, NEW t \in Tasks, call'[t] # None
    PROVE  \/ call'[t] = call[t]
           \/ call[t] # None /\ call'[t].now = call[t].now
           \/ call[t] = None /\ call'[t].now = clock
<1>1. CASE Arrive(t)
  BY <1>1 DEF Arrive, TypeOK
<1>2. CASE Run(t) \/ Poll(t) \/ Answered(t)
  <2>1. call[t] # None
    BY <1>2 DEF Run, Admit, ClearKey, ReportClosed, PruneOpened, ReportOpened,
                LoadPruned, SwapPruned, PruneKey, Fallback, Poll, Answered, Succeed, Fail, At
  <2>2. call[t] \in Request
    BY <2>1, AtIsRequest
  <2>3. CASE Run(t)
    <3>1. CASE Admit(t)
      BY <2>1, <2>2, <3>1 DEF Admit, Goto, TypeOK, Request
    <3>2. CASE ReportClosed(t) \/ Fallback(t)
      BY <3>2 DEF ReportClosed, Fallback, Drop, TypeOK
    <3>3. CASE PruneOpened(t) \/ ReportOpened(t) \/ LoadPruned(t) \/ SwapPruned(t)
      BY <2>1, <2>2, <3>3 DEF PruneOpened, ReportOpened, LoadPruned, SwapPruned,
                              Sweep, Goto, TypeOK, Request
    <3>4. ASSUME NEW k \in Keys, NEW pc, Visited(t, k, pc) PROVE call'[t].now = call[t].now
      BY <2>1, <3>4, VisitedMoves
    <3>5. CASE \E k \in Keys : ClearKey(t, k) \/ PruneKey(t, k)
      BY <2>1, <3>4, <3>5 DEF ClearKey, PruneKey
    <3> QED
      BY <2>3, <3>1, <3>2, <3>3, <3>5 DEF Run
  <2>4. CASE Poll(t) \/ Answered(t)
    BY <2>1, <2>2, <2>4 DEF Poll, Answered, Succeed, Fail, Goto, Sweep, TypeOK, Request
  <2> QED
    BY <1>2, <2>3, <2>4
<1>3. CASE Cancel(t)
  BY <1>3 DEF Cancel, Drop, TypeOK
<1> QED
  BY <1>1, <1>2, <1>3, OwnStep

\* No step gives a request a timestamp of the future.
LEMMA TimestampStep == TypeOK /\ Timestamps /\ [Next]_vars => Timestamps'
<1> SUFFICES ASSUME TypeOK, Timestamps, [Next]_vars, NEW t \in Tasks, call'[t] # None
             PROVE  call'[t].now <= clock'
  BY DEF Timestamps
<1>1. clock \in Nat /\ clock' \in Nat /\ clock <= clock'
  <2>1. clock \in Nat
    BY TimeIsNanos DEF TypeOK
  <2>2. clock' = clock \/ clock' = clock + 1
    BY DEF Next, Tick, ChangeHealth, Arrive, Run, Admit, ClearKey, ReportClosed, PruneOpened,
           ReportOpened, LoadPruned, SwapPruned, PruneKey, Fallback, Poll, Answered, Succeed,
           Fail, Cancel, vars
  <2> QED
    BY <2>1, <2>2
<1> QED
  BY <1>1, AtIsRequest, KeepsTimestamp DEF Timestamps

\* The end of the open period is never more than open_for ahead of the clock.
LEMMA ReachStep ==
    TypeOK /\ TypeOK' /\ Timestamps /\ ProbeInReach /\ [Next]_vars => ProbeInReach'
<1> SUFFICES ASSUME TypeOK, TypeOK', Timestamps, ProbeInReach, [Next]_vars, IsOpen(state')
             PROVE  state'.until <= SaturatingAdd(clock', OpenFor)
  BY DEF ProbeInReach
<1>1. /\ clock \in Nat /\ clock' \in Nat /\ clock <= clock' /\ clock' <= U64Max
      /\ OpenFor \in Nat
  <2>1. clock \in Nat /\ clock' \in Nat /\ clock' <= U64Max
    BY TimeIsNanos, U64Assumption DEF TypeOK, Nanos
  <2>2. clock' = clock \/ clock' = clock + 1
    BY DEF Next, Tick, ChangeHealth, Arrive, Run, Admit, ClearKey, ReportClosed, PruneOpened,
           ReportOpened, LoadPruned, SwapPruned, PruneKey, Fallback, Poll, Answered, Succeed,
           Fail, Cancel, vars
  <2> QED
    BY <2>1, <2>2, PolicyAssumption, U64Assumption DEF Nanos
<1>2. \A n \in Nat : n <= clock' =>
        /\ n <= SaturatingAdd(clock', OpenFor)
        /\ SaturatingAdd(n, OpenFor) <= SaturatingAdd(clock', OpenFor)
        /\ SaturatingAdd(n, OpenFor) \in Nat
  <2> SUFFICES ASSUME NEW n \in Nat, n <= clock'
               PROVE  /\ n <= SaturatingAdd(clock', OpenFor)
                      /\ SaturatingAdd(n, OpenFor) <= SaturatingAdd(clock', OpenFor)
                      /\ SaturatingAdd(n, OpenFor) \in Nat
    OBVIOUS
  <2>1. n <= U64Max
    BY <1>1, U64Assumption
  <2>2. /\ SaturatingAdd(clock', OpenFor) \in Nat
        /\ clock' <= SaturatingAdd(clock', OpenFor)
        /\ SaturatingAdd(n, OpenFor) <= SaturatingAdd(clock', OpenFor)
    BY <1>1, SaturatingAddMonotone
  <2>3. SaturatingAdd(n, OpenFor) \in Nat
    BY <1>1, <2>1, SaturatingAddMonotone
  <2> QED
    BY <1>1, <2>2, <2>3
<1>3. state \in State /\ state' \in State
  BY DEF TypeOK
<1>4. CASE state' = state
  <2>1. state.until \in Nat /\ SaturatingAdd(clock, OpenFor) \in Nat
    BY <1>1, <1>2, <1>3, <1>4, Kinds, U64Assumption DEF Nanos
  <2>2. state.until <= SaturatingAdd(clock, OpenFor)
    BY <1>4 DEF ProbeInReach
  <2>3. SaturatingAdd(clock, OpenFor) <= SaturatingAdd(clock', OpenFor)
    BY <1>1, <1>2
  <2>4. SaturatingAdd(clock', OpenFor) \in Nat
    BY <1>1, <1>2
  <2> QED
    BY <1>4, <2>1, <2>2, <2>3, <2>4
<1>5. ASSUME NEW t \in Tasks, Admit(t), state' # state
      PROVE  FALSE
  BY <1>3, <1>5, Kinds DEF Admit
<1>6. ASSUME NEW t \in Tasks, Answered(t), state' # state
      PROVE  state'.until <= SaturatingAdd(clock', OpenFor)
  <2>1. call[t] # None /\ call[t].now \in Time /\ call[t].now \in Nat
    BY <1>6, AtIsRequest DEF Answered, Succeed, Fail, At
  <2>2. state' = Reopen(call[t].now)
    <3>1. PICK success \in BOOLEAN :
            state' = AfterCall(state, call[t].route, success, call[t].now)
      BY <1>6 DEF Answered, Succeed, Fail
    <3> QED
      BY <1>3, <1>6, <2>1, <3>1, AfterCallKinds
  <2>3. state'.until = SaturatingAdd(call[t].now, OpenFor)
    BY <2>2 DEF Reopen, Open
  <2>4. call[t].now <= clock'
    BY <1>1, <2>1 DEF Timestamps
  <2> QED
    BY <1>2, <2>1, <2>3, <2>4
<1>7. ASSUME NEW t \in Tasks, call[t] # None, Drop(t), state' # state
      PROVE  state'.until <= SaturatingAdd(clock', OpenFor)
  <2>1. call[t].now \in Nat
    BY <1>7, AtIsRequest
  <2>2. state'.until = call[t].now
    BY <1>7 DEF Drop, Released, Open
  <2>3. call[t].now <= clock'
    BY <1>1, <1>7, <2>1 DEF Timestamps
  <2> QED
    BY <1>2, <2>1, <2>2, <2>3
<1> QED
  BY <1>4, <1>5, <1>6, <1>7, StateMovers

\* In every run, however calls fail, are dropped and overtake each other, the
\* next probe of an open breaker is at most open_for away.
THEOREM ProbeAlwaysInReach == Spec => []ProbeInReach
<1>1. Init => Timestamps /\ ProbeInReach
  BY DEF Init, Timestamps, ProbeInReach, IsOpen, Closed
<1>2. TypeOK /\ TypeOK' /\ Timestamps /\ ProbeInReach /\ [Next]_vars
        => Timestamps' /\ ProbeInReach'
  BY TimestampStep, ReachStep
<1> QED
  BY <1>1, <1>2, TypeCorrect, PTL DEF Spec

(***************************************************************************)
(* The prune that failures share.                                          *)
(***************************************************************************)
\* A request about to swap last_pruned has read a value that makes a prune due.
SwapsDue ==
    \A t \in Tasks :
        call[t] # None /\ call[t].pc = "swap_pruned" => call[t].now >= call[t].last + OpenFor

LEMMA SwapsDueStep == TypeOK /\ SwapsDue /\ [Next]_vars => SwapsDue'
<1> SUFFICES ASSUME TypeOK, SwapsDue, [Next]_vars, NEW t \in Tasks,
                    call'[t] # None, call'[t].pc = "swap_pruned"
             PROVE  call'[t].now >= call'[t].last + OpenFor
  BY DEF SwapsDue
<1>1. CASE call'[t] = call[t]
  BY <1>1 DEF SwapsDue
<1>2. CASE Arrive(t)
  BY <1>2 DEF Arrive, TypeOK
<1>3. CASE Cancel(t)
  BY <1>3 DEF Cancel, Drop, TypeOK
<1>4. CASE Poll(t) \/ Answered(t)
  <2>1. call[t] \in Request
    BY <1>4, AtIsRequest DEF Poll, Answered, Succeed, Fail, At
  <2>2. CASE Poll(t)
    BY <2>1, <2>2 DEF Poll, Goto, Sweep, TypeOK, Request
  <2>3. CASE Succeed(t)
    BY <2>1, <2>3 DEF Succeed, TypeOK, Request
  <2>4. CASE Fail(t)
    BY <2>1, <2>4 DEF Fail, TypeOK, Request
  <2> QED
    BY <1>4, <2>2, <2>3, <2>4 DEF Answered
<1>5. CASE LoadPruned(t)
  <2>1. call[t] \in Request /\ call[t].now \in Nat
    BY <1>5, AtIsRequest DEF LoadPruned, At
  <2>2. last_pruned \in Nat /\ OpenFor \in Nat \ {0}
    BY PolicyAssumption, TimeIsNanos, U64Assumption DEF TypeOK, Nanos
  <2>3. /\ SaturatingSub(call[t].now, last_pruned) >= OpenFor
        /\ call'[t].now = call[t].now /\ call'[t].last = last_pruned
    BY <1>5, <2>1 DEF LoadPruned, TypeOK, Request
  <2> QED
    BY <2>1, <2>2, <2>3 DEF SaturatingSub, AtLeast
<1>6. ASSUME Run(t), ~LoadPruned(t) PROVE FALSE
  <2>1. CASE Admit(t) \/ PruneOpened(t) \/ ReportOpened(t) \/ SwapPruned(t)
    <3>1. call[t] \in Request
      BY <2>1, AtIsRequest DEF Admit, PruneOpened, ReportOpened, SwapPruned, At
    <3> QED
      BY <2>1, <3>1 DEF Admit, PruneOpened, ReportOpened, SwapPruned, Sweep, Goto, TypeOK, Request
  <2>2. CASE ReportClosed(t) \/ Fallback(t)
    BY <2>2 DEF ReportClosed, Fallback, Drop, TypeOK
  <2>3. ASSUME NEW k \in Keys, NEW pc, Visited(t, k, pc), call[t] # None,
               call[t].pc # "swap_pruned", pc # "swap_pruned"
        PROVE  call'[t].pc # "swap_pruned"
    <3>1. call[t] \in Request
      BY <2>3, AtIsRequest
    <3> QED
      BY <2>3, <3>1 DEF Visited, TypeOK, Request
  <2>4. ASSUME NEW k \in Keys, ClearKey(t, k) PROVE FALSE
    BY <2>3, <2>4 DEF ClearKey, At
  <2>5. ASSUME NEW k \in Keys, PruneKey(t, k) PROVE FALSE
    <3>1. /\ call[t] # None /\ call[t].pc # "swap_pruned"
          /\ AfterPrune[call[t].pc] # "swap_pruned"
          /\ Visited(t, k, AfterPrune[call[t].pc])
      BY <2>5 DEF PruneKey, AfterPrune
    <3> QED
      BY <2>3, <3>1
  <2> QED
    BY <1>6, <2>1, <2>2, <2>4, <2>5 DEF Run
<1> QED
  BY <1>1, <1>2, <1>3, <1>4, <1>5, <1>6, OwnStep

\* In every run, of the failures that find a prune due only one prunes, and not
\* within open_for of the prune before it.
THEOREM DuePrunesAlwaysApart == Spec => DuePrunesApart
<1>1. Init => SwapsDue
  BY DEF Init, SwapsDue
<1>2. ASSUME TypeOK, SwapsDue, [Next]_vars, NEW t \in Tasks PROVE PrunesApart(t)
  <2> SUFFICES ASSUME At(t, "swap_pruned"), At(t, "prune_due")'
               PROVE  last_pruned' >= last_pruned + OpenFor
    BY DEF PrunesApart
  <2>1. SwapPruned(t)
    <3>1. call[t] # None /\ call[t].pc = "swap_pruned" /\ call'[t] # call[t]
      BY DEF At
    <3>2. Run(t)
      BY <1>2, <3>1, OwnStep DEF Arrive, Poll, Answered, Succeed, Fail, Cancel, At
    <3> QED
      BY <3>1, <3>2 DEF Run, Admit, ClearKey, ReportClosed, PruneOpened, ReportOpened,
                        LoadPruned, PruneKey, Fallback, At, AfterPrune
  <2>2. last_pruned = call[t].last /\ last_pruned' = call[t].now
    <3>1. CASE last_pruned # call[t].last /\ Goto(t, "fallback")
      <4>1. call[t] \in Request
        BY <1>2 DEF TypeOK, At
      <4>2. call'[t].pc = "fallback"
        BY <1>2, <3>1, <4>1 DEF Goto, TypeOK, Request
      <4> QED
        BY <4>2 DEF At
    <3> QED
      BY <2>1, <3>1 DEF SwapPruned
  <2>3. call[t].now >= call[t].last + OpenFor
    BY <1>2 DEF SwapsDue, At
  <2> QED
    BY <2>2, <2>3
<1>3. TypeOK /\ SwapsDue /\ [Next]_vars => [\A t \in Tasks : PrunesApart(t)]_vars
  BY <1>2
<1> QED
  BY <1>1, <1>3, SwapsDueStep, TypeCorrect, PTL DEF Spec, DuePrunesApart

(***************************************************************************)
(* BreakerTiming: results from before an outage.                           *)
(***************************************************************************)
\* No request is older than the latency the primary keeps to.
WithinBudget == \A t \in Tasks : call[t] # None => clock <= call[t].now + CallBudget

\* While the breaker is open, the requests it sent before it opened are older than
\* the end of the open period by more than a budget; when it is not, there are none.
StaleAreOld ==
    /\ \A t \in stale : t \in Tasks /\ InFlight(t)
    /\ IsOpen(state) =>
         \A t \in stale : call[t].now + OpenFor <= state.until + CallBudget
    /\ ~IsOpen(state) => stale = {}

LEMMA BudgetStep ==
    TypeOK /\ Timestamps /\ WithinBudget /\ [TimedNext]_timedVars => WithinBudget'
<1> SUFFICES ASSUME TypeOK, Timestamps, WithinBudget, [TimedNext]_timedVars,
                    NEW t \in Tasks, call'[t] # None
             PROVE  clock' <= call'[t].now + CallBudget
  BY DEF WithinBudget
<1>1. [Next]_vars /\ (clock' # clock => InTime)
  BY DEF TimedNext, timedVars, vars
<1>2. /\ clock \in Nat /\ CallBudget \in Nat \ {0}
      /\ call[t] # None => call[t].now \in Nat
  BY TimeIsNanos, CallBudgetAssumption, AtIsRequest DEF TypeOK
<1>3. CASE clock' = clock
  <2>1. \/ call[t] # None /\ call'[t].now = call[t].now
        \/ call'[t].now = clock
    BY <1>1, KeepsTimestamp
  <2> QED
    BY <1>2, <1>3, <2>1 DEF WithinBudget
<1>4. CASE clock' # clock
  <2>1. Tick
    BY <1>1, <1>4 DEF Next, ChangeHealth, Arrive, Run, Admit, ClearKey, ReportClosed, PruneOpened,
           ReportOpened, LoadPruned, SwapPruned, PruneKey, Fallback, Poll, Answered, Succeed,
           Fail, Cancel, vars
  <2>2. clock' = clock + 1 /\ call'[t] = call[t]
    BY <2>1 DEF Tick
  <2>3. clock - call[t].now < CallBudget
    BY <1>1, <1>4, <2>2 DEF InTime
  <2> QED
    BY <1>2, <2>2, <2>3
<1> QED
  BY <1>3, <1>4

LEMMA StaleAreOldStep ==
    ASSUME OpenForOutlasts, TypeOK, TypeOK', Timestamps, WithinBudget, WithinBudget',
           StaleAreOld, [TimedNext]_timedVars
    PROVE  StaleAreOld'
<1>1. [Next]_vars
  BY DEF TimedNext, timedVars
<1>2. state \in State /\ state' \in State
  BY DEF TypeOK
<1>3. CASE UNCHANGED timedVars
  BY <1>3 DEF timedVars, vars, StaleAreOld, InFlight
<1>4. CASE TimedNext
  <2>1. stale' = {t \in Tasks : /\ InFlight(t)'
                                /\ t \in stale \/ (IsClosed(state) /\ IsOpen(state'))}
    BY <1>4 DEF TimedNext, TrackStale
  <2>2. ASSUME NEW t \in stale' PROVE t \in Tasks /\ InFlight(t)'
    BY <2>1
  <2>3. ASSUME NEW t \in stale', t \in stale
        PROVE  call[t] # None /\ call'[t].now = call[t].now
    <3>1. call[t] # None /\ call'[t] # None /\ t \in Tasks
      BY <2>2, <2>3 DEF StaleAreOld, InFlight
    <3> QED
      BY <1>1, <3>1, KeepsTimestamp
  <2>4. /\ CallBudget \in Nat \ {0} /\ OpenFor \in Nat /\ U64Max \in Nat /\ MaxTime \in Nat
        /\ clock \in Nat /\ OpenFor > 2 * CallBudget /\ MaxTime + OpenFor <= U64Max
    BY CallBudgetAssumption, PolicyAssumption, U64Assumption, MaxTimeAssumption, TimeIsNanos
       DEF OpenForOutlasts, Nanos, TypeOK
  <2>5. CASE state' = state
    <3>1. stale' \subseteq stale
      BY <1>2, <2>1, <2>5, Kinds
    <3> QED
      BY <2>2, <2>3, <2>5, <3>1 DEF StaleAreOld
  <2>6. ASSUME NEW u \in Tasks, Admit(u), state' # state PROVE StaleAreOld'
    <3>1. /\ IsOpen(state) /\ state' = HalfOpen /\ call[u] # None
          /\ call[u].now >= state.until /\ clock' = clock
      BY <2>6 DEF Admit, At
    <3>2. state.until \in Nat /\ call[u].now \in Nat /\ call[u].now <= clock
      BY <1>2, <3>1, Kinds, AtIsRequest, U64Assumption DEF Timestamps, Nanos
    <3>3. ~IsOpen(state') /\ ~IsClosed(state') /\ ~IsClosed(state)
      BY <1>2, <3>1, Kinds
    <3>4. ASSUME NEW t \in stale PROVE FALSE
      <4>1. /\ t \in Tasks /\ call[t] # None
            /\ call[t].now + OpenFor <= state.until + CallBudget
            /\ call[t].now \in Nat /\ clock <= call[t].now + CallBudget
        BY <3>1, AtIsRequest DEF StaleAreOld, InFlight, WithinBudget
      <4> QED
        BY <2>4, <3>1, <3>2, <4>1
    <3> QED
      BY <2>1, <3>3, <3>4 DEF StaleAreOld
  <2>7. ASSUME NEW u \in Tasks, Answered(u), state' # state PROVE StaleAreOld'
    <3>1. call[u] # None /\ call[u].now \in Time /\ call[u].now \in Nat /\ clock' = clock
      BY <2>7, AtIsRequest DEF Answered, Succeed, Fail, At
    <3>2. PICK success \in BOOLEAN :
            state' = AfterCall(state, call[u].route, success, call[u].now)
      BY <2>7 DEF Answered, Succeed, Fail
    <3>3. ~IsOpen(state)
      BY <1>2, <2>7, <3>1, <3>2, AfterCallKinds
    <3>4. stale = {}
      BY <3>3 DEF StaleAreOld
    <3>5. CASE ~IsOpen(state')
      BY <2>1, <3>4, <3>5 DEF StaleAreOld
    <3>6. CASE IsOpen(state')
      <4>1. state' = Reopen(call[u].now)
        BY <1>2, <2>7, <3>1, <3>2, <3>6, AfterCallKinds
      <4>2. call[u].now <= MaxTime
        BY <3>1, <2>4 DEF Time
      <4>3. state'.until = call[u].now + OpenFor
        BY <2>4, <3>1, <4>1, <4>2 DEF Reopen, Open, SaturatingAdd, AtMost
      <4>4. ASSUME NEW t \in stale' PROVE call'[t].now + OpenFor <= state'.until + CallBudget
        <5>1. t \in Tasks /\ call'[t] # None
          BY <2>2 DEF InFlight
        <5>2. \/ call[t] # None /\ call'[t].now = call[t].now
              \/ call'[t].now = clock
          BY <1>1, <5>1, KeepsTimestamp
        <5>3. call'[t].now \in Nat /\ call'[t].now <= clock
          BY <2>4, <5>1, <5>2, AtIsRequest DEF Timestamps
        <5>4. clock <= call[u].now + CallBudget
          BY <3>1 DEF WithinBudget
        <5> QED
          BY <2>4, <3>1, <4>3, <5>3, <5>4
      <4> QED
        BY <2>2, <3>6, <4>4 DEF StaleAreOld
    <3> QED
      BY <3>5, <3>6
  <2>8. ASSUME NEW u \in Tasks, call[u] # None, Drop(u), state' # state PROVE StaleAreOld'
    <3>1. state = HalfOpen
      BY <2>8 DEF Drop, Released
    <3>2. ~IsOpen(state) /\ ~IsClosed(state)
      BY <1>2, <3>1, Kinds
    <3> QED
      BY <2>1, <3>2 DEF StaleAreOld
  <2> QED
    BY <1>1, <2>5, <2>6, <2>7, <2>8, StateMovers
<1> QED
  BY <1>3, <1>4

\* breaker.rs, "During an outage": with an open period longer than two calls take,
\* a closed breaker never hears of a call it sent before it last opened.
THEOREM NeverStaleVerdict ==
    ASSUME OpenForOutlasts PROVE TimedSpec => []NoStaleVerdict
<1>1. TimedSpec => Spec
  <2>1. TimedInit => Init
    BY DEF TimedInit
  <2>2. [TimedNext]_timedVars => [Next]_vars
    BY DEF TimedNext, timedVars
  <2> QED
    BY <2>1, <2>2, PTL DEF TimedSpec, Spec
<1>2. TimedInit => Timestamps /\ WithinBudget /\ StaleAreOld
  BY DEF TimedInit, Init, Timestamps, WithinBudget, StaleAreOld
<1>3. [TimedNext]_timedVars => [Next]_vars
  BY DEF TimedNext, timedVars
<1>4. TypeOK /\ TypeOK' /\ Timestamps /\ WithinBudget /\ StaleAreOld /\ [TimedNext]_timedVars
        => Timestamps' /\ WithinBudget' /\ StaleAreOld'
  BY <1>3, TimestampStep, BudgetStep, StaleAreOldStep
<1>5. TypeOK /\ StaleAreOld => NoStaleVerdict
  BY Kinds DEF TypeOK, StaleAreOld, NoStaleVerdict
<1> QED
  BY <1>1, <1>2, <1>4, <1>5, TypeCorrect, PTL DEF TimedSpec

(***************************************************************************)
(* BreakerOutage: what the fallback grants between two clears.             *)
(***************************************************************************)
Account == [spent : Nat, since : Time, gap : Nat]

RecordsOK ==
    /\ dropped \in [Keys -> Time]
    /\ \A k \in Keys : dropped[k] <= clock
    /\ ledger \in [Keys -> Account]

\* How far a key is charged: its TAT, or the prune that found the TAT expired.
ChargedTo(k) == IF fallback[k] = None THEN dropped[k] ELSE fallback[k]

\* What a key was granted is charged: from the earliest timestamp of the account on,
\* less the documented gap.
Paid(k) ==
    ledger[k].spent > 0 =>
        Ei(k) * ledger[k].spent <= (ChargedTo(k) - ledger[k].since) + ledger[k].gap

\* A key is charged at most a burst ahead.
InBurst(k) == ChargedTo(k) <= clock + Bo(k)

AllPaid == \A k \in Keys : Paid(k) /\ InBurst(k)

LEMMA FallbackQuota ==
    ASSUME FallbackUnsaturated, NEW k \in Keys
    PROVE  /\ Ei(k) \in Nat /\ Bo(k) \in Nat
           /\ Ei(k) = ReplenishInterval(QuotaOf[k])
           /\ Bo(k) = ReplenishInterval(QuotaOf[k]) * Burst(k)
           /\ MaxTime + Bo(k) < U64Max
<1>1. ReplenishInterval(QuotaOf[k]) * Burst(k) \in Nat
  BY QuotaTypes, Products
<1> QED
  BY <1>1, ExactQuota, MaxTimeAssumption, U64Assumption DEF FallbackUnsaturated, Nanos

\* Recording restricts no step of the breaker.
LEMMA OutageIsBreaker == [OutageNext]_outageVars => [Next]_vars
<1>1. Unrecorded => Next
  BY DEF Unrecorded, Next, Run
<1>2. ASSUME NEW t \in Tasks, RecordedFallback(t) \/ RecordedAnswer(t) PROVE Next
  BY <1>2 DEF RecordedFallback, RecordedAnswer, Next, Run
<1>3. ASSUME NEW t \in Tasks, NEW k \in Keys, RecordedPruneKey(t, k) \/ RecordedClearKey(t, k)
      PROVE  Next
  BY <1>3 DEF RecordedPruneKey, RecordedClearKey, Next, Run
<1> QED
  BY <1>1, <1>2, <1>3 DEF OutageNext, outageVars

\* The values a key's record and entry have.
LEMMA RecordValues ==
    ASSUME TypeOK, RecordsOK, NEW k \in Keys
    PROVE  /\ fallback[k] \in Tat /\ dropped[k] \in Nat /\ dropped[k] \in Time
           /\ dropped[k] <= clock
           /\ ledger[k] \in Account
           /\ ledger[k].spent \in Nat /\ ledger[k].since \in Nat /\ ledger[k].gap \in Nat
           /\ fallback[k] # None => fallback[k] \in Nat
           /\ ChargedTo(k) \in Nat /\ clock \in Nat
<1>1. fallback[k] \in Tat /\ dropped[k] \in Time /\ ledger[k] \in Account /\ dropped[k] <= clock
  BY DEF TypeOK, RecordsOK
<1>2. dropped[k] \in Nat /\ clock \in Nat
  BY <1>1, TimeIsNanos DEF TypeOK
<1>3. ledger[k].spent \in Nat /\ ledger[k].since \in Nat /\ ledger[k].gap \in Nat
  BY <1>1, TimeIsNanos DEF Account
<1>4. fallback[k] # None => fallback[k] \in Nat
  BY <1>1, U64Assumption DEF Tat, Nanos
<1> QED
  BY <1>1, <1>2, <1>3, <1>4 DEF ChargedTo

LEMMA UntouchedPaid ==
    ASSUME FallbackUnsaturated, TypeOK, RecordsOK, AllPaid, NEW k \in Keys,
           clock' = clock \/ clock' = clock + 1,
           fallback'[k] = fallback[k], dropped'[k] = dropped[k], ledger'[k] = ledger[k]
    PROVE  Paid(k)' /\ InBurst(k)'
<1>1. ChargedTo(k)' = ChargedTo(k)
  BY DEF ChargedTo
<1>2. ChargedTo(k) \in Nat /\ clock \in Nat /\ Bo(k) \in Nat
  BY RecordValues, FallbackQuota
<1> QED
  BY <1>1, <1>2 DEF AllPaid, Paid, InBurst

\* An account after a grant.
LEMMA EnterFacts ==
    ASSUME TypeOK, RecordsOK, NEW k \in Keys, NEW now \in Time, NEW cost \in Nat
    PROVE  /\ Lag(k, now) \in Nat
           /\ Enter(ledger, k, now, cost) \in [Keys -> Account]
           /\ Enter(ledger, k, now, cost)[k].spent = ledger[k].spent + cost
           /\ Enter(ledger, k, now, cost)[k].since = AtMost(ledger[k].since, now)
           /\ Enter(ledger, k, now, cost)[k].gap = ledger[k].gap + Lag(k, now)
           /\ \A j \in Keys \ {k} : Enter(ledger, k, now, cost)[j] = ledger[j]
<1> DEFINE entry == [spent |-> ledger[k].spent + cost,
                     since |-> AtMost(ledger[k].since, now),
                     gap   |-> ledger[k].gap + Lag(k, now)]
<1>1. ledger \in [Keys -> Account] /\ ledger[k] \in Account
  BY DEF RecordsOK
<1>2. Lag(k, now) \in Nat
  <2>1. dropped[k] \in Nat /\ now \in Nat
    BY RecordValues, TimeIsNanos
  <2> QED
    BY <2>1 DEF Lag, AtLeast
<1>3. AtMost(ledger[k].since, now) \in Time
  BY <1>1 DEF AtMost, Account
<1>4. entry \in Account
  BY <1>1, <1>2, <1>3 DEF Account
<1>5. Enter(ledger, k, now, cost) = [ledger EXCEPT ![k] = entry]
  BY DEF Enter
<1>6. /\ entry.spent = ledger[k].spent + cost
      /\ entry.since = AtMost(ledger[k].since, now)
      /\ entry.gap = ledger[k].gap + Lag(k, now)
  OBVIOUS
<1> HIDE DEF entry
<1> QED
  BY <1>1, <1>2, <1>4, <1>5, <1>6

\* A grant of the fallback is charged to its key.
LEMMA GrantPaid ==
    ASSUME FallbackUnsaturated, TypeOK, Timestamps, RecordsOK, AllPaid,
           NEW t \in Tasks, RecordedFallback(t), NEW k \in Keys, k = call[t].key
    PROVE  Paid(k)' /\ InBurst(k)'
<1> DEFINE now == call[t].now
           cost == call[t].cost
           ei == Ei(k)
           bo == Bo(k)
           c == CurrentTat(fallback[k], now)
           p == ei * cost
           x == ei * ledger[k].spent
           l == Lag(k, now)
           since == ledger[k].since
           gap == ledger[k].gap
           d == ChargedTo(k)
<1>1. /\ call[t] # None /\ now \in Time /\ now \in Nat /\ cost \in Nat
      /\ now <= clock /\ now <= MaxTime
  <2>1. call[t] # None
    BY DEF RecordedFallback, Fallback, At
  <2> QED
    BY <2>1, AtIsRequest, MaxTimeAssumption DEF Timestamps, Time
<1>2. ei \in Nat /\ bo \in Nat /\ now + bo < U64Max
  <2>1. ei \in Nat /\ bo \in Nat /\ MaxTime + bo < U64Max
    BY FallbackQuota
  <2> QED
    BY <1>1, <2>1, MaxTimeAssumption, U64Assumption DEF Nanos
<1>3. /\ fallback[k] \in Tat /\ dropped[k] \in Nat /\ d \in Nat /\ clock \in Nat
      /\ ledger[k].spent \in Nat /\ since \in Nat /\ gap \in Nat
      /\ fallback[k] # None => fallback[k] \in Nat
  BY RecordValues
<1>4. p \in Nat /\ x \in Nat /\ c \in Nat /\ l \in Nat
  BY <1>1, <1>2, <1>3, Products, NewTatType, EnterFacts
<1>5. now <= c /\ d <= c + l
  BY <1>1, <1>3, NoneAssumption DEF CurrentTat, Lag, ChargedTo, AtLeast
<1>6. clock' = clock /\ dropped' = dropped /\ fallback' = Charged(fallback, k, now, cost)
  BY DEF RecordedFallback, Fallback
<1>7. CASE ~Allows(fallback[k], now, ei, bo, cost)
  <2>1. ~Decision(fallback, k, now, cost).allowed
    BY <1>7, DecisionAllowed
  <2>2. fallback' = fallback /\ ledger' = ledger
    BY <1>6, <2>1 DEF RecordedFallback, Charged
  <2> QED
    BY <1>6, <2>2, UntouchedPaid
<1>8. CASE Allows(fallback[k], now, ei, bo, cost)
  <2>1. /\ Decision(fallback, k, now, cost).allowed
        /\ Decision(fallback, k, now, cost).new_tat = NewTat(fallback[k], now, ei, cost)
    BY <1>8, DecisionAllowed
  <2>2. ledger' = Enter(ledger, k, now, cost)
    BY <2>1 DEF RecordedFallback
  <2>3. /\ ledger'[k].spent = ledger[k].spent + cost
        /\ ledger'[k].since = AtMost(since, now)
        /\ ledger'[k].gap = gap + l
    BY <1>1, <2>2, EnterFacts
  <2>4. NewTat(fallback[k], now, ei, cost) = c + p /\ c + p <= now + bo
    BY <1>1, <1>2, <1>3, <1>8, GrantChargesInFull
  <2>5. fallback'[k] = c + p
    BY <1>6, <2>1, <2>4 DEF Charged, TypeOK
  <2>6. ChargedTo(k)' = c + p
    BY <1>4, <2>5, NoneAssumption DEF ChargedTo
  <2>7. ei * ledger'[k].spent = x + p
    BY <1>1, <1>2, <1>3, <2>3, Products
  <2>8. InBurst(k)'
    <3> HIDE DEF c, p, now, bo
    <3>1. c + p <= clock + bo
      BY <1>1, <1>2, <1>3, <1>4, <2>4
    <3> QED
      BY <1>6, <2>6, <3>1 DEF InBurst, bo
  <2>9. ledger[k].spent > 0 => x <= (d - since) + gap
    BY DEF AllPaid, Paid
  <2>10. ledger[k].spent = 0 => x = 0
    BY <1>2
  <2>11. x + p <= ((c + p) - AtMost(since, now)) + (gap + l)
    <3> HIDE DEF x, p, c, now, since, gap, l, d
    <3> QED
      BY <1>1, <1>3, <1>4, <1>5, <2>9, <2>10 DEF AtMost
  <2>12. Paid(k)'
    BY <2>3, <2>6, <2>7, <2>11 DEF Paid
  <2> QED
    BY <2>8, <2>12
<1> QED
  BY <1>7, <1>8

LEMMA PaidStep ==
    ASSUME FallbackUnsaturated, TypeOK, Timestamps, RecordsOK, AllPaid,
           [OutageNext]_outageVars
    PROVE  RecordsOK' /\ AllPaid'
<1>1. clock' = clock \/ clock' = clock + 1
  BY OutageIsBreaker
     DEF Next, Tick, ChangeHealth, Arrive, Run, Admit, ClearKey, ReportClosed, PruneOpened,
         ReportOpened, LoadPruned, SwapPruned, PruneKey, Fallback, Poll, Answered, Succeed,
         Fail, Cancel, vars
<1>2. /\ clock \in Nat
      /\ dropped \in [Keys -> Time] /\ ledger \in [Keys -> Account]
      /\ fallback \in [Keys -> Tat]
      /\ \A k \in Keys : dropped[k] \in Nat /\ dropped[k] <= clock
  BY RecordValues, TimeIsNanos DEF TypeOK, RecordsOK
<1>3. ASSUME fallback' = fallback, UNCHANGED <<dropped, ledger>> PROVE RecordsOK' /\ AllPaid'
  <2>1. RecordsOK'
    BY <1>1, <1>2, <1>3 DEF RecordsOK
  <2> QED
    BY <1>1, <1>3, <2>1, UntouchedPaid DEF AllPaid
<1>4. CASE UNCHANGED outageVars
  BY <1>3, <1>4 DEF outageVars, vars, history
<1>5. CASE Unrecorded
  BY <1>3, <1>5 DEF Unrecorded, history, Tick, ChangeHealth, Arrive, Admit, Poll, Cancel,
                    ReportClosed, PruneOpened, ReportOpened, LoadPruned, SwapPruned
<1>6. ASSUME NEW t \in Tasks, RecordedAnswer(t) PROVE RecordsOK' /\ AllPaid'
  BY <1>3, <1>6 DEF RecordedAnswer, Answered, Succeed, Fail
<1>7. ASSUME NEW t \in Tasks, RecordedFallback(t) PROVE RecordsOK' /\ AllPaid'
  <2>1. call[t].key \in Keys /\ call[t].now \in Time /\ call[t].now \in Nat /\ call[t].cost \in Nat
    BY <1>7, AtIsRequest DEF RecordedFallback, Fallback, At
  <2>2. PICK k \in Keys : k = call[t].key
    BY <2>1
  <2>3. /\ clock' = clock /\ dropped' = dropped
        /\ fallback' = Charged(fallback, k, call[t].now, call[t].cost)
        /\ ledger' = Enter(ledger, k, call[t].now, call[t].cost) \/ ledger' = ledger
    BY <1>7, <2>2 DEF RecordedFallback, Fallback
  <2>4. ledger' \in [Keys -> Account] /\ \A j \in Keys \ {k} : ledger'[j] = ledger[j]
    <3>1. CASE ledger' = ledger
      BY <1>2, <3>1
    <3>2. CASE ledger' = Enter(ledger, k, call[t].now, call[t].cost)
      <4> DEFINE new == Enter(ledger, k, call[t].now, call[t].cost)
      <4>1. new \in [Keys -> Account] /\ \A j \in Keys \ {k} : new[j] = ledger[j]
        BY <2>1, EnterFacts
      <4> HIDE DEF new
      <4>2. ledger' = new
        BY <3>2 DEF new
      <4> QED
        BY <4>1, <4>2
    <3> QED
      BY <2>3, <3>1, <3>2
  <2>5. \A j \in Keys \ {k} : fallback'[j] = fallback[j]
    BY <1>2, <2>3 DEF Charged
  <2>6. \A j \in Keys \ {k} : Paid(j)' /\ InBurst(j)'
    BY <2>3, <2>4, <2>5, UntouchedPaid
  <2>7. Paid(k)' /\ InBurst(k)'
    BY <1>7, <2>2, GrantPaid
  <2>8. RecordsOK'
    BY <1>2, <2>3, <2>4 DEF RecordsOK
  <2>9. ASSUME NEW j \in Keys PROVE Paid(j)' /\ InBurst(j)'
    BY <2>6, <2>7
  <2> QED
    BY <2>8, <2>9 DEF AllPaid
<1>8. ASSUME NEW t \in Tasks, NEW k \in Keys, RecordedPruneKey(t, k) PROVE RecordsOK' /\ AllPaid'
  <2> DEFINE now == call[t].now
  <2>1. now \in Time /\ now \in Nat /\ now <= clock
    BY <1>8, AtIsRequest DEF RecordedPruneKey, PruneKey, Timestamps
  <2>2. /\ clock' = clock /\ ledger' = ledger /\ fallback' = Retained(fallback, k, now)
        /\ dropped' = [dropped EXCEPT ![k] =
                         IF fallback[k] # None /\ fallback'[k] = None THEN now ELSE @]
    BY <1>8 DEF RecordedPruneKey, PruneKey
  <2>3. RecordsOK'
    BY <1>2, <2>1, <2>2 DEF RecordsOK
  <2>4. \A j \in Keys \ {k} : Paid(j)' /\ InBurst(j)'
    BY <1>2, <2>2, UntouchedPaid DEF Retained
  <2>5. CASE fallback'[k] = fallback[k]
    <3>1. dropped'[k] = dropped[k]
      BY <1>2, <2>2, <2>5
    <3>2. Paid(k)' /\ InBurst(k)'
      BY <2>2, <2>5, <3>1, UntouchedPaid
    <3> QED
      BY <2>3, <2>4, <3>2 DEF AllPaid
  <2>6. CASE fallback'[k] # fallback[k]
    <3>1. fallback[k] # None /\ fallback'[k] = None /\ ~(fallback[k] >= now)
      BY <1>2, <2>2, <2>6 DEF Retained, Active
    <3>2. ChargedTo(k)' = now /\ ChargedTo(k) = fallback[k]
      BY <1>2, <2>2, <3>1 DEF ChargedTo
    <3>3. ChargedTo(k) \in Nat /\ ledger[k].since \in Nat /\ ledger[k].gap \in Nat
          /\ ledger[k].spent \in Nat /\ Ei(k) \in Nat /\ Bo(k) \in Nat
      BY RecordValues, FallbackQuota
    <3> DEFINE x == Ei(k) * ledger[k].spent
    <3>4. x \in Nat
      BY <3>3, Products
    <3>5. ledger[k].spent > 0 => x <= (ChargedTo(k) - ledger[k].since) + ledger[k].gap
      BY DEF AllPaid, Paid
    <3> HIDE DEF x
    <3>6. ledger[k].spent > 0 => x <= (now - ledger[k].since) + ledger[k].gap
      BY <2>1, <3>1, <3>2, <3>3, <3>4, <3>5
    <3>7. Paid(k)'
      BY <2>2, <3>2, <3>6 DEF Paid, x
    <3>8. InBurst(k)'
      BY <1>2, <2>1, <2>2, <3>2, <3>3 DEF InBurst
    <3> QED
      BY <2>3, <2>4, <3>7, <3>8 DEF AllPaid
  <2> QED
    BY <2>5, <2>6
<1>9. ASSUME NEW t \in Tasks, NEW k \in Keys, RecordedClearKey(t, k) PROVE RecordsOK' /\ AllPaid'
  <2>1. /\ clock' = clock /\ fallback' = Cleared(fallback, k)
        /\ ledger' = [ledger EXCEPT ![k] = Fresh] /\ dropped' = [dropped EXCEPT ![k] = 0]
    BY <1>9 DEF RecordedClearKey, ClearKey
  <2>2. Fresh \in Account /\ Fresh.spent = 0 /\ 0 \in Time
    BY MaxTimeAssumption, TimeIsNanos DEF Fresh, Account, Time, Nanos
  <2>3. RecordsOK'
    BY <1>2, <2>1, <2>2 DEF RecordsOK
  <2>4. \A j \in Keys \ {k} : Paid(j)' /\ InBurst(j)'
    BY <1>2, <2>1, UntouchedPaid DEF Cleared
  <2>5. ledger'[k].spent = 0 /\ ChargedTo(k)' = 0
    BY <1>2, <2>1, <2>2 DEF Cleared, ChargedTo
  <2>6. Paid(k)' /\ InBurst(k)'
    BY <1>2, <2>1, <2>5, FallbackQuota DEF Paid, InBurst
  <2> QED
    BY <2>3, <2>4, <2>6 DEF AllPaid
<1> QED
  BY <1>4, <1>5, <1>6, <1>7, <1>8, <1>9 DEF OutageNext

\* prune_fallback: however prunes and clears interleave with requests, the fallback
\* grants a user no more than one quota between two clears, and the documented gap.
THEOREM FallbackAlwaysBounded ==
    ASSUME FallbackUnsaturated PROVE OutageSpec => []FallbackBound
<1>1. OutageSpec => Spec
  <2>1. OutageInit => Init
    BY DEF OutageInit
  <2> QED
    BY <2>1, OutageIsBreaker, PTL DEF OutageSpec, Spec
<1>2. OutageInit => Timestamps /\ RecordsOK /\ AllPaid
  <2> SUFFICES ASSUME OutageInit PROVE Timestamps /\ RecordsOK /\ AllPaid
    OBVIOUS
  <2>1. Fresh \in Account /\ Fresh.spent = 0 /\ 0 \in Time
    BY MaxTimeAssumption, TimeIsNanos DEF Fresh, Account, Time, Nanos
  <2>2. Timestamps /\ RecordsOK
    BY <2>1 DEF OutageInit, Init, Timestamps, RecordsOK
  <2>3. ASSUME NEW k \in Keys PROVE Paid(k) /\ InBurst(k)
    BY <2>1, FallbackQuota DEF OutageInit, Init, Paid, InBurst, ChargedTo
  <2> QED
    BY <2>2, <2>3 DEF AllPaid
<1>3. TypeOK /\ Timestamps /\ RecordsOK /\ AllPaid /\ [OutageNext]_outageVars
        => Timestamps' /\ RecordsOK' /\ AllPaid'
  BY OutageIsBreaker, TimestampStep, PaidStep
<1>4. TypeOK /\ RecordsOK /\ AllPaid => FallbackBound
  <2> SUFFICES ASSUME TypeOK, RecordsOK, AllPaid, NEW k \in Keys, ledger[k].spent > 0
               PROVE  ReplenishInterval(QuotaOf[k]) * ledger[k].spent
                        <= ReplenishInterval(QuotaOf[k]) * Burst(k)
                             + (clock - ledger[k].since) + ledger[k].gap
    BY DEF FallbackBound, WithinQuota
  <2> DEFINE x == Ei(k) * ledger[k].spent
             b == Bo(k)
  <2>1. /\ Ei(k) = ReplenishInterval(QuotaOf[k])
        /\ b = ReplenishInterval(QuotaOf[k]) * Burst(k)
        /\ Ei(k) \in Nat /\ b \in Nat
    BY FallbackQuota
  <2>2. /\ ChargedTo(k) \in Nat /\ clock \in Nat /\ ledger[k].since \in Nat
        /\ ledger[k].gap \in Nat /\ ledger[k].spent \in Nat
    BY RecordValues
  <2>3. x \in Nat
    BY <2>1, <2>2, Products
  <2>4. x <= (ChargedTo(k) - ledger[k].since) + ledger[k].gap /\ ChargedTo(k) <= clock + b
    BY DEF AllPaid, Paid, InBurst
  <2> HIDE DEF x, b
  <2>5. x <= b + (clock - ledger[k].since) + ledger[k].gap
    BY <2>1, <2>2, <2>3, <2>4
  <2> QED
    BY <2>1, <2>5 DEF x
<1> QED
  BY <1>1, <1>2, <1>3, <1>4, TypeCorrect, PTL DEF OutageSpec
=============================================================================
