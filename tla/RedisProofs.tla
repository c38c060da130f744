---------------------------- MODULE RedisProofs -----------------------------
(***************************************************************************)
(* RedisStorage is a token bucket whose answers are those of check_gcra,   *)
(* and is never looser than the in-memory map: for every quota, number of  *)
(* tasks and keys, and every unit of time.                                 *)
(***************************************************************************)
EXTENDS RedisQuota, MemoryMapProofs

\* The script's arguments are natural numbers, and an interval in microseconds is
\* not shorter than the one in nanoseconds.
LEMMA Micros ==
    ASSUME NEW k \in Keys
    PROVE  /\ EiMicros(k) \in Nat \ {0}
           /\ BoMicros(k) \in Nat
           /\ BoMicros(k) <= EiMicros(k) * Burst(k)
           /\ BoMicros(k) < U64Max => BoMicros(k) = EiMicros(k) * Burst(k)
           /\ Ei(k) <= EiMicros(k) * NanosPerMicro
           /\ Ei(k) \in Nat /\ Bo(k) \in Nat /\ Burst(k) \in Nat \ {0}
<1> DEFINE n == NanosPerMicro
           m == Ei(k)
           q == m \div n
           c == MicrosCeil(m)
           p == EiMicros(k) * Burst(k)
<1>1. n \in Nat \ {0} /\ m \in Nat /\ Bo(k) \in Nat /\ Burst(k) \in Nat \ {0}
  BY UnitAssumption, QuotaTypes, U64Assumption DEF Nanos
<1>2. q \in Nat /\ m < n * q + n /\ (m % n = 0 => m = n * q)
  BY <1>1
<1>3. c \in Nat /\ m <= c * n
  <2> DEFINE x == n * q
  <2>1. x \in Nat /\ q * n = x /\ (q + 1) * n = x + n
    BY <1>1, <1>2
  <2>2. CASE m % n = 0
    BY <1>1, <1>2, <2>1, <2>2 DEF MicrosCeil
  <2>3. CASE m % n # 0
    <3>1. c = q + 1
      BY <2>3 DEF MicrosCeil
    <3> QED
      BY <1>1, <1>2, <2>1, <3>1
  <2> QED
    BY <2>2, <2>3
<1>4. EiMicros(k) \in Nat \ {0} /\ m <= EiMicros(k) * n
  <2> HIDE DEF c, n, m
  <2>1. EiMicros(k) = AtLeast(c, 1)
    BY DEF EiMicros, c, m
  <2>2. CASE c >= 1
    BY <1>3, <2>1, <2>2 DEF AtLeast
  <2>3. CASE ~(c >= 1)
    <3>1. c = 0 /\ EiMicros(k) = 1
      BY <1>3, <2>1, <2>3 DEF AtLeast
    <3> QED
      BY <1>1, <1>3, <3>1
  <2> QED
    BY <2>2, <2>3
<1>5. p \in Nat
  BY <1>1, <1>4
<1>6. BoMicros(k) = AtMost(p, U64Max)
  BY DEF BoMicros, SaturatingMul
<1> HIDE DEF p
<1>7. BoMicros(k) \in Nat /\ BoMicros(k) <= p /\ (BoMicros(k) < U64Max => BoMicros(k) = p)
  BY <1>5, <1>6, U64Assumption DEF AtMost
<1> QED
  BY <1>1, <1>4, <1>7 DEF p

(***************************************************************************)
(* The script.                                                             *)
(***************************************************************************)
\* What GET returns is a TAT, junk or nothing.
LEMMA StoredTypes ==
    ASSUME TypeOK, NEW k \in Keys
    PROVE  /\ time \in Nat
           /\ Stored(k) \in Nat \/ Stored(k) \notin Nat
           /\ Stored(k) \in Nat => /\ db[k] # None /\ ~Expired(k)
                                  /\ Stored(k) = db[k].tat /\ Stored(k) <= MaxExact
           /\ db[k] # None => /\ db[k] \in Entry /\ db[k].deadline \in Nat
                              /\ db[k].tat \in Nat => db[k].tat <= MaxExact
<1>1. time \in Nat
  BY BoundAssumption DEF TypeOK, Time
<1>2. db[k] # None => db[k] \in Entry
  BY DEF TypeOK
<1>3. db[k] # None => /\ db[k].deadline \in Nat
                      /\ db[k].tat \in Nat => db[k].tat <= MaxExact
  BY <1>2, JunkAssumption, ExactAssumption DEF Entry, Nanos
<1> QED
  BY <1>1, <1>2, <1>3, NoneAssumption DEF Stored

\* What a key owes is how far the script sees its TAT ahead, at most a burst.
LEMMA DebtTypes ==
    ASSUME TypeOK, NEW k \in Keys
    PROVE  /\ ScriptTat(k) \in Nat
           /\ ScriptTat(k) = time + Debt(k)
           /\ Debt(k) \in Nat
           /\ Debt(k) <= BoMicros(k)
<1>1. time \in Nat /\ BoMicros(k) \in Nat
  BY StoredTypes, Micros
<1>2. CASE Stored(k) \in Nat
  BY <1>1, <1>2 DEF ScriptTat, Debt, AtMost, AtLeast
<1>3. CASE Stored(k) \notin Nat
  BY <1>1, <1>3 DEF ScriptTat, Debt
<1> QED
  BY <1>2, <1>3

\* The script grants a request exactly if the key may owe its cost as well; then
\* the burst offset is exact and the new TAT fits a double.
LEMMA ScriptVerdict ==
    ASSUME TypeOK, NEW k \in Keys, NEW cost \in Nat
    PROVE  /\ EiMicros(k) * cost \in Nat
           /\ ScriptNewTat(k, cost) = time + Debt(k) + EiMicros(k) * cost
           /\ ScriptAllows(k, cost) <=> Debt(k) + EiMicros(k) * cost <= BoMicros(k)
           /\ ~ScriptFails(k, cost) =>
                /\ ScriptNewTat(k, cost) <= MaxExact
                /\ BoMicros(k) < MaxExact /\ MaxExact <= U64Max
                /\ BoMicros(k) = EiMicros(k) * Burst(k)
                /\ BoMicros(k) \in Nat \ {0}
<1> DEFINE p == EiMicros(k) * cost
<1>1. time \in Nat /\ EiMicros(k) \in Nat \ {0} /\ BoMicros(k) \in Nat
  BY StoredTypes, Micros
<1>2. p \in Nat
  BY <1>1
<1>3. ScriptTat(k) = time + Debt(k) /\ Debt(k) \in Nat
  BY DebtTypes
<1>4. ScriptNewTat(k, cost) = ScriptTat(k) + p
  BY DEF ScriptNewTat
<1>5. ScriptFails(k, cost) <=> ~ArgumentsValid(k, time) \/ p > MaxExact - ScriptTat(k)
  BY DEF ScriptFails
<1>6. ArgumentsValid(k, time) => BoMicros(k) < MaxExact /\ EiMicros(k) <= BoMicros(k)
  BY <1>1, ExactAssumption DEF ArgumentsValid
<1>7. MaxExact \in Nat /\ MaxExact <= U64Max
  BY ExactAssumption, U64Assumption DEF Nanos
<1> HIDE DEF p
<1>8. ScriptNewTat(k, cost) = time + Debt(k) + p
  BY <1>1, <1>2, <1>3, <1>4
<1>9. ScriptAllows(k, cost) <=> Debt(k) + p <= BoMicros(k)
  BY <1>1, <1>2, <1>3, <1>8 DEF ScriptAllows
<1>10. ASSUME ~ScriptFails(k, cost)
       PROVE  /\ ScriptNewTat(k, cost) <= MaxExact
              /\ BoMicros(k) < MaxExact /\ BoMicros(k) \in Nat \ {0}
              /\ BoMicros(k) < U64Max
  BY <1>1, <1>2, <1>3, <1>4, <1>5, <1>6, <1>7, <1>10, U64Assumption
<1> QED
  BY <1>2, <1>7, <1>8, <1>9, <1>10, Micros DEF p

\* No key is seen to expire before its TAT: the deadline is rounded up.
Deadlines ==
    \A k \in Keys : db[k] # None /\ db[k].tat \in Nat => Millis(db[k].tat) <= db[k].deadline

\* Milliseconds of a later time are not fewer, and the deadline of SET ... PX covers
\* the TAT.
LEMMA MillisFacts ==
    ASSUME NEW m \in Nat, NEW n \in Nat, m <= n
    PROVE  /\ Millis(m) \in Nat /\ Millis(n) \in Nat /\ Millis(m) <= Millis(n)
           /\ MillisCeil(n - m) \in Nat
           /\ Millis(n) <= Millis(m) + MillisCeil(n - m)
<1> DEFINE u == MicrosPerMilli
           a == m \div u
           c == (n - m + u - 1) \div u
           b == n \div u
<1>1. u \in Nat \ {0}
  BY UnitAssumption
<1>2. a \in Nat /\ b \in Nat /\ c \in Nat
  BY <1>1, Division
<1>3. a <= b
  BY <1>1, <1>2
<1>4. b <= a + c
  BY <1>1, <1>2
<1> QED
  BY <1>2, <1>3, <1>4 DEF Millis, MillisCeil

\* A key that is no longer seen has a TAT in the past.
LEMMA ExpiredIsPast ==
    ASSUME TypeOK, Deadlines, NEW k \in Keys, db[k] # None, db[k].tat \in Nat,
           NEW n \in Nat, Millis(n) > db[k].deadline
    PROVE  db[k].tat < n
<1>1. db[k].deadline \in Nat /\ Millis(db[k].tat) <= db[k].deadline
  BY StoredTypes DEF Deadlines
<1>2. SUFFICES ASSUME n <= db[k].tat PROVE FALSE
  OBVIOUS
<1>3. Millis(n) \in Nat /\ Millis(db[k].tat) \in Nat /\ Millis(n) <= Millis(db[k].tat)
  BY <1>2, MillisFacts
<1> QED
  BY <1>1, <1>3

\* A key's debt is what its TAT says, expired or not.
LEMMA DebtOfEntry ==
    ASSUME TypeOK, Deadlines, NEW k \in Keys
    PROVE  Debt(k) = IF db[k] # None /\ db[k].tat \in Nat
                     THEN AtMost(AtLeast(db[k].tat - time, 0), BoMicros(k))
                     ELSE 0
<1>1. time \in Nat /\ BoMicros(k) \in Nat
  BY StoredTypes, Micros
<1>2. CASE db[k] # None /\ db[k].tat \in Nat /\ Expired(k)
  <2>1. db[k].tat < time
    BY <1>1, <1>2, ExpiredIsPast DEF Expired
  <2>2. Stored(k) \notin Nat
    BY <1>2, NoneAssumption DEF Stored
  <2> QED
    BY <1>1, <1>2, <2>1, <2>2 DEF Debt, AtMost, AtLeast
<1>3. CASE db[k] # None /\ db[k].tat \in Nat /\ ~Expired(k)
  BY <1>3 DEF Debt, Stored
<1>4. CASE ~(db[k] # None /\ db[k].tat \in Nat)
  BY <1>4, NoneAssumption DEF Debt, Stored
<1> QED
  BY <1>2, <1>3, <1>4

\* SET key tat PX ms: an entry that is seen until its TAT has passed.
LEMMA SetPxFacts ==
    ASSUME TypeOK, Deadlines, NEW k \in Keys, NEW tat \in Nat, time <= tat, tat <= MaxExact
    PROVE  /\ SetPx(k, tat) \in [Keys -> Entry \cup {None}]
           /\ SetPx(k, tat)[k] # None
           /\ SetPx(k, tat)[k].tat = tat
           /\ SetPx(k, tat)[k].deadline \in Nat
           /\ Millis(tat) <= SetPx(k, tat)[k].deadline
           /\ \A j \in Keys \ {k} : SetPx(k, tat)[j] = db[j]
<1> DEFINE entry == [tat |-> tat, deadline |-> Millis(time) + MillisCeil(tat - time)]
<1>1. time \in Nat
  BY StoredTypes
<1>2. /\ Millis(time) + MillisCeil(tat - time) \in Nat
      /\ Millis(tat) <= Millis(time) + MillisCeil(tat - time)
  <2>1. /\ Millis(time) \in Nat /\ MillisCeil(tat - time) \in Nat
        /\ Millis(tat) <= Millis(time) + MillisCeil(tat - time)
    BY <1>1, MillisFacts
  <2> QED
    BY <2>1
<1>3. entry \in Entry /\ entry # None
  BY <1>2, CommandAssumption, ExactAssumption DEF Entry, Nanos
<1>4. SetPx(k, tat) = [db EXCEPT ![k] = entry]
  BY DEF SetPx
<1>5. entry.tat = tat /\ entry.deadline = Millis(time) + MillisCeil(tat - time)
  OBVIOUS
<1> HIDE DEF entry
<1>6. SetPx(k, tat)[k] = entry
  BY <1>4 DEF TypeOK
<1> QED
  BY <1>2, <1>3, <1>4, <1>5, <1>6 DEF TypeOK

\* Until the clock moves back no TAT is more than a burst ahead.
Ahead ==
    backs = 0 =>
        \A k \in Keys : db[k] # None /\ db[k].tat \in Nat => db[k].tat <= time + BoMicros(k)

\* What one run of the script does: it raises the key's debt by the cost if it
\* grants the request, leaves every other debt alone, and leaves no TAT that is
\* more than a burst ahead unless it refuses to run.
LEMMA ScriptRun ==
    ASSUME TypeOK, Deadlines, NEW k \in Keys, NEW cost \in Nat,
           time' = time, db' = ScriptEffect(k, cost)
    PROVE  /\ db' \in [Keys -> Entry \cup {None}]
           /\ Deadlines'
           /\ \A j \in Keys \ {k} : db'[j] = db[j]
           /\ Debt(k)' = IF ~ScriptFails(k, cost) /\ ScriptAllows(k, cost)
                         THEN Debt(k) + EiMicros(k) * cost
                         ELSE Debt(k)
           /\ ~ScriptFails(k, cost) => ~Capped(k)'
           /\ db'[k] = db[k] \/ (/\ db'[k] # None
                                /\ db'[k].tat \in Nat
                                /\ db'[k].tat <= time + BoMicros(k))
<1> DEFINE p == EiMicros(k) * cost
           new == ScriptNewTat(k, cost)
<1>1. /\ time \in Nat /\ Debt(k) \in Nat /\ Debt(k) <= BoMicros(k) /\ BoMicros(k) \in Nat
      /\ p \in Nat /\ new = time + Debt(k) + p /\ ScriptTat(k) = time + Debt(k)
      /\ ScriptAllows(k, cost) <=> Debt(k) + p <= BoMicros(k)
      /\ ~ScriptFails(k, cost) => new <= MaxExact /\ BoMicros(k) # 0
  BY StoredTypes, DebtTypes, Micros, ScriptVerdict
<1> HIDE DEF p, new
<1>2. ASSUME NEW tat \in Nat, time <= tat, tat <= time + BoMicros(k), tat <= MaxExact,
             db' = SetPx(k, tat)
      PROVE  /\ db' \in [Keys -> Entry \cup {None}]
             /\ Deadlines'
             /\ \A j \in Keys \ {k} : db'[j] = db[j]
             /\ Debt(k)' = tat - time
             /\ ~Capped(k)'
             /\ db'[k] # None /\ db'[k].tat \in Nat /\ db'[k].tat <= time + BoMicros(k)
  <2>1. /\ db' \in [Keys -> Entry \cup {None}]
        /\ db'[k] # None /\ db'[k].tat = tat
        /\ db'[k].deadline \in Nat /\ Millis(tat) <= db'[k].deadline
        /\ \A j \in Keys \ {k} : db'[j] = db[j]
    BY <1>2, SetPxFacts
  <2>2. Deadlines'
    BY <2>1 DEF Deadlines
  <2>3. Millis(time) \in Nat /\ Millis(tat) \in Nat /\ Millis(time) <= Millis(tat)
    BY <1>1, <1>2, MillisFacts
  <2>4. ~Expired(k)'
    BY <2>1, <2>3 DEF Expired
  <2>5. Stored(k)' = tat
    BY <2>1, <2>4 DEF Stored
  <2>6. Debt(k)' = tat - time /\ ~Capped(k)'
    BY <1>1, <1>2, <2>5 DEF Debt, Capped, AtMost, AtLeast
  <2> QED
    BY <1>2, <2>1, <2>2, <2>6
<1>3. CASE ScriptFails(k, cost)
  <2>1. db' = db
    BY <1>3 DEF ScriptEffect
  <2> QED
    BY <1>3, <2>1 DEF Deadlines, Debt, Stored, Expired, TypeOK
<1>4. CASE ~ScriptFails(k, cost) /\ ScriptAllows(k, cost) /\ new > time
  <2>1. db' = SetPx(k, new)
    BY <1>4 DEF ScriptEffect, new
  <2>2. new \in Nat /\ time <= new /\ new <= time + BoMicros(k) /\ new <= MaxExact
    BY <1>1, <1>4
  <2>3. new - time = Debt(k) + p
    BY <1>1
  <2> QED
    BY <1>2, <1>4, <2>1, <2>2, <2>3 DEF p
<1>5. CASE ~ScriptFails(k, cost) /\ ScriptAllows(k, cost) /\ ~(new > time)
  <2>1. db' = db
    BY <1>5 DEF ScriptEffect, new
  <2>2. Debt(k) = 0 /\ p = 0
    BY <1>1, <1>5
  <2>3. ~Capped(k)
    BY <1>1, <1>5, <2>2 DEF Debt, Capped, AtMost, AtLeast
  <2>4. Debt(k)' = Debt(k) /\ Capped(k)' = Capped(k)
    BY <2>1 DEF Debt, Capped, Stored, Expired
  <2> QED
    BY <1>5, <2>1, <2>2, <2>3, <2>4 DEF Deadlines, TypeOK, p
<1>6. CASE ~ScriptFails(k, cost) /\ ~ScriptAllows(k, cost) /\ Capped(k)
  <2>1. db' = SetPx(k, ScriptTat(k))
    BY <1>6 DEF ScriptEffect
  <2>2. ScriptTat(k) \in Nat /\ time <= ScriptTat(k) /\ ScriptTat(k) <= time + BoMicros(k)
        /\ ScriptTat(k) <= MaxExact /\ ScriptTat(k) - time = Debt(k)
    BY <1>1, <1>6, ExactAssumption DEF Nanos
  <2> QED
    BY <1>2, <1>6, <2>1, <2>2
<1>7. CASE ~ScriptFails(k, cost) /\ ~ScriptAllows(k, cost) /\ ~Capped(k)
  <2>1. db' = db
    BY <1>7 DEF ScriptEffect
  <2>2. Debt(k)' = Debt(k) /\ Capped(k)' = Capped(k)
    BY <2>1 DEF Debt, Capped, Stored, Expired
  <2> QED
    BY <1>7, <2>1, <2>2 DEF Deadlines, TypeOK
<1> QED
  BY <1>3, <1>4, <1>5, <1>6, <1>7
(***************************************************************************)
(* The inductive invariant.                                                *)
(***************************************************************************)
\* Nobody asks for more than a burst.
CommandsFit ==
    \A t \in Tasks :
        /\ call[t] # None => call[t].cost \in Costs(call[t].key)
        /\ late[t] # None => late[t].cost \in Costs(late[t].key)

Inv == TypeOK /\ Deadlines /\ Ahead /\ CommandsFit

LEMMA InitInv == Init => Inv
<1> SUFFICES ASSUME Init PROVE Inv
  OBVIOUS
<1>1. TypeOK
  <2>1. time \in Time /\ backs \in 0 .. MaxBack /\ losses \in 0 .. MaxLosses
    BY BoundAssumption DEF Init, Time
  <2>2. loaded \in BOOLEAN
    BY DEF Init
  <2>3. /\ db \in [Keys -> Entry \cup {None}]
        /\ call \in [Tasks -> Call \cup {None}]
        /\ late \in [Tasks -> Command \cup {None}]
    BY DEF Init
  <2> QED
    BY <2>1, <2>2, <2>3 DEF TypeOK
<1>2. Deadlines /\ Ahead
  BY DEF Init, Deadlines, Ahead
<1>3. CommandsFit
  BY DEF Init, CommandsFit
<1> QED
  BY <1>1, <1>2, <1>3 DEF Inv

\* A command on its way, and what a step of the server that runs it leaves.
LEMMA CommandTypes ==
    ASSUME Inv, NEW t \in Tasks
    PROVE  /\ call[t] # None => /\ call[t] \in Call /\ call[t].key \in Keys
                                /\ call[t].cost \in Nat
                                /\ call[t].cost \in Costs(call[t].key)
           /\ late[t] # None => /\ late[t] \in Command /\ late[t].key \in Keys
                                /\ late[t].cost \in Nat
                                /\ late[t].cost \in Costs(late[t].key)
  BY DEF Inv, TypeOK, Call, Command, CommandsFit

\* What a run of the script leaves of the invariant.
LEMMA ScriptKeeps ==
    ASSUME Inv, NEW k \in Keys, NEW cost \in Nat,
           UNCHANGED <<time, backs>>, db' = ScriptEffect(k, cost)
    PROVE  db' \in [Keys -> Entry \cup {None}] /\ Deadlines' /\ Ahead'
<1>1. /\ db' \in [Keys -> Entry \cup {None}] /\ Deadlines'
      /\ \A j \in Keys \ {k} : db'[j] = db[j]
      /\ db'[k] = db[k] \/ (/\ db'[k] # None
                           /\ db'[k].tat \in Nat
                           /\ db'[k].tat <= time + BoMicros(k))
  BY ScriptRun DEF Inv
<1>2. Ahead'
  <2> SUFFICES ASSUME backs = 0, NEW j \in Keys, db'[j] # None, db'[j].tat \in Nat
               PROVE  db'[j].tat <= time + BoMicros(j)
    BY DEF Ahead
  <2>1. CASE db'[j] = db[j]
    BY <2>1 DEF Inv, Ahead
  <2> QED
    BY <1>1, <2>1
<1> QED
  BY <1>1, <1>2

\* Sending, receiving and giving up change only the commands.
LEMMA ClientStep ==
    ASSUME Inv, NEW t \in Tasks, Send(t) \/ Reload(t) \/ Receive(t) \/ GiveUp(t)
    PROVE  Inv'
<1>1. UNCHANGED <<time, db, backs, losses>>
  BY DEF Send, Reload, Receive, GiveUp
<1>2. Deadlines' /\ Ahead'
  BY <1>1 DEF Inv, Deadlines, Ahead
<1>3. /\ call \in [Tasks -> Call \cup {None}] /\ late \in [Tasks -> Command \cup {None}]
      /\ loaded \in BOOLEAN
  BY DEF Inv, TypeOK
<1>4. /\ call' \in [Tasks -> Call \cup {None}] /\ late' \in [Tasks -> Command \cup {None}]
      /\ loaded' \in BOOLEAN
      /\ CommandsFit'
  <2>1. CASE Send(t)
    <3>1. PICK k \in Keys : \E cost \in Costs(k) :
             call' = [call EXCEPT ![t] = [key |-> k, cost |-> cost, pc |-> "sent"]]
      BY <2>1 DEF Send
    <3>2. PICK cost \in Costs(k) :
             call' = [call EXCEPT ![t] = [key |-> k, cost |-> cost, pc |-> "sent"]]
      BY <3>1
    <3>3. cost \in Nat
      BY <3>2, Micros DEF Costs
    <3> QED
      BY <1>3, <2>1, <3>2, <3>3 DEF Send, Inv, CommandsFit, Call
  <2>2. CASE Reload(t)
    <3>1. call[t] \in Call /\ call[t].cost \in Costs(call[t].key)
      BY <2>2, CommandTypes DEF Reload
    <3>2. [call[t] EXCEPT !.pc = "resent"] \in Call
      BY <3>1 DEF Call
    <3>3. call' = [call EXCEPT ![t] = [call[t] EXCEPT !.pc = "resent"]] /\ late' = late
      BY <2>2 DEF Reload
    <3>4. [call[t] EXCEPT !.pc = "resent"].cost \in Costs([call[t] EXCEPT !.pc = "resent"].key)
      BY <3>1 DEF Call
    <3>5. CommandsFit'
      BY <1>3, <3>3, <3>4 DEF Inv, CommandsFit
    <3> QED
      BY <1>3, <2>2, <3>2, <3>3, <3>5 DEF Reload
  <2>3. CASE Receive(t)
    BY <1>3, <2>3 DEF Receive, Inv, CommandsFit
  <2>4. CASE GiveUp(t)
    <3>1. call[t] \in Call /\ call[t].cost \in Costs(call[t].key)
      BY <2>4, CommandTypes DEF GiveUp
    <3>2. [key |-> call[t].key, cost |-> call[t].cost] \in Command
      BY <3>1 DEF Call, Command
    <3>3. /\ late' = late \/ late' = [late EXCEPT ![t] = [key |-> call[t].key, cost |-> call[t].cost]]
          /\ call' = [call EXCEPT ![t] = None]
          /\ loaded' = loaded
      BY <2>4 DEF GiveUp
    <3> QED
      BY <1>3, <3>1, <3>2, <3>3 DEF Inv, CommandsFit
  <2> QED
    BY <2>1, <2>2, <2>3, <2>4
<1> QED
  BY <1>1, <1>2, <1>4 DEF Inv, TypeOK

\* The server runs a command, its caller waiting or gone.
LEMMA ServerStep ==
    ASSUME Inv, NEW t \in Tasks, Execute(t) \/ ExecuteLate(t)
    PROVE  Inv'
<1>1. UNCHANGED <<time, loaded, backs, losses>>
  BY DEF Execute, ExecuteLate
<1>2. /\ call \in [Tasks -> Call \cup {None}] /\ late \in [Tasks -> Command \cup {None}]
      /\ db \in [Keys -> Entry \cup {None}]
  BY DEF Inv, TypeOK
<1>3. db' \in [Keys -> Entry \cup {None}] /\ Deadlines' /\ Ahead'
  <2>1. CASE db' = db
    BY <1>1, <1>2, <2>1 DEF Inv, Deadlines, Ahead
  <2>2. CASE call[t] # None /\ db' = ScriptEffect(call[t].key, call[t].cost)
    BY <1>1, <2>2, CommandTypes, ScriptKeeps
  <2>3. CASE late[t] # None /\ db' = ScriptEffect(late[t].key, late[t].cost)
    BY <1>1, <2>3, CommandTypes, ScriptKeeps
  <2> QED
    BY <2>1, <2>2, <2>3 DEF Execute, ExecuteLate
<1>4. /\ call' \in [Tasks -> Call \cup {None}] /\ late' \in [Tasks -> Command \cup {None}]
      /\ CommandsFit'
  <2>1. CASE Execute(t)
    <3>1. call[t] \in Call /\ call[t].cost \in Costs(call[t].key)
      BY <2>1, CommandTypes DEF Execute
    <3>2. /\ late' = late
          /\ \/ call' = [call EXCEPT ![t] = None]
             \/ \E pc \in {"answered", "noscript"} :
                  call' = [call EXCEPT ![t] = [call[t] EXCEPT !.pc = pc]]
      BY <2>1 DEF Execute
    <3>3. CASE call' = [call EXCEPT ![t] = None]
      BY <1>2, <3>2, <3>3 DEF Inv, CommandsFit
    <3>4. ASSUME NEW pc \in {"answered", "noscript"},
                 call' = [call EXCEPT ![t] = [call[t] EXCEPT !.pc = pc]]
          PROVE  call' \in [Tasks -> Call \cup {None}] /\ CommandsFit'
      <4>1. /\ [call[t] EXCEPT !.pc = pc] \in Call
            /\ [call[t] EXCEPT !.pc = pc].cost \in Costs([call[t] EXCEPT !.pc = pc].key)
        BY <3>1 DEF Call
      <4> QED
        BY <1>2, <3>2, <3>4, <4>1 DEF Inv, CommandsFit
    <3> QED
      BY <1>2, <3>2, <3>3, <3>4
  <2>2. CASE ExecuteLate(t)
    BY <1>2, <2>2 DEF ExecuteLate, Inv, CommandsFit
  <2> QED
    BY <2>1, <2>2
<1> QED
  BY <1>1, <1>3, <1>4 DEF Inv, TypeOK

\* The server's clock and its keys.
LEMMA EnvironmentStep ==
    ASSUME Inv, \/ Tick \/ MoveBack \/ Flush
                \/ \E k \in Keys : Evict(k) \/ Lose(k)
    PROVE  Inv'
<1>1. CommandsFit'
  BY DEF Inv, CommandsFit, Tick, MoveBack, Flush, Evict, Lose
<1>2. CASE Tick
  <2>1. time \in Nat /\ \A k \in Keys : BoMicros(k) \in Nat
    BY StoredTypes, Micros, BoundAssumption DEF Inv, TypeOK, Time
  <2>2. Ahead'
    BY <1>2, <2>1 DEF Inv, Ahead, Tick
  <2>3. TypeOK'
    BY <1>2, BoundAssumption DEF Inv, TypeOK, Tick, Time
  <2> QED
    BY <1>1, <1>2, <2>2, <2>3 DEF Inv, Deadlines, Tick
<1>3. CASE MoveBack
  <2>1. TypeOK' /\ backs' # 0
    BY <1>3, BoundAssumption DEF Inv, TypeOK, MoveBack, Time
  <2> QED
    BY <1>1, <1>3, <2>1 DEF Inv, Deadlines, Ahead, MoveBack
<1>4. CASE Flush
  BY <1>1, <1>4 DEF Inv, TypeOK, Deadlines, Ahead, Flush
<1>5. ASSUME NEW k \in Keys, Evict(k) PROVE Inv'
  BY <1>1, <1>5 DEF Inv, TypeOK, Deadlines, Ahead, Evict
<1>6. ASSUME NEW k \in Keys, Lose(k) PROVE Inv'
  <2> DEFINE junk == [tat |-> Junk, deadline |-> Never]
  <2>1. junk \in Entry /\ junk # None /\ junk.tat \notin Nat
    BY JunkAssumption, BoundAssumption, CommandAssumption DEF Entry, Never
  <2>2. db' = [db EXCEPT ![k] = None] \/ db' = [db EXCEPT ![k] = junk]
    BY <1>6 DEF Lose
  <2> HIDE DEF junk
  <2>3. losses' \in 0 .. MaxLosses
    BY <1>6, BoundAssumption DEF Lose, Inv, TypeOK
  <2>4. UNCHANGED <<time, loaded, call, late, backs>>
    BY <1>6 DEF Lose
  <2>5. db' \in [Keys -> Entry \cup {None}]
    BY <2>1, <2>2 DEF Inv, TypeOK
  <2>6. Deadlines' /\ Ahead'
    BY <2>1, <2>2, <2>4 DEF Inv, TypeOK, Deadlines, Ahead
  <2> QED
    BY <1>1, <2>3, <2>4, <2>5, <2>6 DEF Inv, TypeOK
<1> QED
  BY <1>2, <1>3, <1>4, <1>5, <1>6

LEMMA InvStep == Inv /\ [Next]_vars => Inv'
<1> SUFFICES ASSUME Inv, [Next]_vars PROVE Inv'
  OBVIOUS
<1>1. CASE UNCHANGED vars
  BY <1>1 DEF vars, Inv, TypeOK, Deadlines, Ahead, CommandsFit
<1> QED
  BY <1>1, ClientStep, ServerStep, EnvironmentStep DEF Next

\* RedisStorage keeps its types.
THEOREM RedisTypeCorrect == Spec => []TypeOK
<1>1. Inv => TypeOK
  BY DEF Inv
<1> QED
  BY <1>1, InitInv, InvStep, PTL DEF Spec
(***************************************************************************)
(* The answers.                                                            *)
(***************************************************************************)
\* For a TAT that is not more than a burst ahead the script and check_gcra compute
\* the same TATs, neither saturates, and their limits agree.
LEMMA SameTats ==
    ASSUME TypeOK, NEW k \in Keys, NEW cost \in Nat, ~Capped(k), ~ScriptFails(k, cost),
           NEW tat, tat = IF Stored(k) \in Nat THEN Stored(k) ELSE None
    PROVE  /\ CurrentTat(tat, time) = ScriptTat(k)
           /\ NewTat(tat, time, EiMicros(k), cost) = ScriptNewTat(k, cost)
           /\ BoMicros(k) \div EiMicros(k) = Burst(k)
           /\ AllowAt(tat, time, EiMicros(k), BoMicros(k), cost) <= time
                <=> ScriptAllows(k, cost)
           /\ ~ScriptAllows(k, cost) =>
                AllowAt(tat, time, EiMicros(k), BoMicros(k), cost)
                    = ScriptNewTat(k, cost) - BoMicros(k)
           /\ ScriptAllows(k, cost) =>
                SaturatingSub(BoMicros(k), ScriptNewTat(k, cost) - time)
                    = BoMicros(k) - (ScriptNewTat(k, cost) - time)
<1> DEFINE p == EiMicros(k) * cost
           new == ScriptNewTat(k, cost)
           bo == BoMicros(k)
           ei == EiMicros(k)
<1>1. /\ time \in Nat /\ ei \in Nat \ {0} /\ Burst(k) \in Nat \ {0} /\ bo \in Nat
      /\ ScriptTat(k) \in Nat /\ ScriptTat(k) = time + Debt(k) /\ Debt(k) \in Nat
  BY StoredTypes, Micros, DebtTypes
<1>2. /\ p \in Nat /\ new = time + Debt(k) + p /\ new <= MaxExact /\ MaxExact <= U64Max
      /\ bo = ei * Burst(k)
      /\ ScriptAllows(k, cost) <=> Debt(k) + p <= bo
  BY ScriptVerdict
<1>3. MaxExact \in Nat /\ U64Max \in Nat
  BY ExactAssumption, U64Assumption DEF Nanos
<1>4. CurrentTat(tat, time) = ScriptTat(k)
  BY <1>1, NoneAssumption DEF CurrentTat, ScriptTat, Capped, AtLeast, AtMost
<1>5. bo \div ei = Burst(k)
  <2>1. ASSUME NEW m \in Nat \ {0}, NEW b \in Nat PROVE (m * b) \div m = b
    OBVIOUS
  <2> QED
    BY <1>1, <1>2, <2>1
<1>6. SaturatingMul(ei, cost) = AtMost(p, U64Max)
  BY DEF SaturatingMul
<1>7. NewTat(tat, time, ei, cost) = AtMost(ScriptTat(k) + AtMost(p, U64Max), U64Max)
  BY <1>4, <1>6 DEF NewTat, SaturatingAdd
<1> HIDE DEF p, new, bo, ei
<1>8. NewTat(tat, time, ei, cost) = new
  BY <1>1, <1>2, <1>3, <1>7 DEF AtMost
<1>9. AllowAt(tat, time, ei, bo, cost) = AtLeast(new - bo, 0)
  BY <1>8 DEF AllowAt, SaturatingSub
<1>10. /\ AllowAt(tat, time, ei, bo, cost) <= time <=> ScriptAllows(k, cost)
       /\ ~ScriptAllows(k, cost) => AllowAt(tat, time, ei, bo, cost) = new - bo
       /\ ScriptAllows(k, cost) => SaturatingSub(bo, new - time) = bo - (new - time)
  BY <1>1, <1>2, <1>9 DEF AtLeast, SaturatingSub
<1> QED
  BY <1>4, <1>5, <1>8, <1>10 DEF new, bo, ei

\* gcra.lua: "The Rust reference implementation is `check_gcra`".
THEOREM ScriptAlwaysMatches == Spec => []ScriptMatchesReference
<1>1. Inv => ScriptMatchesReference
  <2> SUFFICES ASSUME Inv, NEW k \in Keys, NEW cost \in Costs(k),
                      ~Capped(k), ~ScriptFails(k, cost),
                      NEW tat, tat = IF Stored(k) \in Nat THEN Stored(k) ELSE None,
                      NEW field \in DOMAIN ScriptReply(k, cost)
               PROVE  ScriptReply(k, cost)[field]
                        = CheckGcra(tat, time, EiMicros(k), BoMicros(k), cost)[field]
    BY Zenon DEF ScriptMatchesReference
  <2> DEFINE ei == EiMicros(k)
             bo == BoMicros(k)
             reference == CheckGcra(tat, time, ei, bo, cost)
  <2>1. TypeOK /\ cost \in Nat
    BY Micros DEF Inv, Costs
  <2>2. /\ CurrentTat(tat, time) = ScriptTat(k)
        /\ NewTat(tat, time, ei, cost) = ScriptNewTat(k, cost)
        /\ bo \div ei = Burst(k)
        /\ Allows(tat, time, ei, bo, cost) <=> ScriptAllows(k, cost)
        /\ ~ScriptAllows(k, cost) =>
             AllowAt(tat, time, ei, bo, cost) = ScriptNewTat(k, cost) - bo
        /\ ScriptAllows(k, cost) =>
             SaturatingSub(bo, ScriptNewTat(k, cost) - time)
                 = bo - (ScriptNewTat(k, cost) - time)
    BY <2>1, SameTats DEF Allows
  <2>3. CASE ScriptAllows(k, cost)
    <3>1. reference = Granted(tat, time, ei, bo, cost)
      BY <2>2, <2>3 DEF CheckGcra
    <3>2. /\ reference.allowed = TRUE
          /\ reference.limit = Burst(k)
          /\ reference.remaining = (bo - (ScriptNewTat(k, cost) - time)) \div ei
          /\ reference.reset_after = ScriptNewTat(k, cost) - time
      BY <2>2, <2>3, <3>1 DEF Granted
    <3>3. ScriptReply(k, cost) =
             [allowed     |-> TRUE,
              limit       |-> Burst(k),
              remaining   |-> (bo - (ScriptNewTat(k, cost) - time)) \div ei,
              reset_after |-> ScriptNewTat(k, cost) - time]
      BY <2>3 DEF ScriptReply
    <3>4. field \in {"allowed", "limit", "remaining", "reset_after"}
      BY <3>3
    <3>5. /\ ScriptReply(k, cost).allowed = reference.allowed
          /\ ScriptReply(k, cost).limit = reference.limit
          /\ ScriptReply(k, cost).remaining = reference.remaining
          /\ ScriptReply(k, cost).reset_after = reference.reset_after
      <4>1. ScriptReply(k, cost).allowed = reference.allowed
        <5>1. ScriptReply(k, cost).allowed = TRUE
          BY <3>3
        <5> HIDE DEF reference
        <5> QED
          BY <3>2, <5>1, Zenon
      <4>2. ScriptReply(k, cost).limit = reference.limit
        BY <3>2, <3>3
      <4>3. ScriptReply(k, cost).remaining = reference.remaining
        BY <3>2, <3>3
      <4>4. ScriptReply(k, cost).reset_after = reference.reset_after
        BY <3>2, <3>3
      <4> QED
        BY <4>1, <4>2, <4>3, <4>4
    <3> QED
      BY <3>4, <3>5, Zenon
  <2>4. CASE ~ScriptAllows(k, cost)
    <3>1. reference = Denied(tat, time, ei, bo, cost)
      BY <2>2, <2>4 DEF CheckGcra
    <3>2. /\ reference.allowed = FALSE
          /\ reference.limit = Burst(k)
          /\ reference.retry_after = ScriptNewTat(k, cost) - bo - time
          /\ reference.reset_after = ScriptTat(k) - time
      BY <2>2, <2>4, <3>1 DEF Denied
    <3>3. ScriptReply(k, cost) =
             [allowed     |-> FALSE,
              limit       |-> Burst(k),
              retry_after |-> ScriptNewTat(k, cost) - bo - time,
              reset_after |-> ScriptTat(k) - time]
      BY <2>4 DEF ScriptReply
    <3>4. field \in {"allowed", "limit", "retry_after", "reset_after"}
      BY <3>3
    <3>5. /\ ScriptReply(k, cost).allowed = reference.allowed
          /\ ScriptReply(k, cost).limit = reference.limit
          /\ ScriptReply(k, cost).retry_after = reference.retry_after
          /\ ScriptReply(k, cost).reset_after = reference.reset_after
      <4>1. ScriptReply(k, cost).allowed = reference.allowed
        <5>1. ScriptReply(k, cost).allowed = FALSE
          BY <3>3
        <5> HIDE DEF reference
        <5> QED
          BY <3>2, <5>1, Zenon
      <4>2. ScriptReply(k, cost).limit = reference.limit
        BY <3>2, <3>3
      <4>3. ScriptReply(k, cost).retry_after = reference.retry_after
        BY <3>2, <3>3
      <4>4. ScriptReply(k, cost).reset_after = reference.reset_after
        BY <3>2, <3>3
      <4> QED
        BY <4>1, <4>2, <4>3, <4>4
    <3> QED
      BY <3>4, <3>5, Zenon
  <2> QED
    BY <2>3, <2>4
<1> QED
  BY <1>1, InitInv, InvStep, PTL DEF Spec

\* gcra.lua: "otherwise every retry would meet the old TAT again": a command that
\* runs never leaves its key more than a burst ahead.
THEOREM CapAlwaysStored == Spec => CapStored
<1>1. ASSUME Inv, NEW k \in Keys, NEW cost \in Nat, time' = time,
             db' = ScriptEffect(k, cost), ~ScriptFails(k, cost)
      PROVE  ~Capped(k)'
  BY <1>1, ScriptRun DEF Inv
<1>2. ASSUME Inv, [Next]_vars, NEW k \in Keys, NEW t \in Tasks PROVE StoresCap(k, t)
  <2>1. ASSUME Execute(t), Runs(call[t], k) PROVE ~Capped(k)'
    <3>1. call[t] # None /\ time' = time
      BY <2>1 DEF Execute
    <3>2. call[t].key = k /\ ~ScriptFails(k, call[t].cost) /\ loaded
      BY <2>1, Zenon DEF Runs
    <3>3. db' = ScriptEffect(call[t].key, call[t].cost)
      BY <2>1, <3>2, Zenon DEF Execute
    <3>4. call[t].cost \in Nat
      BY <1>2, <3>1, CommandTypes
    <3> QED
      BY <1>1, <1>2, <3>1, <3>2, <3>3, <3>4
  <2>2. ASSUME ExecuteLate(t), Runs(late[t], k) PROVE ~Capped(k)'
    <3>1. late[t] # None /\ time' = time
      BY <2>2 DEF ExecuteLate
    <3>2. late[t].key = k /\ ~ScriptFails(k, late[t].cost) /\ loaded
      BY <2>2, Zenon DEF Runs
    <3>3. db' = ScriptEffect(late[t].key, late[t].cost)
      BY <2>2, <3>2, Zenon DEF ExecuteLate
    <3>4. late[t].cost \in Nat
      BY <1>2, <3>1, CommandTypes
    <3> QED
      BY <1>1, <1>2, <3>1, <3>2, <3>3, <3>4
  <2> QED
    BY <2>1, <2>2 DEF StoresCap
<1>3. Inv /\ [Next]_vars => [\A k \in Keys, t \in Tasks : StoresCap(k, t)]_vars
  BY <1>2
<1> QED
  BY <1>3, InitInv, InvStep, PTL DEF Spec, CapStored

(***************************************************************************)
(* RedisStorage implements TokenBucket.                                    *)
(***************************************************************************)
\* What a key owes follows from its TAT alone: expiry is invisible.
DebtsFromTats ==
    \A k \in Keys :
        /\ Debt(k) \in Nat
        /\ Debt(k) <= BoMicros(k)
        /\ Debt(k) = IF db[k] # None /\ db[k].tat \in Nat
                     THEN AtMost(AtLeast(db[k].tat - time, 0), BoMicros(k))
                     ELSE 0

LEMMA DebtsNow == Inv => DebtsFromTats
  BY DebtOfEntry, DebtTypes DEF Inv, DebtsFromTats

LEMMA DebtsNext == Inv' => DebtsFromTats'
  BY DebtsNow, PTL

\* While the clock has not moved back, a tick pays one unit of every debt.
LEMMA TickPays ==
    ASSUME Inv, Inv', Tick, NEW k \in Keys
    PROVE  /\ \/ Debt(k)' = (IF Debt(k) > 0 THEN Debt(k) - 1 ELSE 0)
              \/ backs > 0 /\ Debt(k) = BoMicros(k) /\ Debt(k)' = Debt(k)
           /\ Debt(k)' \in Nat
<1>1. /\ Debt(k) \in Nat
      /\ Debt(k)' \in Nat
      /\ Debt(k) = IF db[k] # None /\ db[k].tat \in Nat
                   THEN AtMost(AtLeast(db[k].tat - time, 0), BoMicros(k))
                   ELSE 0
      /\ Debt(k)' = IF db'[k] # None /\ db'[k].tat \in Nat
                    THEN AtMost(AtLeast(db'[k].tat - time', 0), BoMicros(k))
                    ELSE 0
  BY DebtsNow, DebtsNext DEF DebtsFromTats
<1>2. time \in Nat /\ time' = time + 1 /\ db' = db /\ BoMicros(k) \in Nat /\ backs \in Nat
  BY StoredTypes, Micros, BoundAssumption DEF Inv, TypeOK, Tick
<1>3. CASE db[k] # None /\ db[k].tat \in Nat
  <2>1. backs = 0 => db[k].tat <= time + BoMicros(k)
    BY <1>3 DEF Inv, Ahead
  <2> QED
    BY <1>1, <1>2, <1>3, <2>1 DEF AtMost, AtLeast
<1>4. CASE ~(db[k] # None /\ db[k].tat \in Nat)
  BY <1>1, <1>2, <1>4
<1> QED
  BY <1>3, <1>4

\* What a step that leaves the clock and the key's entry alone leaves of its debt.
LEMMA SameDebt ==
    ASSUME time' = time, NEW k \in Keys, db'[k] = db[k]
    PROVE  Debt(k)' = Debt(k)
  BY DEF Debt, Stored, Expired

\* The requests that wait, as the bucket sees them.
Asked == [t \in Tasks |-> Pending(t)]

\* A step of one task leaves the requests of the others.
LEMMA PendingStep ==
    ASSUME TypeOK, NEW t \in Tasks, NEW c, call' = [call EXCEPT ![t] = c]
    PROVE  /\ call'[t] = c
           /\ Asked' = [Asked EXCEPT ![t] = Pending(t)']
<1>1. call'[t] = c /\ \A u \in Tasks \ {t} : call'[u] = call[u]
  BY DEF TypeOK
<1>2. \A u \in Tasks \ {t} : Pending(u)' = Pending(u)
  BY <1>1 DEF Pending
<1> QED
  BY <1>1, <1>2 DEF Asked

LEMMA SamePending ==
    ASSUME call' = call
    PROVE  Asked' = Asked
  BY DEF Asked, Pending

\* A request that was sent is a request of the bucket.
LEMMA PendingTypes ==
    ASSUME Inv, NEW t \in Tasks, call[t] # None
    PROVE  /\ call[t] \in Call
           /\ Asked[t] = Pending(t)
           /\ call[t].pc # "answered" =>
                /\ Pending(t) = [key |-> call[t].key, cost |-> call[t].cost]
                /\ Pending(t) # None
<1>1. call[t] \in Call
  BY DEF Inv, TypeOK
<1>2. [key |-> call[t].key, cost |-> call[t].cost] \in Command
  BY <1>1 DEF Call, Command
<1> QED
  BY <1>1, <1>2, CommandAssumption DEF Asked, Pending

LEMMA BucketTick ==
    ASSUME Inv, Inv', Tick
    PROVE  Bucket!Tick
<1>1. [k \in Keys |-> Debt(k)]' \in [Keys -> Nat]
  BY TickPays
<1>2. \A k \in Keys : \/ Debt(k)' = Bucket!Less(Debt(k))
                      \/ backs > 0 /\ Debt(k) = BoMicros(k) /\ Debt(k)' = Debt(k)
  BY TickPays DEF Bucket!Less
<1>3. UNCHANGED <<late, backs, losses>> /\ Asked' = Asked
  BY SamePending DEF Tick
<1> QED
  BY <1>1, <1>2, <1>3 DEF Bucket!Tick, Asked

LEMMA BucketMoveBack ==
    ASSUME Inv, Inv', MoveBack
    PROVE  \E d \in 1 .. MaxTime : Bucket!MoveBack(d)
<1>1. PICK earlier \in 0 .. time - 1 : time' = earlier
  BY DEF MoveBack
<1> DEFINE d == time - earlier
<1>2. /\ time \in Nat /\ MaxTime \in Nat /\ time <= MaxTime /\ earlier \in Nat /\ earlier < time
      /\ backs \in Nat /\ backs' = backs + 1 /\ losses' = losses /\ db' = db
  BY <1>1, BoundAssumption DEF Inv, TypeOK, Time, MoveBack
<1>3. d \in 1 .. MaxTime /\ d \in Nat
  BY <1>2
<1>4. ASSUME NEW k \in Keys
      PROVE  /\ Debt(k)' \in Nat
             /\ Debt(k)' >= Debt(k)
             /\ Debt(k)' <= Debt(k) + d
             /\ Debt(k)' <= BoMicros(k)
  <2>1. /\ Debt(k) = IF db[k] # None /\ db[k].tat \in Nat
                     THEN AtMost(AtLeast(db[k].tat - time, 0), BoMicros(k))
                     ELSE 0
        /\ Debt(k)' = IF db'[k] # None /\ db'[k].tat \in Nat
                      THEN AtMost(AtLeast(db'[k].tat - time', 0), BoMicros(k))
                      ELSE 0
    BY DebtsNow, DebtsNext DEF DebtsFromTats
  <2>2. BoMicros(k) \in Nat
    BY Micros
  <2> QED
    BY <1>1, <1>2, <2>1, <2>2 DEF AtMost, AtLeast
<1>5. [k \in Keys |-> Debt(k)]' \in [Keys -> Nat]
  BY <1>4
<1>6. (backs > 0)'
  BY <1>2
<1>7. late' = late /\ Asked' = Asked
  BY SamePending DEF MoveBack
<1>8. Bucket!MoveBack(d)
  BY <1>2, <1>4, <1>5, <1>6, <1>7 DEF Bucket!MoveBack, Asked
<1> QED
  BY <1>3, <1>8

LEMMA BucketForget ==
    ASSUME Inv, NEW k \in Keys, Lose(k)
    PROVE  Bucket!Forget(k)
<1>1. /\ UNCHANGED <<time, backs>> /\ losses' = losses + 1
      /\ db' = [db EXCEPT ![k] = None] \/ db' = [db EXCEPT ![k] = [tat |-> Junk, deadline |-> Never]]
  BY DEF Lose
<1>2. db \in [Keys -> Entry \cup {None}]
  BY DEF Inv, TypeOK
<1>3. db'[k] = None \/ db'[k] = [tat |-> Junk, deadline |-> Never]
  BY <1>1, <1>2
<1>4. Debt(k)' = 0
  BY <1>3, JunkAssumption, NoneAssumption DEF Debt, Stored
<1>5. \A j \in Keys \ {k} : Debt(j)' = Debt(j)
  BY <1>1, <1>2, SameDebt
<1>6. [j \in Keys |-> Debt(j)]' = [[j \in Keys |-> Debt(j)] EXCEPT ![k] = 0]
  BY <1>4, <1>5
<1>7. late' = late /\ Asked' = Asked
  BY SamePending DEF Lose
<1> QED
  BY <1>1, <1>6, <1>7 DEF Bucket!Forget, Asked

\* The debts, as the bucket sees them.
Debts == [k \in Keys |-> Debt(k)]

\* A run of the script charges the cost, or nothing.
LEMMA BucketCharge ==
    ASSUME Inv, NEW request, request.key \in Keys, request.cost \in Costs(request.key),
           time' = time, db' = ScriptEffect(request.key, request.cost)
    PROVE  Bucket!Charge(request) \/ Debts' = Debts
<1> DEFINE k == request.key
           cost == request.cost
<1>1. cost \in Nat
  BY Micros DEF Costs
<1>2. /\ \A j \in Keys \ {k} : db'[j] = db[j]
      /\ Debt(k)' = IF ~ScriptFails(k, cost) /\ ScriptAllows(k, cost)
                    THEN Debt(k) + EiMicros(k) * cost
                    ELSE Debt(k)
  BY <1>1, ScriptRun DEF Inv
<1>3. \A j \in Keys \ {k} : Debt(j)' = Debt(j)
  BY <1>2, SameDebt
<1>4. CASE ~ScriptFails(k, cost) /\ ScriptAllows(k, cost)
  <2>1. Debt(k) + EiMicros(k) * cost <= BoMicros(k)
    BY <1>1, <1>4, ScriptVerdict DEF Inv
  <2>2. [j \in Keys |-> Debt(j)]'
          = [[j \in Keys |-> Debt(j)] EXCEPT ![k] = Debt(k) + EiMicros(k) * cost]
    BY <1>2, <1>3, <1>4
  <2> QED
    BY <2>1, <2>2 DEF Bucket!Charge
<1>5. CASE ~(~ScriptFails(k, cost) /\ ScriptAllows(k, cost))
  BY <1>2, <1>3, <1>5 DEF Debts
<1> QED
  BY <1>4, <1>5

\* A step that touches no entry leaves the debts.
LEMMA SameDebts ==
    ASSUME UNCHANGED <<time, db>>
    PROVE  Debts' = Debts
  BY SameDebt DEF Debts

\* Sending is asking.
LEMMA BucketAsk ==
    ASSUME Inv, NEW t \in Tasks, Send(t)
    PROVE  Bucket!Ask(t)
<1>0. PICK k \in Keys : \E cost \in Costs(k) :
        call' = [call EXCEPT ![t] = [key |-> k, cost |-> cost, pc |-> "sent"]]
  BY DEF Send
<1>1. PICK cost \in Costs(k) :
        call' = [call EXCEPT ![t] = [key |-> k, cost |-> cost, pc |-> "sent"]]
  BY <1>0
<1>2. /\ call[t] = None /\ UNCHANGED <<late, backs, losses>> /\ Debts' = Debts
  BY SameDebts DEF Send
<1>3. /\ call'[t] = [key |-> k, cost |-> cost, pc |-> "sent"]
      /\ Asked' = [Asked EXCEPT ![t] = Pending(t)']
  BY <1>1, PendingStep DEF Inv
<1>4. [key |-> k, cost |-> cost, pc |-> "sent"] # None
  <2>1. [key |-> k, cost |-> cost, pc |-> "sent"] \in Call
    BY Micros DEF Call, Costs
  <2> QED
    BY <2>1, CommandAssumption
<1>5. Pending(t)' = [key |-> k, cost |-> cost]
  BY <1>3, <1>4 DEF Pending
<1>6. Asked[t] = None
  BY <1>2 DEF Asked, Pending
<1>7. \E j \in Keys : \E n \in Costs(j) :
        Asked' = [Asked EXCEPT ![t] = [key |-> j, cost |-> n]]
  BY <1>3, <1>5
<1> QED
  BY <1>2, <1>6, <1>7 DEF Bucket!Ask, Asked, Debts

\* A command that runs counts the request or refuses it, and either way the request
\* is not pending any more; a NOSCRIPT that the client library answers leaves it.
LEMMA BucketExecute ==
    ASSUME Inv, NEW t \in Tasks, Execute(t)
    PROVE  Bucket!Take(t) \/ Bucket!Refuse(t) \/ UNCHANGED Bucket!bucketVars
<1>1. call[t] # None /\ UNCHANGED <<time, late, backs, losses>>
  BY DEF Execute
<1>2. call[t].key \in Keys /\ call[t].cost \in Costs(call[t].key)
  BY <1>1, CommandTypes
<1>3. call[t].pc # "answered"
  BY DEF Execute
<1>4. /\ call[t] \in Call
      /\ Asked[t] = [key |-> call[t].key, cost |-> call[t].cost]
      /\ Asked[t] # None
  BY <1>1, <1>3, PendingTypes
<1>5. CASE /\ db' = ScriptEffect(call[t].key, call[t].cost)
           /\ call' = [call EXCEPT ![t].pc = "answered"]
  <2>1. /\ call'[t] = [call[t] EXCEPT !.pc = "answered"]
        /\ Asked' = [Asked EXCEPT ![t] = Pending(t)']
    BY <1>5, PendingStep DEF Inv
  <2>2. Pending(t)' = None
    BY <1>4, <2>1 DEF Pending, Call
  <2>3. Bucket!Charge(Asked[t]) \/ Debts' = Debts
    BY <1>1, <1>2, <1>4, <1>5, BucketCharge
  <2> QED
    BY <1>1, <1>4, <2>1, <2>2, <2>3 DEF Bucket!Take, Bucket!Refuse, Asked, Debts
<1>6. CASE /\ call' = [call EXCEPT ![t].pc = "noscript"]
           /\ db' = db
  <2>1. /\ call'[t] = [call[t] EXCEPT !.pc = "noscript"]
        /\ Asked' = [Asked EXCEPT ![t] = Pending(t)']
    BY <1>6, PendingStep DEF Inv
  <2>2. call'[t] \in Call /\ call'[t].pc = "noscript"
        /\ call'[t].key = call[t].key /\ call'[t].cost = call[t].cost
    BY <1>4, <2>1 DEF Call
  <2>3. Pending(t)' = Asked[t]
    BY <1>4, <2>2, CommandAssumption DEF Pending
  <2>4. Asked' = Asked
    BY <2>1, <2>3 DEF Asked
  <2>5. Debts' = Debts
    BY <1>1, <1>6, SameDebts
  <2> QED
    BY <1>1, <2>4, <2>5 DEF Bucket!bucketVars, Asked, Debts
<1>7. CASE /\ call' = [call EXCEPT ![t] = None]
           /\ db' = db
  <2>1. Asked' = [Asked EXCEPT ![t] = Pending(t)'] /\ Pending(t)' = None
    BY <1>7, PendingStep DEF Inv, Pending
  <2>2. Debts' = Debts
    BY <1>1, <1>7, SameDebts
  <2> QED
    BY <1>1, <1>4, <2>1, <2>2 DEF Bucket!Refuse, Asked, Debts
<1> QED
  BY <1>5, <1>6, <1>7 DEF Execute

\* A second EVALSHA is for the same request.
LEMMA BucketReload ==
    ASSUME Inv, NEW t \in Tasks, Reload(t)
    PROVE  UNCHANGED Bucket!bucketVars
<1>1. /\ call[t] # None /\ call[t].pc = "noscript"
      /\ call' = [call EXCEPT ![t].pc = "resent"]
      /\ UNCHANGED <<late, backs, losses>> /\ Debts' = Debts
  BY SameDebts DEF Reload
<1>2. /\ call[t] \in Call
      /\ Asked[t] = [key |-> call[t].key, cost |-> call[t].cost]
  BY <1>1, PendingTypes
<1>3. /\ call'[t] = [call[t] EXCEPT !.pc = "resent"]
      /\ Asked' = [Asked EXCEPT ![t] = Pending(t)']
  BY <1>1, PendingStep DEF Inv
<1>4. /\ call'[t] \in Call /\ call'[t].pc = "resent"
      /\ call'[t].key = call[t].key /\ call'[t].cost = call[t].cost
  BY <1>2, <1>3 DEF Call
<1>5. Pending(t)' = Asked[t]
  BY <1>2, <1>4, CommandAssumption DEF Pending
<1>6. Asked' = Asked
  BY <1>3, <1>5 DEF Asked
<1> QED
  BY <1>1, <1>6 DEF Bucket!bucketVars, Asked, Debts

\* A caller that gets its answer, or gives up once the command has run, leaves nothing
\* to count; one that gives up before loses its request or abandons it.
LEMMA BucketReturn ==
    ASSUME Inv, NEW t \in Tasks, Receive(t) \/ GiveUp(t)
    PROVE  Bucket!Refuse(t) \/ Bucket!Abandon(t) \/ UNCHANGED Bucket!bucketVars
<1>1. /\ call[t] # None /\ call' = [call EXCEPT ![t] = None]
      /\ UNCHANGED <<backs, losses>> /\ Debts' = Debts
  BY SameDebts DEF Receive, GiveUp
<1>2. Asked' = [Asked EXCEPT ![t] = None]
  BY <1>1, PendingStep DEF Inv, Pending
<1>3. CASE call[t].pc = "answered"
  <2>1. Asked' = Asked
    BY <1>2, <1>3 DEF Asked, Pending
  <2>2. late' = late
    BY <1>3 DEF Receive, GiveUp
  <2> QED
    BY <1>1, <2>1, <2>2 DEF Bucket!bucketVars, Asked, Debts
<1>4. CASE call[t].pc # "answered"
  <2>1. Asked[t] = [key |-> call[t].key, cost |-> call[t].cost] /\ Asked[t] # None
    BY <1>1, <1>4, PendingTypes
  <2>2. \/ late' = late
        \/ late[t] = None /\ late' = [late EXCEPT ![t] = Asked[t]]
    BY <1>4, <2>1 DEF Receive, GiveUp
  <2>3. CASE late' = late
    BY <1>1, <1>2, <2>1, <2>3 DEF Bucket!Refuse, Asked, Debts
  <2>4. CASE late[t] = None /\ late' = [late EXCEPT ![t] = Asked[t]]
    BY <1>1, <1>2, <2>1, <2>4 DEF Bucket!Abandon, Asked, Debts
  <2> QED
    BY <2>2, <2>3, <2>4
<1> QED
  BY <1>3, <1>4

\* A command nobody waits for is counted once, or not.
LEMMA BucketExecuteLate ==
    ASSUME Inv, NEW t \in Tasks, ExecuteLate(t)
    PROVE  Bucket!TakeLate(t) \/ Bucket!RefuseLate(t)
<1>1. /\ late[t] # None /\ late' = [late EXCEPT ![t] = None]
      /\ UNCHANGED <<time, backs, losses>> /\ Asked' = Asked
  BY SamePending DEF ExecuteLate
<1>2. late[t].key \in Keys /\ late[t].cost \in Costs(late[t].key)
  BY <1>1, CommandTypes
<1>3. Bucket!Charge(late[t]) \/ Debts' = Debts
  <2>1. CASE db' = db
    BY <1>1, <2>1, SameDebts
  <2>2. CASE db' = ScriptEffect(late[t].key, late[t].cost)
    BY <1>1, <1>2, <2>2, BucketCharge
  <2> QED
    BY <2>1, <2>2 DEF ExecuteLate
<1> QED
  BY <1>1, <1>3 DEF Bucket!TakeLate, Bucket!RefuseLate, Asked, Debts

\* Every step of RedisStorage is a step of a token bucket, or invisible.
LEMMA BucketStep ==
    ASSUME Inv, Inv', [Next]_vars
    PROVE  [Bucket!Next]_(Bucket!bucketVars)
<1>1. ASSUME UNCHANGED <<time, db, call, late, backs, losses>>
      PROVE  UNCHANGED Bucket!bucketVars
  <2>1. Debts' = Debts /\ Asked' = Asked
    BY <1>1, SameDebts, SamePending
  <2> QED
    BY <1>1, <2>1 DEF Bucket!bucketVars, Asked, Debts
<1>2. CASE UNCHANGED vars
  BY <1>1, <1>2 DEF vars
<1>3. CASE Flush
  BY <1>1, <1>3 DEF Flush
<1>4. CASE Tick
  BY <1>4, BucketTick DEF Bucket!Next
<1>5. CASE MoveBack
  BY <1>5, BucketMoveBack DEF Bucket!Next
<1>6. ASSUME NEW k \in Keys, Evict(k) PROVE UNCHANGED Bucket!bucketVars
  <2>1. /\ UNCHANGED <<time, call, late, backs, losses>>
        /\ db' = [db EXCEPT ![k] = None] /\ Expired(k)
    BY <1>6 DEF Evict
  <2>2. db \in [Keys -> Entry \cup {None}]
    BY DEF Inv, TypeOK
  <2>3. Debt(k)' = Debt(k)
    BY <2>1, <2>2, NoneAssumption DEF Debt, Stored
  <2>4. \A j \in Keys : Debt(j)' = Debt(j)
    BY <2>1, <2>2, <2>3, SameDebt
  <2>5. Asked' = Asked
    BY <2>1, SamePending
  <2> QED
    BY <2>1, <2>4, <2>5 DEF Bucket!bucketVars, Asked
<1>7. ASSUME NEW k \in Keys, Lose(k) PROVE Bucket!Next
  BY <1>7, BucketForget DEF Bucket!Next
<1>8. ASSUME NEW t \in Tasks,
             \/ Send(t) \/ Execute(t) \/ Reload(t) \/ Receive(t) \/ GiveUp(t) \/ ExecuteLate(t)
      PROVE  Bucket!Next \/ UNCHANGED Bucket!bucketVars
  BY <1>8, BucketAsk, BucketExecute, BucketReload, BucketReturn, BucketExecuteLate
     DEF Bucket!Next
<1> QED
  BY <1>2, <1>3, <1>4, <1>5, <1>6, <1>7, <1>8 DEF Next

\* RedisStorage implements TokenBucket: a request takes its cost once or not at all,
\* in spite of timeouts and commands that are sent again, and expiry, capping and
\* reloading are invisible.
THEOREM RedisImplementsBucket == Spec => ImplementsBucket
<1>1. Init => Bucket!Init
  <2> SUFFICES ASSUME Init PROVE Bucket!Init
    OBVIOUS
  <2>1. \A k \in Keys : Debt(k) = 0
    BY NoneAssumption DEF Init, Debt, Stored
  <2>2. \A t \in Tasks : Pending(t) = None
    BY DEF Init, Pending
  <2> QED
    BY <2>1, <2>2 DEF Init, Bucket!Init
<1>2. Inv /\ Inv' /\ [Next]_vars => [Bucket!Next]_(Bucket!bucketVars)
  BY BucketStep
<1> QED
  BY <1>1, <1>2, InitInv, InvStep, PTL DEF Spec, ImplementsBucket, Bucket!Spec

(***************************************************************************)
(* RedisQuota: never looser than the map.                                  *)
(***************************************************************************)
\* Counted in cells, the map never owes more than Redis does; products instead of
\* the quotients (mem[k] - NowNanos) / Ei(k) and Debt(k) / EiMicros(k).
MapOwesLess ==
    backs = 0 =>
        \A k \in Keys :
            mem[k] # None => EiMicros(k) * (mem[k] - NowNanos) <= Ei(k) * Debt(k)

QuotaInv == Inv /\ mem \in [Keys -> Tat] /\ MapOwesLess

\* Comparing products, for all integers.
LEMMA CrossProducts ==
    ASSUME NEW a \in Nat, NEW b \in Nat, NEW x \in Int, NEW y \in Nat, NEW n \in Nat
    PROVE  /\ a * x \in Int /\ b * y \in Nat
           /\ a * (x - n) = a * x - a * n
           /\ a * (x + b * n) = a * x + b * (a * n)
           /\ b * (y + a * n) = b * y + b * (a * n)
           /\ y <= n => b * y <= b * n
           /\ a # 0 /\ a * x <= a * n => x <= n
           /\ b * (a * n) = a * (b * n)
<1>1. a * x \in Int /\ b * y \in Nat
  OBVIOUS
<1>2. a * (x - n) = a * x - a * n
  OBVIOUS
<1>3. a * (x + b * n) = a * x + b * (a * n) /\ b * (a * n) = a * (b * n)
  OBVIOUS
<1>4. b * (y + a * n) = b * y + b * (a * n)
  OBVIOUS
<1>5. y <= n => b * y <= b * n
  OBVIOUS
<1>6. a # 0 /\ a * x <= a * n => x <= n
  <2> SUFFICES ASSUME a # 0, x > n PROVE a * x > a * n
    OBVIOUS
  <2>1. a * (x - n) > 0
    OBVIOUS
  <2>2. a * (x - n) = a * x - a * n
    OBVIOUS
  <2> QED
    BY <2>1, <2>2
<1> QED
  BY <1>1, <1>2, <1>3, <1>4, <1>5, <1>6

\* A microsecond passes: the map is paid a microsecond's worth of nanoseconds, Redis
\* one microsecond of a longer interval.
LEMMA TickKeepsLess ==
    ASSUME NEW ei \in Nat, NEW em \in Nat, NEW npm \in Nat, ei <= em * npm,
           NEW owed \in Int, NEW debt \in Nat, em * owed <= ei * debt
    PROVE  em * (owed - npm) <= ei * (IF debt > 0 THEN debt - 1 ELSE 0)
<1> DEFINE p == em * owed
           q == em * npm
           r == ei * debt
<1>1. em * (owed - npm) = p - q /\ p \in Int /\ q \in Nat /\ r \in Nat
  OBVIOUS
<1>2. ei * (debt - 1) = r - ei
  OBVIOUS
<1>3. ei * 0 = 0 /\ (debt = 0 => r = 0)
  OBVIOUS
<1>4. p <= r /\ ei <= q
  OBVIOUS
<1> HIDE DEF p, q, r
<1>5. CASE debt > 0
  BY <1>1, <1>2, <1>4, <1>5
<1>6. CASE ~(debt > 0)
  BY <1>1, <1>3, <1>4, <1>6
<1> QED
  BY <1>5, <1>6

\* Both are charged: the map, should it saturate, for less.
LEMMA ChargeKeepsLess ==
    ASSUME NEW k \in Keys, NEW tat \in Tat, NEW now \in Nat, NEW cost \in Nat, NEW debt \in Nat,
           tat # None => EiMicros(k) * (tat - now) <= Ei(k) * debt
    PROVE  /\ NewTat(tat, now, Ei(k), cost) \in Nat
           /\ EiMicros(k) * (NewTat(tat, now, Ei(k), cost) - now)
                <= Ei(k) * (debt + EiMicros(k) * cost)
<1> DEFINE em == EiMicros(k)
           ei == Ei(k)
           p == ei * cost
           new == NewTat(tat, now, ei, cost)
           cur == CurrentTat(tat, now)
<1>1. em \in Nat \ {0} /\ ei \in Nat
  BY Micros
<1>2. p \in Nat /\ new \in Nat /\ cur \in Nat
  <2>1. p \in Nat
    BY <1>1
  <2>2. cur \in Nat /\ new \in Nanos
    BY <1>1, NewTatType
  <2> HIDE DEF p, cur, new
  <2> QED
    BY <2>1, <2>2, U64Assumption DEF Nanos
<1>3. new = AtMost(cur + AtMost(p, U64Max), U64Max)
  BY DEF NewTat, SaturatingAdd, SaturatingMul
<1>4. new - now <= cur - now + p
  <2> HIDE DEF new, cur, p
  <2> QED
    BY <1>2, <1>3, U64Assumption DEF AtMost
<1>5. em * (cur - now) <= ei * debt
  <2>1. CASE cur = now
    BY <1>1, <2>1
  <2>2. CASE cur # now
    <3>1. tat # None /\ cur = tat
      BY <2>2 DEF CurrentTat, AtLeast
    <3> QED
      BY <3>1
  <2> QED
    BY <2>1, <2>2
<1> HIDE DEF new, cur, em, ei
<1>6. em * (new - now) <= em * (cur - now + p)
  <2>1. new - now \in Int /\ cur - now + p \in Int
    BY <1>2
  <2>2. ASSUME NEW x \in Int, NEW y \in Int, x <= y PROVE em * x <= em * y
    BY <1>1, <2>2
  <2> QED
    BY <1>4, <2>1, <2>2
<1>7. em * (cur - now + p) = em * (cur - now) + ei * (em * cost)
  <2>1. cur - now \in Int
    BY <1>2
  <2> QED
    BY <1>1, <2>1, CrossProducts
<1>8. ei * (debt + em * cost) = ei * debt + ei * (em * cost)
  BY <1>1, CrossProducts
<1>9. em * (new - now) <= ei * (debt + em * cost)
  <2> DEFINE u == em * (new - now)
             v == em * (cur - now)
             w == ei * (em * cost)
             z == ei * debt
  <2>1. u \in Int /\ v \in Int /\ w \in Int /\ z \in Int
    BY <1>1, <1>2
  <2>2. u <= v + w /\ v <= z
    BY <1>5, <1>6, <1>7
  <2> HIDE DEF u, v, w, z
  <2>3. u <= z + w
    BY <2>1, <2>2
  <2> QED
    BY <1>8, <2>3 DEF u, w, z
<1> QED
  BY <1>2, <1>9 DEF new, em, ei

\* What a step that charges a command leaves of QuotaInv.
LEMMA ReplayedStep ==
    ASSUME QuotaInv, NEW command, command.key \in Keys, command.cost \in Nat,
           UNCHANGED <<time, backs>>,
           db' = IF loaded THEN ScriptEffect(command.key, command.cost) ELSE db,
           mem' = Replayed(command)
    PROVE  mem' \in [Keys -> Tat] /\ MapOwesLess'
<1> DEFINE k == command.key
           cost == command.cost
           granted == ~ScriptFails(k, cost) /\ ScriptAllows(k, cost)
<1>1. /\ TypeOK /\ Deadlines /\ mem \in [Keys -> Tat] /\ MapOwesLess
      /\ NowNanos \in Nat /\ NowNanos' = NowNanos
  BY StoredTypes, UnitAssumption, BoundAssumption DEF QuotaInv, Inv, NowNanos, TypeOK, Time
<1>2. CASE loaded /\ backs = 0 /\ granted
  <2> DEFINE new == NewTat(mem[k], NowNanos, Ei(k), cost)
  <2>1. mem' = [mem EXCEPT ![k] = new]
    BY <1>2 DEF Replayed
  <2>2. /\ Debt(k) \in Nat
        /\ mem[k] # None => EiMicros(k) * (mem[k] - NowNanos) <= Ei(k) * Debt(k)
    BY <1>1, <1>2, DebtTypes DEF MapOwesLess
  <2>3. new \in Nat /\ EiMicros(k) * (new - NowNanos) <= Ei(k) * (Debt(k) + EiMicros(k) * cost)
    BY <1>1, <2>2, ChargeKeepsLess
  <2>4. new \in Tat
    BY <1>1, NewTatType, Micros DEF Tat
  <2>5. db' = ScriptEffect(k, cost)
    BY <1>2
  <2>6. /\ Debt(k)' = Debt(k) + EiMicros(k) * cost
        /\ \A j \in Keys \ {k} : db'[j] = db[j]
    BY <1>1, <1>2, <2>5, ScriptRun
  <2> HIDE DEF new, k, cost
  <2>7. \A j \in Keys \ {k} : Debt(j)' = Debt(j) /\ mem'[j] = mem[j]
    BY <1>1, <2>1, <2>6, SameDebt
  <2>8. k \in Keys /\ mem'[k] = new
    BY <1>1, <2>1 DEF k
  <2>9. MapOwesLess'
    BY <1>1, <2>3, <2>6, <2>7, <2>8 DEF MapOwesLess
  <2> QED
    BY <1>1, <2>1, <2>4, <2>9
<1>3. CASE ~(loaded /\ backs = 0 /\ granted)
  <2>1. mem' = mem
    BY <1>3 DEF Replayed
  <2>2. CASE backs # 0
    BY <1>1, <2>1, <2>2 DEF MapOwesLess
  <2>3. CASE ~loaded
    <3>1. \A j \in Keys : Debt(j)' = Debt(j)
      BY <2>3, SameDebt
    <3> QED
      BY <1>1, <2>1, <3>1 DEF MapOwesLess
  <2>4. CASE loaded /\ ~granted
    <3>1. db' = ScriptEffect(k, cost)
      BY <2>4
    <3>2. Debt(k)' = Debt(k) /\ \A j \in Keys \ {k} : db'[j] = db[j]
      BY <1>1, <2>4, <3>1, ScriptRun
    <3>3. \A j \in Keys : Debt(j)' = Debt(j)
      BY <3>2, SameDebt
    <3> QED
      BY <1>1, <2>1, <3>3 DEF MapOwesLess
  <2> QED
    BY <1>3, <2>2, <2>3, <2>4
<1> QED
  BY <1>2, <1>3

\* The step of the whole specification is a step of RedisStorage.
LEMMA QuotaIsRedis == [QuotaNext]_quotaVars => [Next]_vars
  BY DEF QuotaNext, Next, quotaVars

LEMMA QuotaStep ==
    ASSUME QuotaInv, [QuotaNext]_quotaVars
    PROVE  QuotaInv'
<1>1. Inv /\ Inv' /\ mem \in [Keys -> Tat] /\ MapOwesLess
  BY QuotaIsRedis, InvStep DEF QuotaInv
<1>2. time \in Nat /\ NowNanos \in Nat /\ backs \in Nat
  BY <1>1, UnitAssumption, BoundAssumption DEF Inv, TypeOK, Time, NowNanos
<1>3. ASSUME UNCHANGED <<time, backs, mem>>, \A j \in Keys : Debt(j)' = Debt(j)
      PROVE  mem' \in [Keys -> Tat] /\ MapOwesLess'
  BY <1>1, <1>3 DEF MapOwesLess, NowNanos
<1>4. ASSUME UNCHANGED <<time, db, backs, mem>>
      PROVE  mem' \in [Keys -> Tat] /\ MapOwesLess'
  BY <1>3, <1>4, SameDebt
<1>5. mem' \in [Keys -> Tat] /\ MapOwesLess'
  <2>1. CASE UNCHANGED quotaVars
    BY <1>4, <2>1 DEF quotaVars, vars
  <2>2. CASE Tick /\ UNCHANGED mem
    <3> SUFFICES ASSUME backs = 0, NEW k \in Keys, mem[k] # None
                 PROVE  EiMicros(k) * (mem[k] - NowNanos') <= Ei(k) * Debt(k)'
      BY <1>1, <2>2 DEF MapOwesLess, Tick
    <3>1. NowNanos' = NowNanos + NanosPerMicro
      BY <1>2, <2>2, UnitAssumption DEF NowNanos, Tick
    <3>2. EiMicros(k) * (mem[k] - NowNanos) <= Ei(k) * Debt(k)
      BY <1>1 DEF MapOwesLess
    <3>3. mem[k] \in Nat
      BY <1>1, U64Assumption DEF Tat, Nanos
    <3>4. /\ EiMicros(k) \in Nat /\ Ei(k) \in Nat /\ NanosPerMicro \in Nat
          /\ Ei(k) <= EiMicros(k) * NanosPerMicro
      BY Micros, UnitAssumption
    <3>5. Debt(k) \in Nat
      BY <1>1, DebtTypes DEF Inv
    <3>6. Debt(k)' = IF Debt(k) > 0 THEN Debt(k) - 1 ELSE 0
      BY <1>1, <1>2, <2>2, TickPays
    <3> DEFINE owed == mem[k] - NowNanos
    <3>7. owed \in Int /\ mem[k] - NowNanos' = owed - NanosPerMicro
      BY <1>2, <3>1, <3>3, UnitAssumption
    <3>8. EiMicros(k) * owed <= Ei(k) * Debt(k)
      BY <3>2
    <3> HIDE DEF owed
    <3>9. EiMicros(k) * (owed - NanosPerMicro)
             <= Ei(k) * (IF Debt(k) > 0 THEN Debt(k) - 1 ELSE 0)
      BY <3>4, <3>5, <3>7, <3>8, TickKeepsLess
    <3> QED
      BY <3>6, <3>7, <3>9
  <2>3. CASE Flush /\ UNCHANGED mem
    BY <1>4, <2>3 DEF Flush
  <2>4. CASE MoveBack /\ mem' = [k \in Keys |-> None]
    <3>1. backs' # 0
      BY <1>2, <2>4 DEF MoveBack
    <3> QED
      BY <2>4, <3>1 DEF MapOwesLess, Tat
  <2>5. ASSUME NEW k \in Keys, Evict(k), UNCHANGED mem
        PROVE  mem' \in [Keys -> Tat] /\ MapOwesLess'
    <3>1. UNCHANGED <<time, backs>> /\ db' = [db EXCEPT ![k] = None] /\ Expired(k)
      BY <2>5 DEF Evict
    <3>2. Debt(k)' = Debt(k)
      BY <1>1, <3>1, NoneAssumption DEF Inv, TypeOK, Debt, Stored
    <3>3. \A j \in Keys : Debt(j)' = Debt(j)
      BY <1>1, <3>1, <3>2, SameDebt DEF Inv, TypeOK
    <3> QED
      BY <1>3, <2>5, <3>1, <3>3
  <2>6. ASSUME NEW k \in Keys, Lose(k), mem' = [mem EXCEPT ![k] = None]
        PROVE  mem' \in [Keys -> Tat] /\ MapOwesLess'
    <3>1. UNCHANGED <<time, backs>> /\ \A j \in Keys \ {k} : db'[j] = db[j]
      BY <1>1, <2>6 DEF Lose, Inv, TypeOK
    <3>2. \A j \in Keys \ {k} : Debt(j)' = Debt(j) /\ mem'[j] = mem[j]
      BY <1>1, <2>6, <3>1, SameDebt
    <3>3. mem'[k] = None
      BY <1>1, <2>6
    <3>4. mem' \in [Keys -> Tat]
      BY <1>1, <2>6 DEF Tat
    <3> QED
      BY <1>1, <3>1, <3>2, <3>3, <3>4 DEF MapOwesLess, NowNanos
  <2>7. ASSUME NEW t \in Tasks, Send(t) \/ Reload(t) \/ Receive(t) \/ GiveUp(t), UNCHANGED mem
        PROVE  mem' \in [Keys -> Tat] /\ MapOwesLess'
    BY <1>4, <2>7 DEF Send, Reload, Receive, GiveUp
  <2>8. ASSUME NEW t \in Tasks, Execute(t), mem' = Replayed(call[t])
        PROVE  mem' \in [Keys -> Tat] /\ MapOwesLess'
    <3>1. UNCHANGED <<time, backs>> /\ call[t] # None
      BY <2>8 DEF Execute
    <3>2. call[t].key \in Keys /\ call[t].cost \in Nat
      BY <1>1, <3>1, CommandTypes
    <3>3. db' = IF loaded THEN ScriptEffect(call[t].key, call[t].cost) ELSE db
      BY <2>8, Zenon DEF Execute
    <3> QED
      BY <2>8, <3>1, <3>2, <3>3, ReplayedStep
  <2>9. ASSUME NEW t \in Tasks, ExecuteLate(t), mem' = Replayed(late[t])
        PROVE  mem' \in [Keys -> Tat] /\ MapOwesLess'
    <3>1. UNCHANGED <<time, backs>> /\ late[t] # None
          /\ db' = IF loaded THEN ScriptEffect(late[t].key, late[t].cost) ELSE db
      BY <2>9 DEF ExecuteLate
    <3>2. late[t].key \in Keys /\ late[t].cost \in Nat
      BY <1>1, <3>1, CommandTypes
    <3> QED
      BY <2>9, <3>1, <3>2, ReplayedStep
  <2> QED
    BY <2>1, <2>2, <2>3, <2>4, <2>5, <2>6, <2>7, <2>8, <2>9 DEF QuotaNext
<1> QED
  BY <1>1, <1>5 DEF QuotaInv

\* If the map owes less, a request that fits the burst in Redis fits it in the map.
LEMMA LessIsAllowed ==
    ASSUME QuotaInv, backs = 0, NEW k \in Keys, NEW cost \in Nat,
           ~ScriptFails(k, cost), ScriptAllows(k, cost)
    PROVE  Allows(mem[k], NowNanos, Ei(k), Bo(k), cost)
<1> DEFINE em == EiMicros(k)
           ei == Ei(k)
           b == Burst(k)
           now == NowNanos
           new == NewTat(mem[k], now, ei, cost)
           debt == Debt(k)
<1>1. /\ em \in Nat \ {0} /\ ei \in Nat /\ b \in Nat /\ now \in Nat /\ debt \in Nat
      /\ mem[k] \in Tat /\ TypeOK
  BY Micros, DebtTypes, UnitAssumption, BoundAssumption
     DEF QuotaInv, Inv, TypeOK, Time, NowNanos
<1>2. debt + em * cost <= em * b
  BY <1>1, ScriptVerdict
<1>3. new \in Nat /\ em * (new - now) <= ei * (debt + em * cost)
  BY <1>1, ChargeKeepsLess DEF QuotaInv, MapOwesLess
<1>4. new <= U64Max
  BY <1>1, NewTatType, U64Assumption DEF Nanos
<1>5. Bo(k) = AtMost(ei * b, U64Max)
  BY DEF Bo, BurstOffset, Ei, Burst, SaturatingMul
<1>6. new - now <= ei * b
  <2> HIDE DEF em, ei, b, now, new, debt
  <2>1. debt + em * cost \in Nat /\ em * b \in Nat /\ ei * b \in Nat
    BY <1>1
  <2>2. ei * (debt + em * cost) <= ei * (em * b)
    BY <1>1, <1>2, <2>1, CrossProducts
  <2>3. ei * (em * b) = em * (ei * b)
    BY <1>1, CrossProducts
  <2>4. em * (new - now) <= em * (ei * b)
    <3> DEFINE u == em * (new - now)
               v == ei * (debt + em * cost)
               w == em * (ei * b)
    <3>1. u \in Int /\ v \in Int /\ w \in Int
      BY <1>1, <1>3, <2>1
    <3>2. u <= v /\ v <= w
      BY <1>3, <2>2, <2>3
    <3> HIDE DEF u, v, w
    <3>3. u <= w
      BY <3>1, <3>2
    <3> QED
      BY <3>3 DEF u, w
  <2>5. new - now \in Int
    BY <1>1, <1>3
  <2> QED
    BY <1>1, <2>1, <2>4, <2>5, CrossProducts
<1>7. new - Bo(k) <= now /\ Bo(k) \in Nat
  <2> DEFINE p == ei * b
  <2>1. p \in Nat
    BY <1>1
  <2>2. new - now <= p /\ Bo(k) = AtMost(p, U64Max)
    BY <1>5, <1>6
  <2> HIDE DEF p, new, now
  <2> QED
    BY <1>1, <1>3, <1>4, <2>1, <2>2, U64Assumption DEF AtMost
<1> HIDE DEF new, now
<1>8. AtLeast(new - Bo(k), 0) <= now
  BY <1>1, <1>3, <1>7 DEF AtLeast
<1> QED
  BY <1>8 DEF Allows, AllowAt, SaturatingSub, new, now

\* redis.rs, micros_ceil: "rounded up so a quota never becomes looser in Redis".
THEOREM RedisNeverLooser == QuotaSpec => []NeverLooser
<1>1. QuotaInit => QuotaInv
  BY InitInv DEF QuotaInit, QuotaInv, MapOwesLess, Tat
<1>2. QuotaInv /\ [QuotaNext]_quotaVars => QuotaInv'
  BY QuotaStep
<1>3. QuotaInv => NeverLooser
  <2> SUFFICES ASSUME QuotaInv, backs = 0, NEW k \in Keys, NEW cost \in Costs(k),
                      ~ScriptFails(k, cost), ScriptAllows(k, cost)
               PROVE  Decision(mem, k, NowNanos, cost).allowed
    BY DEF NeverLooser
  <2>1. cost \in Nat
    BY Micros DEF Costs
  <2> QED
    BY <2>1, LessIsAllowed, DecisionAllowed
<1> QED
  BY <1>1, <1>2, <1>3, PTL DEF QuotaSpec

=============================================================================
