---------------------------- MODULE RedisStorage ----------------------------
(***************************************************************************)
(* storage/redis.rs and storage/gcra.lua: instances send a script to a     *)
(* Redis server, which runs it atomically with its own clock.  A caller    *)
(* waits for the answer up to a timeout; a command it has given up may     *)
(* still run.  Times are microseconds, except deadlines of keys, which     *)
(* Redis keeps in milliseconds.                                            *)
(*                                                                         *)
(* Redis is external: keys expire, the script cache may be flushed, a key  *)
(* may be lost (a restart, an eviction) or hold another program's value,   *)
(* and a failover may move the clock back.                                 *)
(***************************************************************************)
EXTENDS MemoryMap

CONSTANTS
    NanosPerMicro,  \* nanoseconds in a microsecond
    MicrosPerMilli, \* microseconds in a millisecond
    MaxExact,       \* gcra.lua: integers below this are exact in a double
    Junk,           \* a value that is not an integer
    Tasks,          \* the tasks of all instances
    MaxTime,        \* bound: the server's clock stops here
    MaxBack,        \* bound: how often it moves back
    MaxLosses       \* bound: how often a key is lost

ASSUME UnitAssumption ==
    /\ NanosPerMicro \in Nat \ {0}
    /\ MicrosPerMilli \in Nat \ {0}
ASSUME BoundAssumption == MaxTime \in Nat /\ MaxBack \in Nat /\ MaxLosses \in Nat
ASSUME ExactAssumption == MaxExact \in Nanos
ASSUME JunkAssumption == Junk \notin Nat \cup {None}

VARIABLES
    time,           \* the server's clock, TIME
    db,             \* the server's keys: None, or a TAT and its deadline
    loaded,         \* whether the server has the script in its cache
    call,           \* per task, the call it awaits, or None
    late,           \* per task, a command it has given up that may still run
    backs,          \* how often the clock has moved back
    losses          \* how often a key was lost

vars == <<time, db, loaded, call, late, backs, losses>>

Time == 0 .. MaxTime

Never == MaxTime + 1        \* the deadline of a key without one

Command == [key : Keys, cost : Nat]
Call == [key : Keys, cost : Nat, pc : {"sent", "noscript", "resent", "answered"}]
Entry == [tat : (0 .. MaxExact) \cup {Junk}, deadline : Nat]

ASSUME CommandAssumption == None \notin Command \cup Call \cup Entry

Costs(k) == 0 .. Burst(k)

(***************************************************************************)
(* RedisStorage::script_call: the script's arguments.                      *)
(***************************************************************************)
\* Fault: rounded down.
MicrosFloor(n) == n \div NanosPerMicro

\* Rounded up, so that a quota never becomes looser in Redis.
MicrosCeil(n) == n \div NanosPerMicro + (IF n % NanosPerMicro # 0 THEN 1 ELSE 0)

EiMicros(k) == AtLeast(MicrosCeil(Ei(k)), 1)
BoMicros(k) == SaturatingMul(EiMicros(k), Burst(k))

(***************************************************************************)
(* gcra.lua                                                                *)
(***************************************************************************)
\* exact_integer accepts all arguments.
ArgumentsValid(k, now) ==
    /\ EiMicros(k) < MaxExact /\ BoMicros(k) < MaxExact /\ now < MaxExact
    /\ BoMicros(k) >= EiMicros(k)

Millis(now) == now \div MicrosPerMilli
MillisCeil(d) == (d + MicrosPerMilli - 1) \div MicrosPerMilli

\* What GET returns.  Redis hides a key once its clock is past the deadline.
Expired(k) == db[k] # None /\ Millis(time) > db[k].deadline
Stored(k) == IF db[k] = None \/ Expired(k) THEN None ELSE db[k].tat

\* A missing, corrupted or past TAT is a fresh bucket; one more than a full burst
\* ahead comes from a clock that moved back.
Capped(k) == Stored(k) \in Nat /\ Stored(k) > time + BoMicros(k)

\* Fault: a past TAT that has not expired yet is a credit.
ScriptTatCredit(k) ==
    IF Stored(k) \notin Nat THEN time ELSE AtMost(Stored(k), time + BoMicros(k))

ScriptTat(k) ==
    IF Stored(k) \notin Nat \/ Stored(k) < time THEN time
    ELSE AtMost(Stored(k), time + BoMicros(k))

ScriptNewTat(k, cost) == ScriptTat(k) + EiMicros(k) * cost

ScriptAllows(k, cost) == ScriptNewTat(k, cost) - BoMicros(k) <= time

\* Fault: a TAT past the exact range is not refused.
ScriptFailsArguments(k, cost) == ~ArgumentsValid(k, time)

\* The script answers an error and writes nothing.
ScriptFails(k, cost) ==
    ~ArgumentsValid(k, time) \/ EiMicros(k) * cost > MaxExact - ScriptTat(k)

\* Fault: the deadline is rounded down.
SetPxFloor(k, tat) ==
    [db EXCEPT ![k] = [tat |-> tat,
                       deadline |-> Millis(time) + (tat - time) \div MicrosPerMilli]]

\* SET key tat PX ms
SetPx(k, tat) ==
    [db EXCEPT ![k] = [tat |-> tat, deadline |-> Millis(time) + MillisCeil(tat - time)]]

\* Fault: a capped TAT is charged but the cap is not stored when limited.
ScriptEffectUncapped(k, cost) ==
    CASE ScriptFails(k, cost) -> db
      [] ~ScriptFails(k, cost) /\ ScriptAllows(k, cost) /\ ScriptNewTat(k, cost) > time ->
           SetPx(k, ScriptNewTat(k, cost))
      [] OTHER -> db

\* What the script leaves in the database.
ScriptEffect(k, cost) ==
    CASE ScriptFails(k, cost) -> db
      [] ~ScriptFails(k, cost) /\ ScriptAllows(k, cost) /\ ScriptNewTat(k, cost) > time ->
           SetPx(k, ScriptNewTat(k, cost))
      [] ~ScriptFails(k, cost) /\ ~ScriptAllows(k, cost) /\ Capped(k) ->
           SetPx(k, ScriptTat(k))
      [] OTHER -> db

\* What it answers, as decode_reply reads it.
ScriptReply(k, cost) ==
    LET tat == ScriptTat(k)
        new_tat == ScriptNewTat(k, cost)
    IN  IF ScriptAllows(k, cost)
        THEN [allowed     |-> TRUE,
              limit       |-> Burst(k),
              remaining   |-> (BoMicros(k) - (new_tat - time)) \div EiMicros(k),
              reset_after |-> new_tat - time]
        ELSE [allowed     |-> FALSE,
              limit       |-> Burst(k),
              retry_after |-> new_tat - BoMicros(k) - time,
              reset_after |-> tat - time]

Init ==
    /\ time = 0
    /\ db = [k \in Keys |-> None]
    /\ loaded = FALSE
    /\ call = [t \in Tasks |-> None]
    /\ late = [t \in Tasks |-> None]
    /\ backs = 0
    /\ losses = 0

(***************************************************************************)
(* RedisStorage::check_and_update                                          *)
(***************************************************************************)
\* EVALSHA is on its way.
Send(t) ==
    /\ call[t] = None
    /\ \E k \in Keys : \E cost \in Costs(k) :
         call' = [call EXCEPT ![t] = [key |-> k, cost |-> cost, pc |-> "sent"]]
    /\ UNCHANGED <<time, db, loaded, late, backs, losses>>

\* The server runs the script for a caller that still waits, or answers NOSCRIPT;
\* the client library reports the second NOSCRIPT as an error.
Execute(t) ==
    /\ call[t] # None
    /\ \/ /\ call[t].pc \in {"sent", "resent"} /\ loaded
          /\ db' = ScriptEffect(call[t].key, call[t].cost)
          /\ call' = [call EXCEPT ![t].pc = "answered"]
       \/ /\ call[t].pc = "sent" /\ ~loaded
          /\ call' = [call EXCEPT ![t].pc = "noscript"]
          /\ UNCHANGED db
       \/ /\ call[t].pc = "resent" /\ ~loaded
          /\ call' = [call EXCEPT ![t] = None]
          /\ UNCHANGED db
    /\ UNCHANGED <<time, loaded, late, backs, losses>>

\* The client library loads the script and sends the command again.
Reload(t) ==
    /\ call[t] # None /\ call[t].pc = "noscript"
    /\ loaded' = TRUE
    /\ call' = [call EXCEPT ![t].pc = "resent"]
    /\ UNCHANGED <<time, db, late, backs, losses>>

\* The answer arrives in time.
Receive(t) ==
    /\ call[t] # None /\ call[t].pc = "answered"
    /\ call' = [call EXCEPT ![t] = None]
    /\ UNCHANGED <<time, db, loaded, late, backs, losses>>

\* Fault: whenever the timeout passes the client sends the command again.
GiveUpRetrying(t) ==
    /\ call[t] # None
    /\ \/ UNCHANGED late
       \/ /\ late[t] = None
          /\ late' = [late EXCEPT ![t] = [key |-> call[t].key, cost |-> call[t].cost]]
    /\ call' = [call EXCEPT ![t] = None]
    /\ UNCHANGED <<time, db, loaded, backs, losses>>

\* The timeout passes or the connection breaks.  A command the server has not
\* run is lost, or still on its way; the bound is one such command per task.
GiveUp(t) ==
    /\ call[t] # None
    /\ \/ UNCHANGED late
       \/ /\ call[t].pc \in {"sent", "resent"} /\ late[t] = None
          /\ late' = [late EXCEPT ![t] = [key |-> call[t].key, cost |-> call[t].cost]]
    /\ call' = [call EXCEPT ![t] = None]
    /\ UNCHANGED <<time, db, loaded, backs, losses>>

\* The server gets to a command nobody waits for.
ExecuteLate(t) ==
    /\ late[t] # None
    /\ db' = IF loaded THEN ScriptEffect(late[t].key, late[t].cost) ELSE db
    /\ late' = [late EXCEPT ![t] = None]
    /\ UNCHANGED <<time, loaded, call, backs, losses>>

(***************************************************************************)
(* The server.                                                             *)
(***************************************************************************)
Tick ==
    /\ time < MaxTime
    /\ time' = time + 1
    /\ UNCHANGED <<db, loaded, call, late, backs, losses>>

\* A failover to a replica whose clock is behind.
MoveBack ==
    /\ backs < MaxBack
    /\ \E earlier \in 0 .. time - 1 : time' = earlier
    /\ backs' = backs + 1
    /\ UNCHANGED <<db, loaded, call, late, losses>>

\* An expired key is deleted at some point.
Evict(k) ==
    /\ Expired(k)
    /\ db' = [db EXCEPT ![k] = None]
    /\ UNCHANGED <<time, loaded, call, late, backs, losses>>

\* A restart without persistence, or another program overwrites the key.
Lose(k) ==
    /\ losses < MaxLosses
    /\ db' \in {[db EXCEPT ![k] = None],
                [db EXCEPT ![k] = [tat |-> Junk, deadline |-> Never]]}
    /\ losses' = losses + 1
    /\ UNCHANGED <<time, loaded, call, late, backs>>

Flush ==
    /\ loaded' = FALSE
    /\ UNCHANGED <<time, db, call, late, backs, losses>>

Next ==
    \/ Tick
    \/ MoveBack
    \/ Flush
    \/ \E k \in Keys : Evict(k) \/ Lose(k)
    \/ \E t \in Tasks :
         \/ Send(t) \/ Execute(t) \/ Reload(t) \/ Receive(t)
         \/ GiveUp(t) \/ ExecuteLate(t)

Spec == Init /\ [][Next]_vars

-----------------------------------------------------------------------------

\* The variables have their types.
TypeOK ==
    /\ time \in Time
    /\ db \in [Keys -> Entry \cup {None}]
    /\ loaded \in BOOLEAN
    /\ call \in [Tasks -> Call \cup {None}]
    /\ late \in [Tasks -> Command \cup {None}]
    /\ backs \in 0 .. MaxBack
    /\ losses \in 0 .. MaxLosses

\* What a key owes, as the script would see it now.
Debt(k) ==
    IF Stored(k) \in Nat
    THEN AtMost(AtLeast(Stored(k) - time, 0), BoMicros(k))
    ELSE 0

\* The command of a task that waits for an answer and that the server has not run.
Pending(t) ==
    IF call[t] = None \/ call[t].pc = "answered"
    THEN None
    ELSE [key |-> call[t].key, cost |-> call[t].cost]

Bucket == INSTANCE TokenBucket WITH
    Interval <- EiMicros,
    Offset <- BoMicros,
    asked <- [t \in Tasks |-> Pending(t)],
    left <- late,
    debt <- [k \in Keys |-> Debt(k)],
    Leaps <- 1 .. MaxTime,
    moved_back <- (backs > 0)

\* Through expiring keys, commands that run after their caller gave up, reloaded
\* scripts and a clock that moves back, the storage is a token bucket: each request
\* takes its cost once or not at all, however often its command is sent, and expiry
\* and capping are invisible ("rounding down would let the key expire before the TAT
\* and grant requests early", gcra.lua).
ImplementsBucket == Bucket!Spec

\* gcra.lua: "The Rust reference implementation is `check_gcra`".  For a key that
\* is not ahead of a full burst, the script answers every request as check_gcra
\* would, field by field.
ScriptMatchesReference ==
    \A k \in Keys : \A cost \in Costs(k) :
        ~Capped(k) /\ ~ScriptFails(k, cost) =>
            LET tat == IF Stored(k) \in Nat THEN Stored(k) ELSE None
                reference == CheckGcra(tat, time, EiMicros(k), BoMicros(k), cost)
            IN  \A field \in DOMAIN ScriptReply(k, cost) :
                    ScriptReply(k, cost)[field] = reference[field]

\* The command is for key k and the script does not refuse it.
Runs(command, k) ==
    loaded /\ command.key = k /\ ~ScriptFails(k, command.cost)

\* A command that runs for a key leaves the key at most a full burst ahead of the
\* clock.
StoresCap(k, t) ==
    /\ Execute(t) /\ Runs(call[t], k) => ~Capped(k)'
    /\ ExecuteLate(t) /\ Runs(late[t], k) => ~Capped(k)'

\* gcra.lua: "otherwise every retry would meet the old TAT again and the user
\* would stay locked out for as long as the clock moved back".  Once a command
\* for a key has run, the key is at most a full burst ahead of the clock, until
\* the clock moves back again; only a command the script refuses leaves it.
CapStored == [][\A k \in Keys, t \in Tasks : StoresCap(k, t)]_vars

=============================================================================
