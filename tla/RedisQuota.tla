----------------------------- MODULE RedisQuota -----------------------------
(***************************************************************************)
(* RedisStorage next to the in-memory limiter it stands in for: mem is     *)
(* what a map with nanosecond TATs would hold if it had granted just the   *)
(* requests that Redis granted.  The two are compared until the server's   *)
(* clock moves back: the map's clock is an Instant, which cannot.          *)
(***************************************************************************)
EXTENDS RedisStorage

VARIABLE mem

quotaVars == <<vars, mem>>

NowNanos == time * NanosPerMicro

\* The map charges the command if the script does.  It is not followed any more
\* once the server's clock has moved back.
Replayed(command) ==
    LET k == command.key
    IN  IF /\ loaded /\ backs = 0
           /\ ~ScriptFails(k, command.cost)
           /\ ScriptAllows(k, command.cost)
        THEN [mem EXCEPT ![k] = NewTat(@, NowNanos, Ei(k), command.cost)]
        ELSE mem

QuotaInit == Init /\ mem = [k \in Keys |-> None]

QuotaNext ==
    \/ (Tick \/ Flush) /\ UNCHANGED mem
    \/ MoveBack /\ mem' = [k \in Keys |-> None]
    \/ \E k \in Keys : Evict(k) /\ UNCHANGED mem
    \/ \E k \in Keys : Lose(k) /\ mem' = [mem EXCEPT ![k] = None]
    \/ \E t \in Tasks :
         \/ (Send(t) \/ Reload(t) \/ Receive(t) \/ GiveUp(t)) /\ UNCHANGED mem
         \/ Execute(t) /\ mem' = Replayed(call[t])
         \/ ExecuteLate(t) /\ mem' = Replayed(late[t])

QuotaSpec == QuotaInit /\ [][QuotaNext]_quotaVars

\* redis.rs, micros_ceil: "rounded up so a quota never becomes looser in Redis".
\* Whatever has happened so far, a request that Redis would grant now is one the
\* map would grant too: the roundings of the interval, of the burst and of the
\* key's expiry never add up to an extra request.
NeverLooser ==
    backs = 0 =>
        \A k \in Keys : \A cost \in Costs(k) :
            ~ScriptFails(k, cost) /\ ScriptAllows(k, cost) =>
                Decision(mem, k, NowNanos, cost).allowed

=============================================================================
