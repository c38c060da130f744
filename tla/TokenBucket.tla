---------------------------- MODULE TokenBucket -----------------------------
(***************************************************************************)
(* What a storage shared by several instances promises: per key, a debt    *)
(* that time pays off one unit at a time, that a request may raise by its  *)
(* cost, once, as long as it stays within the burst, and that nothing else *)
(* raises.  A request that was counted is neither pending nor abandoned any*)
(* more, so that it cannot be counted again.  Expiry, capping, lost replies*)
(* and reloaded scripts do not show.                                       *)
(***************************************************************************)
EXTENDS Integers

CONSTANTS
    None,
    Tasks,          \* the tasks that make requests
    Keys,
    Interval(_),    \* what one cell of a key costs
    Offset(_),      \* the most a key may owe
    Costs(_),       \* the costs its requests have
    Leaps           \* how far the clock may move back

VARIABLES
    asked,          \* per task, the request it waits for and that may be counted, or None
    left,           \* per task, a request it abandoned that may be counted, or None
    debt,           \* what each key owes
    moved_back,     \* whether the clock has ever moved back
    losses          \* how often the server has lost a key

bucketVars == <<asked, left, debt, moved_back, losses>>

Less(n) == IF n > 0 THEN n - 1 ELSE 0

Init ==
    /\ asked = [t \in Tasks |-> None]
    /\ left = [t \in Tasks |-> None]
    /\ debt = [k \in Keys |-> 0]
    /\ moved_back = FALSE
    /\ losses = 0

\* Time pays; after the clock has moved back a full bucket may stay full, until
\* the clock is where it was.
Tick ==
    /\ debt' \in [Keys -> Nat]
    /\ \A k \in Keys :
         \/ debt'[k] = Less(debt[k])
         \/ moved_back /\ debt[k] = Offset(k) /\ debt'[k] = debt[k]
    /\ UNCHANGED <<asked, left, moved_back, losses>>

\* The clock moves back by d: nobody owes less for it, and nobody more than a
\* full burst.
MoveBack(d) ==
    /\ debt' \in [Keys -> Nat]
    /\ \A k \in Keys :
         /\ debt'[k] >= debt[k]
         /\ debt'[k] <= debt[k] + d
         /\ debt'[k] <= Offset(k)
    /\ moved_back' = TRUE
    /\ UNCHANGED <<asked, left, losses>>

\* A request is made.
Ask(t) ==
    /\ asked[t] = None
    /\ \E k \in Keys : \E cost \in Costs(k) :
         asked' = [asked EXCEPT ![t] = [key |-> k, cost |-> cost]]
    /\ UNCHANGED <<left, debt, moved_back, losses>>

\* The key has room for the request and owes its cost from now on.
Charge(request) ==
    LET k == request.key
        cost == Interval(k) * request.cost
    IN  /\ debt[k] + cost <= Offset(k)
        /\ debt' = [debt EXCEPT ![k] = debt[k] + cost]

\* The request is granted and counted: it is not pending any more.
Take(t) ==
    /\ asked[t] # None
    /\ Charge(asked[t])
    /\ asked' = [asked EXCEPT ![t] = None]
    /\ UNCHANGED <<left, moved_back, losses>>

\* The request is denied, fails or is lost, and not counted.
Refuse(t) ==
    /\ asked[t] # None
    /\ asked' = [asked EXCEPT ![t] = None]
    /\ UNCHANGED <<left, debt, moved_back, losses>>

\* The task stops waiting for a request that may still be counted.
Abandon(t) ==
    /\ asked[t] # None /\ left[t] = None
    /\ left' = [left EXCEPT ![t] = asked[t]]
    /\ asked' = [asked EXCEPT ![t] = None]
    /\ UNCHANGED <<debt, moved_back, losses>>

\* An abandoned request is counted after all, or is not.
TakeLate(t) ==
    /\ left[t] # None
    /\ Charge(left[t])
    /\ left' = [left EXCEPT ![t] = None]
    /\ UNCHANGED <<asked, moved_back, losses>>

RefuseLate(t) ==
    /\ left[t] # None
    /\ left' = [left EXCEPT ![t] = None]
    /\ UNCHANGED <<asked, debt, moved_back, losses>>

\* The server lost the key; nothing else makes a debt disappear.
Forget(k) ==
    /\ debt' = [debt EXCEPT ![k] = 0]
    /\ losses' = losses + 1
    /\ UNCHANGED <<asked, left, moved_back>>

Next ==
    \/ \E t \in Tasks :
         \/ Ask(t) \/ Take(t) \/ Refuse(t)
         \/ Abandon(t) \/ TakeLate(t) \/ RefuseLate(t)
    \/ Tick
    \/ \E k \in Keys : Forget(k)
    \/ \E d \in Leaps : MoveBack(d)

Spec == Init /\ [][Next]_bucketVars

=============================================================================
