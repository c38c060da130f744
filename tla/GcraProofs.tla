----------------------------- MODULE GcraProofs -----------------------------
(* What the proofs about the storages and the middleware need to know of Gcra. *)
EXTENDS Gcra, TLAPS

\* What the provers know of \div: the quotient is the largest integer whose product
\* does not exceed the dividend.
LEMMA Division ==
    ASSUME NEW a \in Int, NEW b \in Nat \ {0}, NEW c \in Int
    PROVE  /\ a \div b \in Int
           /\ a \in Nat => a \div b \in Nat
           /\ c <= a \div b <=> b * c <= a
  OBVIOUS

\* Products of naturals distribute and do not shrink.
LEMMA Products ==
    ASSUME NEW m \in Nat, NEW n \in Nat, NEW p \in Nat
    PROVE  /\ m * n \in Nat
           /\ m * (n + p) = m * n + m * p
           /\ n # 0 => m <= m * n
  OBVIOUS

\* Integers only: products and minima of naturals are naturals.
LEMMA SaturatingTypes ==
    ASSUME NEW m \in Nat, NEW n \in Nat
    PROVE  /\ SaturatingAdd(m, n) \in Nanos
           /\ SaturatingMul(m, n) \in Nanos
           /\ SaturatingSub(m, n) \in Nat
           /\ m * n \in Nat
<1>1. m * n \in Nat
  OBVIOUS
<1> DEFINE p == m * n
<1>2. p \in Nat
  BY <1>1
<1>3. AtMost(p, U64Max) \in Nanos
  BY <1>2, U64Assumption DEF AtMost, Nanos
<1> QED
  BY <1>1, <1>3, U64Assumption
     DEF SaturatingAdd, SaturatingSub, SaturatingMul, AtMost, AtLeast, Nanos

\* A saturating sum does not overtake a later one.
LEMMA SaturatingAddMonotone ==
    ASSUME NEW m \in Nat, NEW n \in Nat, NEW d \in Nat, m <= n, n <= U64Max
    PROVE  /\ SaturatingAdd(n, d) \in Nat
           /\ n <= SaturatingAdd(n, d)
           /\ SaturatingAdd(m, d) <= SaturatingAdd(n, d)
  BY U64Assumption DEF SaturatingAdd, AtMost

\* Whatever the TAT and the request, the new TAT fits a u64.
LEMMA NewTatType ==
    ASSUME NEW tat \in Tat, NEW now \in Nat, NEW ei \in Nat, NEW cost \in Nat
    PROVE  /\ CurrentTat(tat, now) \in Nat
           /\ NewTat(tat, now, ei, cost) \in Nanos
<1>1. CurrentTat(tat, now) \in Nat
  BY U64Assumption, NoneAssumption DEF CurrentTat, AtLeast, Tat, Nanos
<1>2. SaturatingMul(ei, cost) \in Nat
  BY SaturatingTypes, U64Assumption DEF Nanos
<1> QED
  BY <1>1, <1>2, SaturatingTypes DEF NewTat

\* Where now + burst_offset is below u64::MAX, an allowed request is charged in
\* full: the new TAT is the current one plus the cost, at most a burst ahead.
LEMMA GrantChargesInFull ==
    ASSUME NEW tat \in Tat, NEW now \in Nat, NEW ei \in Nat, NEW bo \in Nat,
           NEW cost \in Nat,
           now + bo < U64Max,
           Allows(tat, now, ei, bo, cost)
    PROVE  /\ NewTat(tat, now, ei, cost) = CurrentTat(tat, now) + ei * cost
           /\ NewTat(tat, now, ei, cost) <= now + bo
<1> DEFINE p == ei * cost
           c == CurrentTat(tat, now)
           m == SaturatingMul(ei, cost)
           n == NewTat(tat, now, ei, cost)
<1>1. p \in Nat /\ c \in Nat /\ n \in Nat /\ m \in Nat
  BY SaturatingTypes, NewTatType, U64Assumption DEF Nanos
<1>2. m = AtMost(p, U64Max) /\ n = AtMost(c + m, U64Max)
  BY DEF SaturatingMul, NewTat, SaturatingAdd
<1>3. n <= now + bo
  <2>1. AtLeast(n - bo, 0) <= now
    BY DEF Allows, AllowAt, SaturatingSub
  <2> HIDE DEF n
  <2> QED
    BY <1>1, <2>1 DEF AtLeast
<1> HIDE DEF p, c, m, n
<1>4. n = c + p
  BY <1>1, <1>2, <1>3, U64Assumption DEF AtMost
<1> QED
  BY <1>3, <1>4 DEF n, c, p

\* CeilSecs rounds up: whole seconds, enough to cover the duration.
LEMMA CeilSecsCovers ==
    ASSUME NEW d \in Nat
    PROVE  /\ CeilSecs(d) \in Nat
           /\ d <= CeilSecs(d) * NanosPerSec
           /\ CeilSecs(d) * NanosPerSec < d + NanosPerSec
<1> DEFINE p == NanosPerSec
           q == (d + p - 1) \div p
<1>1. p \in Nat \ {0}
  BY NanosPerSecAssumption
<1>2. d + p - 1 \in Nat /\ q \in Nat
  BY <1>1, Division
<1>3. p * q <= d + p - 1 /\ ~(p * (q + 1) <= d + p - 1)
  BY <1>1, <1>2, Division
<1>4. q * p = p * q /\ p * (q + 1) = p * q + p /\ p * q \in Nat
  BY <1>1, <1>2
<1>5. d <= q * p /\ q * p < d + p
  <2> DEFINE x == p * q
  <2>1. x <= d + p - 1 /\ ~(x + p <= d + p - 1) /\ q * p = x /\ x \in Nat
    BY <1>3, <1>4
  <2> HIDE DEF x, p, q
  <2> QED
    BY <1>1, <2>1
<1> QED
  BY <1>2, <1>5 DEF CeilSecs

\* check_gcra's wait is exact, saturated or not: a request that fits the burst and
\* is denied at `now' is allowed at a later time n exactly if n is at least
\* allow_at, which lies after `now'.
LEMMA WaitExact ==
    ASSUME NEW tat \in Tat, NEW now \in Nat, NEW ei \in Nat, NEW bo \in Nat, NEW cost \in Nat,
           SaturatingMul(ei, cost) <= bo,
           ~Allows(tat, now, ei, bo, cost),
           NEW n \in Nat, now <= n
    PROVE  /\ AllowAt(tat, now, ei, bo, cost) \in Nat
           /\ now < AllowAt(tat, now, ei, bo, cost)
           /\ Allows(tat, n, ei, bo, cost) <=> AllowAt(tat, now, ei, bo, cost) <= n
<1> DEFINE m == SaturatingMul(ei, cost)
<1>1. m \in Nat /\ m <= bo
  BY SaturatingTypes, U64Assumption DEF Nanos
<1> HIDE DEF m
<1>2. CASE tat = None
  BY <1>1, <1>2, U64Assumption
     DEF Allows, AllowAt, NewTat, CurrentTat, SaturatingAdd, SaturatingSub, AtMost, AtLeast, m
<1>3. CASE tat \in Nat
  <2>1. tat # None
    BY <1>3, NoneAssumption
  <2> QED
    BY <1>1, <1>3, <2>1, U64Assumption
       DEF Allows, AllowAt, NewTat, CurrentTat, SaturatingAdd, SaturatingSub, AtMost, AtLeast, m
<1> QED
  BY <1>2, <1>3, U64Assumption DEF Tat, Nanos

\* A quota that the constructors accept has a non-zero interval; the interval and
\* the offset fit a u64, and no cost within the burst is above the offset.
LEMMA LimitedQuotaTypes ==
    ASSUME NEW q, LimitedQuota(q)
    PROVE  /\ q.max_burst \in Nat \ {0}
           /\ ReplenishInterval(q) \in Nat \ {0}
           /\ EmissionInterval(q) \in Nanos
           /\ BurstOffset(q) \in Nanos
<1>1. q.max_burst \in Nat \ {0} /\ q.window \in Nat /\ q.max_burst * 1 <= q.window
  BY DEF LimitedQuota
<1>2. ReplenishInterval(q) \in Nat /\ 1 <= ReplenishInterval(q)
  BY <1>1, Division DEF ReplenishInterval
<1>3. EmissionInterval(q) \in Nanos
  BY <1>2, U64Assumption DEF EmissionInterval, AtMost, Nanos
<1>4. EmissionInterval(q) \in Nat
  BY <1>3, U64Assumption DEF Nanos
<1>5. BurstOffset(q) \in Nanos
  BY <1>1, <1>4, SaturatingTypes DEF BurstOffset
<1> QED
  BY <1>1, <1>2, <1>3, <1>5

\* A quota whose burst fits a u64 keeps its interval and its offset.
LEMMA UnsaturatedQuota ==
    ASSUME NEW q, LimitedQuota(q), ReplenishInterval(q) * q.max_burst < U64Max
    PROVE  /\ EmissionInterval(q) = ReplenishInterval(q)
           /\ BurstOffset(q) = ReplenishInterval(q) * q.max_burst
<1> DEFINE r == ReplenishInterval(q)
           b == q.max_burst
           p == r * b
<1>1. r \in Nat /\ b \in Nat \ {0}
  BY LimitedQuotaTypes
<1>2. p \in Nat /\ r <= p
  BY <1>1, Products
<1>3. p < U64Max
  OBVIOUS
<1>4. EmissionInterval(q) = AtMost(r, U64Max)
  BY DEF EmissionInterval
<1> HIDE DEF r, p
<1>5. EmissionInterval(q) = r
  BY <1>1, <1>2, <1>3, <1>4, U64Assumption DEF AtMost
<1>6. BurstOffset(q) = AtMost(p, U64Max)
  BY <1>5 DEF BurstOffset, SaturatingMul, p
<1>7. BurstOffset(q) = p
  BY <1>2, <1>3, <1>6, U64Assumption DEF AtMost
<1> QED
  BY <1>5, <1>7 DEF r, p
=============================================================================
