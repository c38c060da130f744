-------------------------- MODULE TierLimitProofs ---------------------------
(***************************************************************************)
(* The middleware, for every set of requests, users, tiers and             *)
(* configurations that the builders can make.  The invariant says, of each *)
(* request in flight, how far it has come and what follows from that.      *)
(***************************************************************************)
EXTENDS TierLimit, GcraProofs

\* The request has been resolved to the bucket of its account, and fits the burst.
Consulted(r) ==
    /\ request[r].key = Account(r)
    /\ request[r].key \in StorageKey
    /\ request[r].key.tier \in Limited
    /\ request[r].quota = QuotaOfTier(request[r].key.tier)
    /\ RequestCost(request[r].cost) <= request[r].quota.max_burst

\* How the result of the storage and the place of the request go together.
Placed(r) ==
    LET q == request[r]
    IN  /\ q.now <= clock
        /\ q.pc \in {"body", "identify", "inner"} => q.via # "check"
        /\ q.pc \in {"body", "identify", "storage"} => q.result = "none" /\ q.headers = None
        /\ q.pc = "result" => q.result # "none" /\ q.headers = None
        /\ q.pc = "inner" => q.result # "limited"
        /\ q.pc = "storage" \/ q.result # "none" => Consulted(r)

\* The result is the storage's answer, and says whether the request was counted.
Decided(r) ==
    LET q == request[r]
    IN  /\ q.result \in {"none", "limited"} => ~q.charged
        /\ q.result = "allowed" => q.charged
        /\ q.result \in {"allowed", "limited"} =>
             (DecisionOn(r, q.tat).allowed <=> q.result = "allowed")

\* The answer follows from the result.
Answered(r) ==
    LET q == request[r]
    IN  q.pc = "done" =>
        /\ q.answer = "limited" => q.result = "limited"
        /\ q.result = "allowed" => q.answer \in {"served", "inner error"}
        /\ q.result = "error" =>
             q.answer \in {"served", "inner error", "unavailable", "check error"}

Excused(r) ==
    LetIn(r) => \/ request[r].charged
                \/ Exempt(r)
                \/ request[r].result = "error" /\ settings.on_storage_error = "Allow"

Reported(r) ==
    At(r, "inner") /\ ~request[r].charged /\ settings.on_event /\ request[r].identity # None
    => \/ request[r].identity.tier \in Tiers \ Limited
       \/ request[r].events \cap {"UnknownTier", "StorageError"} # {}

\* The headers are those of the storage's answer at the time they were made.
Printed(r) ==
    LET q == request[r]
    IN  q.headers # None =>
        /\ q.now <= q.checked /\ q.checked <= clock
        /\ q.result \in {"allowed", "limited"}
        /\ q.headers = IF q.result = "allowed"
                       THEN InfoHeaders(DecisionOn(r, q.tat), q.checked + WallOffset)
                       ELSE LimitedHeaders(DecisionOn(r, q.tat), q.checked + WallOffset)

Coherent(r) ==
    /\ Placed(r) /\ Decided(r) /\ Answered(r)
    /\ Excused(r) /\ Reported(r) /\ Printed(r)

Inv ==
    /\ TypeOK
    /\ \A r \in Requests : request[r] # None => Coherent(r)

-----------------------------------------------------------------------------

\* What the builders make: tiers with valid quotas, and known policies.
LEMMA ConfigTypes ==
    ASSUME config \in Configs
    PROVE  /\ Tiers \subseteq TierNames
           /\ \A tier \in Limited : /\ LimitedQuota(QuotaOfTier(tier))
                                    /\ QuotaOfTier(tier) \in [max_burst : Nat, window : Nat]
                                    /\ tier \in Tiers
           /\ rate_tier.default_tier \in Tiers \cup {None}
           /\ rate_tier.on_missing \in MissingPolicy
           /\ rate_tier.on_unknown_tier \in UnknownTierPolicy
           /\ settings.on_storage_error \in StorageErrorPolicy
           /\ settings.cost_fn \in Nat \cup {None}
<1>1. /\ ValidRateTier(rate_tier)
      /\ settings.on_storage_error \in StorageErrorPolicy
      /\ settings.cost_fn \in Nat \cup {None}
  BY ConfigAssumption DEF rate_tier, settings
<1>2. \A tier \in Limited : ValidQuota(QuotaOfTier(tier)) /\ ~IsUnlimited(QuotaOfTier(tier))
  BY <1>1 DEF Limited, Tiers, QuotaOfTier, ValidRateTier
<1> QED
  BY <1>1, <1>2 DEF ValidRateTier, ValidQuota, Tiers, Limited

\* Every cost is a natural number.
LEMMA CostType ==
    ASSUME config \in Configs, NEW cost \in Extensions \cup {1}
    PROVE  RequestCost(cost) \in Nat
<1>1. settings.cost_fn \in Nat \cup {None}
  BY ConfigTypes
<1> QED
  BY <1>1, CostAssumption DEF RequestCost, Extensions

\* OfTier answers with the bucket of the tier, unless the tier has no limit.
LEMMA OfTierAnswers ==
    ASSUME NEW user, NEW tier \in Tiers
    PROVE  \/ /\ tier \in Limited
              /\ OfTier(user, tier).outcome = "Limit"
              /\ OfTier(user, tier).key = [user |-> user, tier |-> tier]
              /\ OfTier(user, tier).quota = QuotaOfTier(tier)
           \/ tier \in Tiers \ Limited /\ OfTier(user, tier).outcome = "PassThrough"
<1>1. CASE IsUnlimited(QuotaOfTier(tier))
  BY <1>1 DEF OfTier, Pass, Limited
<1>2. CASE ~IsUnlimited(QuotaOfTier(tier))
  BY <1>2 DEF OfTier, Limit, Limited
<1> QED
  BY <1>1, <1>2

\* resolve_identity and resolve_quota: a limited request gets the bucket of its
\* account, and one that passes is exempt.
LEMMA Resolution ==
    ASSUME config \in Configs, NEW r, request[r].identity \in Identity \cup {None}
    PROVE  LET identity == request[r].identity
               target == Resolve(identity)
           IN  \/ /\ target.outcome = "PassThrough"
                  /\ Exempt(r)
                  /\ identity # None => identity.tier \in Tiers \ Limited \/ identity.tier \notin Tiers
               \/ target.outcome = "Deny"
               \/ /\ target.outcome = "Limit"
                  /\ target.key = Account(r)
                  /\ target.key \in StorageKey
                  /\ target.key.tier \in Limited
                  /\ target.quota = QuotaOfTier(target.key.tier)
<1> DEFINE identity == request[r].identity
           target == Resolve(identity)
           default == rate_tier.default_tier
<1>1. /\ Tiers \subseteq TierNames
      /\ default \in Tiers \cup {None}
      /\ rate_tier.on_missing \in {"UseDefault", "Allow", "Deny"}
      /\ rate_tier.on_unknown_tier \in {"UseDefault", "Deny", "Allow"}
  BY ConfigTypes DEF MissingPolicy, UnknownTierPolicy
<1>2. CASE identity = None
  <2>1. Spender(r) = Anonymous /\ ClaimedTier(r) = default
    BY <1>2 DEF Spender, ClaimedTier
  <2>2. CASE rate_tier.on_missing = "Allow"
    BY <1>2, <2>2 DEF Resolve, Pass, Exempt
  <2>3. CASE rate_tier.on_missing = "Deny"
    BY <1>2, <2>3 DEF Resolve, Deny
  <2>4. CASE rate_tier.on_missing = "UseDefault" /\ default = None
    BY <1>2, <2>4 DEF Resolve, Deny
  <2>5. CASE rate_tier.on_missing = "UseDefault" /\ default # None
    <3>1. target = OfTier(Anonymous, default) /\ default \in Tiers
      BY <1>1, <1>2, <2>5 DEF Resolve, ResolveQuota
    <3>2. Account(r) = [user |-> Anonymous, tier |-> default] /\ Account(r) \in StorageKey
      BY <1>1, <2>1, <3>1 DEF Account, StorageKey
    <3>3. default \in Tiers \ Limited => Exempt(r)
      BY <2>1 DEF Exempt
    <3> QED
      BY <1>2, <3>1, <3>2, <3>3, OfTierAnswers
  <2> QED
    BY <1>1, <2>2, <2>3, <2>4, <2>5
<1>3. CASE identity # None
  <2>1. identity \in Identity /\ Spender(r) = identity.user
    BY <1>3 DEF Spender
  <2>2. target = ResolveQuota(identity.user, identity.tier)
    BY <1>3 DEF Resolve
  <2>3. CASE identity.tier \in Tiers
    <3>1. target = OfTier(identity.user, identity.tier)
      BY <2>2, <2>3 DEF ResolveQuota
    <3>2. ClaimedTier(r) = identity.tier
      BY <1>3, <2>3 DEF ClaimedTier
    <3>3. Account(r) = [user |-> identity.user, tier |-> identity.tier] /\ Account(r) \in StorageKey
      BY <2>1, <3>2 DEF Account, StorageKey, Identity
    <3>4. identity.tier \in Tiers \ Limited => Exempt(r)
      BY <3>2 DEF Exempt
    <3> QED
      BY <2>3, <3>1, <3>3, <3>4, OfTierAnswers
  <2>4. CASE identity.tier \notin Tiers /\ rate_tier.on_unknown_tier = "Allow"
    BY <1>3, <2>2, <2>4 DEF ResolveQuota, Pass, Exempt
  <2>5. CASE identity.tier \notin Tiers /\ rate_tier.on_unknown_tier = "Deny"
    BY <2>2, <2>5 DEF ResolveQuota, Deny
  <2>6. CASE /\ identity.tier \notin Tiers /\ rate_tier.on_unknown_tier = "UseDefault"
             /\ default = None
    BY <2>2, <2>6 DEF ResolveQuota, Deny
  <2>7. CASE /\ identity.tier \notin Tiers /\ rate_tier.on_unknown_tier = "UseDefault"
             /\ default # None
    <3>1. target = OfTier(identity.user, default) /\ default \in Tiers
      BY <1>1, <2>2, <2>7 DEF ResolveQuota
    <3>2. ClaimedTier(r) = default
      BY <2>7 DEF ClaimedTier
    <3>3. Account(r) = [user |-> identity.user, tier |-> default] /\ Account(r) \in StorageKey
      BY <1>1, <2>1, <3>1, <3>2 DEF Account, StorageKey, Identity
    <3>4. default \in Tiers \ Limited => Exempt(r)
      BY <3>2 DEF Exempt
    <3> QED
      BY <2>7, <3>1, <3>3, <3>4, OfTierAnswers
  <2> QED
    BY <1>1, <2>3, <2>4, <2>5, <2>6, <2>7
<1> QED
  BY <1>2, <1>3

\* check_gcra's answer, for a quota that the constructors accept.
LEMMA VerdictTypes ==
    ASSUME NEW tat \in Tat, NEW now \in Nat, NEW quota, LimitedQuota(quota), NEW cost \in Nat,
           NEW ei, ei = EmissionInterval(quota), NEW bo, bo = BurstOffset(quota),
           NEW d, d = Verdict(tat, now, quota, cost)
    PROVE  /\ ei \in Nat \ {0} /\ bo \in Nat
           /\ d.allowed \in BOOLEAN
           /\ d.allowed <=> Allows(tat, now, ei, bo, cost)
           /\ d.limit \in Nat
           /\ d.allowed => /\ d.remaining \in Nat
                           /\ d.reset_after = d.new_tat - now
                           /\ d.new_tat = NewTat(tat, now, ei, cost)
                           /\ d.new_tat \in Nanos
           /\ ~d.allowed => /\ d.reset_after = CurrentTat(tat, now) - now
                            /\ d.retry_after = AllowAt(tat, now, ei, bo, cost) - now
                            /\ d.retry_after \in Nat
           /\ d.reset_after \in Int
<1>1. ei \in Nat \ {0} /\ bo \in Nat
  <2>1. ReplenishInterval(quota) \in Nat \ {0} /\ BurstOffset(quota) \in Nanos
    BY LimitedQuotaTypes
  <2> QED
    BY <2>1, U64Assumption, RangeAssumption DEF EmissionInterval, AtMost, Nanos
<1> DEFINE n == NewTat(tat, now, ei, cost)
           c == CurrentTat(tat, now)
<1>2. n \in Nanos /\ n \in Nat /\ c \in Nat
  BY <1>1, NewTatType, U64Assumption DEF Nanos
<1>3. bo \div ei \in Nat
  BY <1>1, Division
<1>4. d = CheckGcra(tat, now, ei, bo, cost)
  BY DEF Verdict
<1>5. CASE Allows(tat, now, ei, bo, cost)
  <2>1. d = Granted(tat, now, ei, bo, cost)
    BY <1>4, <1>5 DEF CheckGcra
  <2>2. SaturatingSub(bo, n - now) \in Nat
    <3> HIDE DEF n
    <3> QED
      BY <1>1, <1>2 DEF SaturatingSub, AtLeast
  <2>3. SaturatingSub(bo, n - now) \div ei \in Nat
    BY <1>1, <2>2, Division
  <2>4. /\ d.allowed = TRUE /\ d.limit = bo \div ei /\ d.reset_after = n - now /\ d.new_tat = n
        /\ d.remaining = SaturatingSub(bo, n - now) \div ei
    BY <2>1 DEF Granted
  <2> HIDE DEF n
  <2>5. n - now \in Int
    BY <1>2
  <2> QED
    BY <1>1, <1>2, <1>3, <1>5, <2>3, <2>4, <2>5 DEF n
<1>6. CASE ~Allows(tat, now, ei, bo, cost)
  <2>1. d = Denied(tat, now, ei, bo, cost)
    BY <1>4, <1>6 DEF CheckGcra
  <2> DEFINE a == AllowAt(tat, now, ei, bo, cost)
  <2>2. a \in Nat /\ ~(a <= now)
    <3>1. a = SaturatingSub(n, bo)
      BY DEF AllowAt
    <3>2. ~(a <= now)
      BY <1>6 DEF Allows
    <3> HIDE DEF n, a
    <3>3. a \in Nat
      BY <1>1, <1>2, <3>1, SaturatingTypes
    <3> QED
      BY <3>2, <3>3
  <2>3. /\ d.allowed = FALSE /\ d.limit = bo \div ei /\ d.reset_after = c - now
        /\ d.retry_after = a - now
    BY <2>1 DEF Denied
  <2> HIDE DEF a, c
  <2>4. a - now \in Nat /\ c - now \in Int
    BY <1>2, <2>2
  <2> QED
    BY <1>1, <1>3, <1>6, <2>3, <2>4 DEF a, c
<1> QED
  BY <1>5, <1>6

\* The headers of an answer are numbers.
LEMMA HeaderTypes ==
    ASSUME NEW d, NEW now \in Int, d.limit \in Nat, d.reset_after \in Int
    PROVE  /\ d.remaining \in Nat => InfoHeaders(d, now) \in Headers
           /\ d.retry_after \in Nat => LimitedHeaders(d, now) \in Headers
<1> DEFINE value == ResetHeaderValue(d.reset_after, now)
<1>1. value \in Nat
  <2> DEFINE t == now + d.reset_after
  <2>1. t \in Int
    OBVIOUS
  <2>2. t >= 0 => CeilSecs(t) \in Nat
    BY <2>1, CeilSecsCovers
  <2>3. CASE t > MaxWall
    BY <2>3, U64Assumption DEF ResetHeaderValue
  <2>4. CASE ~(t > MaxWall) /\ t < 0
    BY <2>4 DEF ResetHeaderValue
  <2>5. CASE ~(t > MaxWall) /\ ~(t < 0)
    BY <2>1, <2>2, <2>5 DEF ResetHeaderValue
  <2> QED
    BY <2>3, <2>4, <2>5
<1> HIDE DEF value
<1>2. d.retry_after \in Nat => CeilSecs(d.retry_after) \in Nat
  BY CeilSecsCovers
<1> QED
  BY <1>1, <1>2 DEF InfoHeaders, LimitedHeaders, Headers, value

\* What the middleware computes from the configuration, the identity and the cost
\* of a request stays the same while these do.
LEMMA SameAccount ==
    ASSUME NEW r, UNCHANGED config,
           request'[r].identity = request[r].identity,
           request'[r].cost = request[r].cost
    PROVE  /\ settings' = settings
           /\ Tiers' = Tiers /\ Limited' = Limited
           /\ Account(r)' = Account(r)
           /\ Exempt(r)' <=> Exempt(r)
           /\ RequestCost(request[r].cost)' = RequestCost(request[r].cost)
           /\ \A tier : QuotaOfTier(tier)' = QuotaOfTier(tier)
<1>1. settings' = settings /\ rate_tier' = rate_tier
  BY DEF settings, rate_tier
<1>2. Tiers' = Tiers /\ \A tier : QuotaOfTier(tier)' = QuotaOfTier(tier)
  BY <1>1 DEF Tiers, QuotaOfTier
<1>3. Limited' = Limited
  BY <1>2 DEF Limited
<1>4. ClaimedTier(r)' = ClaimedTier(r) /\ Spender(r)' = Spender(r)
  BY <1>1, <1>2 DEF ClaimedTier, Spender
<1>5. Account(r)' = Account(r)
  BY <1>4 DEF Account
<1>6. Exempt(r)' <=> Exempt(r)
  BY <1>1, <1>2, <1>3, <1>4 DEF Exempt
<1>7. RequestCost(request[r].cost)' = RequestCost(request[r].cost)
  BY <1>1 DEF RequestCost
<1> QED
  BY <1>1, <1>2, <1>3, <1>5, <1>6, <1>7

\* Once resolved, a request keeps its bucket.
LEMMA SameBucket ==
    ASSUME NEW r, UNCHANGED config,
           request'[r].identity = request[r].identity,
           request'[r].cost = request[r].cost,
           request'[r].key = request[r].key,
           request'[r].quota = request[r].quota
    PROVE  Consulted(r) => Consulted(r)'
  BY SameAccount DEF Consulted

\* What the storage decides on a request stays the same while the request does.
LEMMA SameDecision ==
    ASSUME NEW r, UNCHANGED config,
           request'[r].identity = request[r].identity,
           request'[r].cost = request[r].cost,
           request'[r].quota = request[r].quota,
           request'[r].now = request[r].now,
           request'[r].tat = request[r].tat
    PROVE  DecisionOn(r, request[r].tat)' = DecisionOn(r, request[r].tat)
  BY SameAccount DEF DecisionOn

\* A step of another request leaves this one coherent.
LEMMA OthersCoherent ==
    ASSUME TypeOK, NEW s \in Requests, request[s] # None, Coherent(s),
           UNCHANGED config, clock' \in Nat, clock <= clock',
           request'[s] = request[s]
    PROVE  Coherent(s)'
<1>1. request[s] \in Request /\ clock \in Nat
  BY MaxTimeAssumption, U64Assumption DEF TypeOK, Nanos
<1>2. request[s].now \in Nat /\ request[s].checked \in Nat
  BY <1>1, MaxTimeAssumption, U64Assumption DEF Request, Nanos
<1>3. Placed(s)'
  BY <1>1, <1>2, SameBucket DEF Coherent, Placed
<1>4. Decided(s)'
  BY SameDecision DEF Coherent, Decided
<1>5. Answered(s)'
  BY DEF Coherent, Answered
<1>6. Excused(s)'
  BY SameAccount DEF Coherent, Excused, LetIn, At
<1>7. Reported(s)'
  BY SameAccount DEF Coherent, Reported, At
<1>8. Printed(s)'
  BY <1>1, <1>2, SameDecision DEF Coherent, Printed
<1> QED
  BY <1>3, <1>4, <1>5, <1>6, <1>7, <1>8 DEF Coherent

\* The types of a request in flight.
LEMMA RequestTypes ==
    ASSUME TypeOK, NEW r \in Requests, request[r] # None
    PROVE  /\ request[r] \in Request
           /\ request[r].identity \in Identity \cup {None}
           /\ request[r].cost \in Extensions \cup {1}
           /\ RequestCost(request[r].cost) \in Nat
           /\ request[r].now \in Nat /\ request[r].checked \in Nat
           /\ request[r].tat \in Tat
           /\ clock \in Nat /\ clock \in 0 .. MaxTime /\ clock <= U64Max
<1>1. request[r] \in Request /\ clock \in 0 .. MaxTime
  BY DEF TypeOK
<1>2. request[r].cost \in Extensions \cup {1}
  BY <1>1 DEF Request
<1>3. RequestCost(request[r].cost) \in Nat
  BY <1>2, CostType DEF TypeOK
<1> QED
  BY <1>1, <1>2, <1>3, MaxTimeAssumption, U64Assumption DEF Request, Nanos

\* A step of request r keeps the invariant of the requests if it keeps that of r.
LEMMA Frame ==
    ASSUME Inv, UNCHANGED <<config, clock>>, NEW r \in Requests, NEW new,
           request' = [request EXCEPT ![r] = new],
           new \in Request \cup {None},
           new # None => Coherent(r)'
    PROVE  /\ request' \in [Requests -> Request \cup {None}]
           /\ \A s \in Requests : request'[s] # None => Coherent(s)'
<1>1. request' \in [Requests -> Request \cup {None}]
  BY DEF Inv, TypeOK
<1>2. ASSUME NEW s \in Requests, request'[s] # None PROVE Coherent(s)'
  <2>1. CASE s = r
    BY <1>2, <2>1 DEF Inv, TypeOK
  <2>2. CASE s # r
    <3>1. request'[s] = request[s]
      BY <2>2 DEF Inv, TypeOK
    <3>2. Coherent(s) /\ request[s] # None
      BY <1>2, <3>1 DEF Inv
    <3>3. clock' \in Nat /\ clock <= clock'
      BY MaxTimeAssumption, U64Assumption DEF Inv, TypeOK, Nanos
    <3> QED
      BY <3>1, <3>2, <3>3, OthersCoherent DEF Inv
  <2> QED
    BY <2>1, <2>2
<1> QED
  BY <1>1, <1>2

\* The same for a step that does nothing else.
LEMMA RequestStep ==
    ASSUME Inv, UNCHANGED <<config, clock, map, ready, spent>>, NEW r \in Requests, NEW new,
           request' = [request EXCEPT ![r] = new],
           new \in Request \cup {None},
           new # None => Coherent(r)'
    PROVE  Inv'
<1>1. /\ request' \in [Requests -> Request \cup {None}]
      /\ \A s \in Requests : request'[s] # None => Coherent(s)'
  BY Frame
<1>2. Limited' = Limited
  BY DEF Limited, Tiers, QuotaOfTier, rate_tier
<1> QED
  BY <1>1, <1>2 DEF Inv, TypeOK

\* A request that the storage has not been asked about yet is coherent.
LEMMA FreshCoherent ==
    ASSUME NEW r, request'[r].pc = "body" \/ request'[r].pc = "identify",
           request'[r].via # "check",
           request'[r].result = "none", request'[r].charged = FALSE,
           request'[r].headers = None, request'[r].now <= clock'
    PROVE  Coherent(r)'
<1>1. Placed(r)'
  BY DEF Placed
<1>2. Decided(r)' /\ Answered(r)' /\ Printed(r)'
  BY DEF Decided, Answered, Printed
<1>3. Excused(r)' /\ Reported(r)'
  BY DEF Excused, Reported, LetIn, At
<1> QED
  BY <1>1, <1>2, <1>3 DEF Coherent

\* A request that is answered without the storage, and not let in, is coherent.
LEMMA RefusedCoherent ==
    ASSUME NEW r, request'[r].pc = "done",
           request'[r].answer \in {"bad request", "payload too large", "denied",
                                   "cost exceeds limit", "check error"},
           request'[r].result = "none", request'[r].charged = FALSE,
           request'[r].headers = None, request'[r].now <= clock'
    PROVE  Coherent(r)'
<1>1. Placed(r)'
  BY DEF Placed
<1>2. Decided(r)' /\ Answered(r)' /\ Printed(r)'
  BY DEF Decided, Answered, Printed
<1>3. Excused(r)' /\ Reported(r)'
  BY DEF Excused, Reported, LetIn, At
<1> QED
  BY <1>1, <1>2, <1>3 DEF Coherent

\* A request that has just been resolved to a bucket is coherent.
LEMMA AskedCoherent ==
    ASSUME NEW r, request'[r].pc = "storage", Consulted(r)',
           request'[r].result = "none", request'[r].charged = FALSE,
           request'[r].headers = None, request'[r].now <= clock'
    PROVE  Coherent(r)'
<1>1. Placed(r)'
  BY DEF Placed
<1>2. Decided(r)' /\ Answered(r)' /\ Printed(r)'
  BY DEF Decided, Answered, Printed
<1>3. Excused(r)' /\ Reported(r)'
  BY DEF Excused, Reported, LetIn, At
<1> QED
  BY <1>1, <1>2, <1>3 DEF Coherent

LEMMA NewRequest ==
    ASSUME NEW via \in {"service", "buffered", "check"},
           NEW identity \in Identity \cup {None}, NEW cost \in Extensions \cup {1},
           NEW pc \in {"body", "identify", "storage", "done"}
    PROVE  New(via, identity, cost, pc) \in Request
<1>1. 0 \in 0 .. MaxTime
  BY MaxTimeAssumption, U64Assumption DEF Nanos
<1> QED
  BY <1>1 DEF New, Request, Tat

LEMMA CallServiceStep ==
    ASSUME Inv, NEW r \in Requests, CallService(r)
    PROVE  Inv'
<1>1. /\ UNCHANGED <<config, clock, map, spent>> /\ ready' \in BOOLEAN
      /\ clock \in Nat
  <2>1. clock \in Nat
    BY MaxTimeAssumption, U64Assumption DEF Inv, TypeOK, Nanos
  <2>2. UNCHANGED <<config, clock, map, spent>> /\ ready' = FALSE
    BY DEF CallService
  <2> QED
    BY <2>1, <2>2
<1>2. PICK identity \in Identities, cost \in Extensions :
        \/ request' = [request EXCEPT ![r] = New("service", identity, cost, "identify")]
        \/ request' = [request EXCEPT ![r] = New("buffered", identity, cost, "body")]
  BY DEF CallService
<1>3. PICK new : /\ request' = [request EXCEPT ![r] = new]
                 /\ \/ new = New("service", identity, cost, "identify")
                    \/ new = New("buffered", identity, cost, "body")
  BY <1>2
<1>4. new \in Request
  <2>1. identity \in Identity \cup {None}
    BY DEF Identities
  <2> QED
    BY <1>3, <2>1, NewRequest
<1>5. Coherent(r)'
  <2>1. request'[r] = new
    BY <1>3 DEF Inv, TypeOK
  <2>2. /\ new.pc \in {"body", "identify"} /\ new.via # "check"
        /\ new.result = "none" /\ new.charged = FALSE /\ new.headers = None /\ new.now = 0
    BY <1>3 DEF New
  <2>3. 0 <= clock'
    BY <1>1
  <2> QED
    BY <2>1, <2>2, <2>3, FreshCoherent
<1>6. /\ request' \in [Requests -> Request \cup {None}]
      /\ \A s \in Requests : request'[s] # None => Coherent(s)'
  BY <1>1, <1>3, <1>4, <1>5, Frame
<1>7. Limited' = Limited
  BY <1>1 DEF Limited, Tiers, QuotaOfTier, rate_tier
<1> QED
  BY <1>1, <1>6, <1>7 DEF Inv, TypeOK

LEMMA CollectBodyStep ==
    ASSUME Inv, NEW r \in Requests, CollectBody(r)
    PROVE  Inv'
<1>1. /\ UNCHANGED <<config, clock, map, ready, spent>>
      /\ request[r] # None /\ request[r].pc = "body"
  BY DEF CollectBody, At
<1>2. request[r] \in Request /\ clock \in Nat /\ request[r].now \in Nat
  BY <1>1, RequestTypes DEF Inv
<1>3. /\ Placed(r) /\ Decided(r)
  BY <1>1 DEF Inv, Coherent
<1>4. PICK new : /\ request' = [request EXCEPT ![r] = new]
                 /\ \/ new = [request[r] EXCEPT !.pc = "identify"]
                    \/ new = [request[r] EXCEPT !.pc = "done", !.answer = "payload too large"]
                    \/ new = [request[r] EXCEPT !.pc = "done", !.answer = "bad request"]
  <2>1. \/ request' = [request EXCEPT ![r].pc = "identify"]
        \/ request' = [request EXCEPT ![r].pc = "done", ![r].answer = "payload too large"]
        \/ request' = [request EXCEPT ![r].pc = "done", ![r].answer = "bad request"]
    BY DEF CollectBody, Answer
  <2> QED
    BY <2>1
<1>5. new \in Request
  <2>1. CASE new = [request[r] EXCEPT !.pc = "identify"]
    BY <1>2, <2>1 DEF Request
  <2>2. CASE new = [request[r] EXCEPT !.pc = "done", !.answer = "payload too large"]
    BY <1>2, <2>2 DEF Request, Answers
  <2>3. CASE new = [request[r] EXCEPT !.pc = "done", !.answer = "bad request"]
    BY <1>2, <2>3 DEF Request, Answers
  <2> QED
    BY <1>4, <2>1, <2>2, <2>3
<1>6. Coherent(r)'
  <2>1. request'[r] = new
    BY <1>4 DEF Inv, TypeOK
  <2>2. /\ new.via = request[r].via
        /\ new.result = request[r].result /\ new.charged = request[r].charged
        /\ new.headers = request[r].headers /\ new.now = request[r].now
        /\ \/ new.pc = "identify"
           \/ new.pc = "done" /\ new.answer \in {"payload too large", "bad request"}
    BY <1>2, <1>4 DEF Request
  <2>3. /\ request[r].via # "check" /\ request[r].result = "none"
        /\ request[r].headers = None /\ request[r].charged = FALSE /\ request[r].now <= clock
    BY <1>1, <1>2, <1>3 DEF Placed, Decided, Request
  <2>4. CASE new.pc = "identify"
    BY <1>1, <2>1, <2>2, <2>3, <2>4, FreshCoherent
  <2>5. CASE new.pc = "done" /\ new.answer \in {"payload too large", "bad request"}
    BY <1>1, <2>1, <2>2, <2>3, <2>5, RefusedCoherent
  <2> QED
    BY <2>2, <2>4, <2>5
<1> QED
  BY <1>1, <1>4, <1>5, <1>6, RequestStep

\* The policies of check.rs: a request that passes is exempt and, where its tier is
\* not configured, reported; one that is limited is asked about at its account.
LEMMA IdentifyStep ==
    ASSUME Inv, NEW r \in Requests, Identify(r)
    PROVE  Inv'
<1> DEFINE q == request[r]
           target == Resolve(q.identity)
           events == UnknownTierEvent(q.identity)
           excess == IF settings.on_event THEN {"CostExceedsLimit"} ELSE {}
<1>1. /\ UNCHANGED <<config, clock, map, ready, spent>>
      /\ request[r] # None /\ q.pc = "identify"
  BY DEF Identify, At
<1>2. /\ q \in Request /\ clock \in Nat /\ q.now \in Nat /\ clock \in 0 .. MaxTime
      /\ q.identity \in Identity \cup {None} /\ RequestCost(q.cost) \in Nat
  BY <1>1, RequestTypes DEF Inv
<1>3. /\ q.via # "check" /\ q.result = "none"
      /\ q.headers = None /\ q.charged = FALSE /\ q.now <= clock
  <2>1. Placed(r) /\ Decided(r)
    BY <1>1 DEF Inv, Coherent
  <2> QED
    BY <1>1, <1>2, <2>1 DEF Placed, Decided, Request
<1>4. events \in SUBSET Event /\ excess \in SUBSET Event
  BY DEF UnknownTierEvent, Event
<1>5. config \in Configs
  BY DEF Inv, TypeOK
<1>6. \/ target.outcome = "PassThrough" /\ request' = [request EXCEPT ![r].pc = "inner", ![r].events = events]
      \/ /\ target.outcome = "Deny"
         /\ request' = [request EXCEPT ![r].pc = "done", ![r].answer = "denied", ![r].events = events]
      \/ /\ target.outcome = "Limit"
         /\ request' = [request EXCEPT ![r].pc = "done", ![r].answer = "cost exceeds limit",
                                       ![r].events = events \cup excess]
      \/ /\ target.outcome = "Limit" /\ ~(RequestCost(q.cost) > target.quota.max_burst)
         /\ Consult(r, [q EXCEPT !.events = events], target)
  BY DEF Identify, CostOverLimit
<1> HIDE DEF events, excess
<1>7. CASE /\ target.outcome = "PassThrough"
           /\ request' = [request EXCEPT ![r].pc = "inner", ![r].events = events]
  <2> DEFINE new == [q EXCEPT !.pc = "inner", !.events = events]
  <2>1. request' = [request EXCEPT ![r] = new]
    BY <1>7
  <2>2. request'[r] = new
    BY <2>1 DEF Inv, TypeOK
  <2>3. new \in Request
    BY <1>2, <1>4 DEF Request
  <2>4. /\ new.via = q.via /\ new.result = q.result /\ new.charged = q.charged
        /\ new.headers = q.headers /\ new.now = q.now /\ new.identity = q.identity
        /\ new.cost = q.cost /\ new.pc = "inner" /\ new.events = events
    BY <1>2 DEF Request
  <2> HIDE DEF new
  <2>5. /\ Exempt(r)
        /\ q.identity # None => q.identity.tier \in Tiers \ Limited \/ q.identity.tier \notin Tiers
    BY <1>2, <1>5, <1>7, Resolution
  <2>6. /\ settings' = settings /\ Tiers' = Tiers /\ Limited' = Limited
        /\ Exempt(r)' <=> Exempt(r)
    BY <1>1, <2>2, <2>4, SameAccount
  <2>7. Excused(r)'
    BY <2>5, <2>6 DEF Excused
  <2>8. Reported(r)'
    BY <2>2, <2>4, <2>5, <2>6 DEF Reported, UnknownTierEvent, events
  <2>9. Placed(r)' /\ Decided(r)' /\ Answered(r)' /\ Printed(r)'
    BY <1>1, <1>3, <2>2, <2>4 DEF Placed, Decided, Answered, Printed
  <2>10. Coherent(r)'
    BY <2>7, <2>8, <2>9 DEF Coherent
  <2> QED
    BY <1>1, <2>1, <2>3, <2>10, RequestStep
<1>8. ASSUME NEW e \in SUBSET Event, NEW answer \in {"denied", "cost exceeds limit"},
             request' = [request EXCEPT ![r].pc = "done", ![r].answer = answer, ![r].events = e]
      PROVE  Inv'
  <2> DEFINE new == [q EXCEPT !.pc = "done", !.answer = answer, !.events = e]
  <2>1. request' = [request EXCEPT ![r] = new]
    BY <1>8
  <2>2. request'[r] = new
    BY <2>1 DEF Inv, TypeOK
  <2>3. new \in Request
    BY <1>2 DEF Request, Answers
  <2>4. /\ new.via = q.via /\ new.result = q.result /\ new.charged = q.charged
        /\ new.headers = q.headers /\ new.now = q.now
        /\ new.pc = "done" /\ new.answer = answer
    BY <1>2 DEF Request
  <2> HIDE DEF new
  <2>5. Coherent(r)'
    BY <1>1, <1>3, <2>2, <2>4, RefusedCoherent
  <2> QED
    BY <1>1, <2>1, <2>3, <2>5, RequestStep
<1>9. CASE /\ target.outcome = "Limit" /\ ~(RequestCost(q.cost) > target.quota.max_burst)
           /\ Consult(r, [q EXCEPT !.events = events], target)
  <2> DEFINE new == [[q EXCEPT !.events = events] EXCEPT !.pc = "storage", !.key = target.key,
                                                         !.quota = target.quota, !.now = clock]
  <2>1. request' = [request EXCEPT ![r] = new]
    BY <1>9 DEF Consult
  <2>2. request'[r] = new
    BY <2>1 DEF Inv, TypeOK
  <2>3. /\ target.key = Account(r) /\ target.key \in StorageKey /\ target.key.tier \in Limited
        /\ target.quota = QuotaOfTier(target.key.tier)
    BY <1>2, <1>5, <1>9, Resolution
  <2>4. target.quota \in [max_burst : Nat, window : Nat]
    BY <1>5, <2>3, ConfigTypes
  <2>5. new \in Request
    BY <1>2, <1>4, <2>3, <2>4 DEF Request
  <2>6. /\ new.via = q.via /\ new.result = q.result /\ new.charged = q.charged
        /\ new.headers = q.headers /\ new.identity = q.identity /\ new.cost = q.cost
        /\ new.now = clock /\ new.pc = "storage" /\ new.key = target.key /\ new.quota = target.quota
    BY <1>2 DEF Request
  <2> HIDE DEF new
  <2>7. RequestCost(q.cost) <= target.quota.max_burst
    BY <1>2, <1>9, <2>4
  <2> HIDE DEF target
  <2>8. Consulted(r)'
    BY <1>1, <2>2, <2>3, <2>6, <2>7, SameAccount DEF Consulted
  <2>9. clock <= clock'
    BY <1>1, <1>2
  <2>10. Coherent(r)'
    BY <1>3, <2>2, <2>6, <2>8, <2>9, AskedCoherent
  <2> QED
    BY <1>1, <2>1, <2>5, <2>10, RequestStep
<1>10. events \cup excess \in SUBSET Event
  BY <1>4
<1> QED
  BY <1>4, <1>6, <1>7, <1>8, <1>9, <1>10

\* RateTier::check resolves to the same buckets.
LEMMA CheckStep ==
    ASSUME Inv, NEW r \in Requests, Check(r)
    PROVE  Inv'
<1>1. /\ UNCHANGED <<config, clock, map, ready, spent>> /\ config \in Configs
      /\ clock \in Nat /\ clock \in 0 .. MaxTime
  <2>1. UNCHANGED <<config, clock, map, ready, spent>>
    BY DEF Check
  <2> QED
    BY <2>1, MaxTimeAssumption, U64Assumption DEF Inv, TypeOK, Nanos
<1>2. PICK identity \in Identity, cost \in Costs \cup {1} :
        LET new == New("check", identity, cost, "done")
            target == OfTier(identity.user, identity.tier)
        IN  \/ /\ identity.tier \notin Tiers
               /\ request' = [request EXCEPT ![r] = [new EXCEPT !.answer = "check error"]]
            \/ /\ identity.tier \in Tiers \ Limited
               /\ request' = [request EXCEPT ![r] = [new EXCEPT !.answer = "served"]]
            \/ /\ identity.tier \in Limited /\ CostOverLimit(cost, target.quota)
               /\ request' = [request EXCEPT ![r] = [new EXCEPT !.answer = "check error"]]
            \/ /\ identity.tier \in Limited /\ ~CostOverLimit(cost, target.quota)
               /\ Consult(r, new, target)
  BY DEF Check
<1> DEFINE fresh == New("check", identity, cost, "done")
           target == OfTier(identity.user, identity.tier)
<1>3. cost \in Extensions \cup {1} /\ cost # None /\ cost \in Nat
  BY CostAssumption, NoneAssumption DEF Extensions
<1>4. fresh \in Request
  BY <1>3, NewRequest
<1>5. /\ fresh.via = "check" /\ fresh.result = "none" /\ fresh.charged = FALSE /\ fresh.headers = None
      /\ fresh.identity = identity /\ fresh.cost = cost /\ fresh.pc = "done" /\ fresh.now = 0
  BY DEF New
<1>6. 0 <= clock'
  BY <1>1
<1>7. \/ request' = [request EXCEPT ![r] = [fresh EXCEPT !.answer = "check error"]]
      \/ /\ identity.tier \in Tiers \ Limited
         /\ request' = [request EXCEPT ![r] = [fresh EXCEPT !.answer = "served"]]
      \/ /\ identity.tier \in Limited /\ ~(cost > target.quota.max_burst)
         /\ Consult(r, fresh, target)
  BY <1>2 DEF CostOverLimit
<1> HIDE DEF fresh, target
<1>8. CASE request' = [request EXCEPT ![r] = [fresh EXCEPT !.answer = "check error"]]
  <2> DEFINE new == [fresh EXCEPT !.answer = "check error"]
  <2>1. new \in Request
    BY <1>4 DEF Request, Answers
  <2>2. /\ new.via = fresh.via /\ new.result = fresh.result /\ new.charged = fresh.charged
        /\ new.headers = fresh.headers /\ new.now = fresh.now
        /\ new.pc = fresh.pc /\ new.answer = "check error"
    BY <1>4 DEF Request
  <2>3. request' = [request EXCEPT ![r] = new] /\ request'[r] = new
    BY <1>8 DEF Inv, TypeOK
  <2> HIDE DEF new
  <2>4. Coherent(r)'
    BY <1>5, <1>6, <2>2, <2>3, RefusedCoherent
  <2> QED
    BY <1>1, <2>1, <2>3, <2>4, RequestStep
<1>9. CASE /\ identity.tier \in Tiers \ Limited
           /\ request' = [request EXCEPT ![r] = [fresh EXCEPT !.answer = "served"]]
  <2> DEFINE new == [fresh EXCEPT !.answer = "served"]
  <2>1. new \in Request
    BY <1>4 DEF Request, Answers
  <2>2. /\ new.via = fresh.via /\ new.result = fresh.result /\ new.charged = fresh.charged
        /\ new.headers = fresh.headers /\ new.now = fresh.now /\ new.identity = identity
        /\ new.pc = fresh.pc /\ new.answer = "served"
    BY <1>4, <1>5 DEF Request
  <2>3. request' = [request EXCEPT ![r] = new] /\ request'[r] = new
    BY <1>9 DEF Inv, TypeOK
  <2> HIDE DEF new
  <2>4. Tiers' = Tiers /\ Limited' = Limited
    BY <1>1 DEF Limited, Tiers, QuotaOfTier, rate_tier
  <2>5. identity \in Identity /\ identity.tier \in Tiers' \ Limited'
    BY <1>9, <2>4
  <2>6. Exempt(r)'
    <3>1. CASE identity # None
      <4>1. ClaimedTier(r)' = identity.tier
        BY <2>2, <2>3, <2>5, <3>1 DEF ClaimedTier
      <4> QED
        BY <2>5, <4>1 DEF Exempt
    <3>2. CASE identity = None
      BY <3>2, NoIdentity
    <3> QED
      BY <3>1, <3>2
  <2>7. Excused(r)'
    BY <2>6 DEF Excused
  <2>8. Placed(r)' /\ Decided(r)' /\ Answered(r)' /\ Printed(r)' /\ Reported(r)'
    BY <1>5, <1>6, <2>2, <2>3 DEF Placed, Decided, Answered, Printed, Reported, At
  <2>9. Coherent(r)'
    BY <2>7, <2>8 DEF Coherent
  <2> QED
    BY <1>1, <2>1, <2>3, <2>9, RequestStep
<1>10. CASE /\ identity.tier \in Limited /\ ~(cost > target.quota.max_burst)
            /\ Consult(r, fresh, target)
  <2> DEFINE new == [fresh EXCEPT !.pc = "storage", !.key = target.key,
                                  !.quota = target.quota, !.now = clock]
  <2>1. request' = [request EXCEPT ![r] = new] /\ request'[r] = new
    BY <1>10 DEF Consult, Inv, TypeOK
  <2>2. identity.tier \in Tiers /\ QuotaOfTier(identity.tier) \in [max_burst : Nat, window : Nat]
    BY <1>1, <1>10, ConfigTypes
  <2>3. /\ target.key = [user |-> identity.user, tier |-> identity.tier]
        /\ target.quota = QuotaOfTier(identity.tier)
    BY <1>10, <2>2, OfTierAnswers DEF target
  <2>4. target.key \in StorageKey /\ target.key.tier = identity.tier
    BY <2>3 DEF Identity, StorageKey
  <2>5. target.quota \in [max_burst : Nat, window : Nat]
    BY <2>2, <2>3
  <2>6. new \in Request
    BY <1>1, <1>4, <2>4, <2>5 DEF Request
  <2>7. /\ new.via = fresh.via /\ new.result = fresh.result /\ new.charged = fresh.charged
        /\ new.headers = fresh.headers /\ new.identity = identity /\ new.cost = cost
        /\ new.now = clock /\ new.pc = "storage" /\ new.key = target.key /\ new.quota = target.quota
    BY <1>4, <1>5 DEF Request
  <2> HIDE DEF new
  <2>8. /\ Tiers' = Tiers /\ Limited' = Limited
        /\ QuotaOfTier(identity.tier)' = QuotaOfTier(identity.tier)
    BY <1>1 DEF Limited, Tiers, QuotaOfTier, rate_tier
  <2>9. Account(r)' = [user |-> identity.user, tier |-> identity.tier]
    <3>1. identity # None
      BY NoIdentity
    <3> QED
      BY <2>1, <2>2, <2>7, <2>8, <3>1 DEF Account, Spender, ClaimedTier
  <2>10. RequestCost(request[r].cost)' = cost
    BY <1>3, <2>1, <2>7 DEF RequestCost
  <2>11. cost <= target.quota.max_burst
    BY <1>3, <1>10, <2>5
  <2>12. QuotaOfTier(request[r].key.tier)' = target.quota
    <3>1. request'[r].key.tier = identity.tier
      BY <2>1, <2>4, <2>7
    <3> QED
      BY <2>3, <2>8, <3>1 DEF QuotaOfTier
  <2>13. Consulted(r)'
    BY <1>10, <2>1, <2>3, <2>4, <2>7, <2>8, <2>9, <2>10, <2>11, <2>12 DEF Consulted
  <2>14. clock <= clock'
    BY <1>1
  <2>15. Coherent(r)'
    BY <1>5, <2>1, <2>7, <2>13, <2>14, AskedCoherent
  <2> QED
    BY <1>1, <2>1, <2>6, <2>15, RequestStep
<1> QED
  BY <1>7, <1>8, <1>9, <1>10

\* The storage's answer to a request, and what it then holds.
LEMMA StorageAnswers ==
    ASSUME Inv, NEW r \in Requests, At(r, "storage")
    PROVE  /\ Consulted(r)
           /\ Decision(r).allowed \in BOOLEAN
           /\ map[request[r].key] \in Tat
           /\ Charged(r) \in [StorageKey -> Tat]
           /\ \A key \in StorageKey : Charged(r)[key] # None => key.tier \in Limited
           /\ \A key \in StorageKey :
                Charged(r)[key] = IF key = request[r].key /\ Decision(r).allowed
                                  THEN Decision(r).new_tat
                                  ELSE map[key]
<1>1. request[r] # None /\ request[r].pc = "storage" /\ Coherent(r) /\ TypeOK
  BY DEF At, Inv
<1>2. Consulted(r)
  BY <1>1 DEF Coherent, Placed
<1>3. request[r].now \in Nat /\ RequestCost(request[r].cost) \in Nat
  BY <1>1, RequestTypes
<1>4. map[request[r].key] \in Tat /\ config \in Configs
  BY <1>1, <1>2 DEF Consulted, TypeOK
<1>5. LimitedQuota(request[r].quota)
  BY <1>2, <1>4, ConfigTypes DEF Consulted
<1>6. /\ Decision(r).allowed \in BOOLEAN
      /\ Decision(r).allowed => Decision(r).new_tat \in Tat
  BY <1>3, <1>4, <1>5, VerdictTypes DEF Decision, DecisionOn, Tat
<1>7. request[r].key \in StorageKey /\ request[r].key.tier \in Limited
  BY <1>2 DEF Consulted
<1>8. map \in [StorageKey -> Tat] /\ \A key \in StorageKey : map[key] # None => key.tier \in Limited
  BY <1>1 DEF TypeOK
<1>9. CASE Decision(r).allowed
  <2>1. Charged(r) = [map EXCEPT ![request[r].key] = Decision(r).new_tat]
    BY <1>9 DEF Charged
  <2> QED
    BY <1>2, <1>4, <1>6, <1>7, <1>8, <1>9, <2>1
<1>10. CASE ~Decision(r).allowed
  <2>1. Charged(r) = map
    BY <1>10 DEF Charged
  <2> QED
    BY <1>2, <1>4, <1>6, <1>7, <1>8, <1>10, <2>1
<1> QED
  BY <1>6, <1>9, <1>10

\* A request that holds the storage's result is coherent.
LEMMA ResultCoherent ==
    ASSUME NEW r, request'[r].pc = "result", Consulted(r)', Decided(r)',
           request'[r].result # "none",
           request'[r].headers = None, request'[r].now <= clock'
    PROVE  Coherent(r)'
<1>1. Placed(r)'
  BY DEF Placed
<1>2. Answered(r)' /\ Printed(r)'
  BY DEF Answered, Printed
<1>3. Excused(r)' /\ Reported(r)'
  BY DEF Excused, Reported, LetIn, At
<1> QED
  BY <1>1, <1>2, <1>3 DEF Coherent

\* What the storage's answer leaves of the invariant, whatever it is.
LEMMA AnswerStep ==
    ASSUME Inv, NEW r \in Requests, At(r, "storage"), UNCHANGED <<config, clock, ready>>,
           map' \in {map, Charged(r)}, spent' \in [StorageKey -> Nat],
           NEW new \in Request \cup {None}, request' = [request EXCEPT ![r] = new],
           new # None => Coherent(r)'
    PROVE  Inv'
<1>1. /\ request' \in [Requests -> Request \cup {None}]
      /\ \A s \in Requests : request'[s] # None => Coherent(s)'
  BY Frame
<1>2. Limited' = Limited
  BY DEF Limited, Tiers, QuotaOfTier, rate_tier
<1>3. /\ map' \in [StorageKey -> Tat]
      /\ \A key \in StorageKey : map'[key] # None => key.tier \in Limited
  BY StorageAnswers DEF Inv, TypeOK
<1> QED
  BY <1>1, <1>2, <1>3 DEF Inv, TypeOK

\* The storage decides, and the result says what it did.
LEMMA CheckAndUpdateStep ==
    ASSUME Inv, NEW r \in Requests, CheckAndUpdate(r)
    PROVE  Inv'
<1> DEFINE q == request[r]
           d == Decision(r)
           result == IF d.allowed THEN "allowed" ELSE "limited"
           new == [q EXCEPT !.pc = "result", !.result = result, !.tat = map[q.key],
                            !.charged = d.allowed]
<1>1. /\ At(r, "storage") /\ UNCHANGED <<config, clock, ready>> /\ map' = Charged(r)
      /\ request' = [request EXCEPT ![r] = new]
  BY DEF CheckAndUpdate
<1>2. q # None /\ q.pc = "storage" /\ Coherent(r) /\ TypeOK
  BY <1>1 DEF At, Inv
<1>3. q \in Request /\ RequestCost(q.cost) \in Nat
  BY <1>2, RequestTypes
<1>4. Consulted(r) /\ d.allowed \in BOOLEAN /\ map[q.key] \in Tat
  BY <1>1, StorageAnswers
<1> HIDE DEF d
<1>5. new \in Request
  <2>1. result \in {"none", "allowed", "limited", "error"}
    OBVIOUS
  <2> DEFINE granted == d.allowed
             held == map[q.key]
  <2>2. granted \in BOOLEAN /\ held \in Tat
    BY <1>4
  <2> HIDE DEF result, granted, held
  <2>3. [q EXCEPT !.pc = "result", !.result = result, !.tat = held, !.charged = granted] \in Request
    BY <1>3, <2>1, <2>2 DEF Request
  <2> QED
    BY <2>3 DEF granted, held
<1>6. /\ new.via = q.via /\ new.headers = q.headers /\ new.identity = q.identity
      /\ new.cost = q.cost /\ new.now = q.now /\ new.key = q.key /\ new.quota = q.quota
      /\ new.pc = "result" /\ new.result = result /\ new.charged = d.allowed
      /\ new.tat = map[q.key]
  BY <1>3 DEF Request
<1>7. request'[r] = new
  BY <1>1, <1>2 DEF TypeOK
<1> HIDE DEF new
<1>8. Consulted(r)'
  BY <1>1, <1>4, <1>6, <1>7, SameBucket
<1>9. Decided(r)'
  <2>1. RequestCost(request[r].cost)' = RequestCost(q.cost)
    BY <1>1, <1>6, <1>7, SameAccount
  <2>2. DecisionOn(r, request[r].tat)' = d
    BY <1>6, <1>7, <2>1 DEF DecisionOn, Decision, d
  <2> QED
    BY <1>4, <1>6, <1>7, <2>2 DEF Decided
<1>10. Coherent(r)'
  <2>1. q.headers = None /\ q.now <= clock
    BY <1>2 DEF Coherent, Placed
  <2>2. result # "none"
    OBVIOUS
  <2> QED
    BY <1>1, <1>6, <1>7, <1>8, <1>9, <2>1, <2>2, ResultCoherent
<1>11. spent' \in [StorageKey -> Nat]
  <2>1. Account(r) \in StorageKey
    BY <1>4 DEF Consulted
  <2>2. spent \in [StorageKey -> Nat]
    BY <1>2 DEF TypeOK
  <2>3. \/ spent' = [spent EXCEPT ![Account(r)] = @ + RequestCost(q.cost)]
        \/ spent' = spent
    BY DEF CheckAndUpdate
  <2> QED
    BY <1>3, <2>1, <2>2, <2>3
<1> QED
  BY <1>1, <1>5, <1>10, <1>11, AnswerStep

\* A failing storage may have counted the request; nobody is told.
LEMMA StorageFailsStep ==
    ASSUME Inv, NEW r \in Requests, StorageFails(r)
    PROVE  Inv'
<1> DEFINE q == request[r]
<1>1. /\ At(r, "storage") /\ UNCHANGED <<config, clock, ready, spent>> /\ map' \in {map, Charged(r)}
  BY DEF StorageFails
<1>2. q # None /\ q.pc = "storage" /\ Coherent(r) /\ TypeOK
  BY <1>1 DEF At, Inv
<1>3. q \in Request
  BY <1>2, RequestTypes
<1>4. Consulted(r) /\ Decision(r).allowed \in BOOLEAN
  BY <1>1, StorageAnswers
<1>5. PICK charged \in BOOLEAN :
        request' = [request EXCEPT ![r] = [q EXCEPT !.pc = "result", !.result = "error",
                                                    !.charged = charged]]
  <2>1. CASE request' = [request EXCEPT ![r].pc = "result", ![r].result = "error"]
    <3>1. [q EXCEPT !.pc = "result", !.result = "error"]
          = [q EXCEPT !.pc = "result", !.result = "error", !.charged = q.charged]
      BY <1>3 DEF Request
    <3>2. q.charged \in BOOLEAN
      BY <1>3 DEF Request
    <3>3. request' = [request EXCEPT ![r] = [q EXCEPT !.pc = "result", !.result = "error"]]
      BY <2>1
    <3> QED
      BY <3>1, <3>2, <3>3
  <2>2. CASE request' = [request EXCEPT ![r].pc = "result", ![r].result = "error",
                                        ![r].charged = Decision(r).allowed]
    BY <1>4, <2>2
  <2> QED
    BY <2>1, <2>2 DEF StorageFails
<1> DEFINE new == [q EXCEPT !.pc = "result", !.result = "error", !.charged = charged]
<1>6. new \in Request
  BY <1>3 DEF Request
<1>7. /\ new.via = q.via /\ new.headers = q.headers /\ new.identity = q.identity
      /\ new.cost = q.cost /\ new.now = q.now /\ new.key = q.key /\ new.quota = q.quota
      /\ new.pc = "result" /\ new.result = "error"
  BY <1>3 DEF Request
<1>8. request' = [request EXCEPT ![r] = new] /\ request'[r] = new
  BY <1>2, <1>5 DEF TypeOK
<1> HIDE DEF new
<1>9. Consulted(r)'
  BY <1>1, <1>4, <1>7, <1>8, SameBucket
<1>10. Decided(r)'
  BY <1>7, <1>8 DEF Decided
<1>11. Coherent(r)'
  <2>1. q.headers = None /\ q.now <= clock
    BY <1>2 DEF Coherent, Placed
  <2> QED
    BY <1>1, <1>7, <1>8, <1>9, <1>10, <2>1, ResultCoherent
<1>12. spent' \in [StorageKey -> Nat]
  BY <1>1, <1>2 DEF TypeOK
<1> QED
  BY <1>1, <1>6, <1>8, <1>11, <1>12, AnswerStep

\* The decision that process_result reads is the one the storage made, and its
\* headers are numbers.
LEMMA ResultTypes ==
    ASSUME Inv, NEW r \in Requests, request[r] # None, request[r].result # "none"
    PROVE  LET d == DecisionOn(r, request[r].tat)
           IN  /\ Consulted(r) /\ LimitedQuota(request[r].quota)
               /\ request[r].result = "allowed" => InfoHeaders(d, WallClock) \in Headers
               /\ request[r].result = "limited" => LimitedHeaders(d, WallClock) \in Headers
<1> DEFINE d == DecisionOn(r, request[r].tat)
<1>1. Coherent(r) /\ TypeOK /\ config \in Configs
  BY DEF Inv, TypeOK
<1>2. Consulted(r)
  BY <1>1 DEF Coherent, Placed
<1>3. LimitedQuota(request[r].quota)
  BY <1>1, <1>2, ConfigTypes DEF Consulted
<1>4. /\ request[r].now \in Nat /\ RequestCost(request[r].cost) \in Nat /\ request[r].tat \in Tat
      /\ clock \in Nat
  BY <1>1, RequestTypes
<1>5. /\ d.limit \in Nat /\ d.reset_after \in Int
      /\ d.allowed => d.remaining \in Nat
      /\ ~d.allowed => d.retry_after \in Nat
  BY <1>3, <1>4, VerdictTypes DEF DecisionOn
<1>6. /\ request[r].result = "allowed" => d.allowed
      /\ request[r].result = "limited" => ~d.allowed
  BY <1>1 DEF Coherent, Decided
<1>7. WallClock \in Int
  BY <1>4, WallAssumption DEF WallClock
<1> HIDE DEF d
<1>8. /\ request[r].result = "allowed" => InfoHeaders(d, WallClock) \in Headers
      /\ request[r].result = "limited" => LimitedHeaders(d, WallClock) \in Headers
  BY <1>5, <1>6, <1>7, HeaderTypes
<1> QED
  BY <1>2, <1>3, <1>8 DEF d

\* process_result: an allowed request is let in with its headers.
LEMMA AllowedStep ==
    ASSUME Inv, NEW r \in Requests, At(r, "result"), request[r].via # "check",
           UNCHANGED <<config, clock, map, ready, spent>>, request[r].result = "allowed",
           request' = [request EXCEPT ![r].pc = "inner", ![r].checked = clock,
                         ![r].headers = InfoHeaders(DecisionOn(r, request[r].tat), WallClock)]
    PROVE  Inv'
<1> DEFINE q == request[r]
           d == DecisionOn(r, q.tat)
           headers == InfoHeaders(d, WallClock)
           new == [q EXCEPT !.pc = "inner", !.checked = clock, !.headers = headers]
<1>1. q # None /\ q.pc = "result" /\ Coherent(r) /\ TypeOK
  BY DEF At, Inv
<1>2. q \in Request /\ clock \in 0 .. MaxTime /\ clock \in Nat /\ q.now \in Nat
  BY <1>1, RequestTypes
<1>3. Consulted(r) /\ headers \in Headers
  BY <1>1, ResultTypes
<1>4. request' = [request EXCEPT ![r] = new] /\ request'[r] = new
  BY <1>1 DEF TypeOK
<1> HIDE DEF headers
<1>5. new \in Request
  BY <1>2, <1>3 DEF Request
<1>6. /\ new.via = q.via /\ new.identity = q.identity /\ new.cost = q.cost
      /\ new.now = q.now /\ new.key = q.key /\ new.quota = q.quota /\ new.result = q.result
      /\ new.tat = q.tat /\ new.charged = q.charged /\ new.events = q.events
      /\ new.answer = q.answer /\ new.pc = "inner" /\ new.checked = clock /\ new.headers = headers
  BY <1>2 DEF Request
<1> HIDE DEF new
<1>7. DecisionOn(r, request[r].tat)' = d
  BY <1>4, <1>6, SameDecision
<1>8. Consulted(r)'
  BY <1>3, <1>4, <1>6, SameBucket
<1>9. Placed(r)'
  BY <1>1, <1>4, <1>6, <1>8 DEF Coherent, Placed
<1>10. Decided(r)' /\ new.charged
  BY <1>1, <1>4, <1>6, <1>7 DEF Coherent, Decided
<1>11. Answered(r)' /\ Excused(r)' /\ Reported(r)'
  BY <1>4, <1>6, <1>10 DEF Answered, Excused, Reported
<1>12. Printed(r)'
  <2>1. q.now <= clock
    BY <1>1 DEF Coherent, Placed
  <2>2. headers = InfoHeaders(d, clock + WallOffset)
    BY DEF headers, WallClock
  <2> HIDE DEF d
  <2>3. /\ request'[r].now <= request'[r].checked /\ request'[r].checked <= clock'
        /\ request'[r].result = "allowed"
    BY <1>2, <1>4, <1>6, <2>1
  <2>4. request'[r].headers
        = InfoHeaders(DecisionOn(r, request[r].tat)', request'[r].checked + WallOffset)
    BY <1>4, <1>6, <1>7, <2>2
  <2> QED
    BY <2>3, <2>4 DEF Printed
<1>13. Coherent(r)'
  BY <1>9, <1>10, <1>11, <1>12 DEF Coherent
<1> QED
  BY <1>4, <1>5, <1>13, RequestStep

\* process_result: a denied request is answered 429, with headers unless the
\* application makes the response.
LEMMA LimitedStep ==
    ASSUME Inv, NEW r \in Requests, At(r, "result"), request[r].via # "check",
           UNCHANGED <<config, clock, map, ready, spent>>,
           request[r].result # "error", request[r].result # "allowed",
           NEW limited \in SUBSET Event, NEW headers,
           \/ headers = None
           \/ headers = LimitedHeaders(DecisionOn(r, request[r].tat), WallClock),
           request' = [request EXCEPT ![r].pc = "done", ![r].answer = "limited",
                         ![r].events = @ \cup limited, ![r].checked = clock,
                         ![r].headers = headers]
    PROVE  Inv'
<1> DEFINE q == request[r]
           d == DecisionOn(r, q.tat)
           events == q.events \cup limited
           new == [q EXCEPT !.pc = "done", !.answer = "limited", !.events = events,
                            !.checked = clock, !.headers = headers]
<1>1. q # None /\ q.pc = "result" /\ Coherent(r) /\ TypeOK
  BY DEF At, Inv
<1>2. q \in Request /\ clock \in 0 .. MaxTime /\ clock \in Nat /\ q.now \in Nat
  BY <1>1, RequestTypes
<1>3. q.result = "limited"
  <2>1. q.result # "none"
    BY <1>1 DEF Coherent, Placed
  <2> QED
    BY <1>2, <2>1 DEF Request
<1>4. Consulted(r) /\ headers \in Headers \cup {None}
  BY <1>1, <1>3, ResultTypes
<1>5. request' = [request EXCEPT ![r] = new] /\ request'[r] = new
  BY <1>1 DEF TypeOK
<1>6. events \in SUBSET Event
  BY <1>2 DEF Request
<1> HIDE DEF events
<1>7. new \in Request
  BY <1>2, <1>4, <1>6 DEF Request, Answers
<1>8. /\ new.via = q.via /\ new.identity = q.identity /\ new.cost = q.cost
      /\ new.now = q.now /\ new.key = q.key /\ new.quota = q.quota /\ new.result = q.result
      /\ new.tat = q.tat /\ new.charged = q.charged
      /\ new.answer = "limited" /\ new.pc = "done" /\ new.checked = clock /\ new.headers = headers
  BY <1>2 DEF Request
<1> HIDE DEF new
<1>9. DecisionOn(r, request[r].tat)' = d
  BY <1>5, <1>8, SameDecision
<1>10. Consulted(r)'
  BY <1>4, <1>5, <1>8, SameBucket
<1>11. Placed(r)'
  BY <1>1, <1>5, <1>8, <1>10 DEF Coherent, Placed
<1>12. Decided(r)'
  BY <1>1, <1>5, <1>8, <1>9 DEF Coherent, Decided
<1>13. Answered(r)' /\ Excused(r)' /\ Reported(r)'
  BY <1>3, <1>5, <1>8 DEF Answered, Excused, Reported, LetIn, At
<1>14. Printed(r)'
  <2>1. q.now <= clock
    BY <1>1 DEF Coherent, Placed
  <2>2. headers # None => headers = LimitedHeaders(d, clock + WallOffset)
    BY DEF WallClock
  <2> HIDE DEF d
  <2> QED
    BY <1>2, <1>3, <1>5, <1>8, <1>9, <2>1, <2>2 DEF Printed
<1>15. Coherent(r)'
  BY <1>11, <1>12, <1>13, <1>14 DEF Coherent
<1> QED
  BY <1>5, <1>7, <1>15, RequestStep

\* process_result: the policy for a failing storage decides, and it is reported.
LEMMA FailedStep ==
    ASSUME Inv, NEW r \in Requests, At(r, "result"), request[r].via # "check",
           UNCHANGED <<config, clock, map, ready, spent>>, request[r].result = "error",
           \/ /\ settings.on_storage_error = "Allow"
              /\ request' = [request EXCEPT ![r].pc = "inner",
                                            ![r].events = @ \cup StorageErrorEvent]
           \/ request' = [request EXCEPT ![r].pc = "done", ![r].answer = "unavailable",
                                         ![r].events = @ \cup StorageErrorEvent]
    PROVE  Inv'
<1> DEFINE q == request[r]
           events == q.events \cup StorageErrorEvent
<1>1. q # None /\ q.pc = "result" /\ Coherent(r) /\ TypeOK
  BY DEF At, Inv
<1>2. q \in Request
  BY <1>1, RequestTypes
<1>3. events \in SUBSET Event /\ (settings.on_event => "StorageError" \in events)
  BY <1>2 DEF Request, StorageErrorEvent, Event
<1>4. PICK new : /\ request' = [request EXCEPT ![r] = new]
                 /\ \/ /\ settings.on_storage_error = "Allow"
                       /\ new = [q EXCEPT !.pc = "inner", !.events = events]
                    \/ new = [q EXCEPT !.pc = "done", !.answer = "unavailable", !.events = events]
  OBVIOUS
<1>5. request'[r] = new
  BY <1>1, <1>4 DEF TypeOK
<1> HIDE DEF events
<1>6. /\ new \in Request
      /\ new.via = q.via /\ new.identity = q.identity /\ new.cost = q.cost
      /\ new.now = q.now /\ new.key = q.key /\ new.quota = q.quota /\ new.result = q.result
      /\ new.tat = q.tat /\ new.charged = q.charged /\ new.headers = q.headers
      /\ new.events = events
      /\ \/ new.pc = "inner" /\ settings.on_storage_error = "Allow"
         \/ new.pc = "done" /\ new.answer = "unavailable"
  <2>1. CASE /\ settings.on_storage_error = "Allow"
             /\ new = [q EXCEPT !.pc = "inner", !.events = events]
    BY <1>2, <1>3, <2>1 DEF Request
  <2>2. CASE new = [q EXCEPT !.pc = "done", !.answer = "unavailable", !.events = events]
    BY <1>2, <1>3, <2>2 DEF Request, Answers
  <2> QED
    BY <1>4, <2>1, <2>2
<1>7. Consulted(r)'
  <2>1. Consulted(r)
    BY <1>1 DEF Coherent, Placed
  <2> QED
    BY <1>5, <1>6, <2>1, SameBucket
<1>8. Placed(r)'
  BY <1>1, <1>5, <1>6, <1>7 DEF Coherent, Placed
<1>9. Decided(r)' /\ Answered(r)'
  BY <1>1, <1>5, <1>6 DEF Coherent, Decided, Answered
<1>10. Printed(r)'
  BY <1>1, <1>5, <1>6 DEF Coherent, Placed, Printed
<1>11. settings' = settings
  BY DEF settings
<1>12. Excused(r)'
  BY <1>5, <1>6, <1>11 DEF Excused, LetIn, At
<1>13. Reported(r)'
  BY <1>3, <1>5, <1>6, <1>11 DEF Reported, At
<1>14. Coherent(r)'
  BY <1>8, <1>9, <1>10, <1>12, <1>13 DEF Coherent
<1> QED
  BY <1>4, <1>6, <1>14, RequestStep

LEMMA ProcessResultStep ==
    ASSUME Inv, NEW r \in Requests, ProcessResult(r)
    PROVE  Inv'
<1> DEFINE d == DecisionOn(r, request[r].tat)
           limited == IF settings.on_limited THEN {"limited"} ELSE {}
           headers == IF settings.rate_limited_response THEN None ELSE LimitedHeaders(d, WallClock)
<1>1. /\ At(r, "result") /\ request[r].via # "check"
      /\ UNCHANGED <<config, clock, map, ready, spent>>
  BY DEF ProcessResult
<1>2. \/ /\ request[r].result = "allowed"
         /\ request' = [request EXCEPT ![r].pc = "inner", ![r].checked = clock,
                                       ![r].headers = InfoHeaders(d, WallClock)]
      \/ /\ request[r].result # "error" /\ request[r].result # "allowed"
         /\ request' = [request EXCEPT ![r].pc = "done", ![r].answer = "limited",
                                       ![r].events = @ \cup limited, ![r].checked = clock,
                                       ![r].headers = headers]
      \/ /\ request[r].result = "error" /\ settings.on_storage_error = "Allow"
         /\ request' = [request EXCEPT ![r].pc = "inner", ![r].events = @ \cup StorageErrorEvent]
      \/ /\ request[r].result = "error"
         /\ request' = [request EXCEPT ![r].pc = "done", ![r].answer = "unavailable",
                                       ![r].events = @ \cup StorageErrorEvent]
  BY DEF ProcessResult, LetThrough
<1>3. limited \in SUBSET Event
  BY DEF Event
<1>4. headers = None \/ headers = LimitedHeaders(d, WallClock)
  OBVIOUS
<1> HIDE DEF limited, headers
<1>5. CASE /\ request[r].result = "allowed"
           /\ request' = [request EXCEPT ![r].pc = "inner", ![r].checked = clock,
                                         ![r].headers = InfoHeaders(d, WallClock)]
  BY <1>1, <1>5, AllowedStep
<1>6. CASE /\ request[r].result # "error" /\ request[r].result # "allowed"
           /\ request' = [request EXCEPT ![r].pc = "done", ![r].answer = "limited",
                                         ![r].events = @ \cup limited, ![r].checked = clock,
                                         ![r].headers = headers]
  BY <1>1, <1>3, <1>4, <1>6, LimitedStep
<1>7. CASE /\ request[r].result = "error"
           /\ \/ /\ settings.on_storage_error = "Allow"
                 /\ request' = [request EXCEPT ![r].pc = "inner",
                                               ![r].events = @ \cup StorageErrorEvent]
              \/ request' = [request EXCEPT ![r].pc = "done", ![r].answer = "unavailable",
                                            ![r].events = @ \cup StorageErrorEvent]
  BY <1>1, <1>7, FailedStep
<1> QED
  BY <1>2, <1>5, <1>6, <1>7

\* RateTier::check returns the result.
LEMMA CheckReturnsStep ==
    ASSUME Inv, NEW r \in Requests, CheckReturns(r)
    PROVE  Inv'
<1> DEFINE q == request[r]
<1>1. /\ At(r, "result") /\ q.via = "check" /\ UNCHANGED <<config, clock, map, ready, spent>>
  BY DEF CheckReturns
<1>2. q # None /\ q.pc = "result" /\ Coherent(r) /\ TypeOK
  BY <1>1 DEF At, Inv
<1>3. q \in Request
  BY <1>2, RequestTypes
<1>4. q.result # "none" /\ Consulted(r)
  BY <1>2 DEF Coherent, Placed
<1>5. PICK answer \in Answers :
        /\ request' = [request EXCEPT ![r] = [q EXCEPT !.pc = "done", !.answer = answer]]
        /\ \/ answer = "served" /\ q.result = "allowed"
           \/ answer = "limited" /\ q.result = "limited"
           \/ answer = "check error" /\ q.result = "error"
  <2>1. q.result \in {"allowed", "limited", "error"}
    BY <1>3, <1>4 DEF Request
  <2>2. CASE q.result = "allowed"
    BY <2>2 DEF CheckReturns, LetThrough, Answer, Answers
  <2>3. CASE q.result = "limited"
    BY <2>3 DEF CheckReturns, LetThrough, Answer, Answers
  <2>4. CASE q.result = "error"
    BY <2>4 DEF CheckReturns, LetThrough, Answer, Answers
  <2> QED
    BY <2>1, <2>2, <2>3, <2>4
<1> DEFINE new == [q EXCEPT !.pc = "done", !.answer = answer]
<1>6. new \in Request
  BY <1>3 DEF Request
<1>7. /\ new.via = q.via /\ new.headers = q.headers /\ new.identity = q.identity
      /\ new.cost = q.cost /\ new.now = q.now /\ new.key = q.key /\ new.quota = q.quota
      /\ new.tat = q.tat /\ new.charged = q.charged /\ new.result = q.result
      /\ new.pc = "done" /\ new.answer = answer
  BY <1>3 DEF Request
<1>8. request' = [request EXCEPT ![r] = new] /\ request'[r] = new
  BY <1>2, <1>5 DEF TypeOK
<1> HIDE DEF new
<1>9. Consulted(r)'
  BY <1>1, <1>4, <1>7, <1>8, SameBucket
<1>10. DecisionOn(r, request[r].tat)' = DecisionOn(r, q.tat)
  BY <1>1, <1>7, <1>8, SameDecision
<1>11. Placed(r)' /\ Printed(r)'
  BY <1>1, <1>2, <1>7, <1>8, <1>9 DEF Coherent, Placed, Printed
<1>12. Decided(r)'
  BY <1>2, <1>7, <1>8, <1>10 DEF Coherent, Decided
<1>13. Answered(r)'
  BY <1>5, <1>7, <1>8 DEF Answered
<1>14. Excused(r)'
  <2>1. q.result = "allowed" => q.charged
    BY <1>2 DEF Coherent, Decided
  <2> QED
    BY <1>5, <1>7, <1>8, <2>1 DEF Excused, LetIn, At
<1>15. Reported(r)'
  BY <1>7, <1>8 DEF Reported, At
<1>16. Coherent(r)'
  BY <1>11, <1>12, <1>13, <1>14, <1>15 DEF Coherent
<1> QED
  BY <1>1, <1>6, <1>8, <1>16, RequestStep

\* The inner service answers, or fails and the headers are lost.
LEMMA ServeStep ==
    ASSUME Inv, NEW r \in Requests, Serve(r)
    PROVE  Inv'
<1> DEFINE q == request[r]
<1>1. /\ At(r, "inner") /\ UNCHANGED <<config, clock, map, ready, spent>>
  BY DEF Serve
<1>2. q # None /\ q.pc = "inner" /\ Coherent(r) /\ TypeOK
  BY <1>1 DEF At, Inv
<1>3. q \in Request
  BY <1>2, RequestTypes
<1>4. PICK new : /\ request' = [request EXCEPT ![r] = new]
                 /\ \/ new = [q EXCEPT !.pc = "done", !.answer = "served"]
                    \/ new = [q EXCEPT !.pc = "done", !.answer = "inner error", !.headers = None]
  BY DEF Serve, Answer
<1>5. request'[r] = new
  BY <1>2, <1>4 DEF TypeOK
<1>6. /\ new \in Request
      /\ new.via = q.via /\ new.identity = q.identity /\ new.cost = q.cost
      /\ new.now = q.now /\ new.key = q.key /\ new.quota = q.quota /\ new.result = q.result
      /\ new.tat = q.tat /\ new.charged = q.charged /\ new.checked = q.checked
      /\ new.pc = "done" /\ new.answer \in {"served", "inner error"}
      /\ new.headers = q.headers \/ new.headers = None
  <2>1. CASE new = [q EXCEPT !.pc = "done", !.answer = "served"]
    BY <1>3, <2>1 DEF Request, Answers
  <2>2. CASE new = [q EXCEPT !.pc = "done", !.answer = "inner error", !.headers = None]
    BY <1>3, <2>2 DEF Request, Answers
  <2> QED
    BY <1>4, <2>1, <2>2
<1>7. Consulted(r) => Consulted(r)'
  BY <1>1, <1>5, <1>6, SameBucket
<1>8. DecisionOn(r, request[r].tat)' = DecisionOn(r, q.tat)
  BY <1>1, <1>5, <1>6, SameDecision
<1>9. Placed(r)'
  BY <1>1, <1>2, <1>5, <1>6, <1>7 DEF Coherent, Placed
<1>10. Decided(r)'
  BY <1>2, <1>5, <1>6, <1>8 DEF Coherent, Decided
<1>11. Answered(r)' /\ Reported(r)'
  BY <1>5, <1>6 DEF Answered, Reported, At
<1>12. Printed(r)'
  <2>1. CASE new.headers = None
    BY <1>5, <2>1 DEF Printed
  <2>2. CASE new.headers = q.headers
    BY <1>1, <1>2, <1>5, <1>6, <1>8, <2>2 DEF Coherent, Printed
  <2> QED
    BY <1>6, <2>1, <2>2
<1>13. Excused(r)'
  <2>1. settings' = settings /\ (Exempt(r)' <=> Exempt(r))
    BY <1>1, <1>5, <1>6, SameAccount
  <2>2. LetIn(r)
    BY <1>1 DEF LetIn
  <2> QED
    BY <1>2, <1>5, <1>6, <2>1, <2>2 DEF Coherent, Excused
<1>14. Coherent(r)'
  BY <1>9, <1>10, <1>11, <1>12, <1>13 DEF Coherent
<1> QED
  BY <1>1, <1>4, <1>6, <1>14, RequestStep

LEMMA DropStep ==
    ASSUME Inv, NEW r \in Requests, Drop(r)
    PROVE  Inv'
<1>1. /\ UNCHANGED <<config, clock, ready, spent>>
      /\ request' = [request EXCEPT ![r] = None]
      /\ map' \in IF At(r, "storage") THEN {map, Charged(r)} ELSE {map}
  BY DEF Drop
<1>2. CASE At(r, "storage")
  <2>1. spent' \in [StorageKey -> Nat]
    BY <1>1 DEF Inv, TypeOK
  <2> QED
    BY <1>1, <1>2, <2>1, AnswerStep
<1>3. CASE ~At(r, "storage")
  BY <1>1, <1>3, RequestStep
<1> QED
  BY <1>2, <1>3

\* Every step keeps the invariant.
LEMMA InvStep == Inv /\ [Next]_vars => Inv'
<1> SUFFICES ASSUME Inv, [Next]_vars PROVE Inv'
  OBVIOUS
<1>1. CASE Tick
  <2>1. UNCHANGED <<config, map, ready, request, spent>> /\ clock' = clock + 1 /\ clock < MaxTime
    BY <1>1 DEF Tick
  <2>2. clock \in Nat /\ MaxTime \in Nat /\ TypeOK
    BY MaxTimeAssumption, U64Assumption DEF Inv, TypeOK, Nanos
  <2>3. clock' \in Nat /\ clock <= clock' /\ clock' \in 0 .. MaxTime
    BY <2>1, <2>2
  <2>4. ASSUME NEW s \in Requests, request'[s] # None PROVE Coherent(s)'
    BY <2>1, <2>2, <2>3, <2>4, OthersCoherent DEF Inv
  <2>5. Limited' = Limited
    BY <2>1 DEF Limited, Tiers, QuotaOfTier, rate_tier
  <2> QED
    BY <2>1, <2>3, <2>4, <2>5 DEF Inv, TypeOK
<1>2. CASE UNCHANGED <<config, clock, map, request, spent>> /\ ready' \in BOOLEAN
  <2>1. clock' \in Nat /\ clock <= clock' /\ TypeOK
    BY <1>2, MaxTimeAssumption, U64Assumption DEF Inv, TypeOK, Nanos
  <2>2. ASSUME NEW s \in Requests, request'[s] # None PROVE Coherent(s)'
    BY <1>2, <2>1, <2>2, OthersCoherent DEF Inv
  <2>3. Limited' = Limited
    BY <1>2 DEF Limited, Tiers, QuotaOfTier, rate_tier
  <2> QED
    BY <1>2, <2>2, <2>3 DEF Inv, TypeOK
<1>3. CASE PollReady
  BY <1>2, <1>3 DEF PollReady
<1>4. CASE UNCHANGED vars
  BY <1>2, <1>4 DEF vars, Inv, TypeOK
<1>5. ASSUME NEW r \in Requests, CallService(r) \/ CollectBody(r) \/ Identify(r) \/ Check(r)
      PROVE  Inv'
  BY <1>5, CallServiceStep, CollectBodyStep, IdentifyStep, CheckStep
<1>6. ASSUME NEW r \in Requests,
             CheckAndUpdate(r) \/ StorageFails(r) \/ ProcessResult(r) \/ CheckReturns(r)
      PROVE  Inv'
  BY <1>6, CheckAndUpdateStep, StorageFailsStep, ProcessResultStep, CheckReturnsStep
<1>7. ASSUME NEW r \in Requests, Reply(r) PROVE Inv'
  BY <1>7, RequestStep DEF Reply
<1>8. ASSUME NEW r \in Requests, Serve(r) \/ Drop(r) PROVE Inv'
  BY <1>8, ServeStep, DropStep
<1> QED
  BY <1>1, <1>3, <1>4, <1>5, <1>6, <1>7, <1>8 DEF Next

LEMMA AlwaysInv == Spec => []Inv
<1>1. Init => Inv
  <2> SUFFICES ASSUME Init PROVE Inv
    OBVIOUS
  <2>1. 0 \in 0 .. MaxTime
    BY MaxTimeAssumption, U64Assumption DEF Nanos
  <2> QED
    BY <2>1 DEF Init, Inv, TypeOK, Tat
<1> QED
  BY <1>1, InvStep, PTL DEF Spec

-----------------------------------------------------------------------------

\* Every variable keeps its type, and only buckets of limited tiers are used.
THEOREM MiddlewareTypeCorrect == Spec => []TypeOK
  BY AlwaysInv, PTL DEF Inv

\* No refused request has been counted.
THEOREM RefusedNeverCounted == Spec => []RefusedUncounted
<1>1. Inv => RefusedUncounted
  <2> SUFFICES ASSUME Inv, NEW r \in Requests, At(r, "done"), request[r].charged
               PROVE  request[r].answer \in {"served", "inner error", "unavailable", "check error"}
    BY DEF RefusedUncounted
  <2>1. request[r] # None /\ request[r].pc = "done" /\ Coherent(r)
    BY DEF At, Inv
  <2>2. request[r].result \in {"none", "allowed", "limited", "error"}
    BY <2>1, RequestTypes DEF Inv, Request
  <2>3. request[r].result \in {"allowed", "error"}
    BY <2>1, <2>2 DEF Coherent, Decided
  <2> QED
    BY <2>1, <2>3 DEF Coherent, Answered
<1> QED
  BY <1>1, AlwaysInv, PTL

\* Every request that is let through has been counted, or the configuration
\* excuses it.
THEOREM AlwaysCountedOrExcused == Spec => []CountedOrExcused
<1>1. Inv => CountedOrExcused
  BY DEF Inv, Coherent, Excused, CountedOrExcused, LetIn, At
<1> QED
  BY <1>1, AlwaysInv, PTL

\* A request that reaches the inner service uncounted has an unlimited tier, or was
\* reported.
THEOREM NeverSilent == Spec => []NothingSilent
<1>1. Inv => NothingSilent
  BY DEF Inv, Coherent, Reported, NothingSilent, At
<1> QED
  BY <1>1, AlwaysInv, PTL

\* A cost within the burst is never above the burst offset, saturated or not.
LEMMA CostFits ==
    ASSUME NEW quota, LimitedQuota(quota), NEW cost \in Nat, cost <= quota.max_burst
    PROVE  SaturatingMul(EmissionInterval(quota), cost) <= BurstOffset(quota)
<1> DEFINE e == EmissionInterval(quota)
           b == quota.max_burst
<1>1. e \in Nat /\ b \in Nat
  BY LimitedQuotaTypes, U64Assumption DEF Nanos
<1> HIDE DEF e
<1>2. PICK p \in Nat : b = cost + p
  <2>1. b - cost \in Nat /\ b = cost + (b - cost)
    BY <1>1
  <2> QED
    BY <2>1
<1>3. e * b = e * cost + e * p /\ e * cost \in Nat /\ e * p \in Nat
  BY <1>1, <1>2, Products
<1> DEFINE x == e * cost
           y == e * b
<1>4. x <= y /\ x \in Nat /\ y \in Nat
  BY <1>3
<1> HIDE DEF x, y
<1>5. AtMost(x, U64Max) <= AtMost(y, U64Max)
  BY <1>4, U64Assumption DEF AtMost
<1> QED
  BY <1>5 DEF SaturatingMul, BurstOffset, x, y, e

\* A bucket at rest grants whatever fits the burst.
LEMMA RestGrants ==
    ASSUME NEW tat \in Tat, NEW now \in Nat, NEW ei \in Nat, NEW bo \in Nat, NEW cost \in Nat,
           SaturatingMul(ei, cost) <= bo, tat = None \/ tat <= now
    PROVE  Allows(tat, now, ei, bo, cost)
<1> DEFINE m == SaturatingMul(ei, cost)
           c == CurrentTat(tat, now)
<1>1. m \in Nat /\ m <= bo
  BY SaturatingTypes, U64Assumption DEF Nanos
<1>2. c = now
  <2>1. CASE tat = None
    BY <2>1 DEF CurrentTat
  <2>2. CASE tat # None
    BY <2>2, U64Assumption DEF CurrentTat, AtLeast, Tat, Nanos
  <2> QED
    BY <2>1, <2>2
<1>3. NewTat(tat, now, ei, cost) = AtMost(now + m, U64Max)
  BY <1>2 DEF NewTat, SaturatingAdd
<1> HIDE DEF m
<1>4. AtLeast(AtMost(now + m, U64Max) - bo, 0) <= now
  BY <1>1, U64Assumption DEF AtLeast, AtMost
<1> QED
  BY <1>3, <1>4 DEF Allows, AllowAt, SaturatingSub

\* A request that is answered 429 would be granted by a bucket at rest.
THEOREM LimitedAlwaysMayRetry == Spec => []LimitedMayRetry
<1>1. Inv => LimitedMayRetry
  <2> SUFFICES ASSUME Inv, NEW r \in Requests, At(r, "done"), request[r].answer = "limited"
               PROVE  Verdict(None, clock, request[r].quota, RequestCost(request[r].cost)).allowed
    BY DEF LimitedMayRetry
  <2> DEFINE quota == request[r].quota
             cost == RequestCost(request[r].cost)
  <2>1. request[r] # None /\ request[r].result = "limited"
    BY DEF At, Inv, Coherent, Answered
  <2>2. Consulted(r) /\ LimitedQuota(quota)
    BY <2>1, ResultTypes
  <2>3. cost \in Nat /\ clock \in Nat
    BY <2>1, RequestTypes DEF Inv
  <2>4. SaturatingMul(EmissionInterval(quota), cost) <= BurstOffset(quota)
    BY <2>2, <2>3, CostFits DEF Consulted
  <2> HIDE DEF quota, cost
  <2>5. EmissionInterval(quota) \in Nat /\ BurstOffset(quota) \in Nat
    BY <2>2, LimitedQuotaTypes, U64Assumption DEF Nanos
  <2>6. None \in Tat
    BY DEF Tat
  <2>7. Allows(None, clock, EmissionInterval(quota), BurstOffset(quota), cost)
    BY <2>3, <2>4, <2>5, <2>6, RestGrants
  <2>8. Verdict(None, clock, quota, cost).allowed
    BY <2>2, <2>3, <2>6, <2>7, VerdictTypes
  <2> QED
    BY <2>8 DEF quota, cost
<1> QED
  BY <1>1, AlwaysInv, PTL

\* The bucket of an account covers what it was granted, and lies at most a burst
\* ahead of the clock.  This is what makes SpendBound inductive.
Paid ==
    \A key \in StorageKey : key.tier \in Limited =>
        LET quota == QuotaOfTier(key.tier)
        IN  /\ map[key] = None => spent[key] = 0
            /\ map[key] # None =>
                 /\ EmissionInterval(quota) * spent[key] <= map[key]
                 /\ map[key] <= clock + BurstOffset(quota)

\* Where nothing saturates, a charge raises a bucket by the cost in full.
LEMMA ChargePays ==
    ASSUME NoSaturation, Inv, Paid, NEW r \in Requests, At(r, "storage"), Decision(r).allowed,
           NEW n \in Nat, n = spent[request[r].key]
    PROVE  LET ei == EmissionInterval(request[r].quota)
               new_tat == Decision(r).new_tat
           IN  /\ new_tat \in Nat
               /\ ei * n <= new_tat
               /\ ei * (n + RequestCost(request[r].cost)) <= new_tat
               /\ new_tat <= clock + BurstOffset(request[r].quota)
<1> DEFINE q == request[r]
           ei == EmissionInterval(q.quota)
           bo == BurstOffset(q.quota)
           cost == RequestCost(q.cost)
           tat == map[q.key]
           new_tat == Decision(r).new_tat
           c == CurrentTat(tat, q.now)
           p == ei * cost
<1>1. q # None /\ Coherent(r) /\ TypeOK /\ config \in Configs
  BY DEF At, Inv, TypeOK
<1>2. Consulted(r) /\ tat \in Tat
  BY StorageAnswers
<1>3. LimitedQuota(q.quota) /\ q.key.tier \in DOMAIN rate_tier.tiers
  BY <1>1, <1>2, ConfigTypes DEF Consulted, Tiers
<1>4. q.now \in Nat /\ cost \in Nat /\ clock \in Nat /\ clock <= MaxTime /\ MaxTime \in Nat
  BY <1>1, RequestTypes, MaxTimeAssumption, U64Assumption DEF Nanos
<1>5. q.now <= clock
  BY <1>1 DEF Coherent, Placed
<1>6. ei \in Nat /\ bo \in Nat
  BY <1>3, LimitedQuotaTypes, U64Assumption DEF Nanos
<1>7. q.now + bo < U64Max
  <2> DEFINE w == ReplenishInterval(q.quota) * q.quota.max_burst
  <2>1. w \in Nat
    BY <1>3, LimitedQuotaTypes, Products
  <2>2. MaxTime + w < U64Max
    BY <1>1, <1>2, <1>3 DEF NoSaturation, rate_tier, Consulted, QuotaOfTier
  <2>3. w < U64Max
    <3> HIDE DEF w
    <3> QED
      BY <1>4, <2>1, <2>2, U64Assumption
  <2>4. bo = w
    BY <1>3, <2>3, UnsaturatedQuota
  <2> HIDE DEF w, bo
  <2> QED
    BY <1>4, <1>5, <2>1, <2>2, <2>4, U64Assumption
<1>8. /\ Allows(tat, q.now, ei, bo, cost) /\ new_tat = NewTat(tat, q.now, ei, cost)
      /\ new_tat \in Nanos
  BY <1>2, <1>3, <1>4, VerdictTypes DEF Decision, DecisionOn
<1>9. new_tat = c + p /\ new_tat <= q.now + bo
  BY <1>2, <1>4, <1>6, <1>7, <1>8, GrantChargesInFull
<1>10. c \in Nat /\ p \in Nat
  BY <1>2, <1>4, <1>6, NewTatType, Products
<1>11. ei * n <= c /\ ei * n \in Nat
  <2>1. ei * n \in Nat
    BY <1>6, Products
  <2>2. CASE tat = None
    <3>1. n = 0
      BY <1>2, <2>2 DEF Paid, Consulted
    <3>2. ei * n = 0
      BY <1>6, <3>1
    <3> QED
      BY <1>10, <2>1, <3>2
  <2>3. CASE tat # None
    <3>1. ei * n <= tat
      BY <1>2, <2>3 DEF Paid, Consulted
    <3>2. tat \in Nat /\ tat <= c
      BY <1>2, <1>4, <2>3, U64Assumption DEF CurrentTat, AtLeast, Tat, Nanos
    <3> DEFINE x == ei * n
    <3>3. x \in Nat /\ x <= tat
      BY <2>1, <3>1
    <3> HIDE DEF x, tat, c
    <3>4. x <= c
      BY <1>10, <3>2, <3>3
    <3> QED
      BY <2>1, <3>4 DEF x
  <2> QED
    BY <2>2, <2>3
<1>12. ei * (n + cost) = ei * n + p
  BY <1>4, <1>6, Products
<1> DEFINE x == ei * n
           z == ei * (n + cost)
<1>13. x <= c /\ x \in Nat /\ z = x + p
  BY <1>11, <1>12
<1> HIDE DEF x, z, c, p, bo, new_tat
<1>14. new_tat \in Nat /\ x <= new_tat /\ z <= new_tat /\ new_tat <= clock + bo
  BY <1>4, <1>5, <1>6, <1>9, <1>10, <1>13
<1> QED
  BY <1>14 DEF x, z, new_tat, bo

\* A step that leaves a bucket and its account alone keeps its debt.
LEMMA PaidUnchanged ==
    ASSUME Inv, Paid, UNCHANGED config, clock' \in Nat, clock <= clock',
           NEW key \in StorageKey, key.tier \in Limited,
           UNCHANGED <<map[key], spent[key]>>
    PROVE  LET quota == QuotaOfTier(key.tier)'
           IN  /\ map'[key] = None => spent'[key] = 0
               /\ map'[key] # None => /\ EmissionInterval(quota) * spent'[key] <= map'[key]
                                      /\ map'[key] <= clock' + BurstOffset(quota)
<1> DEFINE quota == QuotaOfTier(key.tier)
           bo == BurstOffset(quota)
<1>1. QuotaOfTier(key.tier)' = quota
  BY DEF QuotaOfTier, rate_tier
<1>2. /\ map[key] = None => spent[key] = 0
      /\ map[key] # None => EmissionInterval(quota) * spent[key] <= map[key] /\ map[key] <= clock + bo
  BY DEF Paid
<1>3. bo \in Nat /\ clock \in Nat
  BY ConfigTypes, LimitedQuotaTypes, MaxTimeAssumption, U64Assumption DEF Inv, TypeOK, Nanos
<1>4. map[key] # None => map[key] \in Nat
  BY U64Assumption DEF Inv, TypeOK, Tat, Nanos
<1> HIDE DEF bo
<1>5. map[key] # None => map[key] <= clock' + bo
  BY <1>2, <1>3, <1>4
<1> QED
  BY <1>1, <1>2, <1>5 DEF bo

LEMMA PaidStep ==
    ASSUME NoSaturation, Inv, Paid, [Next]_vars
    PROVE  Paid'
<1> SUFFICES ASSUME NEW key \in StorageKey, (key.tier \in Limited)'
             PROVE  LET quota == QuotaOfTier(key.tier)'
                    IN  /\ map'[key] = None => spent'[key] = 0
                        /\ map'[key] # None => /\ EmissionInterval(quota) * spent'[key] <= map'[key]
                                               /\ map'[key] <= clock' + BurstOffset(quota)
  BY DEF Paid
<1>1. UNCHANGED config /\ key.tier \in Limited
  <2>1. UNCHANGED config
    BY DEF Next, vars, Tick, PollReady, CallService, CollectBody, Identify, Check, CheckAndUpdate,
           StorageFails, ProcessResult, CheckReturns, Serve, Reply, Drop
  <2>2. Limited' = Limited
    BY <2>1 DEF Limited, Tiers, QuotaOfTier, rate_tier
  <2> QED
    BY <2>1, <2>2
<1>2. clock \in Nat /\ TypeOK /\ spent[key] \in Nat
  BY MaxTimeAssumption, U64Assumption DEF Inv, TypeOK, Nanos
<1>3. CASE Tick
  BY <1>1, <1>2, <1>3, PaidUnchanged DEF Tick
<1>4. CASE UNCHANGED <<clock, map, spent>>
  BY <1>1, <1>2, <1>4, PaidUnchanged
<1>5. ASSUME NEW r \in Requests, At(r, "storage"), UNCHANGED clock, map' = Charged(r),
             \/ UNCHANGED spent
             \/ /\ Decision(r).allowed
                /\ spent' = [spent EXCEPT ![Account(r)] = @ + RequestCost(request[r].cost)]
      PROVE  LET quota == QuotaOfTier(key.tier)'
             IN  /\ map'[key] = None => spent'[key] = 0
                 /\ map'[key] # None => /\ EmissionInterval(quota) * spent'[key] <= map'[key]
                                        /\ map'[key] <= clock' + BurstOffset(quota)
  <2>1. /\ Consulted(r)
        /\ map'[key] = IF key = request[r].key /\ Decision(r).allowed
                       THEN Decision(r).new_tat
                       ELSE map[key]
    BY <1>5, StorageAnswers
  <2>2. request[r].key = Account(r) /\ request[r].quota = QuotaOfTier(request[r].key.tier)
    BY <2>1 DEF Consulted
  <2>3. CASE key = request[r].key /\ Decision(r).allowed
    <3>1. spent'[key] = spent[key] \/ spent'[key] = spent[key] + RequestCost(request[r].cost)
      BY <1>2, <1>5, <2>2, <2>3 DEF TypeOK
    <3>2. QuotaOfTier(key.tier)' = request[r].quota
      BY <1>1, <2>2, <2>3 DEF QuotaOfTier, rate_tier
    <3>3. LET ei == EmissionInterval(request[r].quota)
              new_tat == Decision(r).new_tat
          IN  /\ new_tat \in Nat
              /\ ei * spent[key] <= new_tat
              /\ ei * (spent[key] + RequestCost(request[r].cost)) <= new_tat
              /\ new_tat <= clock + BurstOffset(request[r].quota)
      BY <1>2, <1>5, <2>3, ChargePays
    <3>4. map'[key] = Decision(r).new_tat /\ map'[key] # None
      BY <2>1, <2>3, <3>3, NoneAssumption
    <3>5. EmissionInterval(request[r].quota) * spent'[key] <= map'[key]
      BY <3>1, <3>3, <3>4
    <3> QED
      BY <1>5, <3>2, <3>3, <3>4, <3>5
  <2>4. CASE ~(key = request[r].key /\ Decision(r).allowed)
    <3>1. spent'[key] = spent[key]
      BY <1>2, <1>5, <2>2, <2>4 DEF TypeOK
    <3>2. map'[key] = map[key]
      BY <2>1, <2>4
    <3> QED
      BY <1>1, <1>2, <1>5, <3>1, <3>2, PaidUnchanged
  <2> QED
    BY <2>3, <2>4
<1>6. ASSUME NEW r \in Requests, CheckAndUpdate(r)
      PROVE  \/ UNCHANGED spent
             \/ /\ Decision(r).allowed
                /\ spent' = [spent EXCEPT ![Account(r)] = @ + RequestCost(request[r].cost)]
  BY <1>6 DEF CheckAndUpdate
<1>7. CASE \E r \in Requests : CheckAndUpdate(r)
  BY <1>5, <1>6, <1>7 DEF CheckAndUpdate
<1>8. CASE \E r \in Requests : StorageFails(r) \/ Drop(r)
  BY <1>4, <1>5, <1>8 DEF StorageFails, Drop
<1>9. CASE UNCHANGED vars \/ PollReady
  BY <1>4, <1>9 DEF vars, PollReady
<1>10. CASE \E r \in Requests : \/ CallService(r) \/ CollectBody(r) \/ Identify(r) \/ Check(r)
                                \/ ProcessResult(r) \/ CheckReturns(r) \/ Serve(r) \/ Reply(r)
  BY <1>4, <1>10 DEF CallService, CollectBody, Identify, Check, ProcessResult, CheckReturns, Serve,
                     Reply
<1> QED
  BY <1>3, <1>7, <1>8, <1>9, <1>10 DEF Next

\* Below saturation, whatever tiers the requests name and however the storage
\* fails, no account is granted more than the quota of its tier.
THEOREM SpendAlwaysBounded ==
    ASSUME NoSaturation
    PROVE  Spec => []SpendBound
<1>1. Init => Paid
  BY DEF Init, Paid
<1>2. Inv /\ Paid /\ [Next]_vars => Paid'
  BY PaidStep
<1>3. Inv /\ Paid => SpendBound
  <2> SUFFICES ASSUME Inv, Paid, NEW key \in StorageKey, key.tier \in Limited
               PROVE  spent[key] <= Allowance(key.tier)
    BY DEF SpendBound
  <2> DEFINE quota == QuotaOfTier(key.tier)
             ei == EmissionInterval(quota)
             b == quota.max_burst
             bo == BurstOffset(quota)
             n == spent[key]
             w == ReplenishInterval(quota) * b
  <2>1. /\ LimitedQuota(quota) /\ key.tier \in DOMAIN rate_tier.tiers
    BY ConfigTypes DEF Inv, TypeOK, Tiers
  <2>2. n \in Nat /\ clock \in Nat /\ b \in Nat /\ MaxTime \in Nat
    BY <2>1, LimitedQuotaTypes, MaxTimeAssumption, U64Assumption DEF Inv, TypeOK, Nanos
  <2>3. w \in Nat
    BY <2>1, LimitedQuotaTypes, Products
  <2>4. MaxTime + w < U64Max
    BY <2>1 DEF NoSaturation, rate_tier, QuotaOfTier, Inv, TypeOK
  <2>5. w < U64Max
    <3> HIDE DEF w
    <3> QED
      BY <2>2, <2>3, <2>4, U64Assumption
  <2>6. ei = ReplenishInterval(quota) /\ bo = w
    BY <2>1, <2>5, UnsaturatedQuota
  <2>7. ei \in Nat \ {0} /\ bo = ei * b
    BY <2>1, <2>6, LimitedQuotaTypes
  <2>8. Allowance(key.tier) = b + clock \div ei
    BY DEF Allowance
  <2>9. clock \div ei \in Nat
    BY <2>2, <2>7, Division
  <2>10. CASE map[key] = None
    <3>1. n = 0
      BY <2>10 DEF Paid
    <3> HIDE DEF b, n
    <3>2. n <= b + clock \div ei
      BY <2>2, <2>9, <3>1
    <3> QED
      BY <2>8, <3>2 DEF n
  <2>11. CASE map[key] # None
    <3>1. ei * n <= map[key] /\ map[key] <= clock + bo
      BY <2>11 DEF Paid
    <3>2. map[key] \in Nat
      BY <2>11, U64Assumption DEF Inv, TypeOK, Tat, Nanos
    <3> HIDE DEF ei, b, n, bo
    <3>3. CASE n <= b
      <4>1. n <= b + clock \div ei
        BY <2>2, <2>9, <3>3
      <4> QED
        BY <2>8, <4>1 DEF n
    <3>4. CASE ~(n <= b)
      <4>1. PICK p \in Nat : n = b + p
        <5>1. n - b \in Nat /\ n = b + (n - b)
          BY <2>2, <3>4
        <5> QED
          BY <5>1
      <4>2. ei * n = ei * b + ei * p /\ ei * b \in Nat /\ ei * p \in Nat
        BY <2>2, <2>7, <4>1, Products
      <4> DEFINE x == ei * b
                 y == ei * p
                 z == ei * n
      <4>3. z = x + y /\ x \in Nat /\ y \in Nat /\ z <= map[key] /\ bo = x
        BY <2>7, <3>1, <4>2
      <4> HIDE DEF x, y, z
      <4>4. y <= clock
        BY <2>2, <3>1, <3>2, <4>3
      <4>5. p <= clock \div ei
        BY <2>2, <2>7, <4>4, Division DEF y
      <4>6. n <= b + clock \div ei
        BY <2>2, <2>9, <4>1, <4>5
      <4> QED
        BY <2>8, <4>6 DEF n
    <3> QED
      BY <3>3, <3>4
  <2> QED
    BY <2>10, <2>11
<1> QED
  BY <1>1, <1>2, <1>3, AlwaysInv, PTL DEF Spec

\* check_gcra's reset_after leads to the time at which the bucket is at rest, and
\* is never negative nor above u64::MAX.
LEMMA ResetTypes ==
    ASSUME NEW tat \in Tat, NEW now \in Nanos, NEW quota, LimitedQuota(quota), NEW cost \in Nat,
           NEW d, d = Verdict(tat, now, quota, cost),
           NEW bucket, bucket = IF d.allowed THEN d.new_tat ELSE tat
    PROVE  /\ bucket \in Tat
           /\ d.reset_after \in Nanos
           /\ bucket = None \/ bucket <= now + d.reset_after
<1> DEFINE ei == EmissionInterval(quota)
           bo == BurstOffset(quota)
           c == CurrentTat(tat, now)
           m == SaturatingMul(ei, cost)
           n == NewTat(tat, now, ei, cost)
<1>1. now \in Nat /\ now <= U64Max
  BY U64Assumption DEF Nanos
<1>2. ei \in Nat /\ m \in Nat
  BY LimitedQuotaTypes, SaturatingTypes, U64Assumption DEF Nanos
<1>3. /\ d.allowed \in BOOLEAN
      /\ d.allowed => d.reset_after = d.new_tat - now /\ d.new_tat = n
      /\ ~d.allowed => d.reset_after = c - now
  BY <1>1, VerdictTypes
<1>4. /\ c \in Nat /\ now <= c /\ c <= U64Max
      /\ tat = None \/ (tat \in Nat /\ tat <= c)
  BY <1>1, U64Assumption, NoneAssumption DEF CurrentTat, AtLeast, Tat, Nanos
<1>5. n = AtMost(c + m, U64Max)
  BY DEF NewTat, SaturatingAdd
<1> HIDE DEF c, m, n
<1>6. n \in Nat /\ now <= n /\ n <= U64Max
  BY <1>1, <1>2, <1>4, <1>5, U64Assumption DEF AtMost
<1>7. CASE d.allowed
  <2>1. bucket = n /\ d.reset_after = n - now
    BY <1>3, <1>7
  <2> QED
    BY <1>1, <1>6, <2>1, U64Assumption DEF Tat, Nanos
<1>8. CASE ~d.allowed
  <2>1. bucket = tat /\ d.reset_after = c - now
    BY <1>3, <1>8
  <2>2. d.reset_after \in Nanos
    BY <1>1, <1>4, <2>1, U64Assumption DEF Nanos
  <2>3. bucket = None \/ bucket <= now + d.reset_after
    BY <1>1, <1>4, <2>1
  <2> QED
    BY <2>1, <2>2, <2>3
<1> QED
  BY <1>3, <1>7, <1>8

\* The reset header, less the difference of the clocks, covers the time at which
\* the bucket is at rest, and no second more.
LEMMA ResetCovers ==
    ASSUME WallClockFits, NEW reset_after \in Nanos, NEW checked \in 0 .. MaxTime,
           NEW reset, reset = ResetHeaderValue(reset_after, checked + WallOffset)
    PROVE  /\ reset \in Nat
           /\ reset * NanosPerSec - WallOffset \in Nat
           /\ checked + reset_after <= reset * NanosPerSec - WallOffset
           /\ reset * NanosPerSec - WallOffset < checked + reset_after + NanosPerSec
<1> DEFINE t == checked + WallOffset + reset_after
           p == reset * NanosPerSec
<1>1. /\ MaxWall \in Nat /\ checked \in Nat /\ WallOffset \in Nat /\ reset_after \in Nat /\ MaxTime \in Nat
      /\ checked <= MaxTime /\ reset_after <= U64Max /\ MaxTime + WallOffset + U64Max <= MaxWall
      /\ NanosPerSec \in Nat
  BY MaxTimeAssumption, U64Assumption, NanosPerSecAssumption DEF WallClockFits, Nanos
<1>2. t \in Nat /\ t <= MaxTime + WallOffset + U64Max
  BY <1>1, U64Assumption
<1>3. ~(t > MaxWall) /\ ~(t < 0)
  BY <1>1, <1>2, U64Assumption
<1>4. reset = CeilSecs(t)
  BY <1>3 DEF ResetHeaderValue
<1>5. reset \in Nat /\ t <= p /\ p < t + NanosPerSec
  BY <1>2, <1>4, CeilSecsCovers
<1>6. p \in Nat
  BY <1>1, <1>5, Products
<1> HIDE DEF p
<1>7. p - WallOffset \in Nat /\ checked + reset_after <= p - WallOffset
      /\ p - WallOffset < checked + reset_after + NanosPerSec
  BY <1>1, <1>5, <1>6
<1> QED
  BY <1>5, <1>7 DEF p

\* A client that waits as long as the headers say finds what they promise, unless
\* the bucket has been used in the meantime.
THEOREM HeadersAlwaysHonest ==
    ASSUME WallClockFits
    PROVE  Spec => []HeadersHonest
<1>1. Inv => HeadersHonest
  <2> SUFFICES ASSUME Inv, NEW r \in Requests, At(r, "done"), request[r].headers # None, Untouched(r)
               PROVE  LET quota == request[r].quota
                          headers == request[r].headers
                          bucket == map[request[r].key]
                          reset == headers.reset * NanosPerSec - WallOffset
                          full == request[r].checked + DecisionOn(r, request[r].tat).reset_after
                          retried == request[r].checked + headers.retry_after * NanosPerSec
                      IN  /\ Verdict(bucket, reset, quota, quota.max_burst).allowed
                          /\ full <= reset /\ reset < full + NanosPerSec
                          /\ headers.retry_after # None =>
                               Verdict(bucket, retried, quota, RequestCost(request[r].cost)).allowed
    BY DEF HeadersHonest
  <2> DEFINE q == request[r]
             d == DecisionOn(r, q.tat)
             quota == q.quota
             ei == EmissionInterval(quota)
             bo == BurstOffset(quota)
             cost == RequestCost(q.cost)
             bucket == map[q.key]
             reset == q.headers.reset * NanosPerSec - WallOffset
             full == q.checked + d.reset_after
             retried == q.checked + q.headers.retry_after * NanosPerSec
  <2>1. q # None /\ Coherent(r) /\ TypeOK /\ q \in Request
    BY RequestTypes DEF At, Inv
  <2>2. /\ q.now <= q.checked /\ q.checked <= clock
        /\ q.result \in {"allowed", "limited"}
        /\ q.headers = IF q.result = "allowed"
                       THEN InfoHeaders(d, q.checked + WallOffset)
                       ELSE LimitedHeaders(d, q.checked + WallOffset)
    BY <2>1 DEF Coherent, Printed
  <2>3. /\ q.now \in Nat /\ q.checked \in Nat /\ cost \in Nat /\ q.tat \in Tat
        /\ q.checked \in 0 .. MaxTime /\ q.now \in Nanos
    <3>1. q.checked \in 0 .. MaxTime /\ q.now \in 0 .. MaxTime
      BY <2>1 DEF Request
    <3> QED
      BY <2>1, <3>1, RequestTypes, MaxTimeAssumption, U64Assumption DEF Nanos
  <2>4. Consulted(r) /\ LimitedQuota(quota)
    BY <2>1, <2>2, ResultTypes
  <2>5. d = Verdict(q.tat, q.now, quota, cost)
    BY DEF DecisionOn
  <2>6. /\ d.allowed <=> q.result = "allowed"
        /\ q.charged <=> d.allowed
    BY <2>1, <2>2 DEF Coherent, Decided
  <2>7. bucket = IF d.allowed THEN d.new_tat ELSE q.tat
    BY <2>6 DEF Untouched
  <2>8. ei \in Nat /\ bo \in Nat /\ quota.max_burst \in Nat
    BY <2>4, LimitedQuotaTypes, U64Assumption DEF Nanos
  <2>9. bucket \in Tat /\ d.reset_after \in Nanos /\ (bucket = None \/ bucket <= q.now + d.reset_after)
    BY <2>3, <2>4, <2>5, <2>7, ResetTypes
  <2>10. q.headers.reset = ResetHeaderValue(d.reset_after, q.checked + WallOffset)
    BY <2>2 DEF InfoHeaders, LimitedHeaders
  <2>11. reset \in Nat /\ full <= reset /\ reset < full + NanosPerSec
    BY <2>3, <2>9, <2>10, ResetCovers
  <2>12. Verdict(bucket, reset, quota, quota.max_burst).allowed
    <3>1. SaturatingMul(ei, quota.max_burst) <= bo
      BY <2>4, <2>8, CostFits
    <3>2. bucket = None \/ bucket <= reset
      <4>1. d.reset_after \in Nat
        BY <2>9, U64Assumption DEF Nanos
      <4>2. bucket # None => bucket \in Nat
        BY <2>9, U64Assumption DEF Tat, Nanos
      <4> HIDE DEF d, reset, bucket
      <4> QED
        BY <2>2, <2>3, <2>9, <2>11, <4>1, <4>2
    <3>3. Allows(bucket, reset, ei, bo, quota.max_burst)
      BY <2>8, <2>9, <2>11, <3>1, <3>2, RestGrants
    <3> HIDE DEF bucket, reset
    <3> QED
      BY <2>4, <2>8, <2>9, <2>11, <3>3, VerdictTypes
  <2>13. ASSUME q.headers.retry_after # None
         PROVE  Verdict(bucket, retried, quota, cost).allowed
    <3>1. q.result = "limited" /\ q.headers.retry_after = CeilSecs(d.retry_after)
      BY <2>2, <2>13 DEF InfoHeaders, LimitedHeaders
    <3>2. ~d.allowed /\ bucket = q.tat
      BY <2>6, <2>7, <3>1
    <3> DEFINE a == AllowAt(q.tat, q.now, ei, bo, cost)
               s == CeilSecs(d.retry_after)
               v == s * NanosPerSec
    <3>3. d.retry_after = a - q.now /\ d.retry_after \in Nat /\ ~Allows(q.tat, q.now, ei, bo, cost)
      BY <2>3, <2>4, <2>5, <3>2, VerdictTypes
    <3>4. s \in Nat /\ d.retry_after <= v
      BY <3>3, CeilSecsCovers
    <3>5. v \in Nat
      BY <3>4, Products, NanosPerSecAssumption
    <3>6. SaturatingMul(ei, cost) <= bo
      BY <2>3, <2>4, CostFits DEF Consulted
    <3>7. retried = q.checked + v
      BY <3>1
    <3>8. retried \in Nat /\ q.now <= retried
      <4> HIDE DEF v, retried
      <4> QED
        BY <2>2, <2>3, <3>5, <3>7
    <3>9. /\ a \in Nat
          /\ Allows(q.tat, retried, ei, bo, cost) <=> a <= retried
      <4> HIDE DEF retried
      <4> QED
        BY <2>3, <2>8, <3>3, <3>6, <3>8, WaitExact
    <3>10. a <= retried
      <4> HIDE DEF a, v, retried, d
      <4> QED
        BY <2>2, <2>3, <3>3, <3>4, <3>5, <3>7, <3>9
    <3>11. Allows(bucket, retried, ei, bo, cost)
      BY <3>2, <3>9, <3>10
    <3> HIDE DEF bucket, retried, cost
    <3> QED
      BY <2>3, <2>4, <2>9, <3>8, <3>11, VerdictTypes
  <2> QED
    BY <2>11, <2>12, <2>13
<1> QED
  BY <1>1, AlwaysInv, PTL
=============================================================================
