----------------------------- MODULE TierLimit ------------------------------
(***************************************************************************)
(* The middleware: service.rs, buffered.rs and check.rs, with the          *)
(* programmatic RateTier::check of tier.rs on the same storage.  Requests  *)
(* run concurrently; each stops at the awaits of its future (the body, the *)
(* identifier, the storage, the inner service) and may be dropped there.   *)
(* The configuration is one that the builders can make.                    *)
(*                                                                         *)
(* The storage is any implementation of the Storage trait: it decides as   *)
(* check_gcra does, or fails, and when it fails it may have counted the    *)
(* request (RedisStorage after a timeout).                                 *)
(***************************************************************************)
EXTENDS Builders, Responses

CONSTANTS
    Requests,       \* slots for requests in flight
    Users,          \* the user ids an identifier may find
    Anonymous,      \* "__anonymous__"
    TierNames,      \* the tier names an identifier may find, configured or not
    Costs,          \* the costs an application sets, besides the usual 1
    BodySizes,      \* the sizes of request bodies
    Configs,        \* the configurations: BufferedTierLimitLayers
    WallOffset,     \* wall-clock time minus the limiter's clock
    MaxTime         \* bound: the clock stops here

ASSUME MaxTimeAssumption == MaxTime \in Nanos
ASSUME RangeAssumption == U64Max # 0
ASSUME CostAssumption == Costs \subseteq Nat
ASSUME WallAssumption == WallOffset \in Int

\* What a quota's constructors return.
ValidQuota(quota) ==
    /\ quota \in [max_burst : Nat, window : Nat]
    /\ LimitedQuota(quota) \/ IsUnlimited(quota)

\* What build returns, if it does.
ValidRateTier(rt) ==
    /\ DOMAIN rt.tiers # {} /\ DOMAIN rt.tiers \subseteq TierNames
    /\ \A tier \in DOMAIN rt.tiers : ValidQuota(rt.tiers[tier])
    /\ rt.default_tier \in DOMAIN rt.tiers \cup {None}
    /\ rt.on_missing \in MissingPolicy
    /\ rt.on_unknown_tier \in UnknownTierPolicy

ASSUME ConfigAssumption ==
    \A c \in Configs :
        /\ c.settings.rate_tier \notin {Panic, None}
        /\ ValidRateTier(c.settings.rate_tier)
        /\ c.settings.on_storage_error \in StorageErrorPolicy
        /\ c.settings.cost_fn \in Nat \cup {None}

VARIABLES
    config,         \* the layer, with its RateTier and Settings
    clock,          \* the limiter's clock
    map,            \* the storage: a TAT per key, or None
    ready,          \* whether the service's inner service has been polled ready
    request,        \* per slot, a request in flight, or None
    spent           \* history: cells granted per user and tier that applies

vars == <<config, clock, map, ready, request, spent>>

settings == config.settings
rate_tier == config.settings.rate_tier

\* RateTier::get_quota
Tiers == DOMAIN rate_tier.tiers
QuotaOfTier(tier) == rate_tier.tiers[tier]
Limited == {tier \in Tiers : ~IsUnlimited(QuotaOfTier(tier))}

\* The TierCost that a TierCostService has put into a request's extensions.
Extensions == Costs \cup {None}

Identity == [user : Users, tier : TierNames]
StorageKey == [user : Users \cup {Anonymous}, tier : TierNames]

ASSUME NoIdentity == None \notin Identity

\* What the identifier answers; without one it is NoopIdentifier.
Identities == IF settings.identifier THEN Identity \cup {None} ELSE {None}

\* LimitEvent, and the call of on_limited.
Event == {"StorageError", "UnknownTier", "CostExceedsLimit", "limited"}

Answers ==
    {"bad request", "payload too large", "denied", "cost exceeds limit",
     "limited", "unavailable", "served", "inner error", "check error"}

Headers == [limit : Nat, remaining : Nat, reset : Nat, retry_after : Nat \cup {None}]

Request ==
    [via      : {"service", "buffered", "check"},
     identity : Identity \cup {None},
     cost     : Extensions \cup {1},
     pc       : {"body", "identify", "storage", "result", "inner", "done"},
     key      : StorageKey \cup {None},
     quota    : [max_burst : Nat, window : Nat] \cup {None},
     now      : 0 .. MaxTime,
     result   : {"none", "allowed", "limited", "error"},
     tat      : Tat,                  \* history: the bucket when it was decided
     charged  : BOOLEAN,              \* history: whether the storage counted it
     headers  : Headers \cup {None},
     checked  : 0 .. MaxTime,         \* history: when the headers were made
     events   : SUBSET Event,
     answer   : Answers \cup {None}]

(***************************************************************************)
(* check.rs                                                                *)
(***************************************************************************)
Pass == [outcome |-> "PassThrough"]
Deny == [outcome |-> "Deny"]
Limit(key, quota) == [outcome |-> "Limit", key |-> key, quota |-> quota]

\* The quota that applies to an identity, or a decision without one.
OfTier(user, tier) ==
    IF IsUnlimited(QuotaOfTier(tier))
    THEN Pass
    ELSE Limit([user |-> user, tier |-> tier], QuotaOfTier(tier))

\* Fault: an unknown tier gets a bucket of its own.
ResolveQuotaOwnBucket(user, tier) ==
    IF /\ tier \notin Tiers
       /\ rate_tier.on_unknown_tier = "UseDefault"
       /\ rate_tier.default_tier \in Limited
    THEN Limit([user |-> user, tier |-> tier], QuotaOfTier(rate_tier.default_tier))
    ELSE IF tier \in Tiers THEN OfTier(user, tier) ELSE Deny

ResolveQuota(user, tier) ==
    CASE tier \in Tiers -> OfTier(user, tier)
      [] tier \notin Tiers /\ rate_tier.on_unknown_tier = "Allow" -> Pass
      [] tier \notin Tiers /\ rate_tier.on_unknown_tier = "Deny" -> Deny
      [] tier \notin Tiers /\ rate_tier.on_unknown_tier = "UseDefault" ->
           IF rate_tier.default_tier = None
           THEN Deny
           ELSE OfTier(user, rate_tier.default_tier)

\* resolve_identity, then resolve_quota.
Resolve(identity) ==
    CASE identity # None -> ResolveQuota(identity.user, identity.tier)
      [] identity = None /\ rate_tier.on_missing = "Allow" -> Pass
      [] identity = None /\ rate_tier.on_missing = "Deny" -> Deny
      [] identity = None /\ rate_tier.on_missing = "UseDefault" ->
           IF rate_tier.default_tier = None
           THEN Deny
           ELSE ResolveQuota(Anonymous, rate_tier.default_tier)

\* The TierCost extension wins, then the layer's cost_fn, then 1.
RequestCost(cost) ==
    CASE cost # None -> cost
      [] cost = None /\ settings.cost_fn # None -> settings.cost_fn
      [] OTHER -> 1

\* Fault: nothing is above the limit.
CostOverLimitNever(cost, quota) == FALSE

\* reject_cost_over_limit
CostOverLimit(cost, quota) == cost > quota.max_burst

\* check_gcra with a quota.
Verdict(tat, now, quota, cost) ==
    CheckGcra(tat, now, EmissionInterval(quota), BurstOffset(quota), cost)

\* What the storage answers to a request when the bucket holds tat.
DecisionOn(r, tat) ==
    Verdict(tat, request[r].now, request[r].quota, RequestCost(request[r].cost))

\* What it answers now, and what it then holds.
Decision(r) == DecisionOn(r, map[request[r].key])

Charged(r) ==
    IF Decision(r).allowed
    THEN [map EXCEPT ![request[r].key] = Decision(r).new_tat]
    ELSE map

-----------------------------------------------------------------------------

Init ==
    /\ config \in Configs
    /\ clock = 0
    /\ map = [key \in StorageKey |-> None]
    /\ ready = FALSE
    /\ request = [r \in Requests |-> None]
    /\ spent = [key \in StorageKey |-> 0]

Tick ==
    /\ clock < MaxTime
    /\ clock' = clock + 1
    /\ UNCHANGED <<config, map, ready, request, spent>>

\* poll_ready asks the inner service.
PollReady ==
    /\ ready' = TRUE
    /\ UNCHANGED <<config, clock, map, request, spent>>

New(via, identity, cost, pc) ==
    [via |-> via, identity |-> identity, cost |-> cost, pc |-> pc,
     key |-> None, quota |-> None, now |-> 0, result |-> "none", tat |-> None,
     charged |-> FALSE, headers |-> None, checked |-> 0, events |-> {}, answer |-> None]

\* A ready service is called (the Tower contract).  The swap gives its inner service
\* to the future; the service keeps the clone, which has yet to be polled ready.
CallService(r) ==
    /\ request[r] = None /\ ready
    /\ \E identity \in Identities, cost \in Extensions :
         \/ request' = [request EXCEPT ![r] = New("service", identity, cost, "identify")]
         \/ request' = [request EXCEPT ![r] = New("buffered", identity, cost, "body")]
    /\ ready' = FALSE
    /\ UNCHANGED <<config, clock, map, spent>>

At(r, pc) == request[r] # None /\ request[r].pc = pc

Answer(r, answer) ==
    request' = [request EXCEPT ![r].pc = "done", ![r].answer = answer]

\* check_and_update is called with the time read just before.
Consult(r, new, target) ==
    request' = [request EXCEPT ![r] = [new EXCEPT !.pc = "storage", !.key = target.key,
                                                  !.quota = target.quota, !.now = clock]]

\* Limited::new(body, max_body_size).collect(), or a size hint above the limit.
CollectBody(r) ==
    /\ At(r, "body")
    /\ \E size \in BodySizes :
         \/ /\ size <= config.max_body_size
            /\ request' = [request EXCEPT ![r].pc = "identify"]
         \/ size > config.max_body_size /\ Answer(r, "payload too large")
         \/ Answer(r, "bad request")
    /\ UNCHANGED <<config, clock, map, ready, spent>>

(***************************************************************************)
(* The accounting: whose quota a request is meant to use, whatever bucket  *)
(* the middleware chooses, and which requests the configuration lets       *)
(* through unlimited.                                                      *)
(***************************************************************************)
Spender(r) == IF request[r].identity = None THEN Anonymous ELSE request[r].identity.user

ClaimedTier(r) ==
    LET identity == request[r].identity
    IN  IF identity # None /\ identity.tier \in Tiers
        THEN identity.tier
        ELSE rate_tier.default_tier

Exempt(r) ==
    LET identity == request[r].identity
    IN  \/ identity = None /\ rate_tier.on_missing = "Allow"
        \/ identity # None /\ identity.tier \notin Tiers /\ rate_tier.on_unknown_tier = "Allow"
        \/ ClaimedTier(r) \in Tiers \ Limited

Account(r) == [user |-> Spender(r), tier |-> ClaimedTier(r)]

\* resolve_quota reports a tier that is not configured, whatever the policy.
UnknownTierEvent(identity) ==
    IF settings.on_event /\ identity # None /\ identity.tier \notin Tiers
    THEN {"UnknownTier"}
    ELSE {}

\* The synchronous stretch from the identifier's answer to the storage call.
Identify(r) ==
    LET target == Resolve(request[r].identity)
        cost == RequestCost(request[r].cost)
        events == UnknownTierEvent(request[r].identity)
        excess == IF settings.on_event THEN {"CostExceedsLimit"} ELSE {}
    IN  /\ At(r, "identify")
        /\ \/ /\ target.outcome = "PassThrough"
              /\ request' = [request EXCEPT ![r].pc = "inner", ![r].events = events]
           \/ /\ target.outcome = "Deny"
              /\ request' = [request EXCEPT ![r].pc = "done", ![r].answer = "denied",
                                            ![r].events = events]
           \/ /\ target.outcome = "Limit" /\ CostOverLimit(cost, target.quota)
              /\ request' = [request EXCEPT ![r].pc = "done", ![r].answer = "cost exceeds limit",
                                            ![r].events = events \cup excess]
           \/ /\ target.outcome = "Limit" /\ ~CostOverLimit(cost, target.quota)
              /\ Consult(r, [request[r] EXCEPT !.events = events], target)
        /\ UNCHANGED <<config, clock, map, ready, spent>>

\* RateTier::check, which knows no policies.
Check(r) ==
    /\ request[r] = None
    /\ \E identity \in Identity, cost \in Costs \cup {1} :
         LET new == New("check", identity, cost, "done")
             target == OfTier(identity.user, identity.tier)
         IN  \/ /\ identity.tier \notin Tiers
                /\ request' = [request EXCEPT ![r] = [new EXCEPT !.answer = "check error"]]
             \/ /\ identity.tier \in Tiers \ Limited
                /\ request' = [request EXCEPT ![r] = [new EXCEPT !.answer = "served"]]
             \/ /\ identity.tier \in Limited /\ CostOverLimit(cost, target.quota)
                /\ request' = [request EXCEPT ![r] = [new EXCEPT !.answer = "check error"]]
             \/ /\ identity.tier \in Limited /\ ~CostOverLimit(cost, target.quota)
                /\ Consult(r, new, target)
    /\ UNCHANGED <<config, clock, map, ready, spent>>

\* The storage decides.
CheckAndUpdate(r) ==
    /\ At(r, "storage")
    /\ map' = Charged(r)
    /\ request' = [request EXCEPT ![r].pc = "result",
                                  ![r].result = IF Decision(r).allowed THEN "allowed" ELSE "limited",
                                  ![r].tat = map[request[r].key],
                                  ![r].charged = Decision(r).allowed]
    /\ spent' = IF Decision(r).allowed
                THEN [spent EXCEPT ![Account(r)] = @ + RequestCost(request[r].cost)]
                ELSE spent
    /\ UNCHANGED <<config, clock, ready>>

\* The storage fails, after it counted the request or before.
StorageFails(r) ==
    /\ At(r, "storage")
    /\ \/ map' = map /\ request' = [request EXCEPT ![r].pc = "result", ![r].result = "error"]
       \/ /\ map' = Charged(r)
          /\ request' = [request EXCEPT ![r].pc = "result", ![r].result = "error",
                                        ![r].charged = Decision(r).allowed]
    /\ UNCHANGED <<config, clock, ready, spent>>

\* Fault: a request that used the last cell is refused as well.
LetThroughRest(r) ==
    /\ request[r].result = "allowed"
    /\ map[request[r].key] < request[r].now + BurstOffset(request[r].quota)

\* Fault: a failing storage lets requests through, whatever the policy.
LetThroughError(r) == request[r].result # "limited"

LetThrough(r) == request[r].result = "allowed"

\* SystemTime::now
WallClock == clock + WallOffset

\* Fault: a storage that fails is reported when the request is denied only.
StorageErrorEventDenied ==
    IF settings.on_event /\ settings.on_storage_error = "Deny" THEN {"StorageError"} ELSE {}

StorageErrorEvent == IF settings.on_event THEN {"StorageError"} ELSE {}

\* process_result, and what the service does with its outcome.  The wall clock is
\* read now, after the storage has answered.
ProcessResult(r) ==
    LET decision == DecisionOn(r, request[r].tat)
        limited == IF settings.on_limited THEN {"limited"} ELSE {}
    IN  /\ At(r, "result") /\ request[r].via # "check"
        /\ \/ /\ LetThrough(r)
              /\ request' = [request EXCEPT ![r].pc = "inner", ![r].checked = clock,
                                            ![r].headers = InfoHeaders(decision, WallClock)]
           \/ /\ request[r].result # "error" /\ ~LetThrough(r)
              /\ request' = [request EXCEPT ![r].pc = "done", ![r].answer = "limited",
                                            ![r].events = @ \cup limited,
                                            ![r].checked = clock,
                                            ![r].headers =
                                                IF settings.rate_limited_response
                                                THEN None
                                                ELSE LimitedHeaders(decision, WallClock)]
           \/ /\ request[r].result = "error" /\ settings.on_storage_error = "Allow"
              /\ request' = [request EXCEPT ![r].pc = "inner",
                                            ![r].events = @ \cup StorageErrorEvent]
           \/ /\ request[r].result = "error" /\ settings.on_storage_error = "Deny"
              /\ request' = [request EXCEPT ![r].pc = "done", ![r].answer = "unavailable",
                                            ![r].events = @ \cup StorageErrorEvent]
        /\ UNCHANGED <<config, clock, map, ready, spent>>

\* RateTier::check returns what the storage answered.
CheckReturns(r) ==
    /\ At(r, "result") /\ request[r].via = "check"
    /\ \/ LetThrough(r) /\ Answer(r, "served")
       \/ request[r].result # "error" /\ ~LetThrough(r) /\ Answer(r, "limited")
       \/ request[r].result = "error" /\ Answer(r, "check error")
    /\ UNCHANGED <<config, clock, map, ready, spent>>

\* The inner service answers; the headers made before are added to a response.
Serve(r) ==
    /\ At(r, "inner")
    /\ \/ Answer(r, "served")
       \/ request' = [request EXCEPT ![r].pc = "done", ![r].answer = "inner error",
                                     ![r].headers = None]
    /\ UNCHANGED <<config, clock, map, ready, spent>>

Reply(r) ==
    /\ At(r, "done")
    /\ request' = [request EXCEPT ![r] = None]
    /\ UNCHANGED <<config, clock, map, ready, spent>>

\* The caller drops the future at an await; a storage call under way may still
\* count the request.
Drop(r) ==
    /\ request[r] # None /\ request[r].pc # "done"
    /\ map' \in IF At(r, "storage") THEN {map, Charged(r)} ELSE {map}
    /\ request' = [request EXCEPT ![r] = None]
    /\ UNCHANGED <<config, clock, ready, spent>>

Next ==
    \/ Tick
    \/ PollReady
    \/ \E r \in Requests :
         \/ CallService(r) \/ CollectBody(r) \/ Identify(r)
         \/ Check(r)
         \/ CheckAndUpdate(r) \/ StorageFails(r) \/ ProcessResult(r) \/ CheckReturns(r)
         \/ Serve(r) \/ Reply(r) \/ Drop(r)

Spec == Init /\ [][Next]_vars

-----------------------------------------------------------------------------

\* The variables have their types; a request's bucket is that of a configured,
\* limited tier.
TypeOK ==
    /\ config \in Configs
    /\ clock \in 0 .. MaxTime
    /\ map \in [StorageKey -> Tat]
    /\ ready \in BOOLEAN
    /\ request \in [Requests -> Request \cup {None}]
    /\ spent \in [StorageKey -> Nat]
    /\ \A key \in StorageKey : map[key] # None => key.tier \in Limited

\* What a key of a tier may be granted from the start until now.
Allowance(tier) ==
    QuotaOfTier(tier).max_burst + clock \div EmissionInterval(QuotaOfTier(tier))

\* No timestamp plus a tier's burst reaches u64::MAX.
NoSaturation ==
    \A c \in Configs : \A tier \in DOMAIN c.settings.rate_tier.tiers :
        LET quota == c.settings.rate_tier.tiers[tier]
        IN  LimitedQuota(quota) =>
              MaxTime + ReplenishInterval(quota) * quota.max_burst < U64Max

\* The wall clock is past the epoch, and SystemTime has room for any wait.
WallClockFits ==
    WallOffset \in Nat /\ MaxWall \in Nat /\ MaxTime + WallOffset + U64Max <= MaxWall

\* Whatever tiers a user's requests name, through the middleware or check, and
\* whatever fails or is dropped on the way, the storage grants a user no more
\* cells of a tier than its quota allows: tiers that are not configured and
\* requests without an identity draw on the default tier's quota.
SpendBound ==
    \A key \in StorageKey :
        key.tier \in Limited => spent[key] <= Allowance(key.tier)

\* The request has reached the inner service, or check has let it pass.
LetIn(r) ==
    \/ At(r, "inner")
    \/ At(r, "done") /\ request[r].answer \in {"served", "inner error"}

\* No request gets past the limiter for free: one that is let through has been
\* counted, or the configuration excuses it.
CountedOrExcused ==
    \A r \in Requests :
        LetIn(r) =>
            \/ request[r].charged
            \/ Exempt(r)
            \/ request[r].result = "error" /\ settings.on_storage_error = "Allow"

\* A request that is refused has not been counted; only a failing storage may
\* have counted a request that is then answered 503.
RefusedUncounted ==
    \A r \in Requests :
        At(r, "done") /\ request[r].charged =>
            request[r].answer \in {"served", "inner error", "unavailable", "check error"}

\* check.rs: a request whose cost is above the burst "can never be allowed, so it
\* is answered with 403 before storage is touched".  A request that is answered
\* 429, which invites a retry, is granted by a bucket at rest.
LimitedMayRetry ==
    \A r \in Requests :
        At(r, "done") /\ request[r].answer = "limited" =>
            Verdict(None, clock, request[r].quota, RequestCost(request[r].cost)).allowed

\* The bucket as the request left it, if nobody has charged it since.
Untouched(r) ==
    map[request[r].key] = IF request[r].charged
                          THEN DecisionOn(r, request[r].tat).new_tat
                          ELSE request[r].tat

\* service.rs reads the wall clock when the storage has answered, some time after
\* the limiter's clock, and the response leaves later still.  A client that waits
\* until X-RateLimit-Reset finds a full bucket and one that waits for Retry-After
\* is allowed, if nobody has used the bucket in the meantime; and the former does
\* not wait a second longer than the storage said.
HeadersHonest ==
    \A r \in Requests :
        At(r, "done") /\ request[r].headers # None /\ Untouched(r) =>
            LET quota == request[r].quota
                headers == request[r].headers
                bucket == map[request[r].key]
                reset == headers.reset * NanosPerSec - WallOffset
                full == request[r].checked + DecisionOn(r, request[r].tat).reset_after
                retried == request[r].checked + headers.retry_after * NanosPerSec
            IN  /\ Verdict(bucket, reset, quota, quota.max_burst).allowed
                /\ full <= reset /\ reset < full + NanosPerSec
                /\ headers.retry_after # None =>
                     Verdict(bucket, retried, quota, RequestCost(request[r].cost)).allowed

\* layer.rs, on_event: it reports "problems that the policies otherwise handle
\* quietly".  A request of an identified user that reaches the inner service
\* uncounted either has a tier that is configured without a limit, or was
\* reported.
NothingSilent ==
    \A r \in Requests :
        /\ At(r, "inner") /\ ~request[r].charged
        /\ settings.on_event /\ request[r].identity # None
        => \/ request[r].identity.tier \in Tiers \ Limited
           \/ request[r].events \cap {"UnknownTier", "StorageError"} # {}

=============================================================================
