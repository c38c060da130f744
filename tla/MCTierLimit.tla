---------------------------- MODULE MCTierLimit -----------------------------
(* Small instances of TierLimit. *)
EXTENDS TierLimit, TLC

CONSTANTS r1, r2, u1, free, vip, nosuch

\* One tier with a burst of 1, refilled every time unit, and an unlimited one.
MCTiers == Tier(Tier(NewBuilder, free, WithWindow(1, 1)), vip, Unlimited)

\* gcra.rs: every quota that the constructors make "has a non-zero interval", at
\* the limits of the u64 range and of one request per nanosecond too.
ASSUME QuotasChecked ==
    \A count \in 0 .. 4 :
        \A quota \in {PerSecond(count), PerMinute(count), PerHour(count), PerDay(count)} :
            quota = Panic \/ EmissionInterval(quota) \in 1 .. U64Max

MCLayer(b) == Identifier(NewLayer(Build(b)))

\* Every value of every policy, with a limited, an unlimited and no default tier.
MCLayers ==
    {OnEvent(OnStorageError(MCLayer(OnMissing(DefaultTier(MCTiers, free), "Deny")), "Deny")),
     OnEvent(CostFn(MCLayer(MCTiers), 2)),
     OnLimited(OnEvent(MCLayer(OnMissing(DefaultTier(MCTiers, vip), "Deny")))),
     CustomResponse(MCLayer(OnUnknownTier(DefaultTier(MCTiers, vip), "Deny"))),
     OnEvent(OnStorageError(
       MCLayer(OnUnknownTier(OnMissing(DefaultTier(MCTiers, free), "Allow"), "Allow")), "Deny")),
     NewLayer(Build(DefaultTier(MCTiers, free)))}

MCConfigs == {MaxBodySize(BufferBody(layer), 1) : layer \in MCLayers}

\* The instance is one that the theorems cover.
ASSUME LayersCovered == NoSaturation /\ WallClockFits

Symmetry == Permutations({r1, r2})
=============================================================================
