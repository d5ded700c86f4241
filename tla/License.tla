-------------------------------- MODULE License --------------------------------
(* The licence of a running service: what a token grants                        *)
(* (license/paseto_client.go), the claims the manager caches and refreshes      *)
(* (license/manager.go), the feature gate and the gauges over them              *)
(* (license/gate.go, metrics.go), and the size of the worker pool, which is     *)
(* decided once (cappedWorkers in cmd/easyp-svc/start.go).                      *)
(* Cryptography is out: a token is its claims and the key that has signed it.   *)
(* Left out: the log lines, and that report does not repeat them.               *)
EXTENDS Integers

CONSTANTS
    KeyIds,             \* ids of keys, AnyKeyID not among them
    AnyKeyID,           \* "*"
    Keys,               \* Ed25519 keys
    Absent,             \* no key, no key id, no claim, no token
    Dates,              \* what nbf and exp of a token may be
    GraceDays,          \* what grace_days of a token may be
    Skew,               \* clockSkew
    CacheTTL,           \* time between two refreshes
    Configured,         \* worker_pool.workers
    LastDay,            \* bound: the clock stops here
    MaxPanics           \* bound: refreshes that break

ASSUME LicenseAssumption ==
    /\ AnyKeyID \notin KeyIds /\ Absent \notin KeyIds \union Keys \union {AnyKeyID}
    /\ Dates \subseteq Nat /\ GraceDays \subseteq Nat
    /\ Absent \notin Int
    /\ Skew \in Nat /\ CacheTTL \in Nat \ {0}
    /\ Configured \in Nat \ {0} /\ LastDay \in Nat /\ MaxPanics \in Nat

Tiers == {"community", "enterprise"}

\* core.Feature.  Only the audit needs a licence.
CommunityFeatures == {"code_generation", "plugin_listing", "mcp_server_tools",
                      "rate_limiting", "plugin_crud"}
Features == CommunityFeatures \union {"audit"}

Unlimited == -1

CommunityClaims ==
    [tier |-> "community", features |-> CommunityFeatures,
     maxWorkers |-> 4, maxPlugins |-> 10, expiresAt |-> Absent, inGrace |-> FALSE]

EnterpriseClaims(expiresAt, inGrace) ==
    [tier |-> "enterprise", features |-> Features,
     maxWorkers |-> Unlimited, maxPlugins |-> Unlimited,
     expiresAt |-> expiresAt, inGrace |-> inGrace]

\* What is configured, and the issuer and audience, which are right or wrong.
Token == [kid : KeyIds \union {AnyKeyID, Absent}, signedBy : Keys, ours : BOOLEAN,
          nbf : Dates \union {Absent}, exp : Dates \union {Absent},
          grace : GraceDays \union {Absent}, tier : {"enterprise", "unheard-of"}]

PublicKeys == [KeyIds \union {AnyKeyID} -> Keys \union {Absent}]

VARIABLES
    token, publicKeys,  \* the configuration, read once
    now,                \* the clock, as far as the service can tell
    claims,             \* Manager.claims
    step,               \* where a refresh is
    nextRefresh,        \* when the ticker fires
    gauges,             \* what Metrics has published
    workers,            \* how many workers the pool was given
    validatedAt,        \* history: when the claims in force were found
    lost,               \* refreshes since then that broke
    panics              \* refreshes that broke altogether

vars == <<token, publicKeys, now, claims, step, nextRefresh, gauges, workers,
          validatedAt, lost, panics>>

-------------------------------------------------------------------------------
(* ValidateLicense *)

\* resolveKey.  A footer that says "*" selects no key by name.
ResolveKey(t) ==
    IF t.kid \in KeyIds /\ publicKeys[t.kid] # Absent THEN publicKeys[t.kid]
    ELSE publicKeys[AnyKeyID]

\* The grace period a token does not ask for is none.
Grace(t) == IF t.grace = Absent THEN 0 ELSE t.grace

\* A mutant: an expired token is accepted for as long as its grace period without
\* an end.
ClaimsForEver(t, at) ==
    IF \/ Absent \in {t.nbf, t.exp}
       \/ at < t.nbf - Skew
       \/ t.tier # "enterprise"
    THEN CommunityClaims
    ELSE EnterpriseClaims(t.exp, at > t.exp + Skew)

\* claimsFor, of a token that has passed signature, issuer and audience.
ClaimsFor(t, at) ==
    IF \/ Absent \in {t.nbf, t.exp}
       \/ at < t.nbf - Skew
       \/ at > t.exp + Grace(t) + Skew
       \/ t.tier # "enterprise"
    THEN CommunityClaims
    ELSE EnterpriseClaims(t.exp, at > t.exp + Skew)

\* A mutant: a token no key is configured for is taken at its word.
VerifiesUnkeyed(t) == ResolveKey(t) \in {t.signedBy, Absent} /\ t.ours

\* The signature, then the issuer and the audience.
Verifies(t) == ResolveKey(t) = t.signedBy /\ t.ours

\* Nothing here is an error: what does not verify is community.
Validate(at) ==
    IF token = Absent THEN CommunityClaims
    ELSE IF Verifies(token) THEN ClaimsFor(token, at) ELSE CommunityClaims

-------------------------------------------------------------------------------
(* The manager *)

\* Metrics.observe.
Observed(c) == [valid |-> c.tier = "enterprise", expiry |-> c.expiresAt,
                inGrace |-> c.inGrace]

\* cappedWorkers.
Capped(limit) == IF limit <= 0 \/ limit >= Configured THEN Configured ELSE limit

\* NewManager has refreshed, and initApp has sized the pool.
Init ==
    /\ token \in Token \union {Absent}
    /\ publicKeys \in PublicKeys
    /\ now = 0
    /\ claims = Validate(0)
    /\ step = "idle"
    /\ nextRefresh = CacheTTL
    /\ gauges = Observed(claims)
    /\ workers = Capped(claims.maxWorkers)
    /\ validatedAt = 0
    /\ lost = 0
    /\ panics = 0

configuration == <<token, publicKeys, workers>>

\* Time passes, but not past a tick of the refresher, nor within a refresh: both
\* take next to none of it.
Day ==
    /\ now < LastDay /\ now < nextRefresh /\ step = "idle"
    /\ now' = now + 1
    /\ UNCHANGED <<configuration, claims, step, nextRefresh, gauges, validatedAt,
                   lost, panics>>

\* The watcher's ticker.
BeginRefresh ==
    /\ step = "idle" /\ now = nextRefresh
    /\ step' = "validate"
    /\ nextRefresh' = nextRefresh + CacheTTL
    /\ UNCHANGED <<configuration, now, claims, gauges, validatedAt, lost, panics>>

\* ValidateLicense, and the claims are exchanged under the lock.
Install ==
    /\ step = "validate"
    /\ claims' = Validate(now)
    /\ validatedAt' = now
    /\ lost' = 0
    /\ step' = "observe"
    /\ UNCHANGED <<configuration, now, nextRefresh, gauges, panics>>

Observe ==
    /\ step = "observe"
    /\ gauges' = Observed(claims)
    /\ step' = "idle"
    /\ UNCHANGED <<configuration, now, claims, nextRefresh, validatedAt, lost, panics>>

\* A mutant: the barrier is around the loop of StartRefreshWatcher.
RefreshEndsWatcher ==
    /\ step \in {"validate", "observe"} /\ panics < MaxPanics
    /\ step' = "idle"
    /\ nextRefresh' = LastDay + 1
    /\ lost' = lost + 1
    /\ panics' = panics + 1
    /\ UNCHANGED <<configuration, now, claims, gauges, validatedAt>>

\* A panic anywhere in refresh, which its barrier catches, or an error of a
\* client, which this one never returns: what was in force stays.
RefreshBreaks ==
    /\ step \in {"validate", "observe"} /\ panics < MaxPanics
    /\ step' = "idle"
    /\ lost' = lost + 1
    /\ panics' = panics + 1
    /\ UNCHANGED <<configuration, now, claims, nextRefresh, gauges, validatedAt>>

Over ==
    /\ now = LastDay /\ step = "idle" /\ now < nextRefresh
    /\ UNCHANGED vars

Next == Day \/ BeginRefresh \/ Install \/ Observe \/ RefreshBreaks \/ Over

Spec == Init /\ [][Next]_vars

-------------------------------------------------------------------------------
(* What the rest of the service asks *)

\* FeatureGate.Enabled.
Enabled(f) ==
    /\ f \in Features
    /\ claims.tier = "enterprise" \/ f \in claims.features

-------------------------------------------------------------------------------
(* Properties *)

TypeOK ==
    /\ token \in Token \union {Absent}
    /\ publicKeys \in PublicKeys
    /\ now \in 0..LastDay
    /\ claims \in [tier : Tiers, features : SUBSET Features, maxWorkers : Int,
                   maxPlugins : Int, expiresAt : Dates \union {Absent}, inGrace : BOOLEAN]
    /\ step \in {"idle", "validate", "observe"}
    /\ nextRefresh \in Nat
    /\ gauges \in [valid : BOOLEAN, expiry : Dates \union {Absent}, inGrace : BOOLEAN]
    /\ workers \in 1..Configured
    /\ validatedAt \in Nat
    /\ lost \in 0..MaxPanics /\ panics \in 0..MaxPanics

\* The audit is written, and the limits are lifted, only for a token that a
\* configured key has signed for this product and that has begun; without one
\* everything but the audit works, the limiters included.
EnterpriseIsEarned ==
    /\ Enabled("audit") \/ Unlimited \in {claims.maxWorkers, claims.maxPlugins} =>
           /\ token # Absent
           /\ \E kid \in DOMAIN publicKeys : publicKeys[kid] = token.signedBy
           /\ token.ours /\ token.tier = "enterprise"
           /\ token.nbf # Absent /\ token.nbf <= now + Skew
    /\ \A f \in CommunityFeatures : Enabled(f)

\* What is in force is what the token granted at most one period ago, and one
\* more for every refresh that broke since: an expired licence ends and a
\* renewed clock is noticed, whatever panics in between.
ClaimsFresh ==
    /\ claims = Validate(validatedAt)
    /\ validatedAt <= now
    /\ step = "idle" => now - validatedAt <= CacheTTL * (lost + 1)

\* The licence is not enforced past its end: its grace period, the skew, and the
\* time until a refresh comes to see it.
LicenceEnds ==
    claims.tier = "enterprise" /\ step = "idle" =>
        now <= token.exp + Grace(token) + Skew + CacheTTL * (lost + 1)

\* "the metrics should keep describing" what is enforced (refresh): between two
\* refreshes the gauges do, unless the last one broke halfway.
GaugesAgree ==
    step = "idle" /\ lost = 0 => gauges = Observed(claims)

\* What every state has of a token, its claims and the clock.  The refresher's
\* next tick is never further from the last validation than one period for it and
\* one for each refresh that broke since.
Configuration ==
    /\ token \in Token \union {Absent}
    /\ publicKeys \in PublicKeys

Clocks ==
    /\ now \in Nat /\ nextRefresh \in Nat /\ validatedAt \in Nat /\ lost \in Nat
    /\ step \in {"idle", "validate", "observe"}
    /\ validatedAt <= now

OnSchedule ==
    /\ step = "idle" => /\ now <= nextRefresh
                        /\ nextRefresh <= validatedAt + CacheTTL * (lost + 1)
    /\ step = "validate" => /\ nextRefresh = now + CacheTTL
                            /\ now <= validatedAt + CacheTTL * (lost + 1)
    /\ step = "observe" => /\ validatedAt = now /\ lost = 0
                           /\ nextRefresh = now + CacheTTL

\* The inductive invariant.
IInv ==
    /\ Configuration
    /\ Clocks
    /\ OnSchedule
    /\ claims = Validate(validatedAt)
    /\ GaugesAgree

-------------------------------------------------------------------------------
(* Not kept by the code *)

\* "MaxWorkers returns the worker concurrency limit from the current license"
\* (gate.go:51): the pool was sized at startup and outlives the licence.
WorkersFollowLicence ==
    claims.maxWorkers > 0 => workers <= claims.maxWorkers
================================================================================
