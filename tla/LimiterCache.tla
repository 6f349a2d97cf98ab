---------------------------- MODULE LimiterCache ----------------------------
(***************************************************************************)
(* The process-wide cache of limiters in advanced-ratelimit/ratelimit.go:  *)
(* GetPolicy, called for every policy attachment on every configuration    *)
(* reload, looks its quotas up under one lock, creates what is missing and *)
(* closes what its reconciliation bucket no longer wants.                  *)
(* One API; its routes, and the attachments on them, are constants.        *)
(***************************************************************************)
EXTENDS Integers, FiniteSets

CONSTANTS
    Attachments,  \* policy instances of the API
    RouteOf,      \* the route of an attachment
    LevelOf,      \* attachedTo of an attachment: API or route level
    Params,       \* algorithm, backend, Redis and local tuning: what getBaseCacheKey hashes
    Quotas,       \* quota configurations: name, limits and key extraction
    ApiScoped,    \* the quotas keyed by apiname without routename
    Shared,       \* stands for the parts an API-scoped key leaves out
    MaxGen,       \* bound: limiters created for one cache key
    MaxRefs       \* bound: a reload fails only below this reference count

ASSUME CacheAssumption ==
    /\ ApiScoped \subseteq Quotas
    /\ IsFiniteSet(Attachments) /\ IsFiniteSet(Quotas) /\ IsFiniteSet(Params)
    /\ MaxGen \in Nat /\ MaxRefs \in Nat

VARIABLES
    byQuotaKey,          \* cache key -> limiter (its generation and parameters) and refCount
    quotaKeysByBaseKey,  \* reconcile key -> the cache keys of that policy instance
    closed,              \* limiters Close was called on
    policy,              \* the policy object the gateway runs for an attachment
    created              \* history: limiters created so far for a cache key

cacheVars == <<byQuotaKey, quotaKeysByBaseKey, closed, policy, created>>

Routes == {RouteOf[a] : a \in Attachments}
Levels == {LevelOf[a] : a \in Attachments}

CacheKeys == [route : Routes \cup {Shared}, params : Params \cup {Shared}, quota : Quotas]
ReconcileKeys == [route : Routes, params : Params, level : Levels \cup {Shared}]

KeyByRoute(a, p, q) == [route |-> RouteOf[a], params |-> p, quota |-> q]

\* getQuotaCacheKey: the route's base key, or only the API for API-scoped quotas.
QuotaCacheKey(a, p, q) ==
    IF q \in ApiScoped THEN [route |-> Shared, params |-> Shared, quota |-> q]
    ELSE [route |-> RouteOf[a], params |-> p, quota |-> q]

ReconcileByBase(a, p) == [route |-> RouteOf[a], params |-> p, level |-> Shared]

\* reconcileKeyFor: the base key and the level of the attachment.
ReconcileKeyFor(a, p) == [route |-> RouteOf[a], params |-> p, level |-> LevelOf[a]]

Absent == [gen |-> 0, params |-> Shared, refCount |-> 0]
Cached(k) == byQuotaKey[k] # Absent
NoPolicy == [params |-> Shared, limiters |-> {}]

CacheInit ==
    /\ byQuotaKey = [k \in CacheKeys |-> Absent]
    /\ quotaKeysByBaseKey = [b \in ReconcileKeys |-> {}]
    /\ closed = {}
    /\ policy = [a \in Attachments |-> NoPolicy]
    /\ created = [k \in CacheKeys |-> 0]

-----------------------------------------------------------------------------

ReuseUncounted(entry, tracked) == entry

\* Reuse counts a reference only if the bucket does not hold one already.
Reuse(entry, tracked) ==
    IF tracked THEN entry ELSE [entry EXCEPT !.refCount = @ + 1]

\* The cache entry of a wanted key, and whether it has to be created.
Obtain(k, p, old) ==
    IF Cached(k) THEN Reuse(byQuotaKey[k], k \in old)
    ELSE [gen |-> created[k] + 1, params |-> p, refCount |-> 1]

\* Keys whose last reference goes.
Dropped(stale) == {k \in stale : Cached(k) /\ byQuotaKey[k].refCount <= 1}

ReleaseLate(k) ==
    IF ~Cached(k) \/ byQuotaKey[k].refCount < 1 THEN Absent
    ELSE [byQuotaKey[k] EXCEPT !.refCount = @ - 1]

Release(k) ==
    IF ~Cached(k) \/ byQuotaKey[k].refCount <= 1 THEN Absent
    ELSE [byQuotaKey[k] EXCEPT !.refCount = @ - 1]

Generations(keys) == [k \in CacheKeys |->
    IF k \in keys /\ ~Cached(k) THEN created[k] + 1 ELSE created[k]]

WithinBound(keys) == \A k \in keys : Cached(k) \/ created[k] < MaxGen

\* GetPolicy builds the policy of attachment a from parameters p and quotas qs.
GetPolicy(a, p, qs) ==
    LET bucket == ReconcileKeyFor(a, p)
        old == quotaKeysByBaseKey[bucket]
        desired == {QuotaCacheKey(a, p, q) : q \in qs}
        stale == old \ desired IN
    /\ WithinBound(desired)
    /\ byQuotaKey' = [k \in CacheKeys |->
          IF k \in desired THEN Obtain(k, p, old)
          ELSE IF k \in stale THEN Release(k) ELSE byQuotaKey[k]]
    /\ created' = Generations(desired)
    /\ closed' = closed \cup {[key |-> k, gen |-> byQuotaKey[k].gen] : k \in Dropped(stale)}
    /\ quotaKeysByBaseKey' = [quotaKeysByBaseKey EXCEPT ![bucket] = desired]
    /\ policy' = [policy EXCEPT ![a] =
          [params |-> p,
           limiters |-> {[quota |-> q, key |-> QuotaCacheKey(a, p, q),
                          gen |-> Obtain(QuotaCacheKey(a, p, q), p, old).gen] : q \in qs}]]

\* CreateLimiter fails for one of the quotas: those before it were looked up or
\* created, the bucket is not updated and the gateway keeps the policy it has.
GetPolicyFails(a, p, qs, done) ==
    LET old == quotaKeysByBaseKey[ReconcileKeyFor(a, p)]
        reached == {QuotaCacheKey(a, p, q) : q \in done} IN
    /\ done \subseteq qs
    /\ \E q \in qs \ done : ~Cached(QuotaCacheKey(a, p, q))
    /\ WithinBound(reached) /\ \A k \in reached : byQuotaKey[k].refCount < MaxRefs
    /\ byQuotaKey' = [k \in CacheKeys |->
                        IF k \in reached THEN Obtain(k, p, old) ELSE byQuotaKey[k]]
    /\ created' = Generations(reached)
    /\ UNCHANGED <<quotaKeysByBaseKey, closed, policy>>

\* The gateway drops a policy; nothing in this repository is called.
Undeploy(a) ==
    /\ policy[a] # NoPolicy
    /\ policy' = [policy EXCEPT ![a] = NoPolicy]
    /\ UNCHANGED <<byQuotaKey, quotaKeysByBaseKey, closed, created>>

CacheNext ==
    \/ \E a \in Attachments, p \in Params, qs \in (SUBSET Quotas) \ {{}} :
          \/ GetPolicy(a, p, qs)
          \/ \E done \in SUBSET qs : GetPolicyFails(a, p, qs, done)
    \/ \E a \in Attachments : Undeploy(a)

CacheSpec == CacheInit /\ [][CacheNext]_cacheVars

-----------------------------------------------------------------------------
(* Properties.                                                              *)

Limiter == [key : CacheKeys, gen : 1..MaxGen]

CacheTypeOK ==
    /\ byQuotaKey \in [CacheKeys -> {Absent} \cup
                         [gen : 1..MaxGen, params : Params, refCount : Nat \ {0}]]
    /\ quotaKeysByBaseKey \in [ReconcileKeys -> SUBSET CacheKeys]
    /\ closed \subseteq Limiter
    /\ policy \in [Attachments -> [params : Params \cup {Shared},
                      limiters : SUBSET [quota : Quotas, key : CacheKeys, gen : 1..MaxGen]]]
    /\ created \in [CacheKeys -> 0..MaxGen]

Users(k) == {b \in ReconcileKeys : k \in quotaKeysByBaseKey[b]}

\* Every bucket that wants a key holds a reference to it, so no limiter is closed
\* while some policy instance still counts on it, failed reloads included.
RefCountCovers ==
    \A k \in CacheKeys :
        Users(k) # {} => Cached(k) /\ byQuotaKey[k].refCount >= Cardinality(Users(k))

\* "do NOT share a cleanup bucket and evict each other's cached limiters": no
\* policy object that serves requests runs on a limiter that was closed.
NoClosedInUse ==
    \A a \in Attachments : \A l \in policy[a].limiters :
        [key |-> l.key, gen |-> l.gen] \notin closed

\* "apiname-scoped quotas share one limiter per API": two routes with the same
\* API-scoped quota count in the same limiter, whatever was reloaded in between.
ApiScopeShared ==
    \A a, b \in Attachments : \A l \in policy[a].limiters, m \in policy[b].limiters :
        l.quota = m.quota /\ l.quota \in ApiScoped => l.key = m.key /\ l.gen = m.gen

=============================================================================
