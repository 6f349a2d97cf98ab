----------------------------- MODULE TokenCache -----------------------------
(***************************************************************************)
(* The token provider of oauth2-generator (token_cache.go and the sources  *)
(* of oauth2_generator.go): an in-process token, an optional Redis entry   *)
(* shared by the replicas, and a rebuildable source in which concurrent    *)
(* fetches share one retry loop.  Requests call Token; a response with a   *)
(* purge status calls Purge.                                               *)
(* One policy instance; its replicas appear only through the Redis entry.  *)
(***************************************************************************)
EXTENDS Integers, FiniteSets

CONSTANTS
    Procs,       \* goroutines serving requests and responses of the instance
    Nobody,      \* stands for a nil *tokenCall
    WithRedis,   \* cacheStrategy is redis
    FailOpen,    \* redis.failureMode is open
    RedisFaults, \* a Redis command may fail
    Buffer,      \* expiryBuffer
    DefaultTTL,  \* defaultTokenTTL
    Lifetimes,   \* expires_in values of the token endpoint; 0 stands for none
    MaxRetries,  \* tokenRequestMaxRetries
    MaxPurges,   \* bound: purges of a behaviour
    MaxIssued,   \* bound: tokens issued in a behaviour
    MaxNow       \* bound: the clock

ASSUME TokenAssumption ==
    /\ IsFiniteSet(Procs) /\ Nobody \notin Procs
    /\ WithRedis \in BOOLEAN /\ FailOpen \in BOOLEAN /\ RedisFaults \in BOOLEAN
    /\ Buffer \in Nat /\ DefaultTTL \in Nat \ {0} /\ Lifetimes \subseteq Nat
    /\ MaxRetries \in Nat /\ MaxPurges \in Nat /\ MaxIssued \in Nat /\ MaxNow \in Nat

VARIABLES
    now,        \* the wall clock
    local,      \* localCache: the one token of this instance
    redis,      \* the shared entry under redisKey
    inner,      \* number of the current source; Purge replaces it
    purgeGen,   \* purges so far
    sourceTok,  \* reuseTokenSource.tok of each source ever built
    flight,     \* resilientTokenSource.inFlight of each source: its owner
    pc,         \* where each goroutine is
    snap,       \* the source and the generation a fetch started with
    tok,        \* the token, or NoToken for an error, a goroutine holds
    owner,      \* whose call a goroutine waits for
    tries,      \* attempts an owner has made
    issued      \* history: tokens the endpoint has issued

vars == <<now, local, redis, inner, purgeGen, sourceTok, flight, pc, snap, tok,
          owner, tries, issued>>
tiers == <<local, redis>>
sources == <<inner, purgeGen, sourceTok, flight>>
calls == <<snap, tok, owner, tries>>

Gens == 0..MaxPurges
NoToken == [id |-> 0, src |-> 0, own |-> FALSE, exp |-> 0]

\* A Token: src numbers the source that fetched it, or, for a token of another
\* replica, the current one at that time; exp 0 stands for a zero Expiry.
Tokens == [id : 1..MaxIssued, src : Gens, own : BOOLEAN, exp : Nat]

\* tokenFreshEnough: a zero Expiry never expires.
Fresh(t) == t # NoToken /\ (t.exp = 0 \/ t.exp - Buffer > now)

Unbounded(t) == t

\* A token without an expiry gets defaultTokenTTL from now.
Bounded(t) == IF t.exp = 0 THEN [t EXCEPT !.exp = now + DefaultTTL] ELSE t

Goto(p, l) == pc' = [pc EXCEPT ![p] = l]

Init ==
    /\ now = 0 /\ local = NoToken /\ redis = NoToken
    /\ inner = 0 /\ purgeGen = 0
    /\ sourceTok = [g \in Gens |-> NoToken]
    /\ flight = [g \in Gens |-> Nobody]
    /\ pc = [p \in Procs |-> "idle"]
    /\ snap = [p \in Procs |-> [src |-> 0, gen |-> 0]]
    /\ tok = [p \in Procs |-> NoToken]
    /\ owner = [p \in Procs |-> Nobody]
    /\ tries = [p \in Procs |-> 0]
    /\ issued = {}

----------------------------------------------------------------------------
\* Token: the cache tiers.

\* Token returns to the request: whatever the goroutine held is gone.
Return(p) ==
    /\ Goto(p, "idle")
    /\ tok' = [tok EXCEPT ![p] = NoToken]
    /\ snap' = [snap EXCEPT ![p] = [src |-> 0, gen |-> 0]]
    /\ owner' = [owner EXCEPT ![p] = Nobody]
    /\ tries' = [tries EXCEPT ![p] = 0]

\* localToken has a token: Token returns it, and changes nothing.
LocalHit ==
    /\ Fresh(local)
    /\ UNCHANGED vars

\* localToken has none that is fresh enough.
LocalMiss(p) ==
    /\ pc[p] = "idle" /\ ~Fresh(local)
    /\ Goto(p, IF WithRedis THEN "redis" ELSE "snapshot")
    /\ UNCHANGED <<now, tiers, sources, calls, issued>>

\* getFromRedis finds a token that is fresh enough.
RedisHit(p) ==
    /\ pc[p] = "redis" /\ Fresh(redis)
    /\ tok' = [tok EXCEPT ![p] = redis]
    /\ Goto(p, "adopt")
    /\ UNCHANGED <<now, tiers, sources, snap, owner, tries, issued>>

RedisMiss(p) ==
    /\ pc[p] = "redis" /\ ~Fresh(redis)
    /\ Goto(p, "snapshot")
    /\ UNCHANGED <<now, tiers, sources, calls, issued>>

\* getFromRedis fails: fall back to the endpoint, or give up.
RedisDown(p) ==
    /\ pc[p] = "redis" /\ RedisFaults
    /\ IF FailOpen THEN Goto(p, "snapshot") /\ UNCHANGED calls ELSE Return(p)
    /\ UNCHANGED <<now, tiers, sources, issued>>

\* The token found in Redis becomes the local one, with no staleness check.
Adopt(p) ==
    /\ pc[p] = "adopt"
    /\ local' = tok[p]
    /\ Return(p)
    /\ UNCHANGED <<now, redis, sources, issued>>

----------------------------------------------------------------------------
\* Token: the fetch.

\* inner and purgeGen are read under one lock.
Snapshot(p) ==
    /\ pc[p] = "snapshot"
    /\ snap' = [snap EXCEPT ![p] = [src |-> inner, gen |-> purgeGen]]
    /\ Goto(p, "call")
    /\ UNCHANGED <<now, tiers, sources, tok, owner, tries, issued>>

OwnAlways(p) ==
    LET s == snap[p].src
    IN  /\ pc[p] = "call"
        /\ flight' = [flight EXCEPT ![s] = p]
        /\ Goto(p, "attempt")
        /\ UNCHANGED <<now, tiers, inner, purgeGen, sourceTok, calls, issued>>

\* resilientTokenSource.Token with no call in flight: own a new one.
Own(p) ==
    LET s == snap[p].src
    IN  /\ pc[p] = "call" /\ flight[s] = Nobody
        /\ flight' = [flight EXCEPT ![s] = p]
        /\ Goto(p, "attempt")
        /\ UNCHANGED <<now, tiers, inner, purgeGen, sourceTok, calls, issued>>

\* ... and with one in flight: wait for its result.
Join(p) ==
    LET s == snap[p].src
    IN  /\ pc[p] = "call" /\ flight[s] # Nobody
        /\ owner' = [owner EXCEPT ![p] = flight[s]]
        /\ Goto(p, "join")
        /\ UNCHANGED <<now, tiers, sources, snap, tok, tries, issued>>

\* The waiting request is cancelled.
JoinCancelled(p) ==
    /\ pc[p] = "join"
    /\ Return(p)
    /\ UNCHANGED <<now, tiers, sources, issued>>

\* reuseTokenSource.Token: the source's own token is still fresh ...
Reuse(p) ==
    LET s == snap[p].src
    IN  /\ pc[p] = "attempt" /\ Fresh(sourceTok[s])
        /\ tok' = [tok EXCEPT ![p] = sourceTok[s]]
        /\ Goto(p, "clear")
        /\ UNCHANGED <<now, tiers, sources, snap, owner, tries, issued>>

AskAlways(p) ==
    /\ pc[p] = "attempt"
    /\ Goto(p, "fetch")
    /\ UNCHANGED <<now, tiers, sources, calls, issued>>

\* ... or it has to ask the endpoint.
Ask(p) ==
    /\ pc[p] = "attempt" /\ ~Fresh(sourceTok[snap[p].src])
    /\ Goto(p, "fetch")
    /\ UNCHANGED <<now, tiers, sources, calls, issued>>

\* The endpoint issues a token, which the source keeps as it came.
Issue(p) ==
    LET s == snap[p].src IN
    /\ pc[p] = "fetch" /\ Cardinality(issued) < MaxIssued
    /\ \E life \in Lifetimes :
         LET t == [id |-> Cardinality(issued) + 1, src |-> s, own |-> TRUE,
                   exp |-> IF life = 0 THEN 0 ELSE now + life]
         IN  /\ tok' = [tok EXCEPT ![p] = t]
             /\ sourceTok' = [sourceTok EXCEPT ![s] = t]
             /\ issued' = issued \cup {t}
    /\ Goto(p, "clear")
    /\ UNCHANGED <<now, tiers, inner, purgeGen, flight, snap, owner, tries>>

FetchFailsOnceMore(p) ==
    /\ pc[p] = "fetch"
    /\ IF tries[p] <= MaxRetries
       THEN /\ tries' = [tries EXCEPT ![p] = @ + 1]
            /\ Goto(p, "backoff")
       ELSE Goto(p, "clear") /\ UNCHANGED tries
    /\ UNCHANGED <<now, tiers, sources, snap, tok, owner, issued>>

\* A retryable error: back off, unless the attempts are used up.
FetchFails(p) ==
    /\ pc[p] = "fetch"
    /\ IF tries[p] < MaxRetries
       THEN /\ tries' = [tries EXCEPT ![p] = @ + 1]
            /\ Goto(p, "backoff")
       ELSE Goto(p, "clear") /\ UNCHANGED tries
    /\ UNCHANGED <<now, tiers, sources, snap, tok, owner, issued>>

\* An error isRetryableTokenError rules out.
FetchRefused(p) ==
    /\ pc[p] = "fetch"
    /\ Goto(p, "clear")
    /\ UNCHANGED <<now, tiers, sources, calls, issued>>

\* The delay passes, or the owner's request is cancelled while it waits.
Backoff(p) ==
    /\ pc[p] = "backoff"
    /\ \/ Goto(p, "attempt")
       \/ Goto(p, "clear")
    /\ UNCHANGED <<now, tiers, sources, calls, issued>>

\* The owner takes its call out of the source under the lock ...
Clear(p) ==
    /\ pc[p] = "clear"
    /\ flight' = [flight EXCEPT ![snap[p].src] = Nobody]
    /\ Goto(p, "close")
    /\ UNCHANGED <<now, tiers, inner, purgeGen, sourceTok, calls, issued>>

Waiting(p) == {q \in Procs : pc[q] = "join" /\ owner[q] = p}

CloseOnSuccess(p) ==
    LET woken == IF tok[p] = NoToken THEN {} ELSE Waiting(p)
    IN  /\ pc[p] = "close"
        /\ tok' = [q \in Procs |-> IF q \in woken THEN tok[p] ELSE tok[q]]
        /\ pc' = [q \in Procs |-> IF q \in woken \cup {p} THEN "fetched" ELSE pc[q]]
        /\ UNCHANGED <<now, tiers, sources, snap, owner, tries, issued>>

\* ... and then hands the result to everyone who waits, by closing done.
Close(p) ==
    LET woken == Waiting(p)
    IN  /\ pc[p] = "close"
        /\ tok' = [q \in Procs |-> IF q \in woken THEN tok[p] ELSE tok[q]]
        /\ pc' = [q \in Procs |-> IF q \in woken \cup {p} THEN "fetched" ELSE pc[q]]
        /\ UNCHANGED <<now, tiers, sources, snap, owner, tries, issued>>

\* inner.Token returned an error.
FetchError(p) ==
    /\ pc[p] = "fetched" /\ tok[p] = NoToken
    /\ Return(p)
    /\ UNCHANGED <<now, tiers, sources, issued>>

AlwaysCurrent(p) == TRUE

\* The staleness check, under the lock.
Current(p) == snap[p].gen = purgeGen

\* A purge came in between: the token is for this request only.
Stale(p) ==
    /\ pc[p] = "fetched" /\ tok[p] # NoToken /\ ~Current(p)
    /\ Return(p)
    /\ UNCHANGED <<now, tiers, sources, issued>>

\* No purge so far: the token, with a bounded expiry, may be cached.
NotStale(p) ==
    /\ pc[p] = "fetched" /\ tok[p] # NoToken /\ Current(p)
    /\ tok' = [tok EXCEPT ![p] = Bounded(tok[p])]
    /\ Goto(p, "setlocal")
    /\ UNCHANGED <<now, tiers, sources, snap, owner, tries, issued>>

SetLocal(p) ==
    /\ pc[p] = "setlocal"
    /\ local' = tok[p]
    /\ IF WithRedis THEN Goto(p, "save") /\ UNCHANGED calls ELSE Return(p)
    /\ UNCHANGED <<now, redis, sources, issued>>

\* saveToRedis; it may fail, and skips a token that has expired.
Save(p) ==
    /\ pc[p] = "save"
    /\ \/ redis' = (IF tok[p].exp > now THEN tok[p] ELSE redis)
       \/ RedisFaults /\ UNCHANGED redis
    /\ Return(p)
    /\ UNCHANGED <<now, local, sources, issued>>

----------------------------------------------------------------------------
\* Purge.

\* The local entry goes first.
PurgeLocal(p) ==
    /\ pc[p] = "idle" /\ issued # {}
    /\ purgeGen + Cardinality({q \in Procs : pc[q] = "purge"}) < MaxPurges
    /\ local' = NoToken
    /\ Goto(p, "purge")
    /\ UNCHANGED <<now, redis, sources, calls, issued>>

\* Under the lock: a new generation, and a new source.  The rebuild cannot fail:
\* it succeeded with the same parameters when the policy was built.
PurgeSource(p) ==
    /\ pc[p] = "purge"
    /\ purgeGen' = purgeGen + 1
    /\ inner' = inner + 1
    /\ Goto(p, IF WithRedis THEN "purgeredis" ELSE "idle")
    /\ UNCHANGED <<now, tiers, sourceTok, flight, calls, issued>>

\* The Redis entry goes last; deleting it may fail.
PurgeRedis(p) ==
    /\ pc[p] = "purgeredis"
    /\ \/ redis' = NoToken
       \/ RedisFaults /\ UNCHANGED redis
    /\ Goto(p, "idle")
    /\ UNCHANGED <<now, local, sources, calls, issued>>

----------------------------------------------------------------------------
\* Another replica saves a token the endpoint has just issued to it.
OtherReplicaSaves ==
    /\ WithRedis /\ Cardinality(issued) < MaxIssued
    /\ \E life \in Lifetimes \ {0} :
         LET t == [id |-> Cardinality(issued) + 1, src |-> inner, own |-> FALSE,
                   exp |-> now + life]
         IN  redis' = t /\ issued' = issued \cup {t}
    /\ UNCHANGED <<now, local, sources, pc, calls>>

Tick ==
    /\ now < MaxNow
    /\ now' = now + 1
    /\ UNCHANGED <<tiers, sources, pc, calls, issued>>

Fetching(p) ==
    \/ Snapshot(p) \/ Own(p) \/ Join(p) \/ Reuse(p) \/ Ask(p)
    \/ Issue(p) \/ FetchFails(p) \/ FetchRefused(p) \/ Backoff(p)
    \/ Clear(p) \/ Close(p) \/ FetchError(p) \/ Stale(p) \/ NotStale(p)
    \/ SetLocal(p) \/ Save(p)

Reading(p) == RedisHit(p) \/ RedisMiss(p) \/ RedisDown(p) \/ Adopt(p)

Purging(p) == PurgeSource(p) \/ PurgeRedis(p)

Next ==
    \/ \E p \in Procs : LocalMiss(p) \/ Reading(p) \/ Fetching(p)
                        \/ JoinCancelled(p) \/ PurgeLocal(p) \/ Purging(p)
    \/ LocalHit
    \/ OtherReplicaSaves
    \/ Tick

Spec == Init /\ [][Next]_vars

\* A goroutine inside Token or Purge goes on: the token endpoint and Redis answer
\* or time out, and a timer fires.  Nobody has to be cancelled.
FairSpec == Spec /\ \A p \in Procs : WF_vars(Reading(p) \/ Fetching(p) \/ Purging(p))

----------------------------------------------------------------------------
OwnerPcs == {"attempt", "fetch", "backoff", "clear"}
Pcs == {"idle", "redis", "adopt", "snapshot", "call", "join", "close", "fetched",
        "setlocal", "save", "purge", "purgeredis"} \cup OwnerPcs

\* Every variable of the provider has its type.
TypeOK ==
    /\ now \in 0..MaxNow
    /\ local \in Tokens \cup {NoToken} /\ redis \in Tokens \cup {NoToken}
    /\ inner \in Gens /\ purgeGen \in Gens
    /\ sourceTok \in [Gens -> Tokens \cup {NoToken}]
    /\ flight \in [Gens -> Procs \cup {Nobody}]
    /\ pc \in [Procs -> Pcs]
    /\ snap \in [Procs -> [src : Gens, gen : Gens]]
    /\ tok \in [Procs -> Tokens \cup {NoToken}]
    /\ owner \in [Procs -> Procs \cup {Nobody}]
    /\ tries \in [Procs -> 0..MaxRetries]
    /\ issued \subseteq Tokens

\* resilientTokenSource.Token: at most one goroutine at a time runs the fetch of a
\* source, and inFlight names it; the in-flight branch of reuseTokenSource.Token
\* below it is therefore never taken.
SingleFlight ==
    \A p \in Procs : pc[p] \in OwnerPcs <=> \E s \in Gens : flight[s] = p /\ snap[p].src = s

\* tokenCall: a waiting goroutine waits for a call, of the source it asked, whose
\* owner has yet to close done.
JoinerHasOwner ==
    \A q \in Procs : pc[q] = "join" =>
        /\ owner[q] \in Procs
        /\ pc[owner[q]] \in OwnerPcs \cup {"close"}
        /\ snap[owner[q]].src = snap[q].src

\* purgeGen in Token: what passes the staleness check was fetched by the source
\* the last purge installed, however the fetch was shared.
StaleRecognised ==
    [][\A p \in Procs : (pc[p] = "fetched" /\ pc'[p] = "setlocal") => tok[p].src = inner]_vars

\* reuseTokenSource.Token: a source asks the endpoint again only when every token
\* it was issued before is used up.
OneTokenPerSource ==
    [][\A p \in Procs : (pc[p] = "fetch" /\ issued' # issued /\ pc'[p] = "clear") =>
          \A t \in issued : t.own /\ t.src = snap[p].src => ~Fresh(t)]_vars

\* Token: neither tier ever holds a token without an expiry, which would stay there
\* for ever, although the source keeps it as the endpoint issued it.
NoEternalEntry == \A t \in {local, redis} \ {NoToken} : t.exp # 0

\* Every call of Token and Purge returns, the ones that wait for others too.
CallsReturn == \A p \in Procs : pc[p] # "idle" ~> pc[p] = "idle"

Purged(t) == t # NoToken /\ t.src < inner

Purgers == {p \in Procs : pc[p] \in {"purge", "purgeredis"}}

\* Purge: once it has returned, localCache holds no token from before it.
PurgeEffective == Purgers = {} => ~Purged(local)

=============================================================================
