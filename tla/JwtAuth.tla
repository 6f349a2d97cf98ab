------------------------------ MODULE JwtAuth ------------------------------
(***************************************************************************)
(* jwt-auth at work: one policy instance serves every route.  Requests run *)
(* concurrently and share the cache of the issuers' key sets, by URI, and  *)
(* the cache of verdicts on tokens.  A key set is fetched over the net: it *)
(* is read at the issuer, arrives later, or not at all, and is retried.    *)
(* Issuers change their keys at any time.                                  *)
(***************************************************************************)
EXTENDS JwtTokens

CONSTANTS Routes,       \* parameters of the routes
          Headers,      \* words of the authorization header, <<>>: none
          Tokens,       \* what the tokens hold
          KeySets,      \* URI -> the key sets the issuer publishes, one after the other
          NumCalls, CacheSizes, FetchTimeout, MaxClock

\* Times are whole numbers, the key managers of a route are a list, some route
\* keeps key sets longest; every token and key of the requests is one of these.
ASSUME JwtAssumption ==
  /\ FetchTimeout \in Nat
  /\ \A c \in DOMAIN Routes :
       LET cfg == Routes[c]
       IN /\ cfg.leeway \in Nat /\ cfg.jwksCacheTtl \in Nat /\ cfg.tokenCacheTtl \in Nat /\ cfg.negativeCacheTtl \in Nat
          /\ DOMAIN cfg.keyManagers = 1 .. Len(cfg.keyManagers) /\ Len(cfg.keyManagers) \in Nat
          /\ \A i \in DOMAIN cfg.keyManagers : cfg.keyManagers[i].uri = "" \/ cfg.keyManagers[i].uri \in DOMAIN KeySets
          /\ \A words \in Headers : ExtractToken(words, IF cfg.authHeaderPrefix # "" THEN cfg.authHeaderPrefix ELSE cfg.scheme) \in DOMAIN Tokens \union {""}
  /\ \E c \in DOMAIN Routes : \A d \in DOMAIN Routes : Routes[d].jwksCacheTtl <= Routes[c].jwksCacheTtl
  /\ \A t \in DOMAIN Tokens :
       /\ DOMAIN Tokens[t] = {"wellFormed", "iss", "kid", "alg", "signedBy", "exp", "nbf", "claims"}
       /\ Tokens[t].exp \in Int /\ Tokens[t].nbf \in Int /\ Tokens[t].signedBy \in DOMAIN KeyType

JwtRequests == 1 .. NumCalls   \* numbered as they arrive

VARIABLES clock,
          published,    \* URI -> the key set of the issuer now
          lastSeen,     \* URI -> key -> when it was last published (history)
          keySince,     \* URI -> when the key set of now was published (history)
          jwks,         \* cacheStore and cacheTTLs: URI -> keys, until
          verdicts, tokenCacheSize,   \* tokenCache
          calls         \* the requests

jwtVars == <<clock, published, lastSeen, keySince, jwks, verdicts, tokenCacheSize, calls>>

NoCall == [phase |-> "idle", route |-> 0, token |-> "", kms |-> <<>>, tries |-> 0, sent |-> 0, reply |-> <<>>,
           fails |-> 0, answer |-> "", at |-> 0, scopes |-> {}, subject |-> "", headers |-> <<>>]

EmptyCache == [k \in {} |-> 0]

JwtInit ==
  /\ clock = 0
  /\ published = [u \in DOMAIN KeySets |-> KeySets[u][1]]
  /\ lastSeen = [u \in DOMAIN KeySets |-> [k \in DOMAIN KeyType |-> IF k \in Range(UsableKeys(published[u])) THEN 0 ELSE -100]]
  /\ keySince = [u \in DOMAIN KeySets |-> -100]
  /\ jwks = [u \in DOMAIN KeySets |-> [keys |-> EmptyCache, until |-> -1]]
  /\ verdicts = EmptyCache /\ tokenCacheSize = Max(CacheSizes)
  /\ calls = [r \in JwtRequests |-> NoCall]

Cfg(r) == Routes[calls[r].route]

---------------------------------------------------------------------------
\* The verdict cache.

FingerprintOfKeys(cfg) == <<cfg.keyManagers, cfg.validateIssuer, <<>>, cfg.leeway, cfg.tokenCacheTtl, cfg.negativeCacheTtl>>

\* Everything a verdict depends on; audiences, scopes and claims are judged
\* for every request.
TokenConfigFingerprint(cfg) ==
  <<cfg.keyManagers, cfg.validateIssuer, cfg.issuers, cfg.leeway, cfg.tokenCacheTtl, cfg.negativeCacheTtl>>

JwtTokenCacheKey(cfg, token) == <<TokenConfigFingerprint(cfg), token>>

GetCachedVerdict(key) ==
  IF key \in DOMAIN verdicts /\ clock < verdicts[key].until THEN {verdicts[key]} ELSE {}

\* Get deletes an entry that has expired.
Evicted(key) ==
  IF key \in DOMAIN verdicts /\ ~(clock < verdicts[key].until)
  THEN [k \in DOMAIN verdicts \ {key} |-> verdicts[k]] ELSE verdicts

\* A full cache drops another entry.
PutVerdict(cache, key, v) ==
  IF key \in DOMAIN cache \/ Cardinality(DOMAIN cache) < tokenCacheSize
  THEN verdicts' = Stored(cache, key, v)
  ELSE \E victim \in DOMAIN cache : verdicts' = Stored([k \in DOMAIN cache \ {victim} |-> cache[k]], key, v)

\* ensureTokenCache: another size, an empty cache.  The model only shrinks it.
JwtEnsureTokenCache(size) ==
  /\ tokenCacheSize' = size /\ size < tokenCacheSize
  /\ verdicts' = EmptyCache
  /\ UNCHANGED <<clock, published, lastSeen, keySince, jwks, calls>>

---------------------------------------------------------------------------
\* The end of a request.

HandleAuthFailure(q) == [q EXCEPT !.phase = "done", !.answer = "refused", !.at = clock, !.kms = <<>>, !.reply = <<>>]

\* A mapped header is always set, to the claim or to nothing; of two claims
\* for one header either wins.  The header of the token is not for mapping.
MappedHeaders(cfg, claims) ==
  LET mapped == {cfg.claimMappings[c] : c \in DOMAIN cfg.claimMappings} \ (IF cfg.forwardToken THEN {cfg.forwardedTokenHeader} ELSE {})
      values(h) == {StringOf(claims[c]) : c \in {c \in DOMAIN cfg.claimMappings \intersect DOMAIN claims : cfg.claimMappings[c] = h}}
  IN {f \in [mapped -> UNION {values(h) : h \in mapped} \union {""}] :
        \A h \in mapped : IF values(h) = {} THEN f[h] = "" ELSE f[h] \in values(h)}

\* The header of the token: left, moved, stripped of its scheme or removed.
TokenHeaders(cfg, token) ==
  IF ~cfg.forwardToken THEN [h \in {cfg.headerName} |-> "removed"]
  ELSE [h \in {cfg.headerName, cfg.forwardedTokenHeader} |->
         IF h # cfg.forwardedTokenHeader THEN "removed" ELSE IF cfg.stripScheme THEN token ELSE "as sent"]

HandleAuthSuccess(q, cfg, claims, scopes) ==
  {[q EXCEPT !.phase = "done", !.answer = "admitted", !.at = clock, !.kms = <<>>, !.reply = <<>>,
             !.scopes = scopes, !.subject = Subject(claims, cfg.userIdClaim),
             !.headers = Over(h, TokenHeaders(cfg, q.token))] : h \in MappedHeaders(cfg, claims)}

FinishAuthentication(q, cfg, claims, scopes) ==
  IF /\ cfg.audiences # {} => ParseAudience(Claim(claims, "aud")) \intersect cfg.audiences # {}
     /\ EvaluateScopeConstraints(ResolveScopeConstraints(cfg), scopes)
     /\ EvaluateClaimConstraints(ResolveClaimConstraints(cfg), claims)
  THEN HandleAuthSuccess(q, cfg, claims, scopes)
  ELSE {HandleAuthFailure(q)}

End(r, ends) == \E q \in ends : calls' = [calls EXCEPT ![r] = q]

---------------------------------------------------------------------------
\* A request.

\* The checks before the signature: "" or the error.
EarlyError(cfg, token) ==
  IF token.exp >= 0 /\ clock > token.exp + cfg.leeway THEN "expired"
  ELSE IF token.nbf >= 0 /\ clock < token.nbf - cfg.leeway THEN "not yet"
  ELSE IF ApplicableKeyManagers(ParseKeyManagers(cfg.keyManagers), cfg, token.iss) = {} THEN "issuer" ELSE ""

\* Only what time cannot heal is remembered: a malformed or an expired token.
CacheAnyFailure(err) == TRUE

CachesFailure(err) == err \in {"format", "expired"}

Fail(r, q, cfg, err, cache) ==
  /\ calls' = [calls EXCEPT ![r] = HandleAuthFailure(q)]
  /\ IF cfg.tokenCaching /\ CachesFailure(err)
     THEN PutVerdict(cache, JwtTokenCacheKey(cfg, q.token),
                     [ok |-> FALSE, claims |-> EmptyCache, scopes |-> {}, until |-> clock + cfg.negativeCacheTtl])
     ELSE verdicts' = cache

\* OnRequestHeaders until the first key manager is asked.
OnRequestHeaders(r, c, words) ==
  LET cfg == Routes[c]
      token == ExtractToken(words, IF cfg.authHeaderPrefix # "" THEN cfg.authHeaderPrefix ELSE cfg.scheme)
      q == [NoCall EXCEPT !.route = c, !.token = token, !.phase = "verify"]
      key == JwtTokenCacheKey(cfg, token)
      hit == IF cfg.tokenCaching THEN GetCachedVerdict(key) ELSE {}
      rest == IF cfg.tokenCaching THEN Evicted(key) ELSE verdicts
  IN /\ calls[r].phase = "idle" /\ \A p \in 1 .. r - 1 : calls[p].phase # "idle"
     /\ IF \/ ~cfg.hasKeyManagers \/ ~ResolveScopeConstraints(cfg).ok \/ ~ResolveClaimConstraints(cfg).ok \/ token = ""
        THEN calls' = [calls EXCEPT ![r] = HandleAuthFailure(q)] /\ UNCHANGED verdicts
        ELSE IF hit # {}
        THEN /\ \E v \in hit : IF v.ok THEN End(r, FinishAuthentication(q, cfg, v.claims, v.scopes)) ELSE End(r, {HandleAuthFailure(q)})
             /\ UNCHANGED verdicts
        ELSE IF ParseKeyManagers(cfg.keyManagers) = {}
        THEN calls' = [calls EXCEPT ![r] = HandleAuthFailure(q)] /\ verdicts' = rest
        ELSE IF ~Tokens[token].wellFormed THEN Fail(r, q, cfg, "format", rest)
        ELSE IF EarlyError(cfg, Tokens[token]) # "" THEN Fail(r, q, cfg, EarlyError(cfg, Tokens[token]), rest)
        ELSE /\ \E order \in TrialOrders(ParseKeyManagers(cfg.keyManagers), cfg, Tokens[token].iss) :
                  calls' = [calls EXCEPT ![r] = [q EXCEPT !.kms = order]]
             /\ verdicts' = rest
     /\ UNCHANGED <<clock, published, lastSeen, keySince, jwks, tokenCacheSize>>

\* A good verdict is kept until the token is about to expire.
VerdictExpiry(cfg, token) ==
  Min({clock + cfg.tokenCacheTtl} \union IF token.exp >= 0 THEN {token.exp - cfg.leeway} ELSE {})

Accept(r, km) ==
  LET cfg == Cfg(r)  token == Tokens[calls[r].token]
      scopes == ResolveScopes(token.claims, km)
      until == VerdictExpiry(cfg, token)
  IN /\ IF cfg.tokenCaching /\ until > clock
        THEN PutVerdict(verdicts, JwtTokenCacheKey(cfg, calls[r].token),
                        [ok |-> TRUE, claims |-> token.claims, scopes |-> scopes, until |-> until])
        ELSE UNCHANGED verdicts
     /\ End(r, FinishAuthentication(calls[r], cfg, token.claims, scopes))

\* The next key manager, or the failure.
NextKeyManager(r, failed) ==
  IF Len(calls[r].kms) > 1
  THEN /\ calls' = [calls EXCEPT ![r].kms = Tail(@), ![r].phase = "verify", ![r].tries = 0, ![r].fails = @ + failed]
       /\ UNCHANGED verdicts
  ELSE Fail(r, [calls[r] EXCEPT !.fails = @ + failed], Cfg(r), "signature", verdicts)

JwksCached(u) == clock < jwks[u].until

\* A local key before the remote ones; a cached key set before a new one.
TryKeyManager(r) ==
  LET km == Head(calls[r].kms)
      token == Tokens[calls[r].token]
      good(keys) == VerifiesWithSet(token, keys, Cfg(r).leeway, clock)
  IN /\ calls[r].phase = "verify"
     /\ IF km.local # ""
        THEN IF Verifies(token, km.local, Cfg(r).leeway, clock) THEN Accept(r, km) ELSE NextKeyManager(r, 0)
        ELSE IF JwksCached(km.uri)
        THEN IF good(jwks[km.uri].keys) THEN Accept(r, km) ELSE NextKeyManager(r, 0)
        ELSE IF Cfg(r).retryCount < 0 THEN NextKeyManager(r, 1)
        ELSE calls' = [calls EXCEPT ![r].phase = "fetch", ![r].sent = clock] /\ UNCHANGED verdicts
     /\ UNCHANGED <<clock, published, lastSeen, keySince, jwks, tokenCacheSize>>

\* The issuer answers with its key set; <<>>: with an error.
IssuerAnswers(r, fails) ==
  /\ calls[r].phase = "fetch"
  /\ calls' = [calls EXCEPT ![r].phase = "reply", ![r].reply = IF fails THEN <<>> ELSE published[Head(calls[r].kms).uri]]
  /\ UNCHANGED <<clock, published, lastSeen, keySince, jwks, verdicts, tokenCacheSize>>

\* fetchJWKSWithRetry: the answer in time, with a key in it, is stored for the
\* route's time and used; else the next attempt.
StoreJwks(r) ==
  LET km == Head(calls[r].kms)
      keys == UsableKeys(calls[r].reply)
      arrived == keys # EmptyCache /\ clock - calls[r].sent <= FetchTimeout
  IN /\ calls[r].phase = "reply"
     /\ IF arrived
        THEN /\ jwks' = [jwks EXCEPT ![km.uri] = [keys |-> keys, until |-> clock + Cfg(r).jwksCacheTtl]]
             /\ IF VerifiesWithSet(Tokens[calls[r].token], keys, Cfg(r).leeway, clock) THEN Accept(r, km) ELSE NextKeyManager(r, 0)
        ELSE /\ UNCHANGED jwks
             /\ IF calls[r].tries < Cfg(r).retryCount
                THEN /\ calls' = [calls EXCEPT ![r].phase = "fetch", ![r].tries = @ + 1, ![r].sent = clock]
                     /\ UNCHANGED verdicts
                ELSE NextKeyManager(r, 1)
     /\ UNCHANGED <<clock, published, lastSeen, keySince, tokenCacheSize>>

---------------------------------------------------------------------------
\* The issuers and the clock.

Rotate(u, i) ==
  LET set == KeySets[u][i] IN
  /\ i > 1 /\ published[u] = KeySets[u][i - 1]
  /\ published' = [published EXCEPT ![u] = set]
  /\ keySince' = [keySince EXCEPT ![u] = clock]
  /\ lastSeen' = [lastSeen EXCEPT ![u] = [k \in DOMAIN KeyType |-> IF k \in Range(UsableKeys(set)) THEN clock ELSE @[k]]]
  /\ UNCHANGED <<clock, jwks, verdicts, tokenCacheSize, calls>>

JwtTick ==
  /\ clock < MaxClock
  /\ clock' = clock + 1
  /\ lastSeen' = [u \in DOMAIN KeySets |-> [k \in DOMAIN KeyType |-> IF k \in Range(UsableKeys(published[u])) THEN clock + 1 ELSE lastSeen[u][k]]]
  /\ UNCHANGED <<published, keySince, jwks, verdicts, tokenCacheSize, calls>>

JwtNext ==
  \/ JwtTick
  \/ \E u \in DOMAIN KeySets : \E i \in DOMAIN KeySets[u] : Rotate(u, i)
  \/ \E size \in CacheSizes : JwtEnsureTokenCache(size)
  \/ \E r \in JwtRequests :
       \/ \E c \in DOMAIN Routes, words \in Headers : OnRequestHeaders(r, c, words)
       \/ TryKeyManager(r) \/ StoreJwks(r)
       \/ \E fails \in BOOLEAN : IssuerAnswers(r, fails)

JwtSpec == JwtInit /\ [][JwtNext]_jwtVars

---------------------------------------------------------------------------
\* Whom a route trusts for a token, whatever was fetched or cached.
Trusted(cfg, km, iss) ==
  IF cfg.issuers # <<>> THEN \E i \in DOMAIN cfg.issuers : (km.name = cfg.issuers[i] /\ km.issuer \in {"", iss}) \/ (iss = cfg.issuers[i] /\ km.issuer = iss)
  ELSE ~cfg.validateIssuer \/ (iss # "" /\ km.issuer \in {"", iss})

MaxJwksTtl == Max({Routes[c].jwksCacheTtl : c \in DOMAIN Routes})

\* An admitted request carries a token that has not expired and that a key
\* manager trusted by ITS route vouches for: signed with its local key, or with
\* a key its issuer published not longer ago than a fetch, the life of a key
\* set and the life of a verdict take together; with the audience, scopes and
\* claims the route demands, the scopes read the way that key manager says.
\* So a key an issuer withdrew is dead after that time, whatever answers come
\* late and whatever routes share the caches; and no mapped header keeps what
\* the client put there.
JwtAdmitsDue ==
  \A r \in JwtRequests : calls[r].answer = "admitted" =>
    LET q == calls[r]  cfg == Cfg(r)  t == Tokens[q.token]
        sc == ResolveScopeConstraints(cfg)
    IN /\ t.wellFormed /\ (t.exp >= 0 => q.at < t.exp + cfg.leeway)
       /\ \E km \in ParseKeyManagers(cfg.keyManagers) :
            /\ Trusted(cfg, km, t.iss)
            /\ IF km.local # "" THEN km.local = t.signedBy
               ELSE lastSeen[km.uri][t.signedBy] >= q.at - (FetchTimeout + MaxJwksTtl + (IF cfg.tokenCaching THEN cfg.tokenCacheTtl ELSE 0))
            /\ q.scopes = ResolveScopes(t.claims, km)
       /\ sc.allOf \subseteq q.scopes /\ (sc.anyOf # {} => sc.anyOf \intersect q.scopes # {})
       /\ cfg.audiences # {} => cfg.audiences \intersect ParseAudience(Claim(t.claims, "aud")) # {}
       /\ \A c \in DOMAIN cfg.claimMappings : cfg.claimMappings[c] \in DOMAIN q.headers

\* A request is not refused for another request's bad luck: with a token in
\* its time, signed with a key that every key manager of the route has had
\* for as long as any cached key set lives, and no failed fetch of its own, a
\* request that meets the demands of the route is admitted.
JwtRefusesDue ==
  \A r \in JwtRequests : (calls[r].answer = "refused" /\ calls[r].token # "") =>
    LET q == calls[r]  cfg == Cfg(r)  t == Tokens[q.token]
        kms == ParseKeyManagers(cfg.keyManagers)
        vouches(km) == /\ Trusted(cfg, km, t.iss) /\ SignatureKeyFunc(t.alg, t.signedBy)
                       /\ IF km.local # "" THEN km.local = t.signedBy
                          ELSE /\ VerifiesWithSet([t EXCEPT !.exp = -1, !.nbf = -1], UsableKeys(published[km.uri]), 0, 0)
                               /\ keySince[km.uri] < q.at - (FetchTimeout + MaxJwksTtl)
        sound == /\ t.wellFormed /\ q.fails = 0 /\ cfg.hasKeyManagers /\ kms # {}
                 /\ t.exp >= 0 => q.at < t.exp + cfg.leeway
                 /\ t.nbf >= 0 => q.at >= t.nbf - cfg.leeway
                 /\ cfg.validateIssuer => t.iss # ""
                 /\ \A km \in kms : vouches(km)
        demands(scopes) == /\ ResolveScopeConstraints(cfg).ok /\ ResolveClaimConstraints(cfg).ok
                           /\ EvaluateScopeConstraints(ResolveScopeConstraints(cfg), scopes)
                           /\ EvaluateClaimConstraints(ResolveClaimConstraints(cfg), t.claims)
                           /\ cfg.audiences # {} => cfg.audiences \intersect ParseAudience(Claim(t.claims, "aud")) # {}
    IN ~(sound /\ \A km \in kms : demands(ResolveScopes(t.claims, km)))

=============================================================================
