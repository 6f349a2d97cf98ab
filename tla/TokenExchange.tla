--------------------------- MODULE TokenExchange ---------------------------
(***************************************************************************)
(* oauth2-token-exchange: the subject token of a request is exchanged at a *)
(* token endpoint for the token the backend is given.  It is looked for in *)
(* the header phase; other policies may then write the headers, so the     *)
(* body phase looks again.  One instance and one cache serve every route.  *)
(* A subject token is <<name>>, an issued one <<subject, form, end, word>> *)
(* with whether the endpoint keeps its word, and <<>> is none.             *)
(***************************************************************************)
EXTENDS Integers, Sequences, FiniteSets

CONSTANTS ExchangeRoutes,    \* the parameters of the routes
          Incoming,          \* the requests clients send
          Edits,             \* what other policies do between the phases, route by route
          Lifetimes,         \* answers, route by route: expires_in and how long the token lives
          MinCacheTTL, DefaultExpiresIn, MaxExpiresIn,
          DefaultCacheMaxSize, ExchangeTimeout,
          NumExchanges, MaxExchangeTime,
          MaxEdits            \* bounds, the last one on the edits of each request

\* Other policies write subject tokens, never one the endpoint has issued.
ASSUME ExchangeAssumption ==
  /\ \A msg \in Incoming : DOMAIN msg = {"header", "cookie", "query"}
  /\ \A c \in DOMAIN ExchangeRoutes : \A d \in Edits[c] : d.kind \in {"header", "cookie"} /\ (d.token = <<>> \/ Len(d.token) = 1)
  /\ \A c \in DOMAIN ExchangeRoutes : \A a \in Lifetimes[c] : a.secs \in Nat /\ a.life \in Nat
  /\ MinCacheTTL \in Nat /\ ExchangeTimeout \in Nat
  /\ DefaultExpiresIn \in Nat \ {0} /\ MaxExpiresIn \in Nat \ {0}
  /\ NumExchanges \in Nat /\ MaxExchangeTime \in Nat

Exchanges == 1 .. NumExchanges    \* requests, numbered as they arrive

VARIABLES hour,
          tokenCache, currentMaxSize,
          ex                  \* the requests, with the metadata of the policy

exchangeVars == <<hour, tokenCache, currentMaxSize, ex>>

NoMsg == [header |-> [n \in {} |-> <<>>], cookie |-> [n \in {} |-> <<>>], query |-> [n \in {} |-> <<>>]]

NoExchange == [phase |-> "idle", route |-> 0, msg |-> NoMsg, dropped |-> {}, body |-> FALSE, outcome |-> "", hash |-> <<>>, outHash |-> <<>>,
               selfRemoved |-> FALSE, sent |-> 0, reply |-> <<>>, lifetime |-> 0, status |-> 0, subject |-> <<>>, wrote |-> <<>>, edits |-> 0, taken |-> 0]

ExchangeInit ==
  /\ hour = 0
  /\ tokenCache = [k \in {} |-> 0]
  /\ currentMaxSize = DefaultCacheMaxSize
  /\ ex = [r \in Exchanges |-> NoExchange]

---------------------------------------------------------------------------

ParseConfig(p) ==
  /\ p.grantType \in {"TokenExchange", "JwtBearer"}
  /\ p.clientAuthMethod \in {"ClientSecretBasic", "ClientSecretPost"}
  /\ p.clientId # "" /\ p.clientSecret # ""
  /\ p.scheme = "https" \/ (p.scheme = "http" /\ p.allowInsecure)
  /\ p.kind \in {"header", "cookie", "queryParameter"}
  /\ p.subjectTokenType \in {"AccessToken", "Jwt", "IdToken"}
  /\ p.requestedTokenType \in {"", "AccessToken", "Jwt", "IdToken"}

Without(f, n) == [x \in (DOMAIN f) \ {n} |-> f[x]]

With(f, n, value) == [x \in (DOMAIN f) \union {n} |-> IF x = n THEN value ELSE f[x]]

\* A header must begin with the configured prefix, if there is one.
ExtractSubjectToken(msg, p) ==
  CASE p.kind = "header" ->
         IF p.name \in DOMAIN msg.header /\ p.prefix \in {"", msg.header[p.name][1]} THEN msg.header[p.name][2] ELSE <<>>
    [] p.kind = "cookie" -> IF p.name \in DOMAIN msg.cookie THEN msg.cookie[p.name] ELSE <<>>
    [] p.kind = "queryParameter" -> IF p.name \in DOMAIN msg.query THEN msg.query[p.name] ELSE <<>>

SubjectSourceIsOutputHeader(p) == p.kind = "header" /\ p.name = p.header

\* stripCookieByName keeps the other cookies.
StripCookieByName(cookies, n) == Without(cookies, n)

\* Setting the output header and subjectTokenRemovalMods; the path that later
\* phases read is not changed, a query parameter is only dropped upstream.
UpstreamAction(p, q, token) ==
  LET hide == ~p.forwardToken
      kept == IF hide /\ p.kind = "header" /\ ~SubjectSourceIsOutputHeader(p) THEN Without(q.msg.header, p.name) ELSE q.msg.header
  IN [q EXCEPT !.msg.header = With(kept, p.header, <<p.headerPrefix, token>>),
               !.msg.cookie = IF hide /\ p.kind = "cookie" THEN StripCookieByName(@, p.name) ELSE @,
               !.dropped = IF hide /\ p.kind = "queryParameter" THEN @ \union {p.name} ELSE @]

\* What the endpoint is asked for, with the client's credentials.
Form(p) ==
  [endpoint |-> p.endpoint, client |-> <<p.clientId, p.clientSecret>>, grant |-> p.grantType,
   types |-> IF p.grantType = "TokenExchange" THEN <<p.subjectTokenType, p.requestedTokenType>> ELSE <<>>,
   audiences |-> p.audiences, scopes |-> p.scopes, resources |-> p.resources]

BuildCacheKey(p, subject) ==
  <<p.api, p.endpoint, p.clientId, p.clientSecret, p.grantType, p.subjectTokenType, p.requestedTokenType, p.audiences, p.scopes, p.resources, subject>>

\* The guard against an overflowing product is subsumed: such a number of
\* seconds is past the maximum anyway.
ClampExpiresIn(secs) == IF secs <= 0 \/ secs > MaxExpiresIn THEN MaxExpiresIn ELSE secs

\* What is missing, not a number, zero or less is not positive.  A number is cut
\* to whole seconds: a fraction of one is positive and has none.
ExpiresIn(answer) == IF answer.positive THEN ClampExpiresIn(answer.secs) ELSE DefaultExpiresIn

\* The token lives as long as the answer says, or for the default where it says
\* nothing; a fraction of a second is no word to keep.
Word(answer) ==
  IF IF answer.positive THEN answer.secs > 0 /\ answer.secs <= answer.life ELSE DefaultExpiresIn <= answer.life
  THEN "kept" ELSE "broken"

\* Half the lifetime, at least MinCacheTTL when the token lives longer.
CacheTtl(expiresIn) ==
  LET ttl == expiresIn \div 2
  IN IF ttl < MinCacheTTL /\ MinCacheTTL < expiresIn THEN MinCacheTTL ELSE ttl

---------------------------------------------------------------------------
\* What the header phase leaves in the request's metadata.

HeaderPhaseSucceeded(q) == q.outcome = "succeeded"

AnySubject(q, token) == TRUE

SubjectTokenHashMatches(q, token) == q.hash = token

OutputHeaderIntact(q, p) == p.header \in DOMAIN q.msg.header /\ q.outHash = q.msg.header[p.header]

\* The request is over; what only its phases needed is forgotten.
Answered(q, status) ==
  IF status = 200 THEN [q EXCEPT !.phase = "done", !.status = 200, !.edits = 0, !.outcome = "", !.outHash = <<>>]
  ELSE [NoExchange EXCEPT !.phase = "done", !.route = q.route, !.status = status]

\* A token was found: the header phase marks its outcome and what it removed.
Exchanged(q, p, subject, token) ==
  LET done == [UpstreamAction(p, q, token) EXCEPT !.sent = 0, !.reply = <<>>, !.lifetime = 0, !.taken = hour]
  IN IF q.body THEN Answered(done, 200)
     ELSE [done EXCEPT !.phase = "between", !.outcome = "succeeded", !.hash = subject, !.outHash = <<p.headerPrefix, token>>,
                       !.selfRemoved = ~p.forwardToken /\ ~SubjectSourceIsOutputHeader(p) /\ p.kind \in {"header", "cookie"}]

\* No subject token yet: the header phase leaves it to the body phase.
SubjectMissing(q) == IF q.body THEN Answered(q, 401) ELSE [q EXCEPT !.phase = "between", !.outcome = "deferred"]

\* getCachedToken: an expired entry is deleted.
GetCachedToken(key) == key \in DOMAIN tokenCache /\ hour < tokenCache[key].until

ResolveSubjectAndToken(r, q, p) ==
  LET subject == ExtractSubjectToken(q.msg, p)
      key == BuildCacheKey(p, subject)
      look == p.tokenCaching /\ subject # <<>>
  IN /\ tokenCache' = IF look /\ key \in DOMAIN tokenCache /\ ~GetCachedToken(key) THEN Without(tokenCache, key) ELSE tokenCache
     /\ ex' = [ex EXCEPT ![r] =
          IF subject = <<>> THEN SubjectMissing(q)
          ELSE IF look /\ GetCachedToken(key) THEN Exchanged(q, p, subject, tokenCache[key].token)
          ELSE [q EXCEPT !.phase = "call", !.sent = hour]]

ExchangeOnRequestHeaders(r, c, msg) ==
  LET p == ExchangeRoutes[c]
      q == [NoExchange EXCEPT !.route = c, !.msg = msg, !.subject = ExtractSubjectToken(msg, p)]
  IN /\ ex[r].phase = "idle" /\ \A s \in 1 .. r - 1 : ex[s].phase # "idle"
     /\ IF ParseConfig(p) THEN ResolveSubjectAndToken(r, q, p)
        ELSE ex' = [ex EXCEPT ![r] = Answered(q, 500)] /\ UNCHANGED tokenCache
     /\ UNCHANGED <<hour, currentMaxSize>>

\* The result of the header phase stands if the output header is intact and
\* the subject token is the same, or absent because this policy removed it.
ResultStands(q, p) ==
  LET token == ExtractSubjectToken(q.msg, p)
  IN /\ HeaderPhaseSucceeded(q) /\ OutputHeaderIntact(q, p)
     /\ \/ SubjectSourceIsOutputHeader(p)
        \/ token # <<>> /\ SubjectTokenHashMatches(q, token)
        \/ token = <<>> /\ q.selfRemoved

ExchangeOnRequestBody(r) ==
  LET q == [ex[r] EXCEPT !.body = TRUE]  p == ExchangeRoutes[ex[r].route]
  IN /\ ex[r].phase = "between"
     /\ IF ResultStands(q, p) THEN ex' = [ex EXCEPT ![r] = Answered(q, 200)] /\ UNCHANGED tokenCache
        ELSE ResolveSubjectAndToken(r, q, p)
     /\ UNCHANGED <<hour, currentMaxSize>>

\* The endpoint issues a token, or fails; its answer takes time to arrive.
EndpointAnswers(r, fails, answer) ==
  LET q == ex[r]  p == ExchangeRoutes[q.route]
  IN /\ q.phase = "call"
     /\ ex' = [ex EXCEPT ![r].phase = "reply", ![r].lifetime = IF fails THEN 0 ELSE answer,
                         ![r].reply = IF fails THEN <<>> ELSE <<ExtractSubjectToken(q.msg, p), Form(p), hour + answer.life, Word(answer)>>]
     /\ UNCHANGED <<hour, tokenCache, currentMaxSize>>

\* A full cache gives up another entry (the least recently used one).
PutCachedToken(key, token, expiresIn) ==
  LET ttl == CacheTtl(expiresIn)
      put(cache) == With(cache, key, [token |-> token, until |-> hour + ttl])
  IN IF ttl <= 0 THEN UNCHANGED tokenCache
     ELSE IF key \notin DOMAIN tokenCache /\ Cardinality(DOMAIN tokenCache) >= currentMaxSize
     THEN \E k \in DOMAIN tokenCache : tokenCache' = put(Without(tokenCache, k))
     ELSE tokenCache' = put(tokenCache)

PerformTokenExchange(r) ==
  LET q == ex[r]  p == ExchangeRoutes[q.route]
      subject == ExtractSubjectToken(q.msg, p)
      failed == q.reply = <<>> \/ hour - q.sent > ExchangeTimeout
  IN /\ q.phase = "reply"
     /\ ex' = [ex EXCEPT ![r] = IF failed THEN Answered(q, 502) ELSE Exchanged(q, p, subject, q.reply)]
     /\ IF failed \/ ~p.tokenCaching THEN UNCHANGED tokenCache
        ELSE PutCachedToken(BuildCacheKey(p, subject), q.reply, ExpiresIn(q.lifetime))
     /\ UNCHANGED <<hour, currentMaxSize>>

\* GetPolicy of a route: another size is another, empty cache.
EnsureTokenCache(c) ==
  LET size == ExchangeRoutes[c].cacheMaxSize
  IN /\ currentMaxSize # size
     /\ currentMaxSize' = size /\ tokenCache' = [k \in {} |-> 0]
     /\ UNCHANGED <<hour, ex>>

\* Another policy writes or removes a header or cookie between the phases.
\* Where it takes out the subject token another one wrote, the request is again
\* that of the token the header phase took.
Edit(r, d) ==
  LET q == ex[r]  p == ExchangeRoutes[q.route]
      change(f, value) == IF d.token = <<>> THEN Without(f, d.name) ELSE With(f, d.name, value)
      msg == IF d.kind = "header" THEN [q.msg EXCEPT !.header = change(@, <<d.prefix, d.token>>)]
             ELSE [q.msg EXCEPT !.cookie = change(@, d.token)]
      held == ExtractSubjectToken(msg, p)
  IN /\ q.phase = "between" /\ q.edits < MaxEdits[r]
     /\ ex' = [ex EXCEPT ![r] =
          IF d.kind = p.kind /\ d.name = p.name
          THEN [q EXCEPT !.msg = msg, !.edits = @ + 1, !.subject = IF held # <<>> THEN held ELSE q.hash, !.wrote = held]
          ELSE [q EXCEPT !.msg = msg, !.edits = @ + 1]]
     /\ UNCHANGED <<hour, tokenCache, currentMaxSize>>

ExchangeTick ==
  /\ hour < MaxExchangeTime
  /\ hour' = hour + 1
  /\ UNCHANGED <<tokenCache, currentMaxSize, ex>>

ExchangeNext ==
  \/ ExchangeTick
  \/ \E c \in DOMAIN ExchangeRoutes : EnsureTokenCache(c)
  \/ \E r \in Exchanges :
       \/ \E c \in DOMAIN ExchangeRoutes, msg \in Incoming : ExchangeOnRequestHeaders(r, c, msg)
       \/ ex[r].phase = "between" /\ \E d \in Edits[ex[r].route] : Edit(r, d)
       \/ ExchangeOnRequestBody(r)
       \/ ex[r].phase = "call" /\ \E fails \in BOOLEAN, answer \in Lifetimes[ex[r].route] : EndpointAnswers(r, fails, answer)
       \/ PerformTokenExchange(r)

ExchangeSpec == ExchangeInit /\ [][ExchangeNext]_exchangeVars

---------------------------------------------------------------------------
\* A request that goes on to the backend carries, in the output header, a
\* token that was issued for the LAST subject token the request held and for
\* what its own route asks, and that had not ended when it was taken, but for
\* the time the answer was on its way, where the endpoint keeps its word on how
\* long it lives.  The subject token is gone, unless the route forwards it or
\* another policy put the same token back.
ExchangedTokenDue ==
  \A r \in Exchanges : ex[r].status = 200 =>
    LET q == ex[r]  p == ExchangeRoutes[q.route]
    IN /\ p.header \in DOMAIN q.msg.header
       /\ LET value == q.msg.header[p.header]
          IN /\ value[1] = p.headerPrefix /\ Len(value[2]) = 4
             /\ value[2][1] = q.subject /\ value[2][2] = Form(p)
             /\ value[2][4] = "kept" => q.taken < value[2][3] + ExchangeTimeout
       /\ \/ p.forwardToken \/ SubjectSourceIsOutputHeader(p)
          \/ ExtractSubjectToken([q.msg EXCEPT !.query = [n \in (DOMAIN @) \ q.dropped |-> @[n]]], p) = <<>>
          \/ q.wrote # <<>> /\ q.wrote = q.hash

=============================================================================
