----------------------------- MODULE OpaqueAuth -----------------------------
(***************************************************************************)
(* opaque-token-auth: a token is introspected at the providers of the      *)
(* route, one after the other, until one calls it active.  One instance    *)
(* serves every route; answers are cached per provider and token.  A       *)
(* provider may revoke a token at any time; its answers arrive late or not *)
(* at all and are retried.                                                 *)
(***************************************************************************)
EXTENDS JwtTokens

CONSTANTS OpaqueRoutes, OpaqueHeaders,
          Providers,    \* the parameter introspectionProviders
          Matches,      \* pattern -> the tokens it matches
          Results,      \* provider -> token -> what it knows of it
          NumOpaque, OpaqueTimeout, MaxOpaqueTime

\* Times are whole numbers, some route keeps answers longest, and a provider
\* that can be asked knows its tokens.
ASSUME OpaqueAssumption ==
  /\ OpaqueTimeout \in Nat
  /\ \A c \in DOMAIN OpaqueRoutes : OpaqueRoutes[c].leeway \in Nat /\ OpaqueRoutes[c].cacheTtl \in Nat
  /\ \E c \in DOMAIN OpaqueRoutes : \A d \in DOMAIN OpaqueRoutes : OpaqueRoutes[d].cacheTtl <= OpaqueRoutes[c].cacheTtl
  /\ DOMAIN Providers \subseteq Nat
  /\ \A i \in DOMAIN Providers : Providers[i].name # "" /\ Providers[i].uri # "" => Providers[i].name \in DOMAIN Results
  /\ \A p \in DOMAIN Results : \A t \in DOMAIN Results[p] : Results[p][t].exp \in Int /\ Results[p][t].nbf \in Int

OpaqueRequests == 1 .. NumOpaque   \* numbered as they arrive

VARIABLES time,
          active,       \* provider -> the tokens it calls active
          lastActive,   \* provider -> token -> when it last did (history)
          known,        \* providers, parsed once
          answers,      \* the cache of introspections
          asks          \* the requests

opaqueVars == <<time, active, lastActive, known, answers, asks>>

NoAsk == [phase |-> "idle", route |-> 0, token |-> "", provs |-> {}, tries |-> 0, sent |-> 0, reply |-> "", answer |-> "", at |-> 0, subject |-> "", carries |-> {}]

OpaqueInit ==
  /\ time = 0
  /\ active = [p \in DOMAIN Results |-> DOMAIN Results[p]]
  /\ lastActive = [p \in DOMAIN Results |-> [t \in DOMAIN Results[p] |-> 0]]
  /\ known = [parsed |-> FALSE, ok |-> TRUE, providers |-> {}]
  /\ answers = [k \in {} |-> 0]
  /\ asks = [r \in OpaqueRequests |-> NoAsk]

---------------------------------------------------------------------------

\* The entries that count, in the order of the list: one without name or
\* endpoint is skipped; a name twice, a pattern that does not compile or two
\* credentials at once are an error.
ParseIntrospectionProviders(list) ==
  LET named == {i \in DOMAIN list : list[i].name # ""}
      usable == {i \in named : list[i].uri # ""}
  IN [parsed |-> TRUE, providers |-> usable,
      ok |-> /\ \A i, j \in named : i # j => list[i].name # list[j].name
             /\ \A i \in usable : /\ list[i].pattern = "" \/ list[i].pattern \in DOMAIN Matches
                                  /\ ~(list[i].bearerToken /\ list[i].clientId) /\ list[i].certOk]

\* getProviders: once, with the parameters of the first request.
GetProviders == IF known.parsed THEN known ELSE ParseIntrospectionProviders(Providers)

SelectProviders(provs, issuers) ==
  {i \in provs : issuers = {} \/ Providers[i].name \in issuers \/ (Providers[i].issuer # "" /\ Providers[i].issuer \in issuers)}

FilterProvidersByToken(provs, token) ==
  {i \in provs : Providers[i].pattern = "" \/ token \in Matches[Providers[i].pattern]}

\* The provider asked next.
Foremost(provs) == Providers[Min(provs)]

\* Strings and lists alike, of both claims.
ParseScopeValue(v) == CASE v.type = "string" -> Split(v, " ") [] v.type = "array" -> Items(v) [] OTHER -> {}

IntrospectedScopes(claims) == ParseScopeValue(Claim(claims, "scope")) \union ParseScopeValue(Claim(claims, "scp"))

RequiredClaimsHold(cfg, claims) ==
  \A c \in DOMAIN cfg.requiredClaims :
    (IF Claim(claims, c).type = "none" THEN "" ELSE StringOf(Claim(claims, c))) = cfg.requiredClaims[c]

---------------------------------------------------------------------------

OpaqueCfg(r) == OpaqueRoutes[asks[r].route]

\* The request has its answer; what the calls needed is forgotten.
Done(q, answer) == [NoAsk EXCEPT !.phase = "done", !.route = q.route, !.token = q.token, !.answer = answer, !.at = time]

Refused(q) == Done(q, "refused")

\* The headers the backend finds the token in: none, the one it came in, or
\* only the one it is forwarded in.
Admitted(q, cfg, result) ==
  [Done(q, "admitted") EXCEPT !.subject = Subject(result.claims, cfg.userIdClaim),
                              !.carries = IF cfg.forwardToken THEN {cfg.forwardedTokenHeader} ELSE {}]

\* The checks on an active token.
Judge(q, cfg, result) ==
  IF \/ result.exp > 0 /\ time > result.exp + cfg.leeway
     \/ result.nbf > 0 /\ time < result.nbf - cfg.leeway
     \/ cfg.audiences # {} /\ ParseAudience(Claim(result.claims, "aud")) \intersect cfg.audiences = {}
     \/ cfg.requiredScopes # {} /\ IntrospectedScopes(result.claims) \intersect cfg.requiredScopes = {}
     \/ ~RequiredClaimsHold(cfg, result.claims)
  THEN Refused(q)
  ELSE Admitted(q, cfg, result)

OpaqueOnRequestHeaders(r, c, words) ==
  LET cfg == OpaqueRoutes[c]
      token == ExtractToken(words, IF cfg.authHeaderPrefix # "" THEN cfg.authHeaderPrefix ELSE cfg.scheme)
      provs == FilterProvidersByToken(SelectProviders(GetProviders.providers, cfg.issuers), token)
      q == [NoAsk EXCEPT !.route = c, !.token = token, !.phase = "introspect"]
  IN /\ asks[r].phase = "idle" /\ \A p \in 1 .. r - 1 : asks[p].phase # "idle"
     /\ known' = GetProviders
     /\ asks' = [asks EXCEPT ![r] = IF ~GetProviders.ok \/ token = "" \/ provs = {} THEN Refused(q) ELSE [q EXCEPT !.provs = provs]]
     /\ UNCHANGED <<time, active, lastActive, answers>>

KeyOfToken(p, token) == <<"", token>>

IntrospectionCacheKey(p, token) == <<p.name, token>>

\* The provider's answer decides if it is active; else the next one is asked.
Heed(r, isActive) ==
  LET q == asks[r]
  IN asks' = [asks EXCEPT ![r] =
       IF isActive THEN Judge(q, OpaqueCfg(r), Results[Foremost(q.provs).name][q.token])
       ELSE IF q.provs # {Min(q.provs)} THEN [q EXCEPT !.provs = @ \ {Min(@)}, !.phase = "introspect", !.tries = 0, !.reply = ""]
       ELSE Refused(q)]

Fresh(key) == key \in DOMAIN answers /\ time < answers[key].until

Introspect(r) ==
  LET key == IntrospectionCacheKey(Foremost(asks[r].provs), asks[r].token)
  IN /\ asks[r].phase = "introspect"
     /\ IF OpaqueCfg(r).retryCount < 0 THEN Heed(r, FALSE)
        ELSE IF Fresh(key) THEN Heed(r, answers[key].active)
        ELSE asks' = [asks EXCEPT ![r].phase = "ask", ![r].sent = time]
     /\ UNCHANGED <<time, active, lastActive, known, answers>>

ProviderAnswers(r, fails) ==
  /\ asks[r].phase = "ask"
  /\ asks' = [asks EXCEPT ![r].phase = "reply",
                          ![r].reply = IF fails THEN "error" ELSE IF asks[r].token \in active[Foremost(asks[r].provs).name] THEN "active" ELSE "inactive"]
  /\ UNCHANGED <<time, active, lastActive, known, answers>>

\* An active answer is kept for the route's time but not past the token's own
\* end; an inactive one for its own time, if any.
KeptUntil(cfg, reply, exp) ==
  IF reply = "inactive" THEN (IF cfg.negativeTtl > 0 THEN time + cfg.negativeTtl ELSE time)
  ELSE IF exp > 0 THEN Min({time + cfg.cacheTtl, exp}) ELSE time + cfg.cacheTtl

IntrospectReply(r) ==
  LET q == asks[r]  cfg == OpaqueCfg(r)  p == Foremost(q.provs)
      until == KeptUntil(cfg, q.reply, Results[p.name][q.token].exp)
      failed == q.reply = "error" \/ time - q.sent > OpaqueTimeout
  IN /\ q.phase = "reply"
     /\ IF failed
        THEN /\ IF q.tries < cfg.retryCount THEN asks' = [asks EXCEPT ![r].phase = "ask", ![r].tries = @ + 1, ![r].sent = time, ![r].reply = ""]
                ELSE Heed(r, FALSE)
             /\ UNCHANGED answers
        ELSE /\ Heed(r, q.reply = "active")
             /\ answers' = IF until > time THEN Stored(answers, IntrospectionCacheKey(p, q.token), [active |-> q.reply = "active", until |-> until])
                           ELSE answers
     /\ UNCHANGED <<time, active, lastActive, known>>

Revoke(p, t) ==
  /\ t \in active[p]
  /\ active' = [active EXCEPT ![p] = @ \ {t}]
  /\ UNCHANGED <<time, lastActive, known, answers, asks>>

OpaqueTick ==
  /\ time < MaxOpaqueTime
  /\ time' = time + 1
  /\ lastActive' = [p \in DOMAIN Results |-> [t \in DOMAIN Results[p] |-> IF t \in active[p] THEN time + 1 ELSE lastActive[p][t]]]
  /\ UNCHANGED <<active, known, answers, asks>>

OpaqueNext ==
  \/ OpaqueTick
  \/ \E p \in DOMAIN Results : \E t \in DOMAIN Results[p] : Revoke(p, t)
  \/ \E r \in OpaqueRequests :
       \/ \E c \in DOMAIN OpaqueRoutes, words \in OpaqueHeaders : OpaqueOnRequestHeaders(r, c, words)
       \/ Introspect(r) \/ IntrospectReply(r)
       \/ \E fails \in BOOLEAN : ProviderAnswers(r, fails)

OpaqueSpec == OpaqueInit /\ [][OpaqueNext]_opaqueVars

---------------------------------------------------------------------------
\* An admitted request has a token that a provider ITS route selects called
\* active, not longer ago than a call and the life of a cached answer take
\* together; it has not expired, and it carries what the route demands.  So a
\* revoked token dies in time, though an answer given before the revocation
\* may arrive after one given later, and routes share the cache.
OpaqueAdmitsDue ==
  \A r \in OpaqueRequests : asks[r].answer = "admitted" =>
    LET q == asks[r]  cfg == OpaqueCfg(r)
        ttl == Max({OpaqueRoutes[c].cacheTtl : c \in DOMAIN OpaqueRoutes})
    IN \E i \in DOMAIN Providers :
         LET p == Providers[i]  res == Results[p.name][q.token]
         IN /\ cfg.issuers = {} \/ {p.name, p.issuer} \intersect cfg.issuers # {}
            /\ p.pattern = "" \/ q.token \in Matches[p.pattern]
            /\ lastActive[p.name][q.token] >= q.at - (OpaqueTimeout + ttl)
            /\ res.exp > 0 => q.at <= res.exp + cfg.leeway
            /\ cfg.requiredScopes # {} => IntrospectedScopes(res.claims) \intersect cfg.requiredScopes # {}
            /\ cfg.audiences # {} => ParseAudience(Claim(res.claims, "aud")) \intersect cfg.audiences # {}

=============================================================================
