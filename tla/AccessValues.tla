---------------------------- MODULE AccessValues ----------------------------
(* Routes with authentication and token policies, and their callers, for TLC. *)
EXTENDS Integers, Sequences, TLC

\* jwt-auth
JwtKeyType == [k \in {"k1", "k2", "e1"} |-> IF k = "e1" THEN "EC" ELSE "RSA"]
JwtAlgFamily == [a \in {"RS256", "ES256"} |-> IF a = "ES256" THEN "EC" ELSE "RSA"]
LOCAL Jwk(kid, key) == [kid |-> kid, key |-> key]
JwtKeySets == [u \in {"u1"} |-> <<<<Jwk("a", "k1"), Jwk("", "k2"), Jwk("x", "bad")>>, <<Jwk("a", "k2")>>>>]
LOCAL Km(n, i, l, u, sc) == [name |-> n, issuer |-> i, local |-> l, uri |-> u, certsOk |-> TRUE, scopeClaim |-> sc, separator |-> ","]
LOCAL F(s) == [ok |-> TRUE, values |-> s]
LOCAL NoneAsked == [ok |-> TRUE, allOf |-> F({}), anyOf |-> F({})]
LOCAL Base == [hasKeyManagers |-> TRUE, keyManagers |-> <<Km("r", "I", "", "u1", "")>>, validateIssuer |-> TRUE, issuers |-> <<>>, leeway |-> 1,
  jwksCacheTtl |-> 1, retryCount |-> 0, tokenCaching |-> TRUE, tokenCacheTtl |-> 1, negativeCacheTtl |-> 2, audiences |-> {}, scopes |-> NoneAsked,
  requiredScopes |-> {}, claims |-> [ok |-> TRUE, allOf |-> {}, anyOf |-> {}], requiredClaims |-> [c \in {} |-> ""], headerName |-> "auth", scheme |-> "Bearer", authHeaderPrefix |-> "",
  userIdClaim |-> "", claimMappings |-> ("sub" :> "x-user") @@ ("none" :> "x-none"), forwardToken |-> FALSE, forwardedTokenHeader |-> "fwd", stripScheme |-> FALSE]
LOCAL Two == <<Km("r", "I", "", "u1", ""), Km("l", "", "k2", "", "roles"), [Km("bad", "I", "", "u1", "") EXCEPT !.certsOk = FALSE]>>
JwtRoutes == <<[Base EXCEPT !.retryCount = 1],
  [Base EXCEPT !.keyManagers = Two, !.issuers = <<"l", "I">>, !.scopes.anyOf = F({"s", ""}), !.forwardToken = TRUE],
  [Base EXCEPT !.keyManagers = Two, !.issuers = <<"J">>],
  [Base EXCEPT !.keyManagers = Two, !.validateIssuer = FALSE, !.tokenCaching = FALSE, !.scheme = "", !.audiences = {"api"}, !.requiredClaims = "tier" :> "gold"]>>
LOCAL S(x) == [type |-> "string", sep |-> " ", items |-> x]
JwtTokenTable == [t \in {"t1", "t2", "t3", "tx"} |->
  CASE t = "t1" -> [wellFormed |-> TRUE, iss |-> "I", kid |-> "a", alg |-> "RS256", signedBy |-> "k1", exp |-> 3, nbf |-> -1,
                    claims |-> ("scope" :> S(<<"s", "u">>)) @@ ("sub" :> S(<<"me">>)) @@ ("tier" :> S(<<"gold">>)) @@ ("aud" :> S(<<"api">>))]
    [] t = "t2" -> [wellFormed |-> TRUE, iss |-> "J", kid |-> "", alg |-> "RS256", signedBy |-> "k2", exp |-> -1, nbf |-> 2,
                    claims |-> ("roles" :> [type |-> "string", sep |-> ",", items |-> <<"s", "v">>]) @@ ("sub" :> S(<<"you">>))]
    [] t = "t3" -> [wellFormed |-> TRUE, iss |-> "I", kid |-> "a", alg |-> "RS256", signedBy |-> "k2", exp |-> -1, nbf |-> -1, claims |-> "scope" :> S(<<"s">>)]
    [] OTHER -> [wellFormed |-> FALSE, iss |-> "", kid |-> "", alg |-> "", signedBy |-> "k1", exp |-> -1, nbf |-> -1, claims |-> [c \in {} |-> ""]]]
JwtHeaders == {<<"Bearer", "t1">>, <<"Bearer", "t2">>, <<"tx">>}

\* opaque-token-auth
LOCAL Prov(n, i, pat) == [name |-> n, issuer |-> i, uri |-> "uri", pattern |-> pat, bearerToken |-> FALSE, clientId |-> TRUE, certOk |-> TRUE]
OpaqueProviders == <<Prov("a", "IA", ""), Prov("b", "IB", "o*"), [Prov("c", "", "") EXCEPT !.uri = ""]>>
OpaqueMatches == [p \in {"o*"} |-> {"o1"}]
LOCAL Str(x) == [type |-> "string", sep |-> " ", items |-> x]
OpaqueResults == [p \in {"a", "b"} |-> [t \in {"o1"} |->
  [exp |-> IF p = "a" THEN 2 ELSE 0, nbf |-> 0, claims |-> ("scope" :> Str(<<"s", "u">>)) @@ ("aud" :> Str(<<"api">>)) @@ ("sub" :> Str(<<"me">>))]]]
LOCAL OBase == [issuers |-> {}, leeway |-> 1, cacheTtl |-> 1, negativeTtl |-> 1, retryCount |-> 1, audiences |-> {}, requiredScopes |-> {}, requiredClaims |-> [c \in {} |-> ""],
  forwardToken |-> TRUE, forwardedTokenHeader |-> "x-forwarded-authorization", scheme |-> "Bearer", authHeaderPrefix |-> "", userIdClaim |-> "sub"]
OpaqueTable == <<[OBase EXCEPT !.leeway = 0], [OBase EXCEPT !.issuers = {"IA"}, !.forwardToken = FALSE, !.retryCount = 0, !.audiences = {"api"}, !.requiredScopes = {"s"}],
  [OBase EXCEPT !.issuers = {"b"}, !.negativeTtl = 0, !.retryCount = 0, !.requiredClaims = "sub" :> "me"]>>
OpaqueTraffic == {<<"Bearer", "o1">>, <<"Basic", "o1">>}

\* oauth2-token-exchange
LOCAL XBase == [api |-> "api", endpoint |-> "idp", scheme |-> "https", allowInsecure |-> FALSE, clientId |-> "c", clientSecret |-> "s", clientAuthMethod |-> "ClientSecretBasic",
  grantType |-> "TokenExchange", subjectTokenType |-> "AccessToken", requestedTokenType |-> "", audiences |-> {"x"}, scopes |-> {}, resources |-> {},
  kind |-> "header", name |-> "Authorization", prefix |-> "Bearer", forwardToken |-> FALSE, header |-> "Authorization", headerPrefix |-> "Bearer", tokenCaching |-> TRUE, cacheMaxSize |-> 1]
ExchangeTable == <<XBase, [XBase EXCEPT !.name = "X-Sub", !.prefix = "", !.audiences = {"y"}],
  [XBase EXCEPT !.kind = "cookie", !.name = "sid", !.forwardToken = TRUE, !.tokenCaching = FALSE], [XBase EXCEPT !.kind = "queryParameter", !.name = "t", !.cacheMaxSize = 2, !.grantType = "JwtBearer"],
  [XBase EXCEPT !.scheme = "http"]>>
ExchangeIncoming == {[header |-> ("Authorization" :> <<"Bearer", <<"s1">>>>) @@ ("X-Sub" :> <<"", <<"s1">>>>),
                cookie |-> "sid" :> <<"s1">>, query |-> "t" :> <<"s1">>]}
LOCAL Subject(token) == [kind |-> "header", name |-> "X-Sub", prefix |-> "", token |-> token]
LOCAL Output == [kind |-> "header", name |-> "Authorization", prefix |-> "Bearer", token |-> <<"s2">>]
ExchangeEdits == <<{Output}, {Subject(<<"s2">>), Subject(<<>>), Subject(<<"s1">>), Output},
                   {[kind |-> "cookie", name |-> "sid", prefix |-> "", token |-> <<>>], Output}, {Output}, {}>>

\* A lifetime past the longest, none that is said, and less than a second.
LOCAL Answer(positive, secs, life) == [positive |-> positive, secs |-> secs, life |-> life]
LOCAL Long == Answer(TRUE, 4, 4)
ExchangeLifetimes == <<{Long, Answer(TRUE, 0, 1)}, {Long, Answer(TRUE, 0, 1)}, {Long}, {Long, Answer(FALSE, 0, 1)}, {}>>

\* One request is edited, at most twice: a second edit may undo the first.
ExchangeMaxEdits == <<2, 0>>

\* backend-jwt: one route deployed in several versions.
BackendNone == [c \in {} |-> ""]

LOCAL Keyed == [k \in {"rsa1", "rsa2", "ec1"} |-> IF k = "ec1" THEN "ecdsa" ELSE "rsa"]

LOCAL FirstVersion ==
  [api |-> "api", issuer |-> "gw", algorithm |-> "SHA256withRSA", dialect |-> "", excluded |-> {}, tokenExpiry |-> 3, tokenCaching |-> TRUE, cacheMaxSize |-> 1,
   signingKey |-> [inline |-> "rsa1", path |-> ""], keyTypes |-> Keyed, claimMappings |-> [d \in {"dept"} |-> "department"],
   customClaims |-> ("verb" :> [kind |-> "request", name |-> "method"]) @@ ("trace" :> [kind |-> "header", name |-> "x-trace"]) @@ ("tenant" :> [kind |-> "header", name |-> "x-tenant"]) @@ ("exp" :> [kind |-> "text", name |-> "never"])]

\* Versions whose difference the digest takes in.
BackendVersions ==
  <<FirstVersion, [FirstVersion EXCEPT !.issuer = "gw2", !.dialect = "http://c/"], [FirstVersion EXCEPT !.excluded = {"role"}],
    [FirstVersion EXCEPT !.algorithm = "ES256", !.signingKey = [inline |-> "", path |-> "file"]], [FirstVersion EXCEPT !.issuer = "gw3", !.algorithm = "ES256"], [FirstVersion EXCEPT !.algorithm = "HS256"],
    [FirstVersion EXCEPT !.algorithm = "NONE", !.cacheMaxSize = 2, !.tokenExpiry = 2], [FirstVersion EXCEPT !.tokenCaching = FALSE, !.signingKey.inline = "rsa2"]>>

\* The signing key is replaced.
BackendNewKey == <<FirstVersion, [FirstVersion EXCEPT !.signingKey.inline = "rsa2"]>>

BackendKeyFiles == [p \in {"file"} |-> "ec1"]

LOCAL Me == [AuthType |-> "jwt", TokenId |-> "j1", Issuer |-> "idp", Subject |-> "me", CredentialID |-> "app", Audience |-> {"api"}, Scopes |-> {"s"},
       Properties |-> ("department" :> "d1") @@ ("role" :> "r1") @@ ("jti" :> "j1")]
BackendCallers == {Me, [Me EXCEPT !.TokenId = "j2", !.Properties = "role" :> "r2"], [Me EXCEPT !.AuthType = "basic", !.TokenId = "", !.Subject = "b1"],
              [Me EXCEPT !.AuthType = "", !.TokenId = "", !.Issuer = "", !.Subject = "", !.CredentialID = "", !.Audience = {}, !.Scopes = {}, !.Properties = BackendNone]}
LOCAL Asking(headers) == [path |-> "/a", method |-> "GET", headers |-> headers]
BackendRequests == {Asking(BackendNone), Asking(("x-trace" :> "t1") @@ ("x-tenant" :> "n1")), Asking("x-trace" :> "t1|tenant=n1")}
BackendSplit == "t1|tenant=n1" :> << <<{"t1"}>>, <<{"tenant"}, {"n1"}>> >>
BackendListed == "a,b" :> {"a", "b"}
=============================================================================
