----------------------------- MODULE BackendJwt -----------------------------
(***************************************************************************)
(* backend-jwt: the gateway signs a token that tells the backend who the   *)
(* caller is.  Signed tokens are cached under a digest of the caller and   *)
(* of the parameters; the API may be deployed again with others.  plain is *)
(* history.                                                                *)
(***************************************************************************)
EXTENDS Integers, Sequences, FiniteSets, TLC

CONSTANTS Versions,       \* the parameters of one route, deployment after deployment
          Callers,        \* the auth contexts; TokenId "" is none, AuthType "" is no context
          Requests,       \* what claims may refer to: path, method, headers
          KeyFiles,       \* signing keys in files: path -> key
          Severed,          \* texts with a "|": what they are split into at each "|" and "="
          Listed,         \* texts with a ",": the names between
          MinTokenTTL, MaxBackendTime

\* The tokenExpiry of a version is positive (Validate).
ASSUME BackendAssumption ==
  /\ 1 \in DOMAIN Versions /\ \A n \in DOMAIN Versions : Versions[n].tokenExpiry \in Nat \ {0}
  /\ \A c, d \in Callers : c.AuthType = "" /\ d.AuthType = "" => c = d
  /\ \A c \in Callers : "" \notin c.Audience /\ c.Properties = [p \in DOMAIN c.Properties |-> c.Properties[p]]
  /\ MinTokenTTL \in Nat /\ MaxBackendTime \in Nat

VARIABLES day,
          deployed,       \* the version in force
          signedCache, cacheSize, pemCache,
          sentToken       \* the last request: its caller and the answer

backendVars == <<day, deployed, signedCache, cacheSize, pemCache, sentToken>>

BackendInit ==
  /\ day = 0
  /\ deployed = 1
  /\ signedCache = [k \in {} |-> 0]
  /\ cacheSize = Versions[1].cacheMaxSize
  /\ pemCache = [p \in {} |-> ""]
  /\ sentToken = [status |-> 0]

---------------------------------------------------------------------------

NoClaims == [c \in {} |-> ""]

RestrictedClaims == {"iss", "sub", "aud", "exp", "iat", "nbf", "jti"}

AlgKeyType(alg) == CASE alg = "SHA256withRSA" -> "rsa" [] alg = "ES256" -> "ecdsa" [] alg = "NONE" -> "none" [] OTHER -> ""

\* The context variables a custom claim may name; ok is whether it resolves.
ResolveClaimValue(ref, caller, req) ==
  CASE ref.kind = "text" -> [ok |-> TRUE, value |-> ref.name]
    [] ref.kind = "request" -> [ok |-> TRUE, value |-> req[ref.name]]
    [] ref.kind = "header" -> [ok |-> ref.name \in DOMAIN req.headers, value |-> IF ref.name \in DOMAIN req.headers THEN req.headers[ref.name] ELSE ""]
    [] ref.kind = "subject" -> [ok |-> caller.AuthType # "", value |-> caller.Subject]
    [] ref.kind = "property" -> [ok |-> ref.name \in DOMAIN caller.Properties, value |-> IF ref.name \in DOMAIN caller.Properties THEN caller.Properties[ref.name] ELSE ""]
    [] OTHER -> [ok |-> FALSE, value |-> ""]

\* Destination and source of the mappings that apply to this caller.
ApplyClaimMappings(v, caller) ==
  {d \in DOMAIN v.claimMappings : d \notin RestrictedClaims /\ v.claimMappings[d] \in DOMAIN caller.Properties}

ApplyCustomClaims(v, caller, req) ==
  {c \in DOMAIN v.customClaims : c \notin RestrictedClaims /\ ResolveClaimValue(v.customClaims[c], caller, req).ok}

\* A custom claim replaces a mapping to the same name.
ResolveExtraClaims(v, caller, req) ==
  LET mapped == ApplyClaimMappings(v, caller)  custom == ApplyCustomClaims(v, caller, req)
  IN [claims |-> [c \in custom |-> ResolveClaimValue(v.customClaims[c], caller, req).value] @@ [d \in mapped |-> caller.Properties[v.claimMappings[d]]],
      mappedSources |-> {v.claimMappings[d] : d \in mapped}]

\* Claim names carry the dialect as a prefix: <<dialect, name>>.
Named(dialect, claims) == [n \in {<<dialect, c>> : c \in DOMAIN claims} |-> claims[n[2]]]

BuildClaims(v, caller, extras) ==
  LET kept == {k \in DOMAIN caller.Properties : k \notin RestrictedClaims \union v.excluded \union extras.mappedSources}
      ofJwt == Named(v.dialect, [k \in IF caller.AuthType = "jwt" THEN kept ELSE {} |-> caller.Properties[k]])
      scope == IF caller.AuthType = "jwt" /\ caller.Scopes # {} THEN <<"", "scope">> :> caller.Scopes ELSE NoClaims
      aud == IF caller.Audience # {} THEN <<"", "aud">> :> caller.Audience ELSE NoClaims
  IN Named(v.dialect, extras.claims) @@ scope @@ ofJwt @@ aud
       @@ (IF v.issuer = "" THEN NoClaims ELSE <<"", "iss">> :> v.issuer)
       @@ (IF caller.Subject = "" THEN NoClaims ELSE <<"", "sub">> :> caller.Subject)
       @@ (IF caller.AuthType = "" THEN NoClaims ELSE <<"", "auth_type">> :> caller.AuthType)
       @@ (IF caller.CredentialID = "" THEN NoClaims ELSE <<"", "credential_id">> :> caller.CredentialID)

---------------------------------------------------------------------------
\* The cache key.  Its parts are joined by "|", the name and the value of a
\* pair by "=" and lists by ",", and none of them is escaped: a text that holds
\* a "|" falls into pieces.  A piece is the sequence of the parts between "=",
\* each of them the set of its names; names of claims and of properties hold no
\* separator.  The code sorts the pairs; here they stand behind the path.

Names(texts) == UNION {IF x \in DOMAIN Listed THEN Listed[x] ELSE {x} : x \in texts}

Pieces(text) == IF text \in DOMAIN Severed THEN Severed[text] ELSE << <<{text}>> >>

PairPieces(name, value) ==
  LET pieces == Pieces(value) IN [pieces EXCEPT ![1] = <<{name}>> \o @]

\* keyClaims, appendClaims, and the loop over the properties.
PairsOf(f) == UNION {{PairPieces(n, f[n])[i] : i \in DOMAIN PairPieces(n, f[n])} : n \in DOMAIN f}

\* The namespace is joined by zero bytes.
KeyNamespace(v) == <<v.api, v.issuer, v.algorithm, v.dialect, Names(v.excluded)>>

\* Mutant: the parameters are left out.
CallerOnly(v, caller, req, extras) == <<v.api, caller.TokenId, req.path, req.method, extras.claims>>

\* The path without its query; the identity fields only if the token has no id.
BuildTokenCacheKey(v, caller, req, extras) ==
  LET scope == IF caller.Scopes = {} THEN {} ELSE {<<{"scope"}, caller.Scopes>>}
      front == IF caller.AuthType = "" THEN Pieces(req.path) \o Pieces(req.method)
               ELSE IF caller.TokenId # "" THEN Pieces(caller.TokenId) \o Pieces(req.path) \o Pieces(req.method)
               ELSE Pieces(caller.AuthType) \o Pieces(caller.Issuer) \o Pieces(caller.Subject) \o Pieces(caller.CredentialID)
                      \o << <<Names(caller.Audience)>> >> \o Pieces(req.path) \o Pieces(req.method)
      properties == IF caller.AuthType = "" \/ caller.TokenId # "" THEN {} ELSE PairsOf(caller.Properties) \union scope
  IN <<KeyNamespace(v), front, properties, PairsOf(extras.claims)>>

Values(f) == {f[n] : n \in DOMAIN f}

\* No text of the key holds a separator, and no property has the name under
\* which the scopes are written.
Plain(v, caller, req, extras) ==
  /\ (v.excluded \union caller.Audience) \intersect DOMAIN Listed = {}
  /\ \A text \in {req.path, req.method, caller.AuthType, caller.TokenId, caller.Issuer, caller.Subject, caller.CredentialID}
                 \union Values(caller.Properties) \union Values(extras.claims) : text \notin DOMAIN Severed
  /\ "scope" \notin DOMAIN caller.Properties

---------------------------------------------------------------------------
\* The cache of signed tokens, and the key they are signed with.

GetCached(k) == k \in DOMAIN signedCache /\ day < signedCache[k].until

TokenTtl(expiry) == IF expiry \div 2 < MinTokenTTL /\ MinTokenTTL < expiry THEN MinTokenTTL ELSE expiry \div 2

\* The PEM given inline or in a file, which is read once.
ExtractSigningKeyPEM(v) ==
  IF v.signingKey.inline # "" THEN v.signingKey.inline
  ELSE IF v.signingKey.path \in DOMAIN pemCache THEN pemCache[v.signingKey.path]
  ELSE IF v.signingKey.path \in DOMAIN KeyFiles THEN KeyFiles[v.signingKey.path] ELSE ""

ReadsFile(v) == v.signingKey.inline = "" /\ v.signingKey.path \in (DOMAIN KeyFiles) \ DOMAIN pemCache

\* A key is written "rsa1", its type with it.
CheckKeyType(v, key) == AlgKeyType(v.algorithm) = "none" \/ (key # "" /\ v.keyTypes[key] = AlgKeyType(v.algorithm))

---------------------------------------------------------------------------

\* A full cache gives up another entry (the least recently used one).
Put(cache, k, entry) ==
  LET holding(keys) == [x \in keys \union {k} |-> IF x = k THEN entry ELSE cache[x]]
  IN IF k \notin DOMAIN cache /\ Cardinality(DOMAIN cache) >= cacheSize
     THEN {holding((DOMAIN cache) \ {y}) : y \in DOMAIN cache}
     ELSE {holding(DOMAIN cache)}

BackendOnRequestHeaders(caller, req) ==
  LET v == Versions[deployed]
      extras == ResolveExtraClaims(v, caller, req)
      k == BuildTokenCacheKey(v, caller, req, extras)
      unsigned == AlgKeyType(v.algorithm) = "none"
      key == IF unsigned THEN "" ELSE ExtractSigningKeyPEM(v)
      token == [claims |-> BuildClaims(v, caller, extras), exp |-> day + v.tokenExpiry, alg |-> v.algorithm, key |-> key,
                plain |-> Plain(v, caller, req, extras)]
      said(status, t) == [status |-> status, caller |-> caller, req |-> req, token |-> t]
  IN /\ UNCHANGED <<day, deployed, cacheSize>>
     /\ IF AlgKeyType(v.algorithm) = ""
        THEN sentToken' = said(500, 0) /\ UNCHANGED <<signedCache, pemCache>>
        ELSE IF v.tokenCaching /\ GetCached(k)
        THEN sentToken' = said(200, signedCache[k].token) /\ UNCHANGED <<signedCache, pemCache>>
        ELSE /\ pemCache' = IF ~unsigned /\ ReadsFile(v) THEN (v.signingKey.path :> key) @@ pemCache ELSE pemCache
             /\ LET dropped == IF v.tokenCaching THEN [x \in (DOMAIN signedCache) \ {k} |-> signedCache[x]] ELSE signedCache
                IN IF ~CheckKeyType(v, key)
                   THEN sentToken' = said(500, 0) /\ signedCache' = dropped
                   ELSE /\ sentToken' = said(200, token)
                        /\ IF v.tokenCaching THEN signedCache' \in Put(dropped, k, [token |-> token, until |-> day + TokenTtl(v.tokenExpiry)])
                           ELSE UNCHANGED signedCache

\* GetPolicy with the parameters of the next version; another size is another,
\* empty cache.
Redeploy(n) ==
  /\ n \in DOMAIN Versions /\ n # deployed
  /\ deployed' = n
  /\ cacheSize' = Versions[n].cacheMaxSize
  /\ signedCache' = IF cacheSize' = cacheSize THEN signedCache ELSE [k \in {} |-> 0]
  /\ sentToken' = [status |-> 0]
  /\ UNCHANGED <<day, pemCache>>

BackendTick ==
  /\ day < MaxBackendTime
  /\ day' = day + 1
  /\ sentToken' = [status |-> 0]
  /\ UNCHANGED <<deployed, signedCache, cacheSize, pemCache>>

BackendNext ==
  \/ BackendTick
  \/ \E n \in DOMAIN Versions : Redeploy(n)
  \/ \E caller \in Callers, req \in Requests : BackendOnRequestHeaders(caller, req)

BackendSpec == BackendInit /\ [][BackendNext]_backendVars

---------------------------------------------------------------------------
\* The token a backend is sent is alive and says of the caller of THIS request
\* what the parameters in force say, under the key they name: a cached token
\* serves no other caller and no earlier deployment (buildTokenCacheKey).  What
\* it says is claimed where neither the request nor the one the token was signed
\* for holds a separator of the key: texts that do can make two keys one.
BackendTokenDue ==
  sentToken.status = 200 =>
    LET v == Versions[deployed]  t == sentToken.token
        extras == ResolveExtraClaims(v, sentToken.caller, sentToken.req)
    IN /\ day < t.exp /\ t.alg = v.algorithm
       /\ v.signingKey.inline # "" /\ v.algorithm # "NONE" => t.key = v.signingKey.inline
       /\ t.plain /\ Plain(v, sentToken.caller, sentToken.req, extras) => t.claims = BuildClaims(v, sentToken.caller, extras)

=============================================================================
