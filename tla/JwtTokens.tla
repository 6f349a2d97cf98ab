----------------------------- MODULE JwtTokens -----------------------------
(***************************************************************************)
(* jwt-auth, the part without state: which key managers may answer for a   *)
(* token, what its claims say and what a route demands of them.  A claim   *)
(* is its kind and its items; a string is items glued by a separator.      *)
(***************************************************************************)
EXTENDS Integers, Sequences, FiniteSets, SequencesExt, FiniteSetsExt

CONSTANTS KeyType,     \* key -> "RSA" or "EC"
          AlgFamily    \* supported algorithm -> type of its keys

Absent == [type |-> "none", sep |-> " ", items |-> <<>>]

Claim(claims, name) == IF name \in DOMAIN claims THEN claims[name] ELSE Absent

StringOf(v) == IF Len(v.items) = 1 THEN v.items[1] ELSE "json"

Items(v) == {v.items[i] : i \in DOMAIN v.items}

\* A map with the entries of another over its own.
Over(f, g) == [x \in DOMAIN f \union DOMAIN g |-> IF x \in DOMAIN f THEN f[x] ELSE g[x]]

Stored(cache, key, entry) == Over([k \in {key} |-> entry], cache)

---------------------------------------------------------------------------
\* What a token says.

\* A string is cut where the separator is; other separators glue its words.
Split(v, sep) == IF v.sep = sep THEN Items(v) \ {""} ELSE {StringOf(v)}

ParseAudience(v) ==
  CASE v.type = "string" -> {StringOf(v)} [] v.type = "array" -> Items(v) [] OTHER -> {}

ParseScopes(scope, scp) ==
  (IF scope.type = "string" THEN Split(scope, " ") ELSE {}) \union (IF scp.type = "array" THEN Items(scp) ELSE {})

ParseScopeClaim(v, separator) ==
  CASE v.type = "string" -> Split(v, IF separator = "" THEN " " ELSE separator)
    [] v.type = "array" -> Items(v) \ {""}
    [] OTHER -> {}

LegacyScopes(claims, km) == ParseScopes(Claim(claims, "scope"), Claim(claims, "scp"))

ResolveScopes(claims, km) ==
  IF km.scopeClaim # "" THEN ParseScopeClaim(Claim(claims, km.scopeClaim), km.separator) ELSE LegacyScopes(claims, km)

\* Another claim may stand for the subject, if it is there and not blank.
Subject(claims, userIdClaim) ==
  LET v == Claim(claims, userIdClaim)
  IN IF userIdClaim \notin {"", "sub"} /\ v.type # "none" /\ StringOf(v) \notin {"", "null"} THEN StringOf(v)
     ELSE IF Claim(claims, "sub").type = "string" THEN StringOf(Claim(claims, "sub")) ELSE ""

---------------------------------------------------------------------------
\* What a route demands.

StringArrayField(f) == [ok |-> f.ok, values |-> f.values \ {""}]

ResolveScopeConstraints(cfg) ==
  LET allOf == StringArrayField(cfg.scopes.allOf)  anyOf == StringArrayField(cfg.scopes.anyOf)
      empty == allOf.values = {} /\ anyOf.values = {}
  IN [ok |-> cfg.scopes.ok /\ allOf.ok /\ anyOf.ok, allOf |-> allOf.values,
      anyOf |-> IF empty THEN cfg.requiredScopes ELSE anyOf.values]

ParseClaimMatchers(ms) ==
  [ok |-> \A m \in ms : m.claim # "" /\ StringArrayField(m.values).ok /\ StringArrayField(m.values).values # {},
   matchers |-> {[claim |-> m.claim, values |-> StringArrayField(m.values).values, exact |-> FALSE] : m \in ms}]

\* requiredClaims: exactly this string.
ClaimConstraintsFromRequired(required) ==
  {[claim |-> c, values |-> {required[c]}, exact |-> TRUE] : c \in DOMAIN required}

ResolveClaimConstraints(cfg) ==
  LET allOf == ParseClaimMatchers(cfg.claims.allOf)  anyOf == ParseClaimMatchers(cfg.claims.anyOf)
      empty == allOf.matchers = {} /\ anyOf.matchers = {}
  IN [ok |-> cfg.claims.ok /\ allOf.ok /\ anyOf.ok, anyOf |-> anyOf.matchers,
      allOf |-> IF empty THEN ClaimConstraintsFromRequired(cfg.requiredClaims) ELSE allOf.matchers]

ClaimValuesAsStrings(v) ==
  CASE v.type = "none" -> {} [] v.type = "array" -> Items(v) \ {""} [] OTHER -> {StringOf(v)} \ {""}

ClaimMatcherMatches(m, claims) ==
  LET v == Claim(claims, m.claim)
  IN IF m.exact THEN v.type = "string" /\ StringOf(v) # "" /\ StringOf(v) \in m.values
     ELSE ClaimValuesAsStrings(v) \intersect m.values # {}

EvaluateScopeConstraints(sc, scopes) ==
  sc.allOf \subseteq scopes /\ (sc.anyOf # {} => sc.anyOf \intersect scopes # {})

EvaluateClaimConstraints(cc, claims) ==
  /\ \A m \in cc.allOf : ClaimMatcherMatches(m, claims)
  /\ cc.anyOf # {} => \E m \in cc.anyOf : ClaimMatcherMatches(m, claims)

---------------------------------------------------------------------------
\* Key managers.

\* An entry without name or keys, or whose certificates cannot be read, is
\* skipped; the last entry of a name counts.
ParseKeyManagers(list) ==
  LET usable == {i \in DOMAIN list : /\ list[i].name # "" /\ list[i].certsOk
                                     /\ list[i].local # "" \/ list[i].uri # ""}
  IN {list[i] : i \in {i \in usable : \A j \in usable : list[j].name = list[i].name => j <= i}}

\* The orders in which the key managers of a set may be tried: by rank, those
\* of one rank in any order, for a Go map has none.
Orders(kms, rank(_)) ==
  {s \in SetToSeqs(kms) : \A i, j \in DOMAIN s : i < j => rank(s[i]) <= rank(s[j])}

\* The route names issuers, by the key manager's name or by the issuer itself.
ByName(km, u, iss) == km.name = u /\ km.issuer \in {"", iss}

ByIssuer(km, u, iss) == iss = u /\ km.issuer = u

\* Those that may answer for a token; {} is an error.
ApplicableKeyManagers(kms, cfg, iss) ==
  LET named == {km \in kms : \E i \in DOMAIN cfg.issuers : ByName(km, cfg.issuers[i], iss) \/ ByIssuer(km, cfg.issuers[i], iss)}
      same == {km \in kms : km.issuer = iss}
      silent == {km \in kms : km.issuer = ""}
  IN IF cfg.issuers # <<>> THEN named
     ELSE IF iss = "" THEN (IF cfg.validateIssuer THEN {} ELSE kms)
     ELSE IF same # {} THEN same
     ELSE IF cfg.validateIssuer THEN silent ELSE kms

\* The orders they may be tried in.  Without issuers of the route only ONE of
\* the managers of the token's issuer is.
TrialOrders(kms, cfg, iss) ==
  LET able == ApplicableKeyManagers(kms, cfg, iss)
      rank(km) == Min({2 * i : i \in {i \in DOMAIN cfg.issuers : ByName(km, cfg.issuers[i], iss)}}
                      \union {2 * i + 1 : i \in {i \in DOMAIN cfg.issuers : ByIssuer(km, cfg.issuers[i], iss)}})
  IN IF cfg.issuers # <<>> THEN Orders(able, rank)
     ELSE IF iss # "" /\ \E km \in able : km.issuer = iss THEN {<<km>> : km \in able}
     ELSE Orders(able, LAMBDA km : 0)

\* fetchJWKS: a key without kid, of another type or with invalid numbers is
\* skipped; the last key of a kid counts.
UsableKeys(jwks) ==
  LET good == {i \in DOMAIN jwks : jwks[i].kid # "" /\ jwks[i].key \in DOMAIN KeyType}
      last(k) == Max({i \in good : jwks[i].kid = k})
  IN [k \in {jwks[i].kid : i \in good} |-> jwks[last(k)].key]

SignatureKeyFunc(alg, key) == alg \in DOMAIN AlgFamily /\ AlgFamily[alg] = KeyType[key]

\* ParseWithClaims: the signature, and the times once more.
Verifies(token, key, leeway, now) ==
  /\ SignatureKeyFunc(token.alg, key) /\ token.signedBy = key
  /\ token.exp >= 0 => now < token.exp + leeway
  /\ token.nbf >= 0 => now >= token.nbf - leeway

VerifiesWithSet(token, keys, leeway, now) ==
  IF token.kid # "" THEN token.kid \in DOMAIN keys /\ Verifies(token, keys[token.kid], leeway, now)
  ELSE \E k \in DOMAIN keys : Verifies(token, keys[k], leeway, now)

\* The scheme of the route, else the second word or the only one.
ExtractToken(words, scheme) ==
  IF scheme # "" THEN (IF Len(words) = 2 /\ words[1] = scheme THEN words[2] ELSE "")
  ELSE IF words = <<>> THEN "" ELSE IF Len(words) > 1 THEN words[2] ELSE words[1]

=============================================================================
