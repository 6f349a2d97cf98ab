---------------------------- MODULE AccessProofs ----------------------------
(***************************************************************************)
(* Proofs about the tokens the backend is sent, for any routes, versions,  *)
(* callers, requests and lifetimes: oauth2-token-exchange and backend-jwt; *)
(* and about those opaque-token-auth admits.                               *)
(***************************************************************************)
EXTENDS MCAccess, FiniteSetTheorems, SequenceTheorems, WellFoundedInduction, TLAPS

-----------------------------------------------------------------------------
\* What the digest omits is the same in versions it does not tell apart, and an
\* ID names one token.
DigestTells ==
  /\ \A m, n \in DOMAIN Versions :
       Versions[m].tokenCaching /\ Versions[n].tokenCaching /\ KeyNamespace(Versions[m]) = KeyNamespace(Versions[n]) =>
         /\ Versions[m].claimMappings = Versions[n].claimMappings
         /\ Versions[m].signingKey.inline = Versions[n].signingKey.inline
  /\ \A c, d \in Callers : c.TokenId = d.TokenId /\ c.TokenId # "" => c = d

Signed(k, caller, req, v) ==
  LET extras == ResolveExtraClaims(v, caller, req)  t == signedCache[k].token
  IN /\ v.tokenCaching
     /\ k = BuildTokenCacheKey(v, caller, req, extras)
     /\ t.claims = BuildClaims(v, caller, extras) /\ t.plain = Plain(v, caller, req, extras)
     /\ t.alg = v.algorithm
     /\ v.signingKey.inline # "" /\ v.algorithm # "NONE" => t.key = v.signingKey.inline
     /\ signedCache[k].until \in Int /\ t.exp \in Int /\ signedCache[k].until <= t.exp

EntryOK(k) == \E n \in DOMAIN Versions, caller \in Callers, req \in Requests : Signed(k, caller, req, Versions[n])

BackendInv ==
  /\ day \in Nat /\ deployed \in DOMAIN Versions
  /\ \A k \in DOMAIN signedCache : EntryOK(k)
  /\ BackendTokenDue


\* A text without separator is one piece.
LEMMA OnePiece ==
  ASSUME NEW text, text \notin DOMAIN Severed  PROVE Pieces(text) = << <<{text}>> >>
BY DEF Pieces

LEMMA OneName ==
  ASSUME NEW texts, texts \intersect DOMAIN Listed = {}  PROVE Names(texts) = texts
<1>1. {IF x \in DOMAIN Listed THEN Listed[x] ELSE {x} : x \in texts} = {{x} : x \in texts}
  OBVIOUS
<1>q. QED  BY <1>1 DEF Names

\* A function, as opposed to any value.
Total(f) == f = [n \in DOMAIN f |-> f[n]]

\* What plain texts make of the parts of a key.
Pairs(f) == {<<{p}, {f[p]}>> : p \in DOMAIN f}

\* No pair of s has a name of f.
Strange(s, f) == \A x \in s : \A n \in DOMAIN f : x[1] # {n}

ScopePair(x) == IF x.Scopes = {} THEN {} ELSE {<<{"scope"}, x.Scopes>>}

Row(x, r) ==
  IF x.AuthType = "" THEN << <<{r.path}>>, <<{r.method}>> >>
  ELSE IF x.TokenId # "" THEN << <<{x.TokenId}>>, <<{r.path}>>, <<{r.method}>> >>
  ELSE << <<{x.AuthType}>>, <<{x.Issuer}>>, <<{x.Subject}>>, <<{x.CredentialID}>>, <<x.Audience>>, <<{r.path}>>, <<{r.method}>> >>

Told(x) == IF x.AuthType = "" \/ x.TokenId # "" THEN {} ELSE Pairs(x.Properties) \union ScopePair(x)

\* A pair is one piece, which tells the name and the value.
LEMMA OnePair ==
  ASSUME NEW f, \A n \in DOMAIN f : f[n] \notin DOMAIN Severed
  PROVE  PairsOf(f) = Pairs(f)
<1>1. ASSUME NEW n \in DOMAIN f
      PROVE  {PairPieces(n, f[n])[i] : i \in DOMAIN PairPieces(n, f[n])} = {<<{n}, {f[n]}>>}
  <2>1. Pieces(f[n]) = << <<{f[n]}>> >>
    BY OnePiece
  <2>2. PairPieces(n, f[n]) = << <<{n}, {f[n]}>> >>
    BY <2>1 DEF PairPieces
  <2>q. QED  BY <2>2
<1>2. {{PairPieces(n, f[n])[i] : i \in DOMAIN PairPieces(n, f[n])} : n \in DOMAIN f} = {{<<{n}, {f[n]}>>} : n \in DOMAIN f}
  BY <1>1
<1>q. QED  BY <1>2 DEF PairsOf, Pairs

\* Pairs tell the function they are of, whatever scopes stand among them.
LEMMA PairsTell ==
  ASSUME NEW f, NEW g, NEW s, NEW t, Total(f), Total(g),
         Pairs(f) \union s = Pairs(g) \union t,
         Strange(s, f), Strange(s, g), Strange(t, f), Strange(t, g)
  PROVE  f = g /\ s = t
<1>1. \A n, m, x, y : <<{n}, {x}>> = <<{m}, {y}>> => n = m /\ x = y
  OBVIOUS
<1>2. \A n \in DOMAIN f \union DOMAIN g : \A x : <<{n}, {x}>> \notin s \union t
  <2>1. \A n, x : <<{n}, {x}>>[1] = {n}
    OBVIOUS
  <2>q. QED  BY <2>1 DEF Strange
<1>3. ASSUME NEW n \in DOMAIN f  PROVE n \in DOMAIN g /\ g[n] = f[n]
  <2>1. <<{n}, {f[n]}>> \in Pairs(g) \union t
    BY DEF Pairs
  <2>2. <<{n}, {f[n]}>> \notin t
    BY <1>2
  <2>3. PICK m \in DOMAIN g : <<{n}, {f[n]}>> = <<{m}, {g[m]}>>
    BY <2>1, <2>2 DEF Pairs
  <2>q. QED  BY <1>1, <2>3
<1>4. ASSUME NEW n \in DOMAIN g  PROVE n \in DOMAIN f
  <2>1. <<{n}, {g[n]}>> \in Pairs(f) \union s
    BY DEF Pairs
  <2>2. <<{n}, {g[n]}>> \notin s
    BY <1>2
  <2>3. PICK m \in DOMAIN f : <<{n}, {g[n]}>> = <<{m}, {f[m]}>>
    BY <2>1, <2>2 DEF Pairs
  <2>q. QED  BY <1>1, <2>3
<1>5. f = g
  BY <1>3, <1>4 DEF Total
<1>6. ASSUME NEW x  PROVE x \in s <=> x \in t
  <2>1. \A y \in Pairs(f) : y \notin s \union t
    BY <1>2 DEF Pairs
  <2>q. QED  BY <1>5, <2>1
<1>q. QED  BY <1>5, <1>6

\* Longer by one.
LEMMA Longer ==
  ASSUME NEW S, NEW s \in Seq(S), NEW t \in Seq(S), NEW b \in S,
         Len(t) = Len(s) + 1, \A i \in 1 .. Len(s) : t[i] = s[i], t[Len(s) + 1] = b
  PROVE  s \o <<b>> = t
<1>1. <<b>> \in Seq(S) /\ Len(<<b>>) = 1 /\ <<b>>[1] = b
  OBVIOUS
<1>2. Len(s \o <<b>>) = Len(s) + 1 /\ s \o <<b>> \in Seq(S)
  BY <1>1, ConcatProperties
<1>3. \A i \in 1 .. Len(s) + 1 : (s \o <<b>>)[i] = t[i]
  BY <1>1, ConcatProperties
<1>q. QED  BY <1>2, <1>3, SeqEqual

\* The parts of the key that stand in a row.
LEMMA InARow ==
  ASSUME NEW f
  PROVE  /\ <<f[1]>> \o <<f[2]>> = <<f[1], f[2]>>
         /\ <<f[1]>> \o <<f[2]>> \o <<f[3]>> = <<f[1], f[2], f[3]>>
         /\ <<f[1]>> \o <<f[2]>> \o <<f[3]>> \o <<f[4]>> \o <<f[5]>> \o <<f[6]>> \o <<f[7]>>
              = <<f[1], f[2], f[3], f[4], f[5], f[6], f[7]>>
<1> DEFINE S == {f[1], f[2], f[3], f[4], f[5], f[6], f[7]}
<1>1. <<f[1]>> \o <<f[2]>> = <<f[1], f[2]>>
  <2> DEFINE s == <<f[1]>>  t == <<f[1], f[2]>>
  <2>1. s \in Seq(S) /\ t \in Seq(S) /\ Len(s) = 1 /\ Len(t) = 2 /\ t[2] = f[2] /\ f[2] \in S
    OBVIOUS
  <2>2. \A i \in 1 .. 1 : t[i] = s[i]
    OBVIOUS
  <2> HIDE DEF s, t, S
  <2>3. \A i \in 1 .. Len(s) : t[i] = s[i]
    BY <2>1, <2>2
  <2>4. Len(t) = Len(s) + 1 /\ t[Len(s) + 1] = f[2]
    BY <2>1
  <2>5. s \o <<f[2]>> = t
    BY <2>1, <2>3, <2>4, Longer
  <2>q. QED  BY <2>5 DEF s, t
<1>2. <<f[1], f[2]>> \o <<f[3]>> = <<f[1], f[2], f[3]>>
  <2> DEFINE s == <<f[1], f[2]>>  t == <<f[1], f[2], f[3]>>
  <2>1. s \in Seq(S) /\ t \in Seq(S) /\ Len(s) = 2 /\ Len(t) = 3 /\ t[3] = f[3] /\ f[3] \in S
    OBVIOUS
  <2>2. \A i \in 1 .. 2 : t[i] = s[i]
    OBVIOUS
  <2> HIDE DEF s, t, S
  <2>3. \A i \in 1 .. Len(s) : t[i] = s[i]
    BY <2>1, <2>2
  <2>4. Len(t) = Len(s) + 1 /\ t[Len(s) + 1] = f[3]
    BY <2>1
  <2>5. s \o <<f[3]>> = t
    BY <2>1, <2>3, <2>4, Longer
  <2>q. QED  BY <2>5 DEF s, t
<1>3. <<f[1], f[2], f[3]>> \o <<f[4]>> = <<f[1], f[2], f[3], f[4]>>
  <2> DEFINE s == <<f[1], f[2], f[3]>>  t == <<f[1], f[2], f[3], f[4]>>
  <2>1. s \in Seq(S) /\ t \in Seq(S) /\ Len(s) = 3 /\ Len(t) = 4 /\ t[4] = f[4] /\ f[4] \in S
    OBVIOUS
  <2>2. \A i \in 1 .. 3 : t[i] = s[i]
    OBVIOUS
  <2> HIDE DEF s, t, S
  <2>3. \A i \in 1 .. Len(s) : t[i] = s[i]
    BY <2>1, <2>2
  <2>4. Len(t) = Len(s) + 1 /\ t[Len(s) + 1] = f[4]
    BY <2>1
  <2>5. s \o <<f[4]>> = t
    BY <2>1, <2>3, <2>4, Longer
  <2>q. QED  BY <2>5 DEF s, t
<1>4. <<f[1], f[2], f[3], f[4]>> \o <<f[5]>> = <<f[1], f[2], f[3], f[4], f[5]>>
  <2> DEFINE s == <<f[1], f[2], f[3], f[4]>>  t == <<f[1], f[2], f[3], f[4], f[5]>>
  <2>1. s \in Seq(S) /\ t \in Seq(S) /\ Len(s) = 4 /\ Len(t) = 5 /\ t[5] = f[5] /\ f[5] \in S
    OBVIOUS
  <2>2. \A i \in 1 .. 4 : t[i] = s[i]
    OBVIOUS
  <2> HIDE DEF s, t, S
  <2>3. \A i \in 1 .. Len(s) : t[i] = s[i]
    BY <2>1, <2>2
  <2>4. Len(t) = Len(s) + 1 /\ t[Len(s) + 1] = f[5]
    BY <2>1
  <2>5. s \o <<f[5]>> = t
    BY <2>1, <2>3, <2>4, Longer
  <2>q. QED  BY <2>5 DEF s, t
<1>5. <<f[1], f[2], f[3], f[4], f[5]>> \o <<f[6]>> = <<f[1], f[2], f[3], f[4], f[5], f[6]>>
  <2> DEFINE s == <<f[1], f[2], f[3], f[4], f[5]>>  t == <<f[1], f[2], f[3], f[4], f[5], f[6]>>
  <2>1. s \in Seq(S) /\ t \in Seq(S) /\ Len(s) = 5 /\ Len(t) = 6 /\ t[6] = f[6] /\ f[6] \in S
    OBVIOUS
  <2>2. \A i \in 1 .. 5 : t[i] = s[i]
    OBVIOUS
  <2> HIDE DEF s, t, S
  <2>3. \A i \in 1 .. Len(s) : t[i] = s[i]
    BY <2>1, <2>2
  <2>4. Len(t) = Len(s) + 1 /\ t[Len(s) + 1] = f[6]
    BY <2>1
  <2>5. s \o <<f[6]>> = t
    BY <2>1, <2>3, <2>4, Longer
  <2>q. QED  BY <2>5 DEF s, t
<1>6. <<f[1], f[2], f[3], f[4], f[5], f[6]>> \o <<f[7]>> = <<f[1], f[2], f[3], f[4], f[5], f[6], f[7]>>
  <2> DEFINE s == <<f[1], f[2], f[3], f[4], f[5], f[6]>>  t == <<f[1], f[2], f[3], f[4], f[5], f[6], f[7]>>
  <2>1. s \in Seq(S) /\ t \in Seq(S) /\ Len(s) = 6 /\ Len(t) = 7 /\ t[7] = f[7] /\ f[7] \in S
    OBVIOUS
  <2>2. \A i \in 1 .. 6 : t[i] = s[i]
    OBVIOUS
  <2> HIDE DEF s, t, S
  <2>3. \A i \in 1 .. Len(s) : t[i] = s[i]
    BY <2>1, <2>2
  <2>4. Len(t) = Len(s) + 1 /\ t[Len(s) + 1] = f[7]
    BY <2>1
  <2>5. s \o <<f[7]>> = t
    BY <2>1, <2>3, <2>4, Longer
  <2>q. QED  BY <2>5 DEF s, t
<1>q. QED  BY <1>1, <1>2, <1>3, <1>4, <1>5, <1>6, Zenon

PlainFor(n, c, r) == Plain(Versions[n], c, r, ResolveExtraClaims(Versions[n], c, r))

\* What the claims say of a caller.
Alike(c, d) ==
  /\ c.AuthType = d.AuthType /\ c.Subject = d.Subject /\ c.CredentialID = d.CredentialID
  /\ c.Audience = d.Audience /\ c.Scopes = d.Scopes /\ c.Properties = d.Properties

\* The key of a plain request tells all of its parts.
LEMMA PlainKey ==
  ASSUME NEW n \in DOMAIN Versions, NEW c \in Callers, NEW r \in Requests, PlainFor(n, c, r),
         NEW v, v = Versions[n], NEW extras, extras = ResolveExtraClaims(v, c, r), NEW key, key = BuildTokenCacheKey(v, c, r, extras)
  PROVE  /\ key[1] = <<v.api, v.issuer, v.algorithm, v.dialect, v.excluded>>
         /\ key[2] = Row(c, r) /\ key[3] = Told(c) /\ key[4] = Pairs(extras.claims)
<1>1. Plain(v, c, r, extras)
  BY DEF PlainFor
<1>2. /\ Names(v.excluded) = v.excluded /\ Names(c.Audience) = c.Audience
      /\ PairsOf(c.Properties) = Pairs(c.Properties) /\ PairsOf(extras.claims) = Pairs(extras.claims)
  <2>1. v.excluded \intersect DOMAIN Listed = {} /\ c.Audience \intersect DOMAIN Listed = {}
    BY <1>1 DEF Plain
  <2>2. /\ \A p \in DOMAIN c.Properties : c.Properties[p] \notin DOMAIN Severed
        /\ \A p \in DOMAIN extras.claims : extras.claims[p] \notin DOMAIN Severed
    BY <1>1 DEF Plain, Values
  <2>q. QED  BY <2>1, <2>2, OneName, OnePair
<1>3. /\ Pieces(r.path) = << <<{r.path}>> >> /\ Pieces(r.method) = << <<{r.method}>> >> /\ Pieces(c.TokenId) = << <<{c.TokenId}>> >>
      /\ Pieces(c.AuthType) = << <<{c.AuthType}>> >> /\ Pieces(c.Issuer) = << <<{c.Issuer}>> >>
      /\ Pieces(c.Subject) = << <<{c.Subject}>> >> /\ Pieces(c.CredentialID) = << <<{c.CredentialID}>> >>
  BY <1>1, OnePiece DEF Plain
<1>4. /\ key[1] = KeyNamespace(v) /\ key[4] = PairsOf(extras.claims)
      /\ key[3] = IF c.AuthType = "" \/ c.TokenId # "" THEN {}
                  ELSE PairsOf(c.Properties) \union ScopePair(c)
  BY DEF BuildTokenCacheKey, ScopePair
<1>5. key[1] = <<v.api, v.issuer, v.algorithm, v.dialect, v.excluded>>
  BY <1>2, <1>4 DEF KeyNamespace
<1>6. key[2] = IF c.AuthType = "" THEN << <<{r.path}>> >> \o << <<{r.method}>> >>
               ELSE IF c.TokenId # "" THEN << <<{c.TokenId}>> >> \o << <<{r.path}>> >> \o << <<{r.method}>> >>
               ELSE << <<{c.AuthType}>> >> \o << <<{c.Issuer}>> >> \o << <<{c.Subject}>> >> \o << <<{c.CredentialID}>> >>
                      \o << <<c.Audience>> >> \o << <<{r.path}>> >> \o << <<{r.method}>> >>
  BY <1>2, <1>3 DEF BuildTokenCacheKey
<1>7. key[2] = Row(c, r)
  <2>1. ASSUME NEW x1, NEW x2  PROVE <<x1>> \o <<x2>> = <<x1, x2>>
    <3> DEFINE f == <<x1, x2>>
    <3>1. f[1] = x1 /\ f[2] = x2
      OBVIOUS
    <3> HIDE DEF f
    <3>q. QED  BY <3>1, InARow, Zenon
  <2>2. ASSUME NEW x1, NEW x2, NEW x3  PROVE <<x1>> \o <<x2>> \o <<x3>> = <<x1, x2, x3>>
    <3> DEFINE f == <<x1, x2, x3>>
    <3>1. f[1] = x1 /\ f[2] = x2 /\ f[3] = x3
      OBVIOUS
    <3> HIDE DEF f
    <3>q. QED  BY <3>1, InARow, Zenon
  <2>3. << <<{c.AuthType}>> >> \o << <<{c.Issuer}>> >> \o << <<{c.Subject}>> >> \o << <<{c.CredentialID}>> >>
          \o << <<c.Audience>> >> \o << <<{r.path}>> >> \o << <<{r.method}>> >>
        = << <<{c.AuthType}>>, <<{c.Issuer}>>, <<{c.Subject}>>, <<{c.CredentialID}>>, <<c.Audience>>, <<{r.path}>>, <<{r.method}>> >>
    <3> DEFINE f == << <<{c.AuthType}>>, <<{c.Issuer}>>, <<{c.Subject}>>, <<{c.CredentialID}>>, <<c.Audience>>, <<{r.path}>>, <<{r.method}>> >>
    <3>1. /\ f[1] = <<{c.AuthType}>> /\ f[2] = <<{c.Issuer}>> /\ f[3] = <<{c.Subject}>> /\ f[4] = <<{c.CredentialID}>>
          /\ f[5] = <<c.Audience>> /\ f[6] = <<{r.path}>> /\ f[7] = <<{r.method}>>
      OBVIOUS
    <3> HIDE DEF f
    <3>2. <<f[1]>> \o <<f[2]>> \o <<f[3]>> \o <<f[4]>> \o <<f[5]>> \o <<f[6]>> \o <<f[7]>> = <<f[1], f[2], f[3], f[4], f[5], f[6], f[7]>>
      BY InARow, Zenon
    <3>q. QED  BY <3>1, <3>2, Zenon
  <2>q. QED  BY <1>6, <2>1, <2>2, <2>3, Zenon DEF Row
<1>8. key[3] = Told(c) /\ key[4] = Pairs(extras.claims)
  BY <1>2, <1>4 DEF Told
<1>q. QED  BY <1>5, <1>7, <1>8

\* Its parts tell the caller apart.
LEMMA RowTells ==
  ASSUME NEW c, NEW d, NEW r, NEW q, Row(c, r) = Row(d, q)
  PROVE  /\ c.AuthType = "" <=> d.AuthType = ""
         /\ c.AuthType # "" => (c.TokenId = "" <=> d.TokenId = "")
         /\ c.AuthType # "" /\ c.TokenId # "" => c.TokenId = d.TokenId
         /\ c.AuthType # "" /\ c.TokenId = "" =>
              c.AuthType = d.AuthType /\ c.Subject = d.Subject /\ c.CredentialID = d.CredentialID /\ c.Audience = d.Audience
<1>1. ASSUME NEW x, NEW y
      PROVE  Len(Row(x, y)) = IF x.AuthType = "" THEN 2 ELSE IF x.TokenId # "" THEN 3 ELSE 7
  BY DEF Row
<1>2. ASSUME NEW x, NEW y, x.AuthType # "", x.TokenId # ""
      PROVE  Row(x, y)[1][1] = {x.TokenId}
  BY <1>2 DEF Row
<1>3. ASSUME NEW x, NEW y, x.AuthType # "", x.TokenId = ""
      PROVE  /\ Row(x, y)[1][1] = {x.AuthType} /\ Row(x, y)[3][1] = {x.Subject}
             /\ Row(x, y)[4][1] = {x.CredentialID} /\ Row(x, y)[5][1] = x.Audience
  BY <1>3 DEF Row
<1>4. /\ c.AuthType = "" <=> d.AuthType = ""
      /\ c.AuthType # "" => (c.TokenId = "" <=> d.TokenId = "")
  <2>1. Len(Row(c, r)) = IF c.AuthType = "" THEN 2 ELSE IF c.TokenId # "" THEN 3 ELSE 7
    BY <1>1, Zenon
  <2>2. Len(Row(d, q)) = IF d.AuthType = "" THEN 2 ELSE IF d.TokenId # "" THEN 3 ELSE 7
    BY <1>1, Zenon
  <2>3. (IF c.AuthType = "" THEN 2 ELSE IF c.TokenId # "" THEN 3 ELSE 7) = IF d.AuthType = "" THEN 2 ELSE IF d.TokenId # "" THEN 3 ELSE 7
    BY <2>1, <2>2, Zenon
  <2>4. 2 # 3 /\ 2 # 7 /\ 3 # 7
    OBVIOUS
  <2>q. QED  BY <2>3, <2>4, Zenon
<1>5. ASSUME c.AuthType # "", c.TokenId # ""  PROVE c.TokenId = d.TokenId
  <2>1. Row(c, r)[1][1] = {c.TokenId}
    BY <1>2, <1>5, Zenon
  <2>2. Row(d, q)[1][1] = {d.TokenId}
    BY <1>2, <1>4, <1>5, Zenon
  <2>3. {c.TokenId} = {d.TokenId}
    BY <2>1, <2>2, Zenon
  <2>q. QED  BY <2>3
<1>6. ASSUME c.AuthType # "", c.TokenId = ""
      PROVE  c.AuthType = d.AuthType /\ c.Subject = d.Subject /\ c.CredentialID = d.CredentialID /\ c.Audience = d.Audience
  <2>1. /\ Row(c, r)[1][1] = {c.AuthType} /\ Row(c, r)[3][1] = {c.Subject}
        /\ Row(c, r)[4][1] = {c.CredentialID} /\ Row(c, r)[5][1] = c.Audience
    BY <1>3, <1>6, Zenon
  <2>2. /\ Row(d, q)[1][1] = {d.AuthType} /\ Row(d, q)[3][1] = {d.Subject}
        /\ Row(d, q)[4][1] = {d.CredentialID} /\ Row(d, q)[5][1] = d.Audience
    BY <1>3, <1>4, <1>6, Zenon
  <2>3. {c.AuthType} = {d.AuthType} /\ {c.Subject} = {d.Subject} /\ {c.CredentialID} = {d.CredentialID} /\ c.Audience = d.Audience
    BY <2>1, <2>2, Zenon
  <2>q. QED  BY <2>3
<1>q. QED  BY <1>4, <1>5, <1>6

\* Plain requests with one cache key are of callers who are alike, and carry the
\* same claims.
LEMMA SamePlainKey ==
  ASSUME DigestTells, NEW m \in DOMAIN Versions, NEW n \in DOMAIN Versions,
         NEW c \in Callers, NEW d \in Callers, NEW req \in Requests, NEW ask \in Requests, PlainFor(m, c, req), PlainFor(n, d, ask),
         BuildTokenCacheKey(Versions[m], c, req, ResolveExtraClaims(Versions[m], c, req))
           = BuildTokenCacheKey(Versions[n], d, ask, ResolveExtraClaims(Versions[n], d, ask))
  PROVE  /\ Versions[m].excluded = Versions[n].excluded
         /\ Alike(c, d)
         /\ ResolveExtraClaims(Versions[m], c, req).claims = ResolveExtraClaims(Versions[n], d, ask).claims
<1>1. PICK v, w : v = Versions[m] /\ w = Versions[n]
  OBVIOUS
<1>2. PICK mine, yours : mine = ResolveExtraClaims(v, c, req) /\ yours = ResolveExtraClaims(w, d, ask)
  OBVIOUS
<1>3. PICK key : key = BuildTokenCacheKey(v, c, req, mine) /\ key = BuildTokenCacheKey(w, d, ask, yours)
  BY <1>1, <1>2
<1>4. key[1] = <<v.api, v.issuer, v.algorithm, v.dialect, v.excluded>> /\ key[2] = Row(c, req) /\ key[3] = Told(c) /\ key[4] = Pairs(mine.claims)
  BY <1>1, <1>2, <1>3, PlainKey
<1>5. key[1] = <<w.api, w.issuer, w.algorithm, w.dialect, w.excluded>> /\ key[2] = Row(d, ask) /\ key[3] = Told(d) /\ key[4] = Pairs(yours.claims)
  BY <1>1, <1>2, <1>3, PlainKey
<1>6. mine.claims = yours.claims
  <2>1. PICK f, g : f = mine.claims /\ g = yours.claims
    OBVIOUS
  <2>2. Total(f) /\ Total(g)
    BY <1>2, <2>1 DEF ResolveExtraClaims, @@, Total
  <2>3. PICK none : none = {}
    OBVIOUS
  <2>4. Pairs(f) \union none = Pairs(g) \union none
    BY <1>4, <1>5, <2>1
  <2>5. Strange(none, f) /\ Strange(none, g)
    BY <2>3 DEF Strange
  <2>q. QED  BY <2>1, <2>2, <2>4, <2>5, PairsTell
<1>7. Row(c, req) = Row(d, ask)
  BY <1>4, <1>5
<1>8. Alike(c, d)
  <2>1. CASE c.AuthType = ""
    <3>1. d.AuthType = ""
      BY <1>7, RowTells, <2>1
    <3>q. QED  BY <2>1, <3>1, BackendAssumption DEF BackendAssumption, Alike
  <2>2. CASE c.AuthType # "" /\ c.TokenId # ""
    <3>1. d.AuthType # "" /\ d.TokenId # "" /\ c.TokenId = d.TokenId
      BY <1>7, RowTells, <2>2
    <3>q. QED  BY <2>2, <3>1 DEF DigestTells, Alike
  <2>3. CASE c.AuthType # "" /\ c.TokenId = ""
    <3>1. d.AuthType # "" /\ d.TokenId = ""
      BY <1>7, RowTells, <2>3
    <3>2. c.AuthType = d.AuthType /\ c.Subject = d.Subject /\ c.CredentialID = d.CredentialID /\ c.Audience = d.Audience
      BY <1>7, RowTells, <2>3, <3>1
    <3>3. Pairs(c.Properties) \union ScopePair(c) = Pairs(d.Properties) \union ScopePair(d)
      BY <1>4, <1>5, <2>3, <3>1 DEF Told
    <3>4. Total(c.Properties) /\ Total(d.Properties)
      BY BackendAssumption DEF BackendAssumption, Total
    <3>5. /\ Strange(ScopePair(c), c.Properties) /\ Strange(ScopePair(c), d.Properties)
          /\ Strange(ScopePair(d), c.Properties) /\ Strange(ScopePair(d), d.Properties)
      <4>1. "scope" \notin DOMAIN c.Properties /\ "scope" \notin DOMAIN d.Properties
        BY DEF PlainFor, Plain
      <4>2. (\A x \in ScopePair(c) : x[1] = {"scope"}) /\ (\A x \in ScopePair(d) : x[1] = {"scope"})
        BY DEF ScopePair
      <4>q. QED  BY <4>1, <4>2 DEF Strange
    <3>6. c.Properties = d.Properties /\ ScopePair(c) = ScopePair(d)
      <4>1. PICK f, g : f = c.Properties /\ g = d.Properties
        OBVIOUS
      <4>2. PICK s, t : s = ScopePair(c) /\ t = ScopePair(d)
        OBVIOUS
      <4>3. Total(f) /\ Total(g) /\ Pairs(f) \union s = Pairs(g) \union t
        BY <3>3, <3>4, <4>1, <4>2
      <4>4. Strange(s, f) /\ Strange(s, g) /\ Strange(t, f) /\ Strange(t, g)
        BY <3>5, <4>1, <4>2
      <4>q. QED  BY <4>1, <4>2, <4>3, <4>4, PairsTell
    <3>7. c.Scopes = d.Scopes
      <4>1. CASE c.Scopes = {} \/ d.Scopes = {}
        BY <3>6, <4>1 DEF ScopePair
      <4>2. CASE c.Scopes # {} /\ d.Scopes # {}
        <5>1. <<{"scope"}, c.Scopes>> = <<{"scope"}, d.Scopes>>
          BY <3>6, <4>2 DEF ScopePair
        <5>q. QED  BY <5>1
      <4>q. QED  BY <4>1, <4>2
    <3>q. QED  BY <3>2, <3>6, <3>7 DEF Alike
  <2>q. QED  BY <2>1, <2>2, <2>3
<1>9. v.excluded = w.excluded
  BY <1>4, <1>5
<1>q. QED  BY <1>1, <1>2, <1>6, <1>8, <1>9

\* Requests with one cache key are signed for alike, and plain ones are told the
\* same.
LEMMA SameKey ==
  ASSUME DigestTells, NEW m \in DOMAIN Versions, NEW n \in DOMAIN Versions, Versions[m].tokenCaching, Versions[n].tokenCaching,
         NEW c \in Callers, NEW d \in Callers, NEW req \in Requests, NEW ask \in Requests,
         BuildTokenCacheKey(Versions[m], c, req, ResolveExtraClaims(Versions[m], c, req))
           = BuildTokenCacheKey(Versions[n], d, ask, ResolveExtraClaims(Versions[n], d, ask))
  PROVE  /\ Versions[m].algorithm = Versions[n].algorithm
         /\ Versions[m].signingKey.inline = Versions[n].signingKey.inline
         /\ PlainFor(m, c, req) /\ PlainFor(n, d, ask) =>
              BuildClaims(Versions[m], c, ResolveExtraClaims(Versions[m], c, req))
                = BuildClaims(Versions[n], d, ResolveExtraClaims(Versions[n], d, ask))
<1> DEFINE v == Versions[m]  w == Versions[n]
<1>1. KeyNamespace(v) = KeyNamespace(w)
  BY DEF BuildTokenCacheKey
<1>2. v.issuer = w.issuer /\ v.algorithm = w.algorithm /\ v.dialect = w.dialect
  BY <1>1 DEF KeyNamespace
<1>3. v.claimMappings = w.claimMappings /\ v.signingKey.inline = w.signingKey.inline
  BY <1>1 DEF DigestTells
<1>4. ASSUME PlainFor(m, c, req), PlainFor(n, d, ask)
      PROVE  BuildClaims(v, c, ResolveExtraClaims(v, c, req)) = BuildClaims(w, d, ResolveExtraClaims(w, d, ask))
  <2>1. v.excluded = w.excluded /\ Alike(c, d) /\ ResolveExtraClaims(v, c, req).claims = ResolveExtraClaims(w, d, ask).claims
    BY <1>4, SamePlainKey
  <2>2. c.Properties = d.Properties /\ c.AuthType = d.AuthType
    BY <2>1 DEF Alike
  <2>3. ResolveExtraClaims(v, c, req).mappedSources = ResolveExtraClaims(w, d, ask).mappedSources
    BY <1>3, <2>2 DEF ResolveExtraClaims, ApplyClaimMappings
  <2>4. ASSUME NEW e, NEW f, e.claims = f.claims, e.mappedSources = f.mappedSources
        PROVE  BuildClaims(v, c, e) = BuildClaims(w, d, f)
    <3> DEFINE kept(x, y, g) == {k \in DOMAIN y.Properties : k \notin RestrictedClaims \union x.excluded \union g.mappedSources}
               jwt(x, y, g) == [k \in IF y.AuthType = "jwt" THEN kept(x, y, g) ELSE {} |-> y.Properties[k]]
    <3>1. kept(v, c, e) = kept(w, d, f)
      BY <2>1, <2>2, <2>4
    <3>2. jwt(v, c, e) = jwt(w, d, f)
      BY <2>2, <3>1, Zenon
    <3>3. Named(v.dialect, jwt(v, c, e)) = Named(w.dialect, jwt(w, d, f)) /\ Named(v.dialect, e.claims) = Named(w.dialect, f.claims)
      BY <1>2, <2>4, <3>2, Zenon
    <3> DEFINE scope(y) == IF y.AuthType = "jwt" /\ y.Scopes # {} THEN <<"", "scope">> :> y.Scopes ELSE NoClaims
               aud(y) == IF y.Audience # {} THEN <<"", "aud">> :> y.Audience ELSE NoClaims
               iss(x) == IF x.issuer = "" THEN NoClaims ELSE <<"", "iss">> :> x.issuer
               sub(y) == IF y.Subject = "" THEN NoClaims ELSE <<"", "sub">> :> y.Subject
               type(y) == IF y.AuthType = "" THEN NoClaims ELSE <<"", "auth_type">> :> y.AuthType
               id(y) == IF y.CredentialID = "" THEN NoClaims ELSE <<"", "credential_id">> :> y.CredentialID
    <3>4. scope(c) = scope(d) /\ aud(c) = aud(d) /\ iss(v) = iss(w) /\ sub(c) = sub(d) /\ type(c) = type(d) /\ id(c) = id(d)
      BY <1>2, <2>1, Zenon DEF Alike
    <3>5. ASSUME NEW x, NEW y, NEW g
          PROVE  BuildClaims(x, y, g) = Named(x.dialect, g.claims) @@ scope(y) @@ Named(x.dialect, jwt(x, y, g)) @@ aud(y)
                                          @@ iss(x) @@ sub(y) @@ type(y) @@ id(y)
      BY Zenon DEF BuildClaims
    <3> HIDE DEF jwt, scope, aud, iss, sub, type, id
    <3>q. QED  BY <3>3, <3>4, <3>5, Zenon
  <2>q. QED  BY <2>1, <2>3, <2>4
<1>q. QED  BY <1>2, <1>3, <1>4

\* An entry that stays what it is stays in order.
LEMMA EntryKept ==
  ASSUME NEW k, EntryOK(k), signedCache'[k] = signedCache[k]
  PROVE  EntryOK(k)'
BY DEF EntryOK, Signed

\* A token is kept no longer than it lives.
LEMMA TtlWithinExpiry ==
  ASSUME NEW expiry \in Nat \ {0}
  PROVE  TokenTtl(expiry) \in Nat /\ TokenTtl(expiry) <= expiry
<1>1. expiry \div 2 \in Nat /\ expiry \div 2 <= expiry
  OBVIOUS
<1>2. MinTokenTTL \in Nat
  BY BackendAssumption DEF BackendAssumption
<1>q. QED  BY <1>1, <1>2 DEF TokenTtl

\* What a request is told, and what it leaves in the cache.
KeyOf(n, c, r) == BuildTokenCacheKey(Versions[n], c, r, ResolveExtraClaims(Versions[n], c, r))

ClaimsOf(n, c, r) == BuildClaims(Versions[n], c, ResolveExtraClaims(Versions[n], c, r))

NewToken(n, c, r, key) == [claims |-> ClaimsOf(n, c, r), exp |-> day + Versions[n].tokenExpiry, alg |-> Versions[n].algorithm, key |-> key,
                         plain |-> PlainFor(n, c, r)]

Says(c, r, status, t) == sentToken' = [status |-> status, caller |-> c, req |-> r, token |-> t]

NoneNew == \A x \in DOMAIN signedCache' : x \in DOMAIN signedCache /\ signedCache'[x] = signedCache[x]

OneNew(k, entry) ==
  \A x \in DOMAIN signedCache' :
    IF x = k THEN signedCache'[x] = entry ELSE x \in DOMAIN signedCache /\ signedCache'[x] = signedCache[x]

Hits(n, c, r) ==
  LET k == KeyOf(n, c, r)
  IN /\ Versions[n].tokenCaching /\ k \in DOMAIN signedCache /\ day < signedCache[k].until
     /\ Says(c, r, 200, signedCache[k].token)
     /\ NoneNew

Signs(n, c, r, key) ==
  /\ Versions[n].signingKey.inline # "" /\ Versions[n].algorithm # "NONE" => key = Versions[n].signingKey.inline
  /\ Says(c, r, 200, NewToken(n, c, r, key))
  /\ \/ NoneNew
     \/ /\ Versions[n].tokenCaching
        /\ OneNew(KeyOf(n, c, r), [token |-> NewToken(n, c, r, key), until |-> day + TokenTtl(Versions[n].tokenExpiry)])

LEMMA ServeCases ==
  ASSUME NEW n, n = deployed, NEW c \in Callers, NEW r \in Requests, BackendOnRequestHeaders(c, r)
  PROVE  \/ Says(c, r, 500, 0) /\ NoneNew
         \/ Hits(n, c, r)
         \/ \E key : Signs(n, c, r, key)
<1> DEFINE v == Versions[n]
           k == KeyOf(n, c, r)
           key == IF AlgKeyType(v.algorithm) = "none" THEN "" ELSE ExtractSigningKeyPEM(v)
           entry == [token |-> NewToken(n, c, r, key), until |-> day + TokenTtl(v.tokenExpiry)]
           without == [x \in (DOMAIN signedCache) \ {k} |-> signedCache[x]]
<1>1. signedCache' = signedCache \/ signedCache' = without => NoneNew
  BY DEF NoneNew
<1>2. CASE AlgKeyType(v.algorithm) = ""
  BY <1>1, <1>2, Zenon DEF BackendOnRequestHeaders, Says
<1>3. CASE AlgKeyType(v.algorithm) # "" /\ v.tokenCaching /\ GetCached(k)
  <2>1. k \in DOMAIN signedCache /\ day < signedCache[k].until
    BY <1>3 DEF GetCached
  <2>2. Says(c, r, 200, signedCache[k].token) /\ signedCache' = signedCache
    BY <1>3, Zenon DEF BackendOnRequestHeaders, Says, KeyOf
  <2>q. QED  BY <1>1, <1>3, <2>1, <2>2, Zenon DEF Hits
<1>4. CASE AlgKeyType(v.algorithm) # "" /\ ~(v.tokenCaching /\ GetCached(k)) /\ ~CheckKeyType(v, key)
  <2>1. Says(c, r, 500, 0) /\ (signedCache' = signedCache \/ signedCache' = without)
    BY <1>4, Zenon DEF BackendOnRequestHeaders, Says, KeyOf
  <2>q. QED  BY <1>1, <2>1, Zenon
<1>5. CASE AlgKeyType(v.algorithm) # "" /\ ~(v.tokenCaching /\ GetCached(k)) /\ CheckKeyType(v, key)
  <2>1. /\ Says(c, r, 200, NewToken(n, c, r, key))
        /\ IF v.tokenCaching THEN signedCache' \in Put(without, k, entry) ELSE signedCache' = signedCache
    BY <1>5, Zenon DEF BackendOnRequestHeaders, Says, KeyOf, NewToken, ClaimsOf, PlainFor
  <2>2. v.signingKey.inline # "" /\ v.algorithm # "NONE" => key = v.signingKey.inline
    <3>1. v.algorithm # "NONE" => AlgKeyType(v.algorithm) # "none"
      BY DEF AlgKeyType
    <3>q. QED  BY <3>1 DEF ExtractSigningKeyPEM
  <2>3. ASSUME signedCache' \in Put(without, k, entry)  PROVE OneNew(k, entry)
    <3>1. PICK keys \in SUBSET DOMAIN without : signedCache' = [x \in keys \union {k} |-> IF x = k THEN entry ELSE without[x]]
      BY <2>3, Zenon DEF Put
    <3>2. \A x \in keys : x \in DOMAIN signedCache /\ without[x] = signedCache[x]
      OBVIOUS
    <3> HIDE DEF without, entry, k
    <3>q. QED  BY <3>1, <3>2 DEF OneNew
  <2>q. QED  BY <1>1, <2>1, <2>2, <2>3, Zenon DEF Signs
<1>q. QED  BY <1>2, <1>3, <1>4, <1>5, Zenon

\* What BackendTokenDue asks of a token.
DueFor(n, c, r, t) ==
  /\ day < t.exp /\ t.alg = Versions[n].algorithm
  /\ Versions[n].signingKey.inline # "" /\ Versions[n].algorithm # "NONE" => t.key = Versions[n].signingKey.inline
  /\ t.plain /\ PlainFor(n, c, r) => t.claims = ClaimsOf(n, c, r)

LEMMA SaidDue ==
  ASSUME NEW n, n = deployed', NEW c, NEW r, NEW t, Says(c, r, 200, t), DueFor(n, c, r, t), day' = day
  PROVE  BackendTokenDue'
<1>1. sentToken'.token = t /\ sentToken'.caller = c /\ sentToken'.req = r
  BY DEF Says
<1>q. QED  BY <1>1, Zenon DEF BackendTokenDue, DueFor, ClaimsOf, PlainFor

\* A request keeps the cache in order and is sent a token that is due.
LEMMA ServeStep ==
  ASSUME DigestTells, BackendInv, NEW c \in Callers, NEW r \in Requests, BackendOnRequestHeaders(c, r)
  PROVE  BackendInv'
<1>1. PICK n \in DOMAIN Versions : n = deployed
  BY DEF BackendInv
<1> DEFINE v == Versions[n]  k == KeyOf(n, c, r)
<1>2. UNCHANGED <<day, deployed>>
  BY DEF BackendOnRequestHeaders
<1>3. /\ day \in Nat /\ v.tokenExpiry \in Nat \ {0}
      /\ TokenTtl(v.tokenExpiry) \in Nat /\ TokenTtl(v.tokenExpiry) <= v.tokenExpiry
  BY BackendAssumption, TtlWithinExpiry DEF BackendAssumption, BackendInv
<1>4. SUFFICES BackendTokenDue' /\ \A x \in DOMAIN signedCache' : EntryOK(x)'
  BY <1>1, <1>2, <1>3 DEF BackendInv
<1>5. NoneNew => \A x \in DOMAIN signedCache' : EntryOK(x)'
  BY EntryKept DEF BackendInv, NoneNew
<1>6. CASE Says(c, r, 500, 0) /\ NoneNew
  <2>1. sentToken'.status # 200
    BY <1>6 DEF Says
  <2>q. QED  BY <1>5, <1>6, <2>1, Zenon DEF BackendTokenDue
<1>7. CASE Hits(n, c, r)
  <2>1. v.tokenCaching /\ k \in DOMAIN signedCache /\ day < signedCache[k].until /\ Says(c, r, 200, signedCache[k].token) /\ NoneNew
    BY <1>7, Zenon DEF Hits
  <2>2. PICK m \in DOMAIN Versions, d \in Callers, q \in Requests : Signed(k, d, q, Versions[m])
    BY <2>1 DEF BackendInv, EntryOK
  <2>3. PICK t, u : t = signedCache[k].token /\ u = signedCache[k].until
    OBVIOUS
  <2>4. /\ Versions[m].tokenCaching /\ k = KeyOf(m, d, q) /\ t.claims = ClaimsOf(m, d, q) /\ t.plain = PlainFor(m, d, q)
        /\ t.alg = Versions[m].algorithm
        /\ Versions[m].signingKey.inline # "" /\ Versions[m].algorithm # "NONE" => t.key = Versions[m].signingKey.inline
        /\ u \in Int /\ t.exp \in Int /\ u <= t.exp
    BY <2>2, <2>3, Zenon DEF Signed, KeyOf, ClaimsOf, PlainFor
  <2>5. /\ Versions[m].algorithm = v.algorithm /\ Versions[m].signingKey.inline = v.signingKey.inline
        /\ PlainFor(m, d, q) /\ PlainFor(n, c, r) => ClaimsOf(m, d, q) = ClaimsOf(n, c, r)
    <3>1. Versions[m].tokenCaching /\ v.tokenCaching /\ KeyOf(m, d, q) = KeyOf(n, c, r)
      BY <2>1, <2>4, Zenon
    <3>q. QED  BY <3>1, SameKey DEF KeyOf, ClaimsOf
  <2>6. day < t.exp
    <3>1. day < u
      BY <2>1, <2>3, Zenon
    <3>2. u \in Int /\ t.exp \in Int /\ u <= t.exp
      BY <2>4, Zenon
    <3>q. QED  BY <1>3, <3>1, <3>2
  <2>7. DueFor(n, c, r, t)
    BY <2>4, <2>5, <2>6, Zenon DEF DueFor
  <2>8. BackendTokenDue'
    BY <1>1, <1>2, <2>1, <2>3, <2>7, SaidDue
  <2>q. QED  BY <1>5, <2>1, <2>8
<1>8. ASSUME NEW key, Signs(n, c, r, key)
      PROVE  BackendTokenDue' /\ \A x \in DOMAIN signedCache' : EntryOK(x)'
  <2>1. PICK t, u : t = NewToken(n, c, r, key) /\ u = day + TokenTtl(v.tokenExpiry)
    OBVIOUS
  <2>2. /\ v.signingKey.inline # "" /\ v.algorithm # "NONE" => key = v.signingKey.inline
        /\ Says(c, r, 200, t)
        /\ NoneNew \/ (v.tokenCaching /\ OneNew(k, [token |-> t, until |-> u]))
    BY <1>8, <2>1, Zenon DEF Signs
  <2>3. t.claims = ClaimsOf(n, c, r) /\ t.plain = PlainFor(n, c, r) /\ t.exp = day + v.tokenExpiry /\ t.alg = v.algorithm /\ t.key = key
    BY <2>1 DEF NewToken
  <2>4. day < t.exp /\ t.exp \in Int /\ u \in Int /\ u <= t.exp
    BY <1>3, <2>1, <2>3
  <2>5. DueFor(n, c, r, t)
    BY <2>2, <2>3, <2>4, Zenon DEF DueFor
  <2>6. BackendTokenDue'
    BY <1>1, <1>2, <2>2, <2>5, SaidDue
  <2>7. ASSUME v.tokenCaching, OneNew(k, [token |-> t, until |-> u]), NEW x \in DOMAIN signedCache'  PROVE EntryOK(x)'
    <3>1. CASE x = k
      <4>1. signedCache'[k] = [token |-> t, until |-> u]
        BY <2>7, <3>1 DEF OneNew
      <4>2. signedCache'[k].token = t /\ signedCache'[k].until = u
        BY <4>1
      <4>3. Signed(k, c, r, v)'
        BY <2>2, <2>3, <2>4, <2>7, <4>2, Zenon DEF Signed, KeyOf, ClaimsOf, PlainFor
      <4>q. QED  BY <3>1, <4>3 DEF EntryOK
    <3>2. CASE x # k
      BY <2>7, <3>2, EntryKept DEF BackendInv, OneNew
    <3>q. QED  BY <3>1, <3>2
  <2>q. QED  BY <1>5, <2>2, <2>6, <2>7
<1>q. QED  BY <1>1, <1>6, <1>7, <1>8, ServeCases

\* The steps of backend-jwt.
LEMMA BackendStep == ASSUME DigestTells, BackendInv, [BackendNext]_backendVars  PROVE BackendInv'
<1>1. CASE UNCHANGED backendVars
  <2>1. UNCHANGED <<day, deployed, signedCache, sentToken>>
    BY <1>1 DEF backendVars
  <2>2. \A k \in DOMAIN signedCache' : EntryOK(k)'
    BY <2>1, EntryKept DEF BackendInv
  <2>q. QED  BY <2>1, <2>2, Zenon DEF BackendInv, BackendTokenDue
<1>2. CASE BackendTick
  <2>1. day' \in Nat /\ deployed' \in DOMAIN Versions /\ signedCache' = signedCache /\ sentToken'.status # 200
    BY <1>2 DEF BackendTick, BackendInv
  <2>2. \A k \in DOMAIN signedCache' : EntryOK(k)'
    BY <2>1, EntryKept DEF BackendInv
  <2>q. QED  BY <2>1, <2>2, Zenon DEF BackendInv, BackendTokenDue
<1>3. CASE \E n \in DOMAIN Versions : Redeploy(n)
  <2>1. day' \in Nat /\ deployed' \in DOMAIN Versions /\ sentToken'.status # 200
    BY <1>3 DEF Redeploy, BackendInv
  <2>2. signedCache' = signedCache \/ DOMAIN signedCache' = {}
    BY <1>3 DEF Redeploy
  <2>3. \A k \in DOMAIN signedCache' : EntryOK(k)'
    BY <2>2, EntryKept DEF BackendInv
  <2>q. QED  BY <2>1, <2>3, Zenon DEF BackendInv, BackendTokenDue
<1>q. QED  BY <1>1, <1>2, <1>3, ServeStep DEF BackendNext

LEMMA BackendStart == BackendInit => BackendInv
<1> SUFFICES ASSUME BackendInit  PROVE BackendInv
  OBVIOUS
<1>1. day \in Nat /\ deployed \in DOMAIN Versions /\ DOMAIN signedCache = {} /\ sentToken.status # 200
  <2>1. day = 0 /\ deployed = 1 /\ sentToken.status = 0 /\ DOMAIN signedCache = {}
    BY DEF BackendInit
  <2>2. 1 \in DOMAIN Versions
    BY BackendAssumption DEF BackendAssumption
  <2>q. QED  BY <2>1, <2>2
<1>q. QED  BY <1>1, Zenon DEF BackendInv, BackendTokenDue

-----------------------------------------------------------------------------
(* oauth2-token-exchange *)

Fields == {"phase", "route", "msg", "dropped", "body", "outcome", "hash", "outHash", "selfRemoved", "sent",
           "reply", "lifetime", "status", "subject", "wrote", "edits", "taken"}

WellFormed(q) == DOMAIN q = Fields /\ DOMAIN q.msg = {"header", "cookie", "query"}

Route(q) == ExchangeRoutes[q.route]

Held(q) == ExtractSubjectToken(q.msg, Route(q))

Answers == UNION {Lifetimes[c] : c \in DOMAIN ExchangeRoutes}

\* A token the endpoint issued for subject, on what the route asks.
IssuedFor(token, subject, p) == token = <<subject, Form(p), token[3], token[4]>> /\ token[3] \in Nat

\* At hour h, but for the time its answer was on its way.
AliveAt(token, h) == token[4] = "kept" => h < token[3] + ExchangeTimeout

\* The output header is where the subject token is looked for, and still holds
\* the token the header phase put there.
Overwritten(q) ==
  HeaderPhaseSucceeded(q) /\ SubjectSourceIsOutputHeader(Route(q)) /\ OutputHeaderIntact(q, Route(q))

\* Between the phases: whatever was edited, the request is of the token it
\* carries or, when it carries none, of the one the header phase took.
WaitsOK(q, p) ==
  /\ ~Overwritten(q) => Held(q) \in {<<>>, q.subject}
  /\ HeaderPhaseSucceeded(q) =>
       /\ q.outHash = <<p.headerPrefix, q.outHash[2]>> /\ IssuedFor(q.outHash[2], q.hash, p)
       /\ AliveAt(q.outHash[2], q.taken)
       /\ Overwritten(q) => q.subject = q.hash
       /\ ~SubjectSourceIsOutputHeader(p) =>
            /\ Held(q) = <<>> => q.subject = q.hash
            /\ ~p.forwardToken => IF p.kind = "queryParameter" THEN p.name \in q.dropped
                                  ELSE Held(q) # <<>> => q.wrote = Held(q)

\* While the endpoint is asked, and while its answer is on the way at hour h.
AsksOK(q, h) == Held(q) = q.subject /\ q.subject # <<>> /\ q.sent \in Nat /\ q.sent <= h

RepliesOK(q, p) ==
  q.reply # <<>> =>
    /\ IssuedFor(q.reply, q.subject, p) /\ q.lifetime \in Answers
    /\ q.reply[4] = "kept" => q.sent + ExpiresIn(q.lifetime) <= q.reply[3]

\* Where the subject token was is nothing the backend could read it from.
Hidden(q, p) ==
  ExtractSubjectToken([q.msg EXCEPT !.query = [n \in (DOMAIN @) \ q.dropped |-> @[n]]], p) = <<>>

ServedOK(q, p) ==
  /\ p.header \in DOMAIN q.msg.header
  /\ LET value == q.msg.header[p.header]
     IN value = <<p.headerPrefix, value[2]>> /\ IssuedFor(value[2], q.subject, p) /\ AliveAt(value[2], q.taken)
  /\ p.forwardToken \/ SubjectSourceIsOutputHeader(p) \/ Hidden(q, p) \/ (q.wrote # <<>> /\ q.wrote = q.hash)

RequestOK(q, h) ==
  /\ WellFormed(q)
  /\ q.status = 200 => q.phase = "done" /\ ServedOK(q, Route(q))
  /\ q.phase \in {"between", "call", "reply"} => q.route \in DOMAIN ExchangeRoutes /\ ParseConfig(Route(q)) /\ q.status = 0
  /\ q.phase = "between" => WaitsOK(q, Route(q))
  /\ q.phase \in {"call", "reply"} => AsksOK(q, h)
  /\ q.phase = "reply" => RepliesOK(q, Route(q))

\* A cached token was issued for the subject and the form its key names.
CacheOK(key) ==
  \E c \in DOMAIN ExchangeRoutes :
    /\ key = BuildCacheKey(ExchangeRoutes[c], key[11])
    /\ IssuedFor(tokenCache[key].token, key[11], ExchangeRoutes[c])
    /\ tokenCache[key].until \in Int
    /\ tokenCache[key].token[4] = "kept" => tokenCache[key].until <= tokenCache[key].token[3] + ExchangeTimeout

ExchangeInv ==
  /\ hour \in Nat /\ DOMAIN ex = Exchanges
  /\ \A key \in DOMAIN tokenCache : CacheOK(key)
  /\ \A r \in Exchanges : RequestOK(ex[r], hour)

\* The invariant is about what ExchangedTokenDue asks.
LEMMA ExchangeDue == ExchangeInv => ExchangedTokenDue
<1> SUFFICES ASSUME ExchangeInv, NEW r \in Exchanges, ex[r].status = 200
             PROVE  LET q == ex[r]  p == ExchangeRoutes[q.route]
                    IN /\ p.header \in DOMAIN q.msg.header
                       /\ LET value == q.msg.header[p.header]
                          IN /\ value[1] = p.headerPrefix /\ Len(value[2]) = 4
                             /\ value[2][1] = q.subject /\ value[2][2] = Form(p)
                             /\ AliveAt(value[2], q.taken)
                       /\ \/ p.forwardToken \/ SubjectSourceIsOutputHeader(p)
                          \/ Hidden(q, p)
                          \/ q.wrote # <<>> /\ q.wrote = q.hash
  BY Zenon DEF ExchangedTokenDue, Hidden, AliveAt
<1>1. PICK q : q = ex[r]
  OBVIOUS
<1>2. ServedOK(q, ExchangeRoutes[q.route])
  BY <1>1, Zenon DEF ExchangeInv, RequestOK, Route
<1> DEFINE p == ExchangeRoutes[q.route]
<1>3. PICK value : value = q.msg.header[p.header]
  OBVIOUS
<1>4. /\ p.header \in DOMAIN q.msg.header
      /\ value = <<p.headerPrefix, value[2]>> /\ IssuedFor(value[2], q.subject, p) /\ AliveAt(value[2], q.taken)
      /\ p.forwardToken \/ SubjectSourceIsOutputHeader(p) \/ Hidden(q, p) \/ (q.wrote # <<>> /\ q.wrote = q.hash)
  BY <1>2, <1>3, Zenon DEF ServedOK
<1>5. PICK token : token = value[2]
  OBVIOUS
<1>6. token = <<q.subject, Form(p), token[3], token[4]>>
  BY <1>4, <1>5 DEF IssuedFor
<1>7. Len(token) = 4 /\ token[1] = q.subject /\ token[2] = Form(p)
  BY <1>6
<1>8. value[1] = p.headerPrefix
  BY <1>4
<1>q. QED  BY <1>1, <1>3, <1>4, <1>5, <1>7, <1>8, Zenon

\* What the cache key holds settles what the endpoint is asked.
LEMMA KeyTellsForm ==
  ASSUME NEW p, NEW s, NEW o, NEW t, BuildCacheKey(p, s) = BuildCacheKey(o, t)
  PROVE  s = t /\ Form(p) = Form(o) /\ BuildCacheKey(p, s)[11] = s
BY DEF BuildCacheKey, Form

LEMMA TtlWithinLife ==
  ASSUME NEW answer \in Answers
  PROVE  /\ ExpiresIn(answer) \in Nat \ {0}
         /\ CacheTtl(ExpiresIn(answer)) \in Nat /\ CacheTtl(ExpiresIn(answer)) <= ExpiresIn(answer)
         /\ Word(answer) = "kept" => ExpiresIn(answer) <= answer.life
<1>1. /\ answer.secs \in Nat /\ answer.life \in Nat /\ MinCacheTTL \in Nat
      /\ DefaultExpiresIn \in Nat \ {0} /\ MaxExpiresIn \in Nat \ {0}
  BY ExchangeAssumption DEF ExchangeAssumption, Answers
<1>2. ExpiresIn(answer) \in Nat \ {0}
  BY <1>1 DEF ExpiresIn, ClampExpiresIn
<1>3. ASSUME NEW e \in Nat \ {0}  PROVE CacheTtl(e) \in Nat /\ CacheTtl(e) <= e
  <2>1. e \div 2 \in Nat /\ e \div 2 <= e
    OBVIOUS
  <2>q. QED  BY <1>1, <2>1 DEF CacheTtl
<1>4. ASSUME Word(answer) = "kept"  PROVE ExpiresIn(answer) <= answer.life
  <2>1. IF answer.positive THEN answer.secs > 0 /\ answer.secs <= answer.life ELSE DefaultExpiresIn <= answer.life
    BY <1>4, Zenon DEF Word
  <2>q. QED  BY <1>1, <2>1 DEF ExpiresIn, ClampExpiresIn
<1>q. QED  BY <1>2, <1>3, <1>4

\* Where a subject token is looked for is all that matters to it.
LEMMA SameHeld ==
  ASSUME NEW msg, NEW new, NEW p, p.kind \in {"header", "cookie", "queryParameter"},
         p.kind = "header" => /\ p.name \in DOMAIN new.header <=> p.name \in DOMAIN msg.header
                              /\ p.name \in DOMAIN msg.header => new.header[p.name] = msg.header[p.name],
         p.kind = "cookie" => /\ p.name \in DOMAIN new.cookie <=> p.name \in DOMAIN msg.cookie
                              /\ p.name \in DOMAIN msg.cookie => new.cookie[p.name] = msg.cookie[p.name],
         p.kind = "queryParameter" => new.query = msg.query
  PROVE  ExtractSubjectToken(new, p) = ExtractSubjectToken(msg, p)
<1>1. CASE p.kind = "header"
  BY <1>1 DEF ExtractSubjectToken
<1>2. CASE p.kind = "cookie"
  BY <1>2 DEF ExtractSubjectToken
<1>3. CASE p.kind = "queryParameter"
  BY <1>3 DEF ExtractSubjectToken
<1>q. QED  BY <1>1, <1>2, <1>3

LEMMA WithFacts ==
  ASSUME NEW f, NEW n, NEW value, NEW x
  PROVE  /\ n \in DOMAIN With(f, n, value) /\ With(f, n, value)[n] = value
         /\ x # n => /\ x \in DOMAIN With(f, n, value) <=> x \in DOMAIN f
                     /\ x \in DOMAIN f => With(f, n, value)[x] = f[x]
         /\ x \in DOMAIN With(f, n, value) => IF x = n THEN With(f, n, value)[x] = value ELSE With(f, n, value)[x] = f[x]
BY DEF With

LEMMA WithoutFacts ==
  ASSUME NEW f, NEW n, NEW x
  PROVE  /\ n \notin DOMAIN Without(f, n)
         /\ x # n => /\ x \in DOMAIN Without(f, n) <=> x \in DOMAIN f
                     /\ x \in DOMAIN f => Without(f, n)[x] = f[x]
BY DEF Without

\* Nothing is read from a query parameter that is dropped, and the other places
\* are as before.
LEMMA HiddenFacts ==
  ASSUME NEW q, WellFormed(q), NEW p, ParseConfig(p),
         IF p.kind = "queryParameter" THEN p.name \in q.dropped ELSE ExtractSubjectToken(q.msg, p) = <<>>
  PROVE  Hidden(q, p)
<1> DEFINE left == [q.msg EXCEPT !.query = [n \in (DOMAIN @) \ q.dropped |-> @[n]]]
<1>1. left.header = q.msg.header /\ left.cookie = q.msg.cookie /\ left.query = [n \in (DOMAIN q.msg.query) \ q.dropped |-> q.msg.query[n]]
  BY DEF WellFormed
<1>2. p.kind \in {"header", "cookie", "queryParameter"}
  BY DEF ParseConfig
<1> HIDE DEF left
<1>3. CASE p.kind = "queryParameter"
  BY <1>1, <1>3 DEF ExtractSubjectToken, Hidden, left
<1>4. CASE p.kind # "queryParameter"
  <2>1. ExtractSubjectToken(left, p) = ExtractSubjectToken(q.msg, p)
    BY <1>1, <1>2, <1>4, SameHeld
  <2>q. QED  BY <1>4, <2>1 DEF Hidden, left
<1>q. QED  BY <1>3, <1>4

\* What the policy writes upstream.
LEMMA UpstreamFacts ==
  ASSUME NEW q, WellFormed(q), NEW p, ParseConfig(p), NEW token, NEW n, n = UpstreamAction(p, q, token)
  PROVE  /\ WellFormed(n) /\ \A f \in Fields \ {"msg", "dropped"} : n[f] = q[f]
         /\ p.header \in DOMAIN n.msg.header /\ n.msg.header[p.header] = <<p.headerPrefix, token>>
         /\ ~SubjectSourceIsOutputHeader(p) =>
              IF p.forwardToken \/ p.kind = "queryParameter"
              THEN ExtractSubjectToken(n.msg, p) = ExtractSubjectToken(q.msg, p)
              ELSE ExtractSubjectToken(n.msg, p) = <<>>
         /\ ~p.forwardToken /\ p.kind = "queryParameter" => p.name \in n.dropped
<1> DEFINE hide == ~p.forwardToken
           kept == IF hide /\ p.kind = "header" /\ ~SubjectSourceIsOutputHeader(p) THEN Without(q.msg.header, p.name) ELSE q.msg.header
           header == With(kept, p.header, <<p.headerPrefix, token>>)
           cookie == IF hide /\ p.kind = "cookie" THEN Without(q.msg.cookie, p.name) ELSE q.msg.cookie
           dropped == IF hide /\ p.kind = "queryParameter" THEN q.dropped \union {p.name} ELSE q.dropped
<1>1. n = [q EXCEPT !.msg.header = header, !.msg.cookie = cookie, !.dropped = dropped]
  BY Zenon DEF UpstreamAction, StripCookieByName
<1> HIDE DEF header, cookie, dropped
<1>2. /\ DOMAIN n = Fields /\ DOMAIN n.msg = {"header", "cookie", "query"}
      /\ \A f \in Fields \ {"msg", "dropped"} : n[f] = q[f]
      /\ n.msg.header = header /\ n.msg.cookie = cookie /\ n.msg.query = q.msg.query /\ n.dropped = dropped
  <2>1. DOMAIN n = Fields /\ n.dropped = dropped /\ \A f \in Fields \ {"msg", "dropped"} : n[f] = q[f]
    BY <1>1 DEF WellFormed, Fields
  <2>2. n.msg = [q.msg EXCEPT !.header = header, !.cookie = cookie]
    BY <1>1 DEF WellFormed, Fields
  <2>3. DOMAIN n.msg = {"header", "cookie", "query"}
    BY <2>2 DEF WellFormed
  <2>4. n.msg.header = header /\ n.msg.cookie = cookie /\ n.msg.query = q.msg.query
    BY <2>2 DEF WellFormed
  <2>q. QED  BY <2>1, <2>3, <2>4
<1>3. p.header \in DOMAIN n.msg.header /\ n.msg.header[p.header] = <<p.headerPrefix, token>>
  BY <1>2, WithFacts DEF header
<1>4. p.kind \in {"header", "cookie", "queryParameter"}
  BY DEF ParseConfig
<1>5. ASSUME ~SubjectSourceIsOutputHeader(p), p.forwardToken \/ p.kind = "queryParameter"
      PROVE  ExtractSubjectToken(n.msg, p) = ExtractSubjectToken(q.msg, p)
  <2>1. p.kind = "header" => header = With(q.msg.header, p.header, <<p.headerPrefix, token>>) /\ p.name # p.header
    BY <1>5 DEF header, SubjectSourceIsOutputHeader
  <2>2. p.kind = "cookie" => n.msg.cookie = q.msg.cookie
    BY <1>2, <1>5 DEF cookie
  <2>3. p.kind = "header" => /\ p.name \in DOMAIN n.msg.header <=> p.name \in DOMAIN q.msg.header
                             /\ p.name \in DOMAIN q.msg.header => n.msg.header[p.name] = q.msg.header[p.name]
    BY <1>2, <2>1, WithFacts
  <2>q. QED  BY <1>2, <1>4, <2>2, <2>3, SameHeld
<1>6. ASSUME ~SubjectSourceIsOutputHeader(p), ~p.forwardToken, p.kind # "queryParameter"
      PROVE  ExtractSubjectToken(n.msg, p) = <<>>
  <2>1. CASE p.kind = "header"
    <3>1. header = With(Without(q.msg.header, p.name), p.header, <<p.headerPrefix, token>>) /\ p.name # p.header
      BY <1>6, <2>1 DEF header, SubjectSourceIsOutputHeader
    <3>2. p.name \notin DOMAIN n.msg.header
      BY <1>2, <3>1, WithFacts, WithoutFacts
    <3>q. QED  BY <2>1, <3>2 DEF ExtractSubjectToken
  <2>2. CASE p.kind = "cookie"
    <3>1. p.name \notin DOMAIN n.msg.cookie
      BY <1>2, <1>6, <2>2, WithoutFacts DEF cookie
    <3>q. QED  BY <2>2, <3>1 DEF ExtractSubjectToken
  <2>q. QED  BY <1>4, <1>6, <2>1, <2>2
<1>q. QED  BY <1>2, <1>3, <1>5, <1>6 DEF WellFormed, dropped

\* A request that fails leaves nothing that is asked about.
LEMMA FailedOK ==
  ASSUME NEW q, NEW status \in Nat \ {200}, NEW h
  PROVE  RequestOK(Answered(q, status), h)
<1> DEFINE n == [NoExchange EXCEPT !.phase = "done", !.route = q.route, !.status = status]
<1>1. Answered(q, status) = n
  BY DEF Answered
<1>2. WellFormed(n) /\ n.phase = "done" /\ n.status = status
  BY DEF WellFormed, Fields, NoExchange, NoMsg
<1> HIDE DEF n
<1>q. QED  BY <1>1, <1>2 DEF RequestOK

\* A request that is served.
LEMMA ServedFacts ==
  ASSUME NEW q, WellFormed(q), ServedOK(q, Route(q)), NEW h
  PROVE  RequestOK(Answered(q, 200), h)
<1> DEFINE n == [q EXCEPT !.phase = "done", !.status = 200, !.edits = 0, !.outcome = "", !.outHash = <<>>]
<1>1. Answered(q, 200) = n
  BY DEF Answered
<1>2. WellFormed(n) /\ n.phase = "done" /\ n.msg = q.msg /\ n.route = q.route /\ n.dropped = q.dropped
  BY DEF WellFormed, Fields
<1>3. n.subject = q.subject /\ n.taken = q.taken /\ n.wrote = q.wrote /\ n.hash = q.hash
  BY DEF WellFormed, Fields
<1> HIDE DEF n
<1>4. ServedOK(n, Route(n))
  BY <1>2, <1>3, Zenon DEF ServedOK, Route, Hidden
<1>q. QED  BY <1>1, <1>2, <1>4 DEF RequestOK

\* A request for which a token was found.
LEMMA ExchangedOK ==
  ASSUME NEW h \in Nat, h = hour, NEW q, WellFormed(q), q.route \in DOMAIN ExchangeRoutes, NEW p, p = Route(q), ParseConfig(p), q.status = 0,
         Held(q) = q.subject, q.subject # <<>>,
         NEW token, IssuedFor(token, q.subject, p), AliveAt(token, h)
  PROVE  RequestOK(Exchanged(q, p, q.subject, token), h)
<1> DEFINE u == UpstreamAction(p, q, token)
           done == [u EXCEPT !.sent = 0, !.reply = <<>>, !.lifetime = 0, !.taken = h]
           removed == ~p.forwardToken /\ ~SubjectSourceIsOutputHeader(p) /\ p.kind \in {"header", "cookie"}
           wait == [done EXCEPT !.phase = "between", !.outcome = "succeeded", !.hash = q.subject, !.outHash = <<p.headerPrefix, token>>,
                                !.selfRemoved = removed]
<1>1. PICK v : v = u
  OBVIOUS
<1>2. /\ WellFormed(v) /\ \A f \in Fields \ {"msg", "dropped"} : v[f] = q[f]
      /\ p.header \in DOMAIN v.msg.header /\ v.msg.header[p.header] = <<p.headerPrefix, token>>
      /\ ~SubjectSourceIsOutputHeader(p) =>
           IF p.forwardToken \/ p.kind = "queryParameter"
           THEN ExtractSubjectToken(v.msg, p) = q.subject ELSE ExtractSubjectToken(v.msg, p) = <<>>
      /\ ~p.forwardToken /\ p.kind = "queryParameter" => p.name \in v.dropped
  BY <1>1, UpstreamFacts DEF Held
<1>3. v.route = q.route /\ v.subject = q.subject /\ v.status = 0
  BY <1>2 DEF Fields
<1>4. PICK d : d = [v EXCEPT !.sent = 0, !.reply = <<>>, !.lifetime = 0, !.taken = h]
  OBVIOUS
<1>5. WellFormed(d) /\ d.msg = v.msg /\ d.route = q.route /\ d.subject = q.subject /\ d.status = 0 /\ d.taken = h /\ d.dropped = v.dropped
  BY <1>2, <1>3, <1>4 DEF WellFormed, Fields
<1>6. Exchanged(q, p, q.subject, token) =
        IF q.body THEN Answered(d, 200)
        ELSE [d EXCEPT !.phase = "between", !.outcome = "succeeded", !.hash = q.subject, !.outHash = <<p.headerPrefix, token>>, !.selfRemoved = removed]
  BY <1>1, <1>4, Zenon DEF Exchanged
<1>7. CASE q.body
  <2>1. p.forwardToken \/ SubjectSourceIsOutputHeader(p) \/ Hidden(d, p)
    BY <1>2, <1>5, HiddenFacts
  <2>2. PICK value : value = d.msg.header[p.header]
    OBVIOUS
  <2>3. value = <<p.headerPrefix, token>> /\ value[2] = token
    BY <1>2, <1>5, <2>2
  <2>4. ServedOK(d, p)
    BY <1>2, <1>5, <2>1, <2>2, <2>3, Zenon DEF ServedOK
  <2>q. QED  BY <1>5, <1>6, <1>7, <2>4, ServedFacts DEF Route
<1>8. CASE ~q.body
  <2>1. PICK n : n = [d EXCEPT !.phase = "between", !.outcome = "succeeded", !.hash = q.subject, !.outHash = <<p.headerPrefix, token>>, !.selfRemoved = removed]
    OBVIOUS
  <2>2. /\ WellFormed(n) /\ n.phase = "between" /\ n.msg = v.msg /\ n.route = q.route /\ n.subject = q.subject /\ n.status = 0
        /\ n.taken = h /\ n.dropped = v.dropped /\ n.hash = q.subject /\ n.outHash = <<p.headerPrefix, token>>
    BY <1>5, <2>1 DEF WellFormed, Fields
  <2>3. n.outHash[2] = token /\ OutputHeaderIntact(n, p) /\ Route(n) = p /\ Held(n) = ExtractSubjectToken(v.msg, p)
    BY <1>2, <2>2 DEF OutputHeaderIntact, Route, Held
  <2>4. n.outcome = "succeeded"
    BY <1>5, <2>1 DEF WellFormed, Fields
  <2>5. ~Overwritten(n) => Held(n) \in {<<>>, n.subject}
    BY <1>2, <2>2, <2>3, <2>4 DEF Overwritten, HeaderPhaseSucceeded
  <2>6. ~SubjectSourceIsOutputHeader(p) /\ ~p.forwardToken =>
          IF p.kind = "queryParameter" THEN p.name \in n.dropped ELSE Held(n) = <<>>
    BY <1>2, <2>2, <2>3
  <2>7. WaitsOK(n, p)
    BY <2>2, <2>3, <2>5, <2>6 DEF WaitsOK
  <2>q. QED  BY <1>6, <1>8, <2>1, <2>2, <2>3, <2>7 DEF RequestOK
<1>q. QED  BY <1>7, <1>8

\* A request without a subject token waits for the body phase, or fails in it.
LEMMA MissingOK ==
  ASSUME NEW q, WellFormed(q), q.route \in DOMAIN ExchangeRoutes, ParseConfig(Route(q)), q.status = 0, Held(q) = <<>>, NEW h
  PROVE  RequestOK(SubjectMissing(q), h)
<1>1. CASE q.body
  BY <1>1, FailedOK DEF SubjectMissing
<1>2. CASE ~q.body
  <2>1. PICK n : n = [q EXCEPT !.phase = "between", !.outcome = "deferred"]
    OBVIOUS
  <2>2. WellFormed(n) /\ n.phase = "between" /\ n.outcome = "deferred" /\ n.msg = q.msg /\ n.route = q.route /\ n.status = 0
    BY <2>1 DEF WellFormed, Fields
  <2>3. Held(n) = <<>> /\ Route(n) = Route(q) /\ ~HeaderPhaseSucceeded(n)
    BY <2>2 DEF Held, Route, HeaderPhaseSucceeded
  <2>4. WaitsOK(n, Route(n))
    BY <2>3 DEF WaitsOK
  <2>q. QED  BY <1>2, <2>1, <2>2, <2>3, <2>4 DEF RequestOK, SubjectMissing
<1>q. QED  BY <1>1, <1>2

\* A request that goes on to the endpoint.
LEMMA AskingOK ==
  ASSUME NEW h \in Nat, NEW q, WellFormed(q), q.route \in DOMAIN ExchangeRoutes, ParseConfig(Route(q)), q.status = 0,
         Held(q) = q.subject, q.subject # <<>>
  PROVE  RequestOK([q EXCEPT !.phase = "call", !.sent = h], h)
<1>1. PICK n : n = [q EXCEPT !.phase = "call", !.sent = h]
  OBVIOUS
<1>2. /\ WellFormed(n) /\ n.phase = "call" /\ n.sent = h /\ n.msg = q.msg /\ n.route = q.route /\ n.status = 0 /\ n.subject = q.subject
  BY <1>1 DEF WellFormed, Fields
<1>3. Route(n) = Route(q) /\ AsksOK(n, h)
  BY <1>2 DEF Route, Held, AsksOK
<1>q. QED  BY <1>1, <1>2, <1>3 DEF RequestOK

LEMMA CacheKept ==
  ASSUME NEW key, CacheOK(key), tokenCache'[key] = tokenCache[key]
  PROVE  CacheOK(key)'
BY DEF CacheOK

\* A cached token that is still served is one for this subject and route.
LEMMA CachedDue ==
  ASSUME NEW h, h = hour, h \in Nat, NEW p, NEW subject, NEW key, key = BuildCacheKey(p, subject), CacheOK(key), GetCachedToken(key)
  PROVE  IssuedFor(tokenCache[key].token, subject, p) /\ AliveAt(tokenCache[key].token, h)
<1>1. PICK c \in DOMAIN ExchangeRoutes :
        /\ key = BuildCacheKey(ExchangeRoutes[c], key[11])
        /\ IssuedFor(tokenCache[key].token, key[11], ExchangeRoutes[c])
        /\ tokenCache[key].until \in Int
        /\ tokenCache[key].token[4] = "kept" => tokenCache[key].until <= tokenCache[key].token[3] + ExchangeTimeout
  BY Zenon DEF CacheOK
<1>2. key[11] = subject /\ Form(p) = Form(ExchangeRoutes[c])
  BY <1>1, KeyTellsForm
<1>3. PICK t, u : t = tokenCache[key].token /\ u = tokenCache[key].until
  OBVIOUS
<1>4. t = <<subject, Form(p), t[3], t[4]>> /\ t[3] \in Nat
  BY <1>1, <1>2, <1>3, Zenon DEF IssuedFor
<1>5. u \in Int /\ h < u /\ (t[4] = "kept" => u <= t[3] + ExchangeTimeout)
  BY <1>1, <1>3, Zenon DEF GetCachedToken
<1>6. ExchangeTimeout \in Nat
  BY ExchangeAssumption DEF ExchangeAssumption
<1>7. AliveAt(t, h)
  BY <1>4, <1>5, <1>6 DEF AliveAt
<1>q. QED  BY <1>3, <1>4, <1>7 DEF IssuedFor

\* The subject token is looked for and a token for it, in either phase.
LEMMA ResolveStep ==
  ASSUME ExchangeInv, NEW r \in Exchanges, NEW q, WellFormed(q), q.route \in DOMAIN ExchangeRoutes, NEW p, p = Route(q), ParseConfig(p),
         q.status = 0, Held(q) \in {<<>>, q.subject}, ResolveSubjectAndToken(r, q, p)
  PROVE  /\ \E n : RequestOK(n, hour) /\ ex' = [ex EXCEPT ![r] = n]
         /\ \A key \in DOMAIN tokenCache' : CacheOK(key)'
<1>1. PICK h \in Nat : h = hour
  BY DEF ExchangeInv
<1>2. PICK subject, key : subject = Held(q) /\ key = BuildCacheKey(p, subject)
  OBVIOUS
<1> DEFINE look == p.tokenCaching /\ subject # <<>>
<1>3. /\ tokenCache' = IF look /\ key \in DOMAIN tokenCache /\ ~GetCachedToken(key) THEN Without(tokenCache, key) ELSE tokenCache
      /\ ex' = [ex EXCEPT ![r] =
           IF subject = <<>> THEN SubjectMissing(q)
           ELSE IF look /\ GetCachedToken(key) THEN Exchanged(q, p, subject, tokenCache[key].token)
           ELSE [q EXCEPT !.phase = "call", !.sent = h]]
  BY <1>1, <1>2, Zenon DEF ResolveSubjectAndToken, Held
<1>4. ASSUME NEW k \in DOMAIN tokenCache'  PROVE CacheOK(k)'
  <2>1. k \in DOMAIN tokenCache /\ tokenCache'[k] = tokenCache[k]
    BY <1>3, <1>4 DEF Without
  <2>q. QED  BY <2>1, CacheKept DEF ExchangeInv
<1>5. CASE subject = <<>>
  <2>1. RequestOK(SubjectMissing(q), h)
    BY <1>2, <1>5, MissingOK
  <2>q. QED  BY <1>1, <1>3, <1>4, <1>5, <2>1
<1>6. CASE subject # <<>> /\ look /\ GetCachedToken(key)
  <2>1. PICK t : t = tokenCache[key].token
    OBVIOUS
  <2>2. CacheOK(key)
    BY <1>6 DEF ExchangeInv, GetCachedToken
  <2>3. IssuedFor(t, subject, p) /\ AliveAt(t, h)
    BY <1>1, <1>2, <1>6, <2>1, <2>2, CachedDue, Zenon
  <2>4. subject = q.subject /\ Held(q) = q.subject
    BY <1>2, <1>6
  <2>5. RequestOK(Exchanged(q, p, q.subject, t), h)
    BY <1>1, <1>6, <2>3, <2>4, ExchangedOK
  <2>6. ex' = [ex EXCEPT ![r] = Exchanged(q, p, q.subject, t)]
    BY <1>3, <1>6, <2>1, <2>4, Zenon
  <2>7. PICK n : n = Exchanged(q, p, q.subject, t)
    OBVIOUS
  <2>q. QED  BY <1>1, <1>4, <2>5, <2>6, <2>7, Zenon
<1>7. CASE subject # <<>> /\ ~(look /\ GetCachedToken(key))
  <2>1. RequestOK([q EXCEPT !.phase = "call", !.sent = h], h)
    BY <1>2, <1>7, AskingOK
  <2>2. ex' = [ex EXCEPT ![r] = [q EXCEPT !.phase = "call", !.sent = h]]
    BY <1>3, <1>7, Zenon
  <2>q. QED  BY <1>1, <1>4, <2>1, <2>2, Zenon
<1>q. QED  BY <1>5, <1>6, <1>7

\* One request changes.
LEMMA OneRequest ==
  ASSUME ExchangeInv, NEW r \in Exchanges, \E n : RequestOK(n, hour) /\ ex' = [ex EXCEPT ![r] = n],
         \A key \in DOMAIN tokenCache' : CacheOK(key)', hour' = hour
  PROVE  ExchangeInv'
<1>1. PICK n : RequestOK(n, hour) /\ ex' = [ex EXCEPT ![r] = n]
  OBVIOUS
<1>2. PICK h : h = hour
  OBVIOUS
<1>3. ASSUME NEW s \in Exchanges  PROVE RequestOK(ex'[s], h)
  <2>1. ex'[s] = n \/ ex'[s] = ex[s]
    BY <1>1 DEF ExchangeInv
  <2>q. QED  BY <1>1, <1>2, <2>1, Zenon DEF ExchangeInv
<1>4. DOMAIN ex' = Exchanges
  BY <1>1 DEF ExchangeInv
<1>q. QED  BY <1>2, <1>3, <1>4, Zenon DEF ExchangeInv

LEMMA SameCache ==
  ASSUME ExchangeInv, tokenCache' = tokenCache
  PROVE  \A key \in DOMAIN tokenCache' : CacheOK(key)'
BY CacheKept DEF ExchangeInv

\* The header phase.
LEMMA HeadersStep ==
  ASSUME ExchangeInv, NEW r \in Exchanges, NEW c \in DOMAIN ExchangeRoutes, NEW msg \in Incoming, ExchangeOnRequestHeaders(r, c, msg)
  PROVE  ExchangeInv'
<1> DEFINE p == ExchangeRoutes[c]
<1>1. PICK q : q = [NoExchange EXCEPT !.route = c, !.msg = msg, !.subject = ExtractSubjectToken(msg, p)]
  OBVIOUS
<1>2. /\ IF ParseConfig(p) THEN ResolveSubjectAndToken(r, q, p) ELSE ex' = [ex EXCEPT ![r] = Answered(q, 500)] /\ UNCHANGED tokenCache
      /\ hour' = hour
  BY <1>1, Zenon DEF ExchangeOnRequestHeaders
<1>3. CASE ParseConfig(p)
  <2>1. DOMAIN msg = {"header", "cookie", "query"}
    BY ExchangeAssumption DEF ExchangeAssumption
  <2>2. WellFormed(q) /\ q.route = c /\ q.status = 0 /\ q.msg = msg /\ q.subject = ExtractSubjectToken(msg, p)
    BY <1>1, <2>1 DEF NoExchange, WellFormed, Fields
  <2>3. Route(q) = p /\ Held(q) = q.subject
    BY <2>2 DEF Route, Held
  <2>4. /\ \E n : RequestOK(n, hour) /\ ex' = [ex EXCEPT ![r] = n]
        /\ \A key \in DOMAIN tokenCache' : CacheOK(key)'
    BY <1>2, <1>3, <2>2, <2>3, ResolveStep
  <2>q. QED  BY <1>2, <2>4, OneRequest
<1>4. CASE ~ParseConfig(p)
  <2>1. RequestOK(Answered(q, 500), hour)
    BY FailedOK
  <2>q. QED  BY <1>2, <1>4, <2>1, OneRequest, SameCache
<1>q. QED  BY <1>3, <1>4

\* The result of the header phase stands only for the request's own token.
LEMMA StandsOK ==
  ASSUME NEW q, WellFormed(q), NEW p, p = Route(q), ParseConfig(p), WaitsOK(q, p), ResultStands(q, p)
  PROVE  ServedOK(q, p)
<1>1. /\ HeaderPhaseSucceeded(q) /\ p.header \in DOMAIN q.msg.header /\ q.outHash = q.msg.header[p.header]
      /\ \/ SubjectSourceIsOutputHeader(p)
         \/ Held(q) # <<>> /\ q.hash = Held(q)
         \/ Held(q) = <<>> /\ q.selfRemoved
  BY DEF ResultStands, OutputHeaderIntact, SubjectTokenHashMatches, Held
<1>2. /\ q.outHash = <<p.headerPrefix, q.outHash[2]>> /\ IssuedFor(q.outHash[2], q.hash, p)
      /\ AliveAt(q.outHash[2], q.taken)
      /\ Overwritten(q) => q.subject = q.hash
      /\ ~SubjectSourceIsOutputHeader(p) =>
            /\ Held(q) = <<>> => q.subject = q.hash
            /\ ~p.forwardToken => IF p.kind = "queryParameter" THEN p.name \in q.dropped
                                  ELSE Held(q) # <<>> => q.wrote = Held(q)
  BY <1>1 DEF WaitsOK
<1>3. Overwritten(q) <=> SubjectSourceIsOutputHeader(p)
  BY <1>1 DEF Overwritten, OutputHeaderIntact
<1>4. ~Overwritten(q) => Held(q) \in {<<>>, q.subject}
  BY DEF WaitsOK
<1>5. q.subject = q.hash
  BY <1>1, <1>2, <1>3, <1>4
<1>6. p.forwardToken \/ SubjectSourceIsOutputHeader(p) \/ Hidden(q, p) \/ (q.wrote # <<>> /\ q.wrote = q.hash)
  <2>1. CASE p.kind = "queryParameter"
    BY <1>2, <2>1, HiddenFacts
  <2>2. CASE p.kind # "queryParameter" /\ Held(q) = <<>>
    BY <2>2, HiddenFacts DEF Held
  <2>3. CASE p.kind # "queryParameter" /\ Held(q) # <<>>
    BY <1>1, <1>2, <2>3
  <2>q. QED  BY <2>1, <2>2, <2>3
<1>q. QED  BY <1>1, <1>2, <1>5, <1>6, Zenon DEF ServedOK

\* The body phase.
LEMMA BodyStep ==
  ASSUME ExchangeInv, NEW r \in Exchanges, ExchangeOnRequestBody(r)
  PROVE  ExchangeInv'
<1>1. PICK b : b = ex[r]
  OBVIOUS
<1>2. b.phase = "between" /\ RequestOK(b, hour)
  BY <1>1 DEF ExchangeInv, ExchangeOnRequestBody
<1>3. PICK q : q = [b EXCEPT !.body = TRUE]
  OBVIOUS
<1> DEFINE p == ExchangeRoutes[b.route]
<1>4. WellFormed(b) /\ b.route \in DOMAIN ExchangeRoutes /\ ParseConfig(p) /\ b.status = 0 /\ WaitsOK(b, p)
  BY <1>2 DEF RequestOK, Route
<1>5. /\ WellFormed(q) /\ \A f \in Fields \ {"body"} : q[f] = b[f]
  BY <1>3, <1>4 DEF WellFormed, Fields
<1>6. /\ q.route = b.route /\ q.msg = b.msg /\ q.status = 0 /\ q.subject = b.subject /\ q.hash = b.hash /\ q.outHash = b.outHash
      /\ q.taken = b.taken /\ q.dropped = b.dropped /\ q.wrote = b.wrote /\ q.outcome = b.outcome
  BY <1>4, <1>5 DEF Fields
<1>7. Route(q) = p /\ WaitsOK(q, p)
  BY <1>4, <1>6, Zenon DEF Route, WaitsOK, Overwritten, Held, HeaderPhaseSucceeded, OutputHeaderIntact
<1>8. /\ IF ResultStands(q, p) THEN ex' = [ex EXCEPT ![r] = Answered(q, 200)] /\ UNCHANGED tokenCache
         ELSE ResolveSubjectAndToken(r, q, p)
      /\ hour' = hour
  BY <1>1, <1>3, Zenon DEF ExchangeOnRequestBody
<1>9. CASE ResultStands(q, p)
  <2>1. RequestOK(Answered(q, 200), hour)
    BY <1>4, <1>5, <1>7, <1>9, StandsOK, ServedFacts
  <2>q. QED  BY <1>8, <1>9, <2>1, OneRequest, SameCache
<1>10. CASE ~ResultStands(q, p)
  <2>1. ~Overwritten(q)
    BY <1>7, <1>10 DEF Overwritten, ResultStands
  <2>2. Held(q) \in {<<>>, q.subject}
    BY <1>7, <2>1 DEF WaitsOK
  <2>3. /\ \E n : RequestOK(n, hour) /\ ex' = [ex EXCEPT ![r] = n]
        /\ \A key \in DOMAIN tokenCache' : CacheOK(key)'
    BY <1>4, <1>5, <1>6, <1>7, <1>8, <1>10, <2>2, ResolveStep
  <2>q. QED  BY <1>8, <2>3, OneRequest
<1>q. QED  BY <1>9, <1>10

\* The endpoint answers.
LEMMA AnswerStep ==
  ASSUME ExchangeInv, NEW r \in Exchanges, NEW fails \in BOOLEAN, NEW answer \in Answers, EndpointAnswers(r, fails, answer)
  PROVE  ExchangeInv'
<1>1. PICK q, h : q = ex[r] /\ h = hour
  OBVIOUS
<1> DEFINE p == Route(q)
<1>2. h \in Nat /\ q.phase = "call" /\ RequestOK(q, h)
  BY <1>1 DEF ExchangeInv, EndpointAnswers
<1>3. WellFormed(q) /\ q.route \in DOMAIN ExchangeRoutes /\ ParseConfig(p) /\ q.status = 0 /\ AsksOK(q, h)
  BY <1>2 DEF RequestOK
<1>4. PICK n : n = [q EXCEPT !.phase = "reply", !.lifetime = IF fails THEN 0 ELSE answer,
                             !.reply = IF fails THEN <<>> ELSE <<Held(q), Form(p), h + answer.life, Word(answer)>>]
  OBVIOUS
<1>5. ex' = [ex EXCEPT ![r] = n] /\ hour' = hour /\ tokenCache' = tokenCache
  <2>1. /\ ex' = [ex EXCEPT ![r].phase = "reply", ![r].lifetime = IF fails THEN 0 ELSE answer,
                             ![r].reply = IF fails THEN <<>> ELSE <<Held(q), Form(p), h + answer.life, Word(answer)>>]
        /\ hour' = hour /\ tokenCache' = tokenCache
    BY <1>1, Zenon DEF EndpointAnswers, Held, Route
  <2>q. QED  BY <1>1, <1>4, <2>1 DEF ExchangeInv
<1>6. /\ WellFormed(n) /\ n.phase = "reply" /\ n.route = q.route /\ n.msg = q.msg /\ n.status = 0 /\ n.subject = q.subject /\ n.sent = q.sent
      /\ n.lifetime = (IF fails THEN 0 ELSE answer)
      /\ n.reply = IF fails THEN <<>> ELSE <<Held(q), Form(p), h + answer.life, Word(answer)>>
  BY <1>3, <1>4 DEF WellFormed, Fields
<1>7. Route(n) = p /\ Held(n) = Held(q) /\ AsksOK(n, h)
  BY <1>3, <1>6 DEF Route, Held, AsksOK
<1>8. answer.life \in Nat /\ ExpiresIn(answer) \in Nat \ {0} /\ (Word(answer) = "kept" => ExpiresIn(answer) <= answer.life)
  BY ExchangeAssumption, TtlWithinLife DEF ExchangeAssumption, Answers
<1>9. RepliesOK(n, p)
  <2>1. CASE fails
    BY <1>6, <2>1 DEF RepliesOK
  <2>2. CASE ~fails
    <3>1. PICK e, w, x : e = h + answer.life /\ w = Word(answer) /\ x = ExpiresIn(answer)
      OBVIOUS
    <3>2. n.reply = <<q.subject, Form(p), e, w>> /\ n.lifetime = answer
      BY <1>3, <1>6, <2>2, <3>1 DEF AsksOK
    <3>3. n.reply[3] = e /\ n.reply[4] = w
      BY <3>2
    <3>4. IssuedFor(n.reply, n.subject, p)
      <4>1. e \in Nat
        BY <1>2, <1>8, <3>1
      <4>2. n.subject = q.subject
        BY <1>6
      <4>q. QED  BY <3>2, <3>3, <4>1, <4>2, Zenon DEF IssuedFor
    <3>5. w = "kept" => n.sent + x <= e
      BY <1>2, <1>3, <1>6, <1>8, <3>1 DEF AsksOK
    <3>q. QED  BY <3>1, <3>2, <3>3, <3>4, <3>5, Zenon DEF RepliesOK
  <2>q. QED  BY <2>1, <2>2
<1>10. RequestOK(n, h)
  BY <1>3, <1>6, <1>7, <1>9 DEF RequestOK
<1>q. QED  BY <1>1, <1>5, <1>10, OneRequest, SameCache

\* What a put leaves in the cache.
LEMMA PutFacts ==
  ASSUME NEW key, NEW token, NEW e, PutCachedToken(key, token, e), NEW x \in DOMAIN tokenCache'
  PROVE  \/ x \in DOMAIN tokenCache /\ tokenCache'[x] = tokenCache[x]
         \/ x = key /\ tokenCache'[x] = [token |-> token, until |-> hour + CacheTtl(e)]
<1>1. PICK entry : entry = [token |-> token, until |-> hour + CacheTtl(e)]
  OBVIOUS
<1>2. \/ tokenCache' = tokenCache
      \/ \E k \in DOMAIN tokenCache : tokenCache' = With(Without(tokenCache, k), key, entry)
      \/ tokenCache' = With(tokenCache, key, entry)
  BY <1>1, Zenon DEF PutCachedToken
<1>3. CASE \E k \in DOMAIN tokenCache : tokenCache' = With(Without(tokenCache, k), key, entry)
  BY <1>1, <1>3 DEF With, Without
<1>4. CASE tokenCache' = With(tokenCache, key, entry)
  BY <1>1, <1>4 DEF With
<1>q. QED  BY <1>2, <1>3, <1>4

\* The answer arrives.
LEMMA PerformStep ==
  ASSUME ExchangeInv, NEW r \in Exchanges, PerformTokenExchange(r)
  PROVE  ExchangeInv'
<1>1. PICK q, h : q = ex[r] /\ h = hour
  OBVIOUS
<1> DEFINE p == Route(q)
           failed == q.reply = <<>> \/ h - q.sent > ExchangeTimeout
<1>2. h \in Nat /\ q.phase = "reply" /\ RequestOK(q, h)
  BY <1>1 DEF ExchangeInv, PerformTokenExchange
<1>3. WellFormed(q) /\ q.route \in DOMAIN ExchangeRoutes /\ ParseConfig(p) /\ q.status = 0 /\ AsksOK(q, h) /\ RepliesOK(q, p)
  BY <1>2 DEF RequestOK
<1>4. Held(q) = q.subject /\ q.subject # <<>> /\ q.sent \in Nat
  BY <1>3 DEF AsksOK
<1>5. /\ ex' = [ex EXCEPT ![r] = IF failed THEN Answered(q, 502) ELSE Exchanged(q, p, q.subject, q.reply)]
      /\ IF failed \/ ~p.tokenCaching THEN tokenCache' = tokenCache
         ELSE PutCachedToken(BuildCacheKey(p, q.subject), q.reply, ExpiresIn(q.lifetime))
      /\ hour' = hour
  <2>1. ExtractSubjectToken(q.msg, p) = q.subject
    BY <1>4 DEF Held
  <2>q. QED  BY <1>1, <2>1, Zenon DEF PerformTokenExchange, Route
<1>6. CASE failed
  <2>1. RequestOK(Answered(q, 502), hour)
    BY FailedOK
  <2>q. QED  BY <1>5, <1>6, <2>1, OneRequest, SameCache
<1>7. CASE ~failed
  <2>1. PICK t, e : t = q.reply /\ e = ExpiresIn(q.lifetime)
    OBVIOUS
  <2>2. IssuedFor(t, q.subject, p) /\ q.lifetime \in Answers /\ (t[4] = "kept" => q.sent + e <= t[3])
    BY <1>3, <1>7, <2>1 DEF RepliesOK
  <2>3. e \in Nat \ {0} /\ CacheTtl(e) \in Nat /\ CacheTtl(e) <= e
    BY <2>1, <2>2, TtlWithinLife
  <2>4. t = <<q.subject, Form(p), t[3], t[4]>> /\ t[3] \in Nat /\ ExchangeTimeout \in Nat
    BY <2>2, ExchangeAssumption DEF IssuedFor, ExchangeAssumption
  <2>5. t[4] = "kept" => h + e <= t[3] + ExchangeTimeout
    BY <1>2, <1>4, <1>7, <2>2, <2>3, <2>4
  <2>6. RequestOK(Exchanged(q, p, q.subject, t), h)
    <3>1. AliveAt(t, h)
      BY <1>2, <2>3, <2>4, <2>5 DEF AliveAt
    <3>q. QED  BY <1>1, <1>2, <1>3, <1>4, <2>2, <3>1, ExchangedOK
  <2>7. ASSUME NEW x \in DOMAIN tokenCache'  PROVE CacheOK(x)'
    <3>1. CASE x \in DOMAIN tokenCache /\ tokenCache'[x] = tokenCache[x]
      BY <3>1, CacheKept DEF ExchangeInv
    <3>2. CASE ~(x \in DOMAIN tokenCache /\ tokenCache'[x] = tokenCache[x])
      <4>1. PutCachedToken(BuildCacheKey(p, q.subject), t, e)
        BY <1>5, <2>1, <2>7, <3>2
      <4>2. PICK key : key = BuildCacheKey(p, q.subject)
        OBVIOUS
      <4>3. x = key /\ tokenCache'[x] = [token |-> t, until |-> hour + CacheTtl(e)]
        BY <2>7, <3>2, <4>1, <4>2, PutFacts
      <4>4. key[11] = q.subject
        BY <4>2, KeyTellsForm
      <4>5. tokenCache'[x].token = t /\ tokenCache'[x].until = h + CacheTtl(e)
        BY <1>1, <4>3
      <4>6. tokenCache'[x].until \in Int /\ (t[4] = "kept" => tokenCache'[x].until <= t[3] + ExchangeTimeout)
        BY <1>2, <2>3, <2>4, <2>5, <4>5
      <4>q. QED  BY <1>3, <2>2, <4>2, <4>3, <4>4, <4>5, <4>6, Zenon DEF CacheOK, Route
    <3>q. QED  BY <3>1, <3>2
  <2>8. PICK n : n = Exchanged(q, p, q.subject, t)
    OBVIOUS
  <2>9. RequestOK(n, hour) /\ ex' = [ex EXCEPT ![r] = n]
    BY <1>1, <1>5, <1>7, <2>1, <2>6, <2>8, Zenon
  <2>q. QED  BY <1>5, <2>7, <2>9, OneRequest
<1>q. QED  BY <1>6, <1>7

\* Another policy edits a header or a cookie.
LEMMA EditStep ==
  ASSUME ExchangeInv, NEW r \in Exchanges, NEW d \in Edits[ex[r].route], Edit(r, d)
  PROVE  ExchangeInv'
<1>1. PICK q : q = ex[r]
  OBVIOUS
<1> DEFINE p == Route(q)
           change(f, value) == IF d.token = <<>> THEN Without(f, d.name) ELSE With(f, d.name, value)
<1>2. q.phase = "between" /\ RequestOK(q, hour)
  BY <1>1 DEF ExchangeInv, Edit
<1>3. WellFormed(q) /\ q.route \in DOMAIN ExchangeRoutes /\ ParseConfig(p) /\ q.status = 0 /\ WaitsOK(q, p)
  BY <1>2 DEF RequestOK
<1>4. /\ d.kind \in {"header", "cookie"} /\ (d.token = <<>> \/ Len(d.token) = 1)
      /\ p.kind \in {"header", "cookie", "queryParameter"}
  BY <1>1, <1>3, ExchangeAssumption DEF ExchangeAssumption, ParseConfig
<1>5. PICK msg : msg = IF d.kind = "header" THEN [q.msg EXCEPT !.header = change(@, <<d.prefix, d.token>>)]
                       ELSE [q.msg EXCEPT !.cookie = change(@, d.token)]
  OBVIOUS
<1>6. PICK held : held = ExtractSubjectToken(msg, p)
  OBVIOUS
<1> DEFINE at == d.kind = p.kind /\ d.name = p.name
<1>7. PICK n : n = IF at THEN [q EXCEPT !.msg = msg, !.edits = @ + 1, !.subject = IF held # <<>> THEN held ELSE q.hash, !.wrote = held]
                   ELSE [q EXCEPT !.msg = msg, !.edits = @ + 1]
  OBVIOUS
<1>8. ex' = [ex EXCEPT ![r] = n] /\ hour' = hour /\ tokenCache' = tokenCache
  BY <1>1, <1>5, <1>6, <1>7, Zenon DEF Edit, Route
<1>9. /\ DOMAIN msg = {"header", "cookie", "query"} /\ msg.query = q.msg.query
      /\ msg.header = IF d.kind = "header" THEN change(q.msg.header, <<d.prefix, d.token>>) ELSE q.msg.header
      /\ msg.cookie = IF d.kind = "cookie" THEN change(q.msg.cookie, d.token) ELSE q.msg.cookie
  <2> HIDE DEF change
  <2>q. QED  BY <1>3, <1>4, <1>5 DEF WellFormed
<1>10. /\ WellFormed(n) /\ n.phase = "between" /\ n.msg = msg /\ n.route = q.route /\ n.status = 0
       /\ n.outcome = q.outcome /\ n.outHash = q.outHash /\ n.hash = q.hash /\ n.taken = q.taken /\ n.dropped = q.dropped
       /\ at => n.subject = (IF held # <<>> THEN held ELSE q.hash) /\ n.wrote = held
       /\ ~at => n.subject = q.subject /\ n.wrote = q.wrote
  BY <1>2, <1>3, <1>7, <1>9 DEF WellFormed, Fields
<1>11. Route(n) = p /\ Held(n) = held
  BY <1>6, <1>10 DEF Route, Held
<1>12. ASSUME NEW f, NEW value, NEW x, x # d.name
       PROVE  /\ x \in DOMAIN change(f, value) <=> x \in DOMAIN f
              /\ x \in DOMAIN f => change(f, value)[x] = f[x]
  BY <1>12, WithFacts, WithoutFacts
<1>13. ~at => held = Held(q)
  <2> SUFFICES ASSUME ~at  PROVE ExtractSubjectToken(msg, p) = ExtractSubjectToken(q.msg, p)
    BY <1>6 DEF Held
  <2>1. p.kind = "header" => /\ p.name \in DOMAIN msg.header <=> p.name \in DOMAIN q.msg.header
                             /\ p.name \in DOMAIN q.msg.header => msg.header[p.name] = q.msg.header[p.name]
    <3> HIDE DEF change
    <3>q. QED  BY <1>9, <1>12
  <2>2. p.kind = "cookie" => /\ p.name \in DOMAIN msg.cookie <=> p.name \in DOMAIN q.msg.cookie
                             /\ p.name \in DOMAIN q.msg.cookie => msg.cookie[p.name] = q.msg.cookie[p.name]
    <3> HIDE DEF change
    <3>q. QED  BY <1>9, <1>12
  <2>q. QED  BY <1>4, <1>9, <2>1, <2>2, SameHeld
<1>14. /\ HeaderPhaseSucceeded(n) <=> HeaderPhaseSucceeded(q)
       /\ HeaderPhaseSucceeded(q) => q.outHash = <<p.headerPrefix, q.outHash[2]>> /\ Len(q.outHash[2]) = 4
  <2>1. HeaderPhaseSucceeded(q) => q.outHash = <<p.headerPrefix, q.outHash[2]>> /\ IssuedFor(q.outHash[2], q.hash, p)
    BY <1>3 DEF WaitsOK
  <2>2. ASSUME NEW t, IssuedFor(t, q.hash, p)  PROVE Len(t) = 4
    BY <2>2 DEF IssuedFor
  <2>q. QED  BY <1>10, <2>1, <2>2 DEF HeaderPhaseSucceeded
<1>15. HeaderPhaseSucceeded(q) /\ SubjectSourceIsOutputHeader(p) =>
         (Overwritten(n) => ~at) /\ (~at => (Overwritten(n) <=> Overwritten(q)))
  <2> SUFFICES ASSUME HeaderPhaseSucceeded(q), SubjectSourceIsOutputHeader(p)
               PROVE  (Overwritten(n) => ~at) /\ (~at => (Overwritten(n) <=> Overwritten(q)))
    OBVIOUS
  <2>1. p.kind = "header" /\ p.name = p.header
    BY DEF SubjectSourceIsOutputHeader
  <2>2. ASSUME at  PROVE ~OutputHeaderIntact(n, p)
    <3>1. CASE d.token = <<>>
      <4>1. p.header \notin DOMAIN n.msg.header
        BY <1>9, <1>10, <2>1, <2>2, <3>1, WithoutFacts
      <4>q. QED  BY <4>1 DEF OutputHeaderIntact
    <3>2. CASE Len(d.token) = 1 /\ d.token # <<>>
      <4>1. n.msg.header[p.header] = <<d.prefix, d.token>>
        BY <1>9, <1>10, <2>1, <2>2, <3>2, WithFacts
      <4>2. q.outHash # <<d.prefix, d.token>>
        <5>1. <<d.prefix, d.token>>[2] = d.token /\ Len(d.token) # 4
          BY <3>2
        <5>2. Len(q.outHash[2]) = 4
          BY <1>14
        <5>q. QED  BY <5>1, <5>2, Zenon
      <4>q. QED  BY <1>10, <4>1, <4>2 DEF OutputHeaderIntact
    <3>q. QED  BY <1>4, <3>1, <3>2
  <2>3. ASSUME ~at  PROVE OutputHeaderIntact(n, p) <=> OutputHeaderIntact(q, p)
    <3>1. /\ p.header \in DOMAIN msg.header <=> p.header \in DOMAIN q.msg.header
          /\ p.header \in DOMAIN q.msg.header => msg.header[p.header] = q.msg.header[p.header]
      <4> HIDE DEF change
      <4>q. QED  BY <1>9, <1>12, <2>1, <2>3
    <3>q. QED  BY <1>10, <3>1 DEF OutputHeaderIntact
  <2>q. QED  BY <1>11, <1>14, <2>2, <2>3 DEF Overwritten
<1>16. ~SubjectSourceIsOutputHeader(p) => ~Overwritten(n) /\ ~Overwritten(q)
  BY <1>11 DEF Overwritten
<1>17. WaitsOK(n, p)
  <2>1. CASE at
    <3>1. ~Overwritten(n)
      BY <1>11, <1>14, <1>15, <2>1 DEF Overwritten
    <3>q. QED  BY <1>3, <1>4, <1>10, <1>11, <1>14, <2>1, <3>1 DEF WaitsOK
  <2>2. CASE ~at
    <3>1. Overwritten(n) <=> Overwritten(q)
      BY <1>11, <1>14, <1>15, <2>2 DEF Overwritten
    <3>2. Held(n) = Held(q)
      BY <1>11, <1>13, <2>2
    <3>q. QED  BY <1>3, <1>10, <1>14, <2>2, <3>1, <3>2, Zenon DEF WaitsOK
  <2>q. QED  BY <2>1, <2>2
<1>18. RequestOK(n, hour)
  BY <1>3, <1>10, <1>11, <1>17 DEF RequestOK
<1>q. QED  BY <1>8, <1>18, OneRequest, SameCache

\* The other steps.
LEMMA ExchangeStep == ASSUME ExchangeInv, [ExchangeNext]_exchangeVars  PROVE ExchangeInv'
<1>1. CASE UNCHANGED exchangeVars \/ ExchangeTick
  <2>1. UNCHANGED <<tokenCache, ex>> /\ hour' \in Nat /\ hour <= hour'
    BY <1>1 DEF exchangeVars, ExchangeTick, ExchangeInv
  <2>2. PICK g, h : g = hour /\ h = hour'
    OBVIOUS
  <2>3. ASSUME NEW q, RequestOK(q, g)  PROVE RequestOK(q, h)
    <3>1. AsksOK(q, g) => AsksOK(q, h)
      BY <2>1, <2>2 DEF AsksOK, ExchangeInv
    <3>q. QED  BY <2>3, <3>1 DEF RequestOK
  <2>4. \A r \in Exchanges : RequestOK(ex'[r], h)
    <3> SUFFICES ASSUME NEW r \in Exchanges  PROVE RequestOK(ex'[r], h)
      OBVIOUS
    <3>1. PICK q : q = ex[r]
      OBVIOUS
    <3>q. QED  BY <2>1, <2>2, <2>3, <3>1 DEF ExchangeInv
  <2>5. DOMAIN ex' = Exchanges
    BY <2>1 DEF ExchangeInv
  <2>q. QED  BY <2>1, <2>2, <2>4, <2>5, SameCache, Zenon DEF ExchangeInv
<1>2. CASE \E c \in DOMAIN ExchangeRoutes : EnsureTokenCache(c)
  <2>1. hour' = hour /\ ex' = ex /\ DOMAIN tokenCache' = {}
    BY <1>2 DEF EnsureTokenCache
  <2>q. QED  BY <2>1, Zenon DEF ExchangeInv
<1>3. ASSUME NEW r \in Exchanges, ex[r].phase = "call", NEW answer \in Lifetimes[ex[r].route]  PROVE answer \in Answers
  <2>1. PICK q : q = ex[r]
    OBVIOUS
  <2>2. RequestOK(q, hour) /\ q.phase = "call"
    BY <1>3, <2>1, Zenon DEF ExchangeInv
  <2>3. q.route \in DOMAIN ExchangeRoutes
    BY <2>2 DEF RequestOK
  <2>q. QED  BY <1>3, <2>1, <2>3 DEF Answers
<1>q. QED
  BY <1>1, <1>2, <1>3, HeadersStep, EditStep, BodyStep, AnswerStep, PerformStep, Zenon DEF ExchangeNext

LEMMA ExchangeStart == ExchangeInit => ExchangeInv
<1> SUFFICES ASSUME ExchangeInit  PROVE ExchangeInv
  OBVIOUS
<1>1. hour = 0 /\ DOMAIN tokenCache = {} /\ ex = [r \in Exchanges |-> NoExchange]
  BY DEF ExchangeInit
<1>2. NoExchange.status = 0 /\ NoExchange.phase = "idle" /\ WellFormed(NoExchange)
  BY DEF NoExchange, NoMsg, WellFormed, Fields
<1>3. ASSUME NEW h  PROVE RequestOK(NoExchange, h)
  BY <1>2 DEF RequestOK
<1>q. QED  BY <1>1, <1>3 DEF ExchangeInv

-----------------------------------------------------------------------------
\* opaque-token-auth: what the shared cache and the answers on the way may hold.
LongestKept == Max({OpaqueRoutes[c].cacheTtl : c \in DOMAIN OpaqueRoutes})

\* Provider i may be asked for the token of q: it counts, the route selects it
\* and its pattern fits.
MayAnswer(i, q) ==
  LET p == Providers[i]  cfg == OpaqueRoutes[q.route]
  IN /\ i \in DOMAIN Providers /\ p.name # "" /\ p.uri # ""
     /\ cfg.issuers = {} \/ {p.name, p.issuer} \intersect cfg.issuers # {}
     /\ p.pattern = "" \/ q.token \in Matches[p.pattern]

\* The provider of this name called the token active at instant or later.
CalledActive(seen, name, token, instant) ==
  name \in DOMAIN Results /\ token \in DOMAIN Results[name] /\ seen[name][token] >= instant

AnswerOK(k, a, seen) ==
  a.active => a.until \in Int /\ CalledActive(seen, k[1], k[2], a.until - (OpaqueTimeout + LongestKept))

\* What OpaqueAdmitsDue says of an admitted request.
AdmissionDue(q, seen) ==
  LET cfg == OpaqueRoutes[q.route]
  IN \E i \in DOMAIN Providers :
       LET p == Providers[i]  res == Results[p.name][q.token]
       IN /\ MayAnswer(i, q)
          /\ CalledActive(seen, p.name, q.token, q.at - (OpaqueTimeout + LongestKept))
          /\ res.exp > 0 => q.at <= res.exp + cfg.leeway
          /\ cfg.requiredScopes # {} => IntrospectedScopes(res.claims) \intersect cfg.requiredScopes # {}
          /\ cfg.audiences # {} => ParseAudience(Claim(res.claims, "aud")) \intersect cfg.audiences # {}

Waiting == {"introspect", "ask", "reply"}

AskOK(q, seen, now) ==
  /\ DOMAIN q = DOMAIN NoAsk
  /\ q.answer = "admitted" => q.phase = "done" /\ q.at \in Int /\ AdmissionDue(q, seen)
  /\ q.phase \in Waiting => q.route \in DOMAIN OpaqueRoutes /\ q.provs # {} /\ \A i \in q.provs : MayAnswer(i, q)
  /\ q.phase \in {"ask", "reply"} => q.sent \in Int /\ q.sent <= now
  /\ q.phase = "reply" /\ q.reply = "active" => CalledActive(seen, Foremost(q.provs).name, q.token, q.sent)

\* The history of the providers: what is active now is so at this instant.
HistoryOK(acts, seen, now) ==
  /\ now \in Int
  /\ DOMAIN acts = DOMAIN Results
  /\ \A p \in DOMAIN Results :
       /\ acts[p] \subseteq DOMAIN Results[p]
       /\ \A t \in DOMAIN Results[p] : seen[p][t] \in Int /\ seen[p][t] <= now
       /\ \A t \in acts[p] : seen[p][t] = now

OpaqueInv ==
  /\ HistoryOK(active, lastActive, time)
  /\ known.parsed => known = ParseIntrospectionProviders(Providers)
  /\ \A k \in DOMAIN answers : AnswerOK(k, answers[k], lastActive)
  /\ DOMAIN asks = OpaqueRequests /\ \A r \in OpaqueRequests : AskOK(asks[r], lastActive, time)

-----------------------------------------------------------------------------
\* The largest of the routes' lives is one of them.
LEMMA LongestBounds ==
  /\ DOMAIN OpaqueRoutes # {}
  /\ LongestKept \in Nat
  /\ \A c \in DOMAIN OpaqueRoutes : OpaqueRoutes[c].cacheTtl <= LongestKept
<1> DEFINE S == {OpaqueRoutes[c].cacheTtl : c \in DOMAIN OpaqueRoutes}
<1>1. PICK c \in DOMAIN OpaqueRoutes : \A d \in DOMAIN OpaqueRoutes : OpaqueRoutes[d].cacheTtl <= OpaqueRoutes[c].cacheTtl
  BY OpaqueAssumption DEF OpaqueAssumption
<1>2. S \subseteq Nat /\ OpaqueRoutes[c].cacheTtl \in S /\ \A y \in S : OpaqueRoutes[c].cacheTtl >= y
  BY <1>1, OpaqueAssumption DEF OpaqueAssumption
<1>3. Max(S) \in S /\ \A y \in S : Max(S) >= y
  <2> HIDE DEF S
  <2>q. QED  BY <1>2 DEF Max
<1>q. QED  BY <1>1, <1>2, <1>3 DEF LongestKept

LEMMA Span == OpaqueTimeout \in Nat /\ LongestKept \in Nat /\ OpaqueTimeout + LongestKept \in Int
<1>1. OpaqueTimeout \in Nat
  BY OpaqueAssumption DEF OpaqueAssumption
<1>2. LongestKept \in Nat
  BY LongestBounds
<1>q. QED  BY <1>1, <1>2

\* Histories only grow, so what was said of them stays true.
Grows(seen, later) == \A p \in DOMAIN Results : \A t \in DOMAIN Results[p] :
                        seen[p][t] \in Int /\ later[p][t] \in Int /\ later[p][t] >= seen[p][t]

LEMMA ActiveKept ==
  ASSUME NEW name, NEW token, NEW instant \in Int, NEW sooner \in Int, sooner <= instant, NEW seen, NEW later,
         CalledActive(seen, name, token, instant), Grows(seen, later)
  PROVE  CalledActive(later, name, token, sooner)
<1>1. name \in DOMAIN Results /\ token \in DOMAIN Results[name] /\ seen[name][token] >= instant
  BY DEF CalledActive
<1>2. seen[name][token] \in Int /\ later[name][token] \in Int /\ later[name][token] >= seen[name][token]
  BY <1>1 DEF Grows
<1>q. QED  BY <1>1, <1>2 DEF CalledActive

LEMMA AnswerKept ==
  ASSUME NEW k, NEW a, NEW seen, NEW later, AnswerOK(k, a, seen), Grows(seen, later)
  PROVE  AnswerOK(k, a, later)
<1>1. OpaqueTimeout + LongestKept \in Int
  BY Span
<1>q. QED  BY <1>1, ActiveKept DEF AnswerOK

LEMMA AskKept ==
  ASSUME NEW q, NEW seen, NEW later, NEW now \in Int, NEW soon \in Int, now <= soon, AskOK(q, seen, now), Grows(seen, later)
  PROVE  AskOK(q, later, soon)
<1>1. OpaqueTimeout + LongestKept \in Int
  BY Span
<1>2. q.at \in Int /\ AdmissionDue(q, seen) => AdmissionDue(q, later)
  BY <1>1, ActiveKept DEF AdmissionDue
<1>3. q.sent \in Int /\ q.sent <= now => q.sent <= soon
  OBVIOUS
<1>4. q.sent \in Int /\ CalledActive(seen, Foremost(q.provs).name, q.token, q.sent)
        => CalledActive(later, Foremost(q.provs).name, q.token, q.sent)
  BY ActiveKept
<1>q. QED  BY <1>2, <1>3, <1>4 DEF AskOK, Waiting

\* The least of some positions.
LEMMA LeastMember ==
  ASSUME NEW n \in Nat, NEW S \in SUBSET (0 .. n), S # {}
  PROVE  \E x \in S : \A y \in S : x <= y
<1> DEFINE U == 0 .. n
           Below == {0 .. x : x \in S}
<1>1. Below \subseteq FiniteSubsetsOf(U) /\ Below # {}
  <2>1. ASSUME NEW x \in S  PROVE 0 .. x \subseteq U /\ IsFiniteSet(0 .. x)
    <3>1. x \in Int /\ x <= n
      OBVIOUS
    <3>2. IsFiniteSet(0 .. x)
      BY <3>1, FS_Interval, 0 \in Int
    <3>q. QED  BY <3>1, <3>2
  <2>q. QED  BY <2>1 DEF FiniteSubsetsOf
<1>2. PICK W \in Below : \A V \in Below : <<V, W>> \notin StrictSubsetOrdering(U)
  <2> HIDE DEF Below, U
  <2> QED
    BY <1>1, WFMin, FS_StrictSubsetOrderingWellFounded
<1>3. PICK x \in S : W = 0 .. x
  OBVIOUS
<1>4. ASSUME NEW y \in S, y < x PROVE FALSE
  <2>1. 0 .. y \in Below /\ 0 .. y \subseteq U /\ W \subseteq U
    BY <1>3
  <2>2. 0 .. y \subseteq W /\ x \in W /\ x \notin 0 .. y
    BY <1>3, <1>4
  <2>3. <<0 .. y, W>> \in StrictSubsetOrdering(U)
    <3>1. 0 .. y \subseteq W /\ 0 .. y # W
      BY <2>2
    <3> HIDE DEF U
    <3> QED
      BY <2>1, <3>1 DEF StrictSubsetOrdering
  <2> QED
    BY <1>2, <2>1, <2>3
<1> QED
  BY <1>4

LEMMA MinIn ==
  ASSUME NEW S, S \subseteq Nat, S # {}
  PROVE  Min(S) \in S
<1>1. PICK n \in S : TRUE
  OBVIOUS
<1>2. PICK x \in S \intersect (0 .. n) : \A y \in S \intersect (0 .. n) : x <= y
  <2>1. n \in Nat /\ S \intersect (0 .. n) \in SUBSET (0 .. n) /\ n \in S \intersect (0 .. n)
    BY <1>1
  <2>2. S \intersect (0 .. n) # {}
    BY <2>1
  <2>q. QED  BY <2>1, <2>2, LeastMember
<1>3. \A y \in S : x <= y
  BY <1>1, <1>2
<1>q. QED  BY <1>2, <1>3 DEF Min

LEMMA ForemostMay ==
  ASSUME NEW q, q.provs # {}, \A i \in q.provs : MayAnswer(i, q)
  PROVE  Min(q.provs) \in q.provs /\ MayAnswer(Min(q.provs), q) /\ Foremost(q.provs) = Providers[Min(q.provs)]
<1>1. q.provs \subseteq Nat
  BY OpaqueAssumption DEF OpaqueAssumption, MayAnswer
<1>q. QED  BY <1>1, MinIn DEF Foremost

-----------------------------------------------------------------------------
\* A step that changes one request, and what others may rest on not at all.
Only(r) ==
  /\ UNCHANGED <<time, active, lastActive>>
  /\ \A x \in OpaqueRequests : x # r => asks'[x] = asks[x]

\* The answer of a provider that is active is judged on the route's demands.
LEMMA Judged ==
  ASSUME NEW r \in OpaqueRequests, OpaqueInv, asks[r].phase \in Waiting,
         CalledActive(lastActive, Foremost(asks[r].provs).name, asks[r].token, time - (OpaqueTimeout + LongestKept))
  PROVE  AskOK(Judge(asks[r], OpaqueCfg(r), Results[Foremost(asks[r].provs).name][asks[r].token]), lastActive, time)
<1> DEFINE q == asks[r]
           p == Foremost(q.provs)
           res == Results[p.name][q.token]
           cfg == OpaqueRoutes[q.route]
           e == Judge(q, OpaqueCfg(r), res)
<1>1. /\ q.route \in DOMAIN OpaqueRoutes /\ Min(q.provs) \in DOMAIN Providers /\ MayAnswer(Min(q.provs), q)
      /\ p = Providers[Min(q.provs)] /\ OpaqueCfg(r) = cfg /\ time \in Int
  BY ForemostMay DEF OpaqueInv, AskOK, HistoryOK, MayAnswer, OpaqueCfg
<1>2. res.exp \in Int /\ cfg.leeway \in Nat
  BY <1>1, OpaqueAssumption DEF OpaqueAssumption, CalledActive
<1>3. CASE e = Refused(q)
  BY <1>3 DEF Refused, Done, NoAsk, AskOK, Waiting
<1>4. CASE e = Admitted(q, cfg, res) /\ e # Refused(q)
  <2>1. /\ DOMAIN e = DOMAIN NoAsk /\ e.answer = "admitted" /\ e.phase = "done" /\ e.at = time /\ e.route = q.route /\ e.token = q.token
    BY <1>4 DEF Admitted, Done, NoAsk
  <2>2. /\ ~(res.exp > 0 /\ time > res.exp + cfg.leeway)
        /\ ~(cfg.audiences # {} /\ ParseAudience(Claim(res.claims, "aud")) \intersect cfg.audiences = {})
        /\ ~(cfg.requiredScopes # {} /\ IntrospectedScopes(res.claims) \intersect cfg.requiredScopes = {})
    BY <1>1, <1>4, Zenon DEF Judge
  <2>3. MayAnswer(Min(q.provs), e)
    BY <1>1, <2>1 DEF MayAnswer
  <2>4. CalledActive(lastActive, p.name, e.token, e.at - (OpaqueTimeout + LongestKept))
    BY <2>1
  <2>5. /\ res.exp > 0 => e.at <= res.exp + cfg.leeway
        /\ cfg.requiredScopes # {} => IntrospectedScopes(res.claims) \intersect cfg.requiredScopes # {}
        /\ cfg.audiences # {} => ParseAudience(Claim(res.claims, "aud")) \intersect cfg.audiences # {}
    <3> HIDE DEF e, res, cfg
    <3>1. res.exp > 0 => e.at <= res.exp + cfg.leeway
      BY <1>1, <1>2, <2>1, <2>2
    <3>q. QED  BY <2>2, <3>1, Zenon
  <2>6. AdmissionDue(e, lastActive)
    <3> HIDE DEF e
    <3>q. QED  BY <1>1, <2>1, <2>3, <2>4, <2>5, Zenon DEF AdmissionDue
  <2>q. QED  BY <1>1, <2>1, <2>6 DEF AskOK, Waiting
<1>q. QED
  <2>1. e = Refused(q) \/ e = Admitted(q, cfg, res)
    BY <1>1, Zenon DEF Judge
  <2>q. QED  BY <1>3, <1>4, <2>1

\* What heeding an answer makes of the request.
LEMMA Heeded ==
  ASSUME NEW r \in OpaqueRequests, OpaqueInv, asks[r].phase \in Waiting, NEW isActive \in BOOLEAN,
         isActive => CalledActive(lastActive, Foremost(asks[r].provs).name, asks[r].token, time - (OpaqueTimeout + LongestKept)),
         Heed(r, isActive)
  PROVE  /\ DOMAIN asks' = OpaqueRequests
         /\ \A x \in OpaqueRequests : AskOK(asks'[x], lastActive, time)
<1> DEFINE q == asks[r]
           next == [q EXCEPT !.provs = @ \ {Min(@)}, !.phase = "introspect", !.tries = 0, !.reply = ""]
           e == asks'[r]
<1>1. DOMAIN asks' = OpaqueRequests /\ \A x \in OpaqueRequests : x # r => asks'[x] = asks[x]
  BY DEF Heed, OpaqueInv
<1>2. CASE isActive
  BY <1>1, <1>2, Judged DEF Heed, OpaqueInv
<1>3. CASE ~isActive
  <2>1. e = (IF q.provs # {Min(q.provs)} THEN next ELSE Refused(q))
    BY <1>3, Zenon DEF Heed, OpaqueInv
  <2>2. AskOK(Refused(q), lastActive, time)
    BY DEF Refused, Done, NoAsk, AskOK, Waiting
  <2>3. ASSUME q.provs # {Min(q.provs)}  PROVE AskOK(next, lastActive, time)
    <3>1. /\ DOMAIN next = DOMAIN NoAsk /\ next.answer = q.answer /\ next.phase = "introspect" /\ next.route = q.route /\ next.token = q.token
          /\ next.provs = q.provs \ {Min(q.provs)} /\ q.answer # "admitted"
      BY DEF OpaqueInv, AskOK, NoAsk, Waiting
    <3>2. q.route \in DOMAIN OpaqueRoutes /\ q.provs # {} /\ \A i \in q.provs : MayAnswer(i, q)
      BY DEF OpaqueInv, AskOK
    <3>3. next.provs # {}
      BY <2>3, <3>1, <3>2
    <3>4. \A i \in next.provs : MayAnswer(i, next)
      BY <3>1, <3>2 DEF MayAnswer
    <3> HIDE DEF next
    <3>q. QED  BY <3>1, <3>2, <3>3, <3>4 DEF AskOK, Waiting
  <2> HIDE DEF next
  <2>4. AskOK(e, lastActive, time)
    BY <2>1, <2>2, <2>3, Zenon
  <2>q. QED  BY <1>1, <2>4 DEF OpaqueInv
<1>q. QED  BY <1>2, <1>3

-----------------------------------------------------------------------------
\* One step per action.
Past == \A k \in DOMAIN answers : AnswerOK(k, answers[k], lastActive)

LEMMA OpaqueFrame ==
  ASSUME OpaqueInv, UNCHANGED <<time, active, lastActive>>, known' = known \/ known' = GetProviders,
         DOMAIN asks' = OpaqueRequests, \A x \in OpaqueRequests : AskOK(asks'[x], lastActive, time),
         \A k \in DOMAIN answers' : AnswerOK(k, answers'[k], lastActive)
  PROVE  OpaqueInv'
<1>1. known'.parsed => known' = ParseIntrospectionProviders(Providers)
  BY DEF OpaqueInv, GetProviders
<1>2. HistoryOK(active', lastActive', time')
  BY DEF OpaqueInv
<1>q. QED  BY <1>1, <1>2 DEF OpaqueInv

LEMMA RequestArrives ==
  ASSUME OpaqueInv, NEW r \in OpaqueRequests, NEW c \in DOMAIN OpaqueRoutes, NEW words \in OpaqueHeaders, OpaqueOnRequestHeaders(r, c, words)
  PROVE  OpaqueInv'
<1> DEFINE cfg == OpaqueRoutes[c]
           token == ExtractToken(words, IF cfg.authHeaderPrefix # "" THEN cfg.authHeaderPrefix ELSE cfg.scheme)
           provs == FilterProvidersByToken(SelectProviders(GetProviders.providers, cfg.issuers), token)
           q == [NoAsk EXCEPT !.route = c, !.token = token, !.phase = "introspect"]
           next == [q EXCEPT !.provs = provs]
<1>1. AskOK(Refused(q), lastActive, time)
  BY DEF Refused, Done, NoAsk, AskOK, Waiting
<1>2. GetProviders = ParseIntrospectionProviders(Providers)
  BY DEF OpaqueInv, GetProviders
<1>3. GetProviders.providers \subseteq {i \in DOMAIN Providers : Providers[i].name # "" /\ Providers[i].uri # ""}
  BY <1>2 DEF ParseIntrospectionProviders
<1>4. ASSUME provs # {}  PROVE AskOK(next, lastActive, time)
  <2>1. /\ DOMAIN next = DOMAIN NoAsk /\ next.answer = "" /\ next.phase = "introspect" /\ next.route = c /\ next.token = token /\ next.provs = provs
    BY DEF NoAsk
  <2>2. ASSUME NEW i \in provs  PROVE MayAnswer(i, next)
    <3>1. i \in DOMAIN Providers /\ Providers[i].name # "" /\ Providers[i].uri # ""
      BY <1>3 DEF FilterProvidersByToken, SelectProviders
    <3>2. cfg.issuers = {} \/ {Providers[i].name, Providers[i].issuer} \intersect cfg.issuers # {}
      BY DEF FilterProvidersByToken, SelectProviders
    <3>3. Providers[i].pattern = "" \/ token \in Matches[Providers[i].pattern]
      BY DEF FilterProvidersByToken
    <3>q. QED  BY <2>1, <3>1, <3>2, <3>3 DEF MayAnswer
  <2> HIDE DEF next, provs
  <2>q. QED  BY <1>4, <2>1, <2>2 DEF AskOK, Waiting
<1>5. /\ asks' = [asks EXCEPT ![r] = IF ~GetProviders.ok \/ token = "" \/ provs = {} THEN Refused(q) ELSE next]
      /\ known' = GetProviders /\ UNCHANGED <<time, active, lastActive, answers>>
  BY Zenon DEF OpaqueOnRequestHeaders
<1>6. DOMAIN asks' = OpaqueRequests /\ \A x \in OpaqueRequests : AskOK(asks'[x], lastActive, time)
  <2> HIDE DEF next, provs, q, token
  <2>q. QED  BY <1>1, <1>4, <1>5 DEF OpaqueInv
<1>q. QED  BY <1>5, <1>6, OpaqueFrame DEF OpaqueInv

LEMMA IntrospectStep ==
  ASSUME OpaqueInv, NEW r \in OpaqueRequests, Introspect(r)
  PROVE  OpaqueInv'
<1> DEFINE q == asks[r]  p == Foremost(q.provs)  key == IntrospectionCacheKey(p, q.token)
<1>1. q.phase = "introspect" /\ q.phase \in Waiting /\ UNCHANGED <<time, active, lastActive, known, answers>>
  BY DEF Introspect, Waiting
<1>2. ASSUME NEW isActive \in BOOLEAN, Heed(r, isActive),
             isActive => CalledActive(lastActive, p.name, q.token, time - (OpaqueTimeout + LongestKept))
      PROVE  OpaqueInv'
  <2>1. DOMAIN asks' = OpaqueRequests /\ \A x \in OpaqueRequests : AskOK(asks'[x], lastActive, time)
    BY <1>1, <1>2, Heeded
  <2>q. QED  BY <1>1, <2>1, OpaqueFrame DEF OpaqueInv
<1>3. CASE Heed(r, FALSE)
  BY <1>2, <1>3
<1>4. CASE Fresh(key) /\ Heed(r, answers[key].active)
  <2>1. AnswerOK(key, answers[key], lastActive) /\ time < answers[key].until /\ key[1] = p.name /\ key[2] = q.token /\ time \in Int
    BY <1>4 DEF Fresh, OpaqueInv, IntrospectionCacheKey, HistoryOK
  <2>2. CASE answers[key].active
    <3>1. answers[key].until \in Int /\ CalledActive(lastActive, p.name, q.token, answers[key].until - (OpaqueTimeout + LongestKept))
      BY <2>1, <2>2 DEF AnswerOK
    <3>2. CalledActive(lastActive, p.name, q.token, time - (OpaqueTimeout + LongestKept))
      <4>1. Grows(lastActive, lastActive)
        BY DEF OpaqueInv, HistoryOK, Grows
      <4>q. QED  BY <2>1, <3>1, <4>1, Span, ActiveKept
    <3>3. Heed(r, TRUE)
      BY <1>4, <2>2, Zenon DEF Heed
    <3>q. QED  BY <1>2, <3>2, <3>3
  <2>3. CASE ~answers[key].active
    <3>1. Heed(r, FALSE)
      BY <1>4, <2>3, Zenon DEF Heed
    <3>q. QED  BY <1>3, <3>1
  <2>q. QED  BY <2>2, <2>3
<1>5. CASE asks' = [asks EXCEPT ![r].phase = "ask", ![r].sent = time]
  <2>1. DOMAIN asks' = OpaqueRequests /\ \A x \in OpaqueRequests : x # r => asks'[x] = asks[x]
    BY <1>5 DEF OpaqueInv
  <2>2. DOMAIN asks'[r] = DOMAIN NoAsk /\ asks'[r] = [q EXCEPT !.phase = "ask", !.sent = time] /\ time \in Int
    BY <1>5 DEF OpaqueInv, AskOK, HistoryOK
  <2>3. AskOK(asks'[r], lastActive, time)
    <3>1. AskOK(q, lastActive, time)
      BY DEF OpaqueInv
    <3>2. \A i : MayAnswer(i, q) => MayAnswer(i, asks'[r])
      BY <2>2, <3>1 DEF AskOK, NoAsk, MayAnswer
    <3>q. QED  BY <1>1, <2>2, <3>1, <3>2 DEF AskOK, NoAsk, Waiting
  <2>4. \A x \in OpaqueRequests : AskOK(asks'[x], lastActive, time)
    BY <2>1, <2>3 DEF OpaqueInv
  <2>q. QED  BY <1>1, <2>1, <2>4, OpaqueFrame DEF OpaqueInv
<1>q. QED  BY <1>3, <1>4, <1>5, Zenon DEF Introspect

LEMMA AnswersStep ==
  ASSUME OpaqueInv, NEW r \in OpaqueRequests, NEW fails \in BOOLEAN, ProviderAnswers(r, fails)
  PROVE  OpaqueInv'
<1> DEFINE q == asks[r]  name == Foremost(q.provs).name
           said == IF fails THEN "error" ELSE IF q.token \in active[name] THEN "active" ELSE "inactive"
<1>1. q.phase = "ask" /\ asks' = [asks EXCEPT ![r].phase = "reply", ![r].reply = said] /\ UNCHANGED <<time, active, lastActive, known, answers>>
  BY DEF ProviderAnswers
<1>2. AskOK(q, lastActive, time) /\ q.sent \in Int /\ q.sent <= time /\ q.provs # {} /\ \A i \in q.provs : MayAnswer(i, q)
  BY <1>1 DEF OpaqueInv, AskOK, Waiting
<1>3. ASSUME said = "active"  PROVE CalledActive(lastActive, name, q.token, q.sent)
  <2>1. q.token \in active[name]
    BY <1>3
  <2>2. name \in DOMAIN Results
    <3>1. Foremost(q.provs) = Providers[Min(q.provs)] /\ MayAnswer(Min(q.provs), q)
      BY <1>2, ForemostMay
    <3>q. QED  BY <3>1, OpaqueAssumption DEF OpaqueAssumption, MayAnswer
  <2>3. active[name] \subseteq DOMAIN Results[name] /\ lastActive[name][q.token] = time
    BY <2>1, <2>2 DEF OpaqueInv, HistoryOK
  <2>q. QED  BY <1>2, <2>1, <2>2, <2>3 DEF CalledActive
<1>4. /\ DOMAIN asks' = OpaqueRequests /\ \A x \in OpaqueRequests : x # r => asks'[x] = asks[x]
      /\ asks'[r] = [q EXCEPT !.phase = "reply", !.reply = said]
  BY <1>1 DEF OpaqueInv
<1>5. AskOK(asks'[r], lastActive, time)
  <2>1. \A i : MayAnswer(i, q) => MayAnswer(i, asks'[r])
    BY <1>4, <1>2 DEF AskOK, NoAsk, MayAnswer
  <2>2. /\ DOMAIN asks'[r] = DOMAIN NoAsk /\ asks'[r].phase = "reply" /\ asks'[r].reply = said /\ asks'[r].answer = q.answer
        /\ asks'[r].provs = q.provs /\ asks'[r].token = q.token /\ asks'[r].sent = q.sent /\ asks'[r].route = q.route
    BY <1>2, <1>4 DEF AskOK, NoAsk
  <2> HIDE DEF said
  <2>q. QED  BY <1>1, <1>2, <1>3, <2>1, <2>2 DEF AskOK, Waiting
<1>6. \A x \in OpaqueRequests : AskOK(asks'[x], lastActive, time)
  BY <1>4, <1>5 DEF OpaqueInv
<1>q. QED  BY <1>1, <1>4, <1>6, OpaqueFrame DEF OpaqueInv

LEMMA OneMore ==
  ASSUME NEW f, NEW key, NEW entry, NEW k \in DOMAIN Stored(f, key, entry)
  PROVE  IF k = key THEN Stored(f, key, entry)[k] = entry ELSE k \in DOMAIN f /\ Stored(f, key, entry)[k] = f[k]
BY DEF Stored, Over

\* What is kept of an answer.
LEMMA KeptBounds ==
  ASSUME NEW r \in OpaqueRequests, asks[r].route \in DOMAIN OpaqueRoutes, time \in Int, NEW exp \in Int
  PROVE  KeptUntil(OpaqueCfg(r), "active", exp) \in Int /\ KeptUntil(OpaqueCfg(r), "active", exp) <= time + LongestKept
<1> DEFINE ttl == OpaqueCfg(r).cacheTtl  S == {time + ttl, exp}
<1>1. ttl \in Nat /\ ttl <= LongestKept /\ LongestKept \in Nat
  BY LongestBounds, OpaqueAssumption DEF OpaqueAssumption, OpaqueCfg
<1>2. Min(S) \in Int /\ Min(S) <= time + ttl
  <2>1. \E x \in S : \A y \in S : x <= y
    BY <1>1
  <2>2. Min(S) \in S /\ \A y \in S : Min(S) <= y
    BY <2>1 DEF Min
  <2>q. QED  BY <1>1, <2>2
<1>3. KeptUntil(OpaqueCfg(r), "active", exp) = (IF exp > 0 THEN Min(S) ELSE time + ttl)
  BY DEF KeptUntil
<1> HIDE DEF S, ttl
<1>q. QED  BY <1>1, <1>2, <1>3

LEMMA ReplyStep ==
  ASSUME OpaqueInv, NEW r \in OpaqueRequests, IntrospectReply(r)
  PROVE  OpaqueInv'
<1> DEFINE q == asks[r]  p == Foremost(q.provs)  cfg == OpaqueCfg(r)
           until == KeptUntil(cfg, q.reply, Results[p.name][q.token].exp)
           failed == q.reply = "error" \/ time - q.sent > OpaqueTimeout
           again == [q EXCEPT !.phase = "ask", !.tries = @ + 1, !.sent = time, !.reply = ""]
           key == IntrospectionCacheKey(p, q.token)
           entry == [active |-> q.reply = "active", until |-> until]
<1>1. q.phase = "reply" /\ q.phase \in Waiting /\ UNCHANGED <<time, active, lastActive, known>>
  BY DEF IntrospectReply, Waiting
<1>2. /\ AskOK(q, lastActive, time) /\ q.sent \in Int /\ q.sent <= time /\ q.route \in DOMAIN OpaqueRoutes /\ time \in Int
      /\ q.reply = "active" => CalledActive(lastActive, p.name, q.token, q.sent)
  BY <1>1 DEF OpaqueInv, AskOK, Waiting, HistoryOK
<1>3. CASE failed
  <2>1. answers' = answers
    BY <1>3 DEF IntrospectReply
  <2>2. CASE Heed(r, FALSE)
    BY <1>1, <2>1, <2>2, Heeded, OpaqueFrame DEF OpaqueInv
  <2>3. CASE asks' = [asks EXCEPT ![r].phase = "ask", ![r].tries = @ + 1, ![r].sent = time, ![r].reply = ""]
    <3>1. /\ DOMAIN asks' = OpaqueRequests /\ \A x \in OpaqueRequests : x # r => asks'[x] = asks[x]
          /\ asks'[r] = again
      BY <2>3 DEF OpaqueInv
    <3>2. /\ DOMAIN again = DOMAIN NoAsk /\ again.phase = "ask" /\ again.answer = q.answer
          /\ again.provs = q.provs /\ again.token = q.token /\ again.sent = time /\ again.route = q.route
      BY <1>2 DEF AskOK, NoAsk
    <3>3. \A i : MayAnswer(i, q) => MayAnswer(i, again)
      BY <3>2 DEF MayAnswer
    <3> HIDE DEF again
    <3>4. AskOK(again, lastActive, time)
      BY <1>1, <1>2, <3>2, <3>3 DEF AskOK, Waiting
    <3>5. \A x \in OpaqueRequests : AskOK(asks'[x], lastActive, time)
      BY <3>1, <3>4 DEF OpaqueInv
    <3>q. QED  BY <1>1, <2>1, <3>1, <3>5, OpaqueFrame DEF OpaqueInv
  <2>q. QED  BY <1>3, <2>2, <2>3, Zenon DEF IntrospectReply
<1>4. CASE ~failed
  <2>1. /\ Heed(r, q.reply = "active") /\ time - q.sent <= OpaqueTimeout
        /\ answers' = answers \/ (until > time /\ answers' = Stored(answers, key, entry))
    <3>1. Heed(r, q.reply = "active") /\ (answers' = answers \/ (until > time /\ answers' = Stored(answers, key, entry)))
      BY <1>4, Zenon DEF IntrospectReply
    <3>q. QED  BY <1>2, <1>4, <3>1, Span
  <2>2. Grows(lastActive, lastActive)
    BY DEF OpaqueInv, HistoryOK, Grows
  <2>3. ASSUME q.reply = "active"
        PROVE  /\ CalledActive(lastActive, p.name, q.token, time - (OpaqueTimeout + LongestKept))
               /\ until \in Int /\ CalledActive(lastActive, p.name, q.token, until - (OpaqueTimeout + LongestKept))
    <3>1. CalledActive(lastActive, p.name, q.token, q.sent) /\ time - q.sent <= OpaqueTimeout
      BY <1>2, <2>1, <2>3
    <3>2. Results[p.name][q.token].exp \in Int
      BY <3>1, OpaqueAssumption DEF OpaqueAssumption, CalledActive
    <3>3. until \in Int /\ until <= time + LongestKept
      BY <1>2, <2>3, <3>2, KeptBounds
    <3> HIDE DEF until
    <3>4. /\ time - (OpaqueTimeout + LongestKept) \in Int /\ time - (OpaqueTimeout + LongestKept) <= q.sent
          /\ until - (OpaqueTimeout + LongestKept) \in Int /\ until - (OpaqueTimeout + LongestKept) <= q.sent
      BY <1>2, <3>1, <3>3, Span
    <3>q. QED  BY <1>2, <2>2, <3>1, <3>3, <3>4, ActiveKept
  <2>4. DOMAIN asks' = OpaqueRequests /\ \A x \in OpaqueRequests : AskOK(asks'[x], lastActive, time)
    BY <1>1, <2>1, <2>3, Heeded
  <2>5. AnswerOK(key, entry, lastActive)
    <3>1. key[1] = p.name /\ key[2] = q.token /\ entry.until = until /\ (entry.active <=> q.reply = "active")
      BY DEF IntrospectionCacheKey
    <3> HIDE DEF key, entry, until
    <3>q. QED  BY <2>3, <3>1 DEF AnswerOK
  <2>6. \A k \in DOMAIN answers' : AnswerOK(k, answers'[k], lastActive)
    <3> HIDE DEF key, entry
    <3>q. QED  BY <2>1, <2>5, OneMore DEF OpaqueInv
  <2>q. QED  BY <1>1, <2>4, <2>6, OpaqueFrame
<1>q. QED  BY <1>3, <1>4

\* The providers and the clock: histories grow.
LEMMA WorldStep ==
  ASSUME OpaqueInv, UNCHANGED <<known, answers, asks>>, HistoryOK(active', lastActive', time'),
         time' >= time, Grows(lastActive, lastActive')
  PROVE  OpaqueInv'
<1>1. time \in Int /\ time' \in Int
  BY DEF OpaqueInv, HistoryOK
<1>2. \A r \in OpaqueRequests : AskOK(asks'[r], lastActive', time')
  BY <1>1, AskKept DEF OpaqueInv
<1>3. \A k \in DOMAIN answers' : AnswerOK(k, answers'[k], lastActive')
  BY AnswerKept DEF OpaqueInv
<1>q. QED  BY <1>2, <1>3 DEF OpaqueInv

LEMMA RevokeStep ==
  ASSUME OpaqueInv, NEW p \in DOMAIN Results, NEW t \in DOMAIN Results[p], Revoke(p, t)
  PROVE  OpaqueInv'
<1>1. HistoryOK(active', lastActive', time')
  BY DEF OpaqueInv, HistoryOK, Revoke
<1>2. time' >= time /\ Grows(lastActive, lastActive')
  BY DEF OpaqueInv, HistoryOK, Revoke, Grows
<1>q. QED  BY <1>1, <1>2, WorldStep DEF Revoke

LEMMA TickStep == ASSUME OpaqueInv, OpaqueTick  PROVE OpaqueInv'
<1>1. /\ time' = time + 1 /\ time \in Int /\ active' = active
      /\ \A p \in DOMAIN Results : \A t \in DOMAIN Results[p] :
           lastActive'[p][t] = IF t \in active[p] THEN time + 1 ELSE lastActive[p][t]
  BY DEF OpaqueInv, HistoryOK, OpaqueTick
<1>2. HistoryOK(active', lastActive', time')
  BY <1>1 DEF OpaqueInv, HistoryOK
<1>3. time' >= time /\ Grows(lastActive, lastActive')
  BY <1>1 DEF OpaqueInv, HistoryOK, Grows
<1>q. QED  BY <1>2, <1>3, WorldStep DEF OpaqueTick

LEMMA OpaqueStep == ASSUME OpaqueInv, [OpaqueNext]_opaqueVars  PROVE OpaqueInv'
<1>1. CASE UNCHANGED opaqueVars
  BY <1>1 DEF opaqueVars, OpaqueInv
<1>2. CASE OpaqueNext
  BY <1>2, TickStep, RevokeStep, RequestArrives, IntrospectStep, ReplyStep, AnswersStep, Zenon DEF OpaqueNext
<1>q. QED  BY <1>1, <1>2

LEMMA OpaqueStart == OpaqueInit => OpaqueInv
<1> SUFFICES ASSUME OpaqueInit  PROVE OpaqueInv
  OBVIOUS
<1>1. HistoryOK(active, lastActive, time)
  BY DEF OpaqueInit, HistoryOK
<1>2. ~known.parsed /\ DOMAIN answers = {} /\ DOMAIN asks = OpaqueRequests /\ \A r \in OpaqueRequests : asks[r] = NoAsk
  BY DEF OpaqueInit
<1>3. AskOK(NoAsk, lastActive, time)
  BY DEF AskOK, NoAsk, Waiting
<1>q. QED  BY <1>1, <1>2, <1>3 DEF OpaqueInv

\* The invariant is about what OpaqueAdmitsDue asks.
LEMMA OpaqueDue == OpaqueInv => OpaqueAdmitsDue
<1> SUFFICES ASSUME OpaqueInv, NEW r \in OpaqueRequests, asks[r].answer = "admitted"
             PROVE  LET q == asks[r]  cfg == OpaqueCfg(r)
                        ttl == Max({OpaqueRoutes[c].cacheTtl : c \in DOMAIN OpaqueRoutes})
                    IN \E i \in DOMAIN Providers :
                         LET p == Providers[i]  res == Results[p.name][q.token]
                         IN /\ cfg.issuers = {} \/ {p.name, p.issuer} \intersect cfg.issuers # {}
                            /\ p.pattern = "" \/ q.token \in Matches[p.pattern]
                            /\ lastActive[p.name][q.token] >= q.at - (OpaqueTimeout + ttl)
                            /\ res.exp > 0 => q.at <= res.exp + cfg.leeway
                            /\ cfg.requiredScopes # {} => IntrospectedScopes(res.claims) \intersect cfg.requiredScopes # {}
                            /\ cfg.audiences # {} => ParseAudience(Claim(res.claims, "aud")) \intersect cfg.audiences # {}
  BY DEF OpaqueAdmitsDue
<1>1. AdmissionDue(asks[r], lastActive)
  BY DEF OpaqueInv, AskOK
<1>q. QED  BY <1>1, Zenon DEF AdmissionDue, MayAnswer, CalledActive, OpaqueCfg, LongestKept

-----------------------------------------------------------------------------
\* oauth2-token-exchange and backend-jwt: whatever other policies edit between
\* the phases, however late the endpoint answers and whatever the routes and
\* versions share of a cache, the token a backend is sent was issued for the
\* caller of this request, on the terms of its own route and deployment, and is
\* alive.
THEOREM CredentialsDue == ASSUME DigestTells PROVE SuiteSpec => []CredentialDue
<1>1. SuiteInit => ExchangeInv /\ BackendInv
  BY ExchangeStart, BackendStart DEF SuiteInit
<1>2. ExchangeInv /\ BackendInv /\ [SuiteNext]_suiteVars => ExchangeInv' /\ BackendInv'
  <2>1. [SuiteNext]_suiteVars => [ExchangeNext]_exchangeVars /\ [BackendNext]_backendVars
    BY DEF SuiteNext, suiteVars
  <2>q. QED  BY <2>1, ExchangeStep, BackendStep
<1>3. ExchangeInv /\ BackendInv => CredentialDue
  BY ExchangeDue DEF CredentialDue, BackendInv
<1>q. QED  BY <1>1, <1>2, <1>3, PTL DEF SuiteSpec

\* opaque-token-auth: whatever provider is asked first, however late it answers
\* and whatever the routes share of the cached answers, an admitted request has
\* a token that a provider its route trusts called active recently enough, and
\* that meets what the route demands.
THEOREM OpaqueCallersDue == SuiteSpec => []OpaqueAdmitsDue
<1>1. SuiteInit => OpaqueInv
  BY OpaqueStart DEF SuiteInit
<1>2. OpaqueInv /\ [SuiteNext]_suiteVars => OpaqueInv'
  <2>1. [SuiteNext]_suiteVars => [OpaqueNext]_opaqueVars
    BY DEF SuiteNext, suiteVars
  <2>q. QED  BY <2>1, OpaqueStep
<1>q. QED  BY <1>1, <1>2, OpaqueDue, PTL DEF SuiteSpec

=============================================================================
