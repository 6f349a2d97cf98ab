---------------------------- MODULE ServiceProofs ----------------------------
(***************************************************************************)
(* Proofs about ServiceGuardrails: a guarded text goes on only after the   *)
(* answer that lets it, for any configurations, texts and answers of the   *)
(* services, and any number of attempts.                                   *)
(***************************************************************************)
EXTENDS ServiceGuardrails, FiniteSetTheorems, WellFoundedInduction, TLAPS

-----------------------------------------------------------------------------
(* Least and greatest.                                                      *)

\* A set of naturals up to n that has a member has a least one.
LEMMA LeastMember ==
  ASSUME NEW n \in Nat, NEW S \in SUBSET (0 .. n), S # {}
  PROVE  \E x \in S : \A y \in S : x <= y
<1> DEFINE U == 0 .. n
           Below == {0 .. x : x \in S}
<1>1. Below \subseteq FiniteSubsetsOf(U) /\ Below # {}
  <2>1. \A x \in S : 0 .. x \subseteq U /\ IsFiniteSet(0 .. x)
    BY FS_Interval
  <2> QED
    BY <2>1 DEF FiniteSubsetsOf
<1>2. PICK W \in Below : \A V \in Below : <<V, W>> \notin StrictSubsetOrdering(U)
  <2> HIDE DEF Below, U
  <2> QED
    BY <1>1, WFMin, FS_StrictSubsetOrderingWellFounded
<1>3. PICK x \in S : W = 0 .. x
  OBVIOUS
<1>4. ASSUME NEW y \in S, y < x PROVE FALSE
  <2>1. 0 .. y \in Below /\ 0 .. y \subseteq U /\ W \subseteq U
    BY <1>3
  <2>2. 0 .. y \subseteq W /\ x \in W /\ x \notin 0 .. y
    BY <1>3, <1>4
  <2>3. <<0 .. y, W>> \in StrictSubsetOrdering(U)
    <3>1. 0 .. y \subseteq W /\ 0 .. y # W
      BY <2>2
    <3> HIDE DEF U
    <3> QED
      BY <2>1, <3>1 DEF StrictSubsetOrdering
  <2> QED
    BY <1>2, <2>1, <2>3
<1> QED
  BY <1>4

\* The first of some attempts.
LEMMA FirstOf ==
  ASSUME NEW n \in Nat, NEW S \in SUBSET (1 .. n), S # {}
  PROVE  Min(S) \in S /\ \A y \in S : Min(S) <= y
<1>1. PICK x \in S : \A y \in S : x <= y
  BY LeastMember
<1> QED
  BY <1>1 DEF Min

\* The best of some scores.
LEMMA BestOf ==
  ASSUME NEW S \in SUBSET (-100 .. 100), S # {}
  PROVE  Max(S) \in S /\ \A y \in S : Max(S) >= y
<1> DEFINE T == {100 - x : x \in S}
<1>1. T \in SUBSET (0 .. 200) /\ T # {}
  OBVIOUS
<1>2. PICK t \in T : \A u \in T : t <= u
  <2>1. 200 \in Nat
    OBVIOUS
  <2>2. \A n \in Nat : \A S0 \in SUBSET (0 .. n) : S0 # {} => \E t \in S0 : \A u \in S0 : t <= u
    BY LeastMember
  <2> HIDE DEF T
  <2> QED
    BY <1>1, <2>1, <2>2, Zenon
<1>3. PICK x \in S : t = 100 - x
  BY <1>2
<1>4. \A y \in S : x >= y
  <2>1. ASSUME NEW y \in S PROVE x >= y
    <3>1. 100 - y \in T
      OBVIOUS
    <3>2. t <= 100 - y
      BY <1>2, <3>1
    <3> QED
      BY <1>3, <3>2
  <2> QED
    BY <2>1
<1> QED
  BY <1>3, <1>4 DEF Max

-----------------------------------------------------------------------------
(* What each verdict rests on.                                              *)

\* The thresholds of azure-content-safety-content-moderation.
AzureOK(f) == \A c \in Categories : f.threshold[c] \in -1 .. 7

\* callAzureContentSafetyAPI: the answer is that of the first attempt that had one.
LEMMA CallAnswered ==
  ASSUME ServiceValues, NEW rs \in [1 .. MaxRetries -> AzureReplies], CallAzureContentSafetyAPI(rs).ok
  PROVE  \E i \in DOMAIN rs : /\ \A j \in 1 .. (i - 1) : rs[j].status = 0 \/ rs[j].status >= 500
                              /\ rs[i].status = 200
                              /\ CallAzureContentSafetyAPI(rs).analysis = rs[i].analysis
<1> DEFINE final == {i \in 1 .. MaxRetries : rs[i].status # 0 /\ rs[i].status < 500}
           answer(i) == [ok |-> rs[i].status = 200 /\ rs[i].body, analysis |-> rs[i].analysis]
<1>1. final # {}
  BY DEF CallAzureContentSafetyAPI
<1>2. Min(final) \in final /\ \A j \in final : Min(final) <= j
  <2>1. final \in SUBSET (1 .. MaxRetries) /\ MaxRetries \in Nat
    BY DEF ServiceValues
  <2> HIDE DEF final
  <2> QED
    BY <1>1, <2>1, FirstOf
<1>3. CallAzureContentSafetyAPI(rs) = answer(Min(final))
  BY <1>1, Zenon DEF CallAzureContentSafetyAPI
<1>4. PICK i : i = Min(final)
  OBVIOUS
<1>5. i \in 1 .. MaxRetries /\ \A j \in final : i <= j
  BY <1>2, <1>4
<1>6. rs[i].status = 200 /\ CallAzureContentSafetyAPI(rs).analysis = rs[i].analysis
  <2>1. i \in final /\ CallAzureContentSafetyAPI(rs) = answer(i)
    BY <1>2, <1>3, <1>4, Zenon
  <2>2. answer(i).ok
    <3> HIDE DEF answer
    <3> QED
      BY <2>1, CallAzureContentSafetyAPI(rs).ok, Zenon
  <2>3. rs[i].status = 200 /\ rs[i].body
    BY <2>2, Zenon
  <2>4. answer(i).analysis = rs[i].analysis
    BY Zenon
  <2> HIDE DEF answer
  <2> QED
    BY <2>1, <2>3, <2>4, Zenon
<1>7. ASSUME NEW j \in 1 .. (i - 1) PROVE rs[j].status = 0 \/ rs[j].status >= 500
  <2>1. j \in 1 .. MaxRetries /\ ~(i <= j)
    BY <1>5 DEF ServiceValues
  <2>2. rs[j].status \in Nat
    BY <2>1 DEF ServiceValues
  <2>3. j \notin final
    BY <1>5, <2>1
  <2> QED
    BY <2>1, <2>2, <2>3
<1> QED
  BY <1>5, <1>6, <1>7

\* Azure content safety.
LEMMA AzureVerdict ==
  ASSUME ServiceValues, NEW f, AzureOK(f), NEW t \in {"text", "broken", "nobody"},
         NEW rs \in [1 .. MaxRetries -> AzureReplies], AzureValidatePayload(f, t, rs).forward
  PROVE  AzureDue(f, [text |-> t, rs |-> rs])
<1> DEFINE r == CallAzureContentSafetyAPI(rs)
           threshold(c) == IF c \in Categories THEN f.threshold[c] ELSE 0
           seen == [text |-> t, rs |-> rs]
<1>1. seen.text = t /\ seen.rs = rs
  OBVIOUS
<1>2. CASE GetValidCategories(f) = {} \/ t = "nobody"
  <2>1. GetValidCategories(f) = {} => \A c \in Categories : f.threshold[c] < 0
    BY DEF GetValidCategories, AzureOK
  <2> QED
    BY <1>1, <1>2, <2>1 DEF AzureDue
<1>3. CASE ~(GetValidCategories(f) = {} \/ t = "nobody") /\ (t = "broken" \/ ~r.ok)
  <2>1. AzureValidatePayload(f, t, rs) = Tolerated(f)
    BY <1>3 DEF AzureValidatePayload
  <2>2. f.passthroughOnError
    BY <2>1 DEF Tolerated
  <2> QED
    BY <2>2 DEF AzureDue
<1>4. CASE ~(GetValidCategories(f) = {} \/ t = "nobody") /\ t # "broken" /\ r.ok
  <2> DEFINE bad == \E a \in r.analysis : threshold(a.category) >= 0 /\ a.severity >= threshold(a.category)
  <2>1. ~bad
    <3>1. SUFFICES ASSUME bad PROVE FALSE
      OBVIOUS
    <3>2. AzureValidatePayload(f, t, rs) = Because("violation")
      BY <1>4, <3>1, Zenon DEF AzureValidatePayload
    <3>3. ~Because("violation").forward
      BY DEF Because
    <3> HIDE DEF bad
    <3> QED
      BY <3>2, <3>3, Zenon
  <2>2. PICK i \in DOMAIN rs : /\ \A j \in 1 .. (i - 1) : rs[j].status = 0 \/ rs[j].status >= 500
                              /\ rs[i].status = 200 /\ r.analysis = rs[i].analysis
    <3>1. CallAzureContentSafetyAPI(rs).ok
      BY <1>4
    <3> HIDE DEF r
    <3>2. \E i \in DOMAIN rs : /\ \A j \in 1 .. (i - 1) : rs[j].status = 0 \/ rs[j].status >= 500
                               /\ rs[i].status = 200
                               /\ CallAzureContentSafetyAPI(rs).analysis = rs[i].analysis
      BY <3>1, CallAnswered, Zenon
    <3> QED
      BY <3>2, Zenon DEF r
  <2>3. ASSUME NEW a \in rs[i].analysis, a.category \in Categories, f.threshold[a.category] >= 0
        PROVE  a.severity < f.threshold[a.category]
    <3>1. a.severity \in Int
      BY <2>2 DEF ServiceValues
    <3>2. f.threshold[a.category] \in Int /\ threshold(a.category) = f.threshold[a.category]
      BY <2>3 DEF AzureOK
    <3>3. ~(a.severity >= f.threshold[a.category])
      BY <2>1, <2>2, <2>3, <3>2
    <3> QED
      BY <3>1, <3>2, <3>3
  <2> HIDE DEF bad
  <2>4. t = "text"
    BY <1>4
  <2> HIDE DEF seen
  <2> QED
    BY <1>1, <2>2, <2>3, <2>4 DEF AzureDue
<1> QED
  BY <1>2, <1>3, <1>4

\* Similarities.
SemanticDue(c, ok, sim) ==
  /\ ok
  /\ \A p \in c.denied : sim[p] < c.deny
  /\ c.allowed # {} => \E p \in c.allowed : sim[p] >= c.allow

SemanticOK(c) ==
  /\ c.allow \in 0 .. 100 /\ c.deny \in 0 .. 100
  /\ c.allowed \subseteq Phrases /\ c.denied \subseteq Phrases

\* The best similarity is that of a phrase, or there is none to speak of.
LEMMA MostSimilar ==
  ASSUME ServiceValues, NEW sim \in [Phrases -> Scores], NEW S \in SUBSET Phrases
  PROVE  /\ MaxSimilarity(sim, S) \in -100 .. 100 /\ \A p \in S : sim[p] <= MaxSimilarity(sim, S)
         /\ MaxSimilarity(sim, S) >= 0 => \E p \in S : sim[p] = MaxSimilarity(sim, S)
<1> DEFINE all == {-100} \union {sim[p] : p \in S}
<1>1. all \in SUBSET (-100 .. 100) /\ all # {}
  <2>1. \A p \in S : sim[p] \in Scores
    OBVIOUS
  <2>2. \A x \in Scores : x \in -100 .. 100
    BY DEF ServiceValues
  <2>3. -100 \in -100 .. 100
    OBVIOUS
  <2>4. \A x \in all : x = -100 \/ \E p \in S : x = sim[p]
    OBVIOUS
  <2>5. \A x \in all : x \in -100 .. 100
    <3> HIDE DEF all
    <3> QED
      BY <2>1, <2>2, <2>3, <2>4, Zenon
  <2> QED
    BY <2>5
<1>2. Max(all) \in all /\ \A y \in all : Max(all) >= y
  <2> HIDE DEF all
  <2> QED
    BY <1>1, BestOf
<1>3. PICK m : m = Max(all)
  OBVIOUS
<1>4. m \in all /\ (\A y \in all : m >= y) /\ m = MaxSimilarity(sim, S)
  BY <1>2, <1>3 DEF MaxSimilarity
<1>5. m \in -100 .. 100 /\ \A p \in S : sim[p] \in all /\ sim[p] \in -100 .. 100
  BY <1>1, <1>4
<1> QED
  BY <1>4, <1>5

\* semantic-prompt-guard.
LEMMA SemanticVerdict ==
  ASSUME ServiceValues, SemanticOK(guard), NEW t, NEW ok, NEW sim \in [Phrases -> Scores],
         SemanticValidatePayload(t, ok, sim).forward
  PROVE  SemanticDue(guard, ok, sim)
<1>1. ~Because("violation").forward
  BY DEF Because
<1>2. ok
  BY <1>1 DEF SemanticValidatePayload
<1>3. /\ ~(guard.denied # {} /\ MaxSimilarity(sim, guard.denied) >= guard.deny)
      /\ ~(guard.allowed # {} /\ MaxSimilarity(sim, guard.allowed) < guard.allow)
  BY <1>1 DEF SemanticValidatePayload
<1>4. \A p \in guard.denied : sim[p] < guard.deny
  <2> SUFFICES ASSUME NEW p \in guard.denied PROVE sim[p] < guard.deny
    OBVIOUS
  <2> PICK s : s = sim[p]
    OBVIOUS
  <2> PICK d : d = guard.deny
    OBVIOUS
  <2>1. PICK m : m = MaxSimilarity(sim, guard.denied)
    OBVIOUS
  <2>2. m \in -100 .. 100 /\ s <= m /\ ~(m >= d) /\ d \in 0 .. 100
    BY <1>3, <2>1, MostSimilar DEF SemanticOK
  <2>3. s \in -100 .. 100
    BY DEF SemanticOK, ServiceValues
  <2>4. s < d
    BY <2>2, <2>3
  <2> QED
    BY <2>4, Zenon
<1>5. guard.allowed # {} => \E p \in guard.allowed : sim[p] >= guard.allow
  <2> SUFFICES ASSUME guard.allowed # {} PROVE \E p \in guard.allowed : sim[p] >= guard.allow
    OBVIOUS
  <2>1. PICK m : m = MaxSimilarity(sim, guard.allowed)
    OBVIOUS
  <2>2. m \in -100 .. 100 /\ ~(m < guard.allow) /\ guard.allow \in 0 .. 100
    BY <1>3, <2>1, MostSimilar DEF SemanticOK
  <2>3. m >= 0 /\ m >= guard.allow
    BY <2>2
  <2>4. PICK p \in guard.allowed : sim[p] = m
    BY <2>1, <2>3, MostSimilar DEF SemanticOK
  <2> QED
    BY <2>3, <2>4
<1> QED
  BY <1>2, <1>4, <1>5 DEF SemanticDue

\* A placeholder is found in a reply.
Echoes(f, t) == ~f.redactPII /\ DOMAIN masked # {} /\ RestorePIIInResponse(t, masked) # t

\* aws-bedrock-guardrail.
LEMMA BedrockVerdict ==
  ASSUME NEW f, NEW t, NEW o \in Outputs, NEW isResponse \in BOOLEAN,
         BedrockValidatePayload(f, t, o, isResponse).d.forward
  PROVE  BedrockDue(f, [text |-> t, o |-> o]) \/ (isResponse /\ Echoes(f, t))
<1> DEFINE restored == RestorePIIInResponse(t, masked)
           ev == EvaluateGuardrailResponse(o, t, f.redactPII, ~isResponse)
           echo == isResponse /\ ~f.redactPII /\ DOMAIN masked # {} /\ restored # t
           seen == [text |-> t, o |-> o]
<1> HIDE DEF seen
<1>0. seen.o = o
  BY DEF seen
<1>1. CASE echo
  BY <1>1 DEF Echoes
<1>2. CASE ~echo /\ o.step = "nobody"
  BY <1>0, <1>2 DEF BedrockDue
<1>3. CASE ~echo /\ o.step \in {"extract", "config", "call"}
  <2>1. BedrockValidatePayload(f, t, o, isResponse).d = Tolerated(f)
    BY <1>3 DEF BedrockValidatePayload
  <2> QED
    BY <2>1 DEF Tolerated, BedrockDue
<1>4. CASE ~echo /\ o.step \notin {"nobody", "extract", "config", "call"}
  <2>1. o.step = "evaluate" /\ o.action \in {"none", "intervened", "other"}
    BY <1>4 DEF Outputs
  <2>2. BedrockValidatePayload(f, t, o, isResponse).d =
          CASE ev.error -> Tolerated(f) [] ev.violation -> Because("violation") [] OTHER -> Because("checked")
    BY <1>4 DEF BedrockValidatePayload
  <2>3. /\ ev.error <=> o.action \notin {"none", "intervened"}
        /\ ev.violation <=> o.action = "intervened" /\ Entities(o.as) = <<>>
    BY DEF EvaluateGuardrailResponse, PIIReported
  <2>4. CASE o.action = "other"
    <3>1. BedrockValidatePayload(f, t, o, isResponse).d = Tolerated(f)
      BY <2>2, <2>3, <2>4
    <3> QED
      BY <3>1 DEF Tolerated, BedrockDue
  <2>5. CASE o.action = "intervened" /\ Entities(o.as) = <<>>
    <3>1. BedrockValidatePayload(f, t, o, isResponse).d = Because("violation")
      BY <2>2, <2>3, <2>5
    <3>2. ~Because("violation").forward
      BY DEF Because
    <3> QED
      BY <3>1, <3>2, Zenon
  <2> QED
    BY <1>0, <2>1, <2>4, <2>5 DEF BedrockDue, PIIReported
<1> QED
  BY <1>1, <1>2, <1>3, <1>4 DEF seen

\* json-schema-guardrail.
LEMMA SchemaVerdict ==
  ASSUME NEW f, f.invert \in BOOLEAN, NEW doc, SchemaValidatePayload(f, doc).forward
  PROVE  doc = IF f.invert THEN "invalid" ELSE "valid"
<1>1. ~Because("violation").forward
  BY DEF Because
<1>2. doc \in {"valid", "invalid"} /\ (doc = "valid") # f.invert
  BY <1>1 DEF SchemaValidatePayload
<1> QED
  BY <1>2

-----------------------------------------------------------------------------
(* What a configuration that is accepted holds.                             *)

RoleAllowed(c) ==
  c.role # <<>> /\ c.allowedRoles # {} =>
    \E r \in c.allowedRoles : r.v = c.role \/ (r.star = "last" /\ IsPrefix(r.v, c.role))

Parsed(c) ==
  CASE c.kind = "azure" -> /\ c.request # Unset => AzureOK(c.request)
                           /\ c.response # Unset => AzureOK(c.response)
    [] c.kind = "bedrock" -> RoleAllowed(c)
    [] c.kind = "semantic" -> SemanticOK(c)
    [] OTHER -> /\ c.kind = "schema"
                /\ c.request # Unset => c.request.invert \in BOOLEAN
                /\ c.response # Unset => c.response.invert \in BOOLEAN

LEMMA AzureParsed ==
  ASSUME NEW raw, AzureGetPolicy(raw).ok
  PROVE  Parsed(AzureGetPolicy(raw))
<1>1. ASSUME NEW f, AzureParseParams(f) # Unset, AzureParseParams(f).ok PROVE AzureOK(AzureParseParams(f))
  <2>1. f.present /\ \A c \in DOMAIN f.severity : f.severity[c] \in -1 .. 7
    BY <1>1 DEF AzureParseParams
  <2>2. ASSUME NEW c \in Categories PROVE AzureParseParams(f).threshold[c] \in -1 .. 7
    <3>1. AzureParseParams(f).threshold[c] = IF c \in DOMAIN f.severity THEN f.severity[c] ELSE DefaultSeverity[c]
      BY <1>1 DEF AzureParseParams
    <3>2. DefaultSeverity[c] \in {3, 4, 5}
      BY DEF DefaultSeverity
    <3> QED
      BY <2>1, <3>1, <3>2
  <2> QED
    BY <2>2 DEF AzureOK
<1>2. /\ AzureGetPolicy(raw).kind = "azure"
      /\ AzureGetPolicy(raw).request = AzureParseParams(raw.request)
      /\ AzureGetPolicy(raw).response = AzureParseParams(raw.response)
      /\ AzureParseParams(raw.request) # Unset => AzureParseParams(raw.request).ok
      /\ AzureParseParams(raw.response) # Unset => AzureParseParams(raw.response).ok
  BY DEF AzureGetPolicy
<1> QED
  BY <1>1, <1>2 DEF Parsed

LEMMA SemanticParsed ==
  ASSUME ServiceValues, NEW raw \in RawSemantic, SemanticGetPolicy(raw).ok
  PROVE  Parsed(SemanticGetPolicy(raw))
<1>1. raw.allow \in 0 .. 100 /\ raw.deny \in 0 .. 100 /\ raw.allowed \subseteq Phrases /\ raw.denied \subseteq Phrases
  BY DEF SemanticGetPolicy, SemanticParseParams, ServiceValues
<1>2. SemanticOK(SemanticGetPolicy(raw)) /\ SemanticGetPolicy(raw).kind = "semantic"
  BY <1>1 DEF SemanticOK, SemanticGetPolicy
<1> QED
  BY <1>2 DEF Parsed

LEMMA SchemaParsed ==
  ASSUME ServiceValues, NEW raw \in RawSchema
  PROVE  Parsed(SchemaGetPolicy(raw))
<1>1. ASSUME NEW f, NEW isResponse, f.present => f.invert \in BOOLEAN, SchemaParseParams(f, isResponse) # Unset
      PROVE  SchemaParseParams(f, isResponse).invert \in BOOLEAN
  BY <1>1 DEF SchemaParseParams
<1>2. /\ raw.request.present => raw.request.invert \in BOOLEAN
      /\ raw.response.present => raw.response.invert \in BOOLEAN
  BY DEF ServiceValues
<1>3. /\ SchemaGetPolicy(raw).kind = "schema"
      /\ SchemaGetPolicy(raw).request = SchemaParseParams(raw.request, FALSE)
      /\ SchemaGetPolicy(raw).response = SchemaParseParams(raw.response, TRUE)
  BY DEF SchemaGetPolicy
<1> QED
  BY <1>1, <1>2, <1>3 DEF Parsed

\* The role of the calls is the role that the allow list was asked about.
LEMMA BedrockParsed ==
  ASSUME NEW raw, BedrockGetPolicy(raw).ok
  PROVE  Parsed(BedrockGetPolicy(raw))
<1> DEFINE set == ResolveCredentialSet(raw)
           role == BuildCredentialsProvider(set.type, set.creds, raw.env).role
<1>1. /\ BedrockGetPolicy(raw).kind = "bedrock" /\ BedrockGetPolicy(raw).role = role
      /\ BedrockGetPolicy(raw).allowedRoles = raw.allowedRoles
      /\ set.creds.roleARN # <<>> => CheckAllowlist(raw.allowedRoles, set.creds.roleARN, TRUE)
  BY DEF BedrockGetPolicy
<1>2. role \in {set.creds.roleARN, <<>>}
  BY DEF BuildCredentialsProvider, BuildSystemCredentialsProvider, BuildAssumeRoleCredentialsProvider,
         BuildWebIdentityCredentialsProvider
<1> HIDE DEF set, role
<1>3. RoleAllowed(BedrockGetPolicy(raw))
  BY <1>1, <1>2 DEF RoleAllowed, CheckAllowlist
<1> QED
  BY <1>1, <1>3 DEF Parsed

-----------------------------------------------------------------------------
(* The exchange.                                                            *)

Idle == Because("off")

\* What ServiceVerdictDue says of each kind of policy.
KindDue ==
  /\ guard.kind = "azure" => /\ Direction(guard.request, log.request, AzureDue)
                             /\ Direction(guard.response, log.response, AzureDue)
  /\ guard.kind = "bedrock" => /\ Direction(guard.request, log.request, BedrockDue)
                               /\ Direction(guard.response, log.response, BedrockReplyDue)
  /\ guard.kind = "semantic" =>
       (log.request.forward /\ log.request.why # "off" =>
          SemanticDue(guard, log.request.seen.ok, log.request.seen.sim))
  /\ guard.kind = "schema" =>
       /\ log.request.forward /\ log.request.why # "off" =>
            log.request.seen = IF guard.request.invert THEN "invalid" ELSE "valid"
       /\ log.response.forward /\ log.response.why # "off" =>
            log.response.seen = IF guard.response.invert THEN "invalid" ELSE "valid"

\* Nothing is decided before its step, and a policy that runs was accepted.
Inv ==
  /\ stage \in {"unconfigured", "request", "upstream", "done"}
  /\ stage # "unconfigured" => Parsed(guard)
  /\ stage \in {"unconfigured", "request"} => log = [request |-> Idle, response |-> Idle] /\ masked = <<>>
  /\ stage = "upstream" => \E d : log = [request |-> d, response |-> Idle]
  /\ KindDue

LEMMA InvEnough ==
  ASSUME Inv
  PROVE  ServiceVerdictDue
<1>1. guard.kind = "bedrock" /\ stage # "unconfigured" => RoleAllowed(guard)
  BY DEF Inv, Parsed
<1>2. \A d \in {"request", "response"} : (d = "request" /\ log[d] = log.request /\ guard[d] = guard.request)
                                      \/ (d = "response" /\ log[d] = log.response /\ guard[d] = guard.response)
  OBVIOUS
<1> QED
  BY <1>1, <1>2 DEF Inv, KindDue, ServiceVerdictDue, RoleAllowed, SemanticDue

LEMMA InvInit ==
  ASSUME ServiceValues, ServiceInit
  PROVE  Inv
<1>1. guard.ok => Parsed(guard)
  <2>1. ASSUME NEW raw \in RawBedrock, guard = BedrockGetPolicy(raw), guard.ok PROVE Parsed(guard)
    BY <2>1, BedrockParsed
  <2>2. ASSUME NEW raw \in RawAzure, guard = AzureGetPolicy(raw), guard.ok PROVE Parsed(guard)
    BY <2>2, AzureParsed
  <2>3. ASSUME NEW raw \in RawSemantic, guard = SemanticGetPolicy(raw), guard.ok PROVE Parsed(guard)
    BY <2>3, SemanticParsed
  <2>4. ASSUME NEW raw \in RawSchema, guard = SchemaGetPolicy(raw), guard.ok PROVE Parsed(guard)
    BY <2>4, SchemaParsed
  <2> QED
    BY <2>1, <2>2, <2>3, <2>4 DEF ServiceInit
<1>2. /\ stage = IF guard.ok THEN "request" ELSE "unconfigured"
      /\ log = [request |-> Idle, response |-> Idle] /\ masked = <<>>
  BY DEF ServiceInit, Idle
<1>3. Idle.why = "off"
  BY DEF Idle, Because
<1>4. KindDue
  BY <1>2, <1>3 DEF KindDue, Direction
<1> QED
  BY <1>1, <1>2, <1>4 DEF Inv

\* A request step writes its half of the log.
LEMMA RequestLogged ==
  ASSUME Inv, stage = "request", NEW d, NEW t, NEW saw, RequestDone(d, t, saw)
  PROVE  /\ log' = [request |-> [forward |-> d.forward, why |-> d.why, seen |-> saw], response |-> Idle]
         /\ guard' = guard /\ stage' \in {"upstream", "done"} /\ Parsed(guard)
  BY DEF Inv, RequestDone

LEMMA ResponseLogged ==
  ASSUME Inv, stage = "upstream", NEW d, NEW t, NEW saw, ResponseDone(d, t, saw)
  PROVE  /\ log'.request = log.request
         /\ log'.response = [forward |-> d.forward, why |-> d.why, seen |-> saw]
         /\ guard' = guard /\ masked' = masked /\ stage' = "done" /\ Parsed(guard)
  BY DEF Inv, ResponseDone

LEMMA IdleOff ==
  Idle.why = "off" /\ Because("off").why = "off"
  BY DEF Idle, Because

LEMMA InvBedrockRequest ==
  ASSUME Inv, NEW o \in Outputs, BedrockOnRequestBody(o)
  PROVE  Inv'
<1> DEFINE r == BedrockValidatePayload(guard.request, content, o, FALSE)
           seen == [text |-> content, o |-> o]
<1>1. PICK d, t : /\ RequestDone(d, t, seen) /\ (d.why = "off" \/ d = r.d)
  BY IdleOff DEF BedrockOnRequestBody
<1>2. guard.kind = "bedrock" /\ stage = "request"
  BY DEF BedrockOnRequestBody
<1>3. d.forward /\ d.why # "off" => BedrockDue(guard.request, seen)
  BY <1>1, BedrockVerdict
<1> HIDE DEF seen
<1>4. /\ log' = [request |-> [forward |-> d.forward, why |-> d.why, seen |-> seen], response |-> Idle]
      /\ guard' = guard /\ stage' \in {"upstream", "done"} /\ Parsed(guard)
  BY <1>1, <1>2, RequestLogged
<1>5. KindDue'
  BY <1>2, <1>3, <1>4, IdleOff DEF KindDue, Direction, BedrockDue
<1> QED
  BY <1>4, <1>5 DEF Inv

LEMMA InvBedrockResponse ==
  ASSUME Inv, NEW t, NEW o \in Outputs, BedrockOnResponseBody(t, o)
  PROVE  Inv'
<1> DEFINE r == BedrockValidatePayload(guard.response, t, o, TRUE)
           seen == [text |-> t, o |-> o]
<1>1. PICK d, u : /\ ResponseDone(d, u, seen) /\ (d.why = "off" \/ d = r.d)
  BY IdleOff DEF BedrockOnResponseBody
<1>2. guard.kind = "bedrock" /\ stage = "upstream"
  BY DEF BedrockOnResponseBody
<1>3. d.forward /\ d.why # "off" => BedrockReplyDue(guard.response, seen)
  BY <1>1, BedrockVerdict DEF BedrockReplyDue, Echoes
<1> HIDE DEF seen
<1>4. /\ log'.request = log.request
      /\ log'.response = [forward |-> d.forward, why |-> d.why, seen |-> seen]
      /\ guard' = guard /\ masked' = masked /\ stage' = "done" /\ Parsed(guard)
  BY <1>1, <1>2, ResponseLogged
<1>5. Direction(guard.request, log.request, BedrockDue)
  BY <1>2 DEF Inv, KindDue
<1>6. KindDue'
  BY <1>2, <1>3, <1>4, <1>5 DEF KindDue, Direction, BedrockDue, BedrockReplyDue
<1> QED
  BY <1>4, <1>6 DEF Inv

LEMMA InvAzureRequest ==
  ASSUME ServiceValues, Inv, NEW t \in {"text", "broken", "nobody"},
         NEW rs \in [1 .. MaxRetries -> AzureReplies], AzureOnRequestBody(t, rs)
  PROVE  Inv'
<1> DEFINE seen == [text |-> t, rs |-> rs]
<1>1. PICK d : /\ RequestDone(d, content, seen)
               /\ d.why = "off" \/ (guard.request # Unset /\ d = AzureValidatePayload(guard.request, t, rs))
  BY IdleOff DEF AzureOnRequestBody
<1>2. guard.kind = "azure" /\ stage = "request"
  BY DEF AzureOnRequestBody
<1> HIDE DEF seen
<1>3. /\ log' = [request |-> [forward |-> d.forward, why |-> d.why, seen |-> seen], response |-> Idle]
      /\ guard' = guard /\ stage' \in {"upstream", "done"} /\ Parsed(guard)
  BY <1>1, <1>2, RequestLogged
<1>4. d.forward /\ d.why # "off" => AzureDue(guard.request, seen)
  BY <1>1, <1>2, <1>3, AzureVerdict DEF Parsed, seen
<1>5. KindDue'
  BY <1>2, <1>3, <1>4, IdleOff DEF KindDue, Direction
<1> QED
  BY <1>3, <1>5 DEF Inv

LEMMA InvAzureResponse ==
  ASSUME ServiceValues, Inv, NEW t \in {"text", "broken", "nobody"},
         NEW rs \in [1 .. MaxRetries -> AzureReplies], AzureOnResponseBody(t, rs)
  PROVE  Inv'
<1> DEFINE seen == [text |-> t, rs |-> rs]
<1>1. PICK d : /\ ResponseDone(d, sent, seen)
               /\ d.why = "off" \/ (guard.response # Unset /\ d = AzureValidatePayload(guard.response, t, rs))
  BY IdleOff DEF AzureOnResponseBody
<1>2. guard.kind = "azure" /\ stage = "upstream"
  BY DEF AzureOnResponseBody
<1> HIDE DEF seen
<1>3. /\ log'.request = log.request
      /\ log'.response = [forward |-> d.forward, why |-> d.why, seen |-> seen]
      /\ guard' = guard /\ stage' = "done" /\ Parsed(guard)
  BY <1>1, <1>2, ResponseLogged
<1>4. d.forward /\ d.why # "off" => AzureDue(guard.response, seen)
  BY <1>1, <1>2, <1>3, AzureVerdict DEF Parsed, seen
<1>5. Direction(guard.request, log.request, AzureDue)
  BY <1>2 DEF Inv, KindDue
<1>6. KindDue'
  BY <1>2, <1>3, <1>4, <1>5 DEF KindDue, Direction
<1> QED
  BY <1>3, <1>6 DEF Inv

LEMMA InvSemanticRequest ==
  ASSUME ServiceValues, Inv, NEW t, NEW ok, NEW sim \in [Phrases -> Scores], PromptOnRequestBody(t, ok, sim)
  PROVE  Inv'
<1> DEFINE seen == [ok |-> ok, sim |-> sim]
           d == SemanticValidatePayload(t, ok, sim)
<1>1. RequestDone(d, content, seen) /\ guard.kind = "semantic" /\ stage = "request"
  BY DEF PromptOnRequestBody
<1>2. seen.ok = ok /\ seen.sim = sim
  OBVIOUS
<1> HIDE DEF seen, d
<1>3. /\ log' = [request |-> [forward |-> d.forward, why |-> d.why, seen |-> seen], response |-> Idle]
      /\ guard' = guard /\ stage' \in {"upstream", "done"} /\ Parsed(guard)
  BY <1>1, RequestLogged
<1>4. d.forward => SemanticDue(guard, ok, sim)
  BY <1>1, <1>3, SemanticVerdict DEF Parsed, d
<1>5. KindDue'
  BY <1>1, <1>2, <1>3, <1>4 DEF KindDue, SemanticDue
<1> QED
  BY <1>3, <1>5 DEF Inv

LEMMA InvSchemaRequest ==
  ASSUME Inv, NEW doc, SchemaOnRequestBody(doc)
  PROVE  Inv'
<1>1. PICK d : /\ RequestDone(d, content, doc)
               /\ d.why = "off" \/ (guard.request # Unset /\ d = SchemaValidatePayload(guard.request, doc))
  BY IdleOff DEF SchemaOnRequestBody, Off
<1>2. guard.kind = "schema" /\ stage = "request"
  BY DEF SchemaOnRequestBody
<1>3. /\ log' = [request |-> [forward |-> d.forward, why |-> d.why, seen |-> doc], response |-> Idle]
      /\ guard' = guard /\ stage' \in {"upstream", "done"} /\ Parsed(guard)
  BY <1>1, <1>2, RequestLogged
<1>4. d.forward /\ d.why # "off" => doc = IF guard.request.invert THEN "invalid" ELSE "valid"
  BY <1>1, <1>2, <1>3, SchemaVerdict DEF Parsed
<1>5. KindDue'
  BY <1>2, <1>3, <1>4, IdleOff DEF KindDue
<1> QED
  BY <1>3, <1>5 DEF Inv

LEMMA InvSchemaResponse ==
  ASSUME Inv, NEW doc, SchemaOnResponseBody(doc)
  PROVE  Inv'
<1>1. PICK d : /\ ResponseDone(d, sent, doc)
               /\ d.why = "off" \/ (guard.response # Unset /\ d = SchemaValidatePayload(guard.response, doc))
  BY IdleOff DEF SchemaOnResponseBody, Off
<1>2. guard.kind = "schema" /\ stage = "upstream"
  BY DEF SchemaOnResponseBody
<1>3. /\ log'.request = log.request
      /\ log'.response = [forward |-> d.forward, why |-> d.why, seen |-> doc]
      /\ guard' = guard /\ stage' = "done" /\ Parsed(guard)
  BY <1>1, <1>2, ResponseLogged
<1>4. d.forward /\ d.why # "off" => doc = IF guard.response.invert THEN "invalid" ELSE "valid"
  BY <1>1, <1>2, <1>3, SchemaVerdict DEF Parsed
<1>5. log.request.forward /\ log.request.why # "off" =>
        log.request.seen = IF guard.request.invert THEN "invalid" ELSE "valid"
  BY <1>2 DEF Inv, KindDue
<1>6. KindDue'
  BY <1>2, <1>3, <1>4, <1>5 DEF KindDue
<1> QED
  BY <1>3, <1>6 DEF Inv

LEMMA InvNext ==
  ASSUME ServiceValues, Inv, [ServiceNext]_serviceVars
  PROVE  Inv'
<1>1. CASE UNCHANGED serviceVars
  <2>1. guard' = guard /\ stage' = stage /\ masked' = masked /\ log' = log
    BY <1>1 DEF serviceVars
  <2>2. KindDue'
    BY <2>1 DEF Inv, KindDue, Direction, BedrockDue, BedrockReplyDue
  <2> QED
    BY <2>1, <2>2 DEF Inv
<1>2. CASE ServiceNext
  BY <1>2, InvBedrockRequest, InvBedrockResponse, InvAzureRequest, InvAzureResponse, InvSemanticRequest,
     InvSchemaRequest, InvSchemaResponse, Zenon DEF ServiceNext
<1> QED
  BY <1>1, <1>2

-----------------------------------------------------------------------------

\* A guarded text goes on only after the answer of the service, the library or
\* the embeddings that lets it (for Bedrock: nothing found, or an intervention that
\* reports personal data, which the code forwards), under passthroughOnError when
\* no answer came, or as a reply in which a placeholder was restored.
THEOREM ServiceVerdictsDue ==
  ASSUME ServiceValues
  PROVE  ServiceSpec => []ServiceVerdictDue
<1>1. ServiceInit => Inv
  BY InvInit
<1>2. Inv /\ [ServiceNext]_serviceVars => Inv'
  BY InvNext
<1>3. Inv => ServiceVerdictDue
  BY InvEnough
<1> QED
  BY <1>1, <1>2, <1>3, PTL DEF ServiceSpec

=============================================================================
