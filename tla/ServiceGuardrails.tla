------------------------- MODULE ServiceGuardrails -------------------------
(***************************************************************************)
(* Guardrails whose verdict comes from a service or a library: Bedrock     *)
(* guardrails, Azure content safety, semantic-prompt-guard (embeddings)    *)
(* and json-schema-guardrail.  A phase is one synchronous call, so it is   *)
(* one action; its inputs are the payload and everything the service       *)
(* answers.                                                                *)
(***************************************************************************)
EXTENDS TextEdit, TLC

CONSTANTS RawBedrock, RawAzure, RawSemantic, RawSchema,  \* raw configurations
          GuardedTexts,   \* request and response texts
          Assessments,    \* what Bedrock may find: lists of lists of entities
          AzureReplies,   \* one HTTP outcome of the Azure service
          MaxRetries,
          Phrases,        \* of the semantic lists
          Scores          \* similarities, in percent

\* What the constants are, for the theorems: statuses, severities and scores are
\* numbers, invert is Boolean, and Phrases has the phrases of every configuration.
ServiceValues ==
  /\ MaxRetries \in Nat /\ Scores \subseteq -100 .. 100
  /\ \A raw \in RawSemantic : raw.allowed \union raw.denied \subseteq Phrases
  /\ \A reply \in AzureReplies : reply.status \in Nat /\ \A a \in reply.analysis : a.severity \in Int
  /\ \A raw \in RawSchema, side \in {"request", "response"} : raw[side].present => raw[side].invert \in BOOLEAN

VARIABLES guard, stage,
          content,  \* what the client sent
          sent,     \* what the upstream got
          masked,   \* the metadata: value -> placeholder
          back,     \* what the client got
          log       \* per direction: what decided it, and what the service said

serviceVars == <<guard, stage, content, sent, masked, back, log>>

Unset == [form |-> "none"]

---------------------------------------------------------------------------
\* Bedrock: configuration.  A text parameter is "" when it is absent.

ResolveGuardrailIdentityParam(p) == IF p.legacy # "" THEN p.legacy ELSE p.canonical

\* An empty list allows everything; "*" ends an entry and only in lists that
\* match prefixes.  Values are <<name>> or <<prefix, name>>.
CheckAllowlist(list, value, allowPrefix) ==
  /\ \A e \in list : e.star # "none" => allowPrefix /\ e.star = "last"
  /\ list # {} => \E e \in list : \/ (e.star = "none" /\ e.v = value)
                                 \/ (e.star = "last" /\ IsPrefix(e.v, value))

ValidateCredentialFormats(c) == c.roleARN = <<>> \/ c.roleOk

ValidateCredentialFields(type, c) ==
  /\ ValidateCredentialFormats(c)
  /\ type = "iam" => c.key /\ c.secret
  /\ type = "sts" => c.roleARN # <<>> /\ (c.key <=> c.secret)

\* The gateway's own credentials: a role needs a region.
ResolveSystemCredentialSet(raw) ==
  [type |-> "system", ok |-> ~raw.system.illTyped /\ ValidateCredentialFormats(raw.system)
                             /\ (raw.system.roleARN # <<>> => raw.system.roleRegion),
   creds |-> raw.system]

ResolveCredentialSet(raw) ==
  CASE raw.auth.type \in {"absent", "", "system"} -> ResolveSystemCredentialSet(raw)
    [] raw.auth.type \in {"irsa", "sts", "chain", "iam"} ->
         [type |-> raw.auth.type,
          ok |-> ~raw.auth.creds.illTyped /\ ValidateCredentialFields(raw.auth.type, raw.auth.creds),
          creds |-> IF raw.auth.type = "irsa" /\ raw.auth.creds.roleARN = <<>>
                    THEN [raw.auth.creds EXCEPT !.roleARN = raw.env.role] ELSE raw.auth.creds]
    [] OTHER -> [type |-> "bad", ok |-> FALSE, creds |-> raw.system]

\* The role the calls are made under, "" for keys of a user or the default chain.
BuildSystemCredentialsProvider(c) == c.roleARN

BuildAssumeRoleCredentialsProvider(c) == c.roleARN

\* The role is in the credentials already; the token file must be there.
BuildWebIdentityCredentialsProvider(c, env) ==
  [ok |-> c.roleARN # <<>> /\ env.token, role |-> c.roleARN]

BuildCredentialsProvider(type, c, env) ==
  CASE type = "system" -> [ok |-> TRUE, role |-> BuildSystemCredentialsProvider(c)]
    [] type = "sts"    -> [ok |-> TRUE, role |-> BuildAssumeRoleCredentialsProvider(c)]
    [] type = "irsa"   -> BuildWebIdentityCredentialsProvider(c, env)
    [] OTHER           -> [ok |-> TRUE, role |-> <<>>]

BedrockParseParams(f, isResponse) ==
  IF ~f.present THEN Unset
  ELSE [form |-> "flow", ok |-> ~f.illTyped,
        enabled |-> IF f.enabled = "absent" THEN ~isResponse ELSE f.enabled = "true",
        redactPII |-> f.redactPII, passthroughOnError |-> f.passthroughOnError]

\* A response of a redacting request is redacted too.
BedrockGetPolicy(raw) ==
  LET set == ResolveCredentialSet(raw)
      provider == BuildCredentialsProvider(set.type, set.creds, raw.env)
      req == BedrockParseParams(raw.request, FALSE)
      res == BedrockParseParams(raw.response, TRUE)
      id == ResolveGuardrailIdentityParam(raw.id)
  IN [kind |-> "bedrock", role |-> provider.role, allowedRoles |-> raw.allowedRoles,
      ok |-> /\ id # "" /\ set.ok
             /\ CheckAllowlist(raw.allowedIDs, <<id>>, FALSE)
             /\ CheckAllowlist(raw.allowedTypes, <<set.type>>, FALSE)
             /\ set.creds.roleARN # <<>> => CheckAllowlist(raw.allowedRoles, set.creds.roleARN, TRUE)
             /\ provider.ok
             /\ req # Unset \/ res # Unset
             /\ req # Unset => req.ok
             /\ res # Unset => res.ok,
      request |-> req,
      response |-> IF res # Unset /\ req # Unset /\ req.redactPII THEN [res EXCEPT !.redactPII = TRUE] ELSE res]

---------------------------------------------------------------------------
\* Bedrock: the verdict

Entities(as) == FlattenSeq(as)

Counters == <<"0000", "0001", "0002">>   \* %04x, for as many entities as an instance has

Placeholder(e, i) == <<e.type, "_", Counters[i]>>

Longer(e, f) == Len(e.match) > Len(f.match)

Shorter(e, f) == Len(e.match) < Len(f.match)

\* A value that the service reports twice stays in the list twice: the text
\* carries the placeholder of its first place and the map that of its last.
MaskInListOrder(as, t, order) ==
  [text |-> FoldLeftDomain(LAMBDA acc, i : ReplaceText(acc, order[i].match, Placeholder(order[i], i)), t, order),
   mask |-> [w \in {order[i].match : i \in DOMAIN order} |->
               LET i == Max({j \in DOMAIN order : order[j].match = w}) IN Placeholder(order[i], i)]]

Anonymized(as) == SelectSeq(Entities(as), LAMBDA e : e.anonymized)

MaskShortestFirst(as, t) == MaskInListOrder(as, t, SortSeq(Anonymized(as), Shorter))

\* Only the anonymised entities, of all assessments, longest first.
ProcessPIIEntitiesForMasking(as, t) == MaskInListOrder(as, t, SortSeq(Anonymized(as), Longer))

\* Every match of the first assessment, blocked ones included.
ExtractRedactedContent(as, t) ==
  FoldLeft(LAMBDA acc, e : ReplaceText(acc, e.match, <<"*">>), t, SortSeq(as[1], Longer))

RestorePIIInResponse(t, m) ==
  FoldLeft(LAMBDA acc, w : ReplaceText(acc, m[w], w), t,
           SetToSortSeq(DOMAIN m, LAMBDA v, w : Len(m[v]) > Len(m[w])))

\* An intervention whose assessments hold personal data, anonymised or blocked.
PIIReported(o) == o.action = "intervened" /\ Entities(o.as) # <<>>

\* An intervention is a violation in no case.
EvaluateWithoutViolation(o, t, redact, isRequest) ==
  [error |-> o.action \notin {"none", "intervened"}, violation |-> FALSE, text |-> t, mask |-> <<>>]

\* The content to put in place of the text; the text itself when nothing changes.
\* Personal data decides alone: whatever else the intervention was for, the text
\* goes on, in a response as it is.
EvaluateGuardrailResponse(o, t, redact, isRequest) ==
  LET m == ProcessPIIEntitiesForMasking(o.as, t)
      pii == PIIReported(o)
  IN [error |-> o.action \notin {"none", "intervened"},
      violation |-> o.action = "intervened" /\ ~pii,
      text |-> CASE pii /\ redact -> ExtractRedactedContent(o.as, t)
                 [] pii /\ ~redact /\ isRequest -> m.text
                 [] OTHER -> t,
      mask |-> IF pii /\ ~redact /\ isRequest THEN m.mask ELSE <<>>]

\* How a direction was decided.
Tolerated(f) == [forward |-> f.passthroughOnError, why |-> "failure"]

Because(why) == [forward |-> why # "violation", why |-> why]

\* validatePayload: o.step says which step failed, if one did.  A response in
\* which a placeholder is found is restored and not checked.
BedrockValidatePayload(f, t, o, isResponse) ==
  LET restored == RestorePIIInResponse(t, masked)
      ev == EvaluateGuardrailResponse(o, t, f.redactPII, ~isResponse)
  IN CASE isResponse /\ ~f.redactPII /\ DOMAIN masked # {} /\ restored # t ->
            [d |-> Because("restored"), text |-> restored, mask |-> <<>>]
       [] OTHER ->
            CASE o.step = "nobody" -> [d |-> Because("empty"), text |-> t, mask |-> <<>>]
              [] o.step \in {"extract", "config", "call"} -> [d |-> Tolerated(f), text |-> t, mask |-> <<>>]
              [] OTHER ->
                   [d |-> CASE ev.error -> Tolerated(f) [] ev.violation -> Because("violation")
                            [] OTHER -> Because("checked"),
                    text |-> ev.text, mask |-> ev.mask]

---------------------------------------------------------------------------
\* Azure content safety

Categories == {"hate", "sexual", "selfharm", "violence"}

DefaultSeverity == [c \in Categories |-> CASE c = "sexual" -> 5 [] c = "selfharm" -> 3 [] OTHER -> 4]

AzureParseParams(f) ==
  IF ~f.present THEN Unset
  ELSE [form |-> "flow", ok |-> ~f.illTyped /\ \A c \in DOMAIN f.severity : f.severity[c] \in -1..7,
        passthroughOnError |-> f.passthroughOnError,
        threshold |-> [c \in Categories |-> IF c \in DOMAIN f.severity THEN f.severity[c]
                                            ELSE DefaultSeverity[c]]]

AzureGetPolicy(raw) ==
  LET req == AzureParseParams(raw.request)
      res == AzureParseParams(raw.response)
  IN [kind |-> "azure", request |-> req, response |-> res,
      ok |-> /\ raw.endpoint /\ raw.key /\ (req # Unset \/ res # Unset)
             /\ req # Unset => req.ok
             /\ res # Unset => res.ok]

GetValidCategories(f) == {c \in Categories : f.threshold[c] \in 0..7}

\* An overloaded service taken for a clean answer.
CallTakingLastReply(rs) == [ok |-> rs[MaxRetries].status # 0 /\ rs[MaxRetries].body,
                            analysis |-> rs[MaxRetries].analysis]

\* At most MaxRetries attempts: a transport error or a 5xx is tried again, any
\* other status ends the call.
CallAzureContentSafetyAPI(rs) ==
  LET final == {i \in 1..MaxRetries : rs[i].status # 0 /\ rs[i].status < 500}
  IN IF final = {} THEN [ok |-> FALSE, analysis |-> {}]
     ELSE LET r == rs[Min(final)]
          IN [ok |-> r.status = 200 /\ r.body, analysis |-> r.analysis]

\* A category that is not configured at all has threshold 0.
AzureValidatePayload(f, t, rs) ==
  LET r == CallAzureContentSafetyAPI(rs)
      threshold(c) == IF c \in Categories THEN f.threshold[c] ELSE 0
  IN CASE GetValidCategories(f) = {} \/ t = "nobody" -> Because("empty")
       [] GetValidCategories(f) # {} /\ t = "broken" -> Tolerated(f)
       [] OTHER -> IF ~r.ok THEN Tolerated(f)
                   ELSE IF \E a \in r.analysis : threshold(a.category) >= 0 /\ a.severity >= threshold(a.category)
                   THEN Because("violation") ELSE Because("checked")

---------------------------------------------------------------------------
\* semantic-prompt-guard

ParseEmbeddingConfig(raw) ==
  /\ raw.endpoint /\ raw.apiKey /\ raw.provider \in {"OPENAI", "MISTRAL", "AZURE_OPENAI"}
  /\ raw.provider # "AZURE_OPENAI" => raw.model

\* Embeddings of the phrases are fetched when the policy is built.
SemanticParseParams(raw) ==
  /\ raw.allow \in 0..100 /\ raw.deny \in 0..100 /\ ~raw.illTyped
  /\ raw.allowed # {} \/ raw.denied # {}
  /\ "" \notin raw.allowed \union raw.denied
  /\ raw.embedded

SemanticGetPolicy(raw) ==
  [kind |-> "semantic", ok |-> ParseEmbeddingConfig(raw) /\ SemanticParseParams(raw),
   allow |-> raw.allow, deny |-> raw.deny, allowed |-> raw.allowed, denied |-> raw.denied]

MaxSimilarity(sim, phrases) == Max({-100} \union {sim[p] : p \in phrases})

\* Denied phrases first; with allowed phrases the prompt must also be close to one.
SemanticValidatePayload(t, ok, sim) ==
  CASE t \in {"broken", "nobody"} \/ ~ok -> Because("violation")
    [] OTHER ->
       IF guard.denied # {} /\ MaxSimilarity(sim, guard.denied) >= guard.deny THEN Because("violation")
       ELSE IF guard.allowed # {} /\ MaxSimilarity(sim, guard.allowed) < guard.allow THEN Because("violation")
       ELSE Because("checked")

---------------------------------------------------------------------------
\* json-schema-guardrail

\* A flow switched off explicitly needs no schema.
SchemaParseParams(f, isResponse) ==
  IF ~f.present THEN Unset
  ELSE [form |-> "flow", ok |-> ~f.illTyped /\ (f.enabled = "false" \/ f.schema = "json"),
        enabled |-> IF f.enabled = "absent" THEN ~isResponse ELSE f.enabled = "true",
        invert |-> f.invert]

SchemaGetPolicy(raw) ==
  LET req == SchemaParseParams(raw.request, FALSE)
      res == SchemaParseParams(raw.response, TRUE)
  IN [kind |-> "schema", request |-> req, response |-> res,
      ok |-> /\ req # Unset \/ res # Unset
             /\ req # Unset => req.ok
             /\ res # Unset => res.ok]

SchemaValidatePayload(f, doc) ==
  IF doc \in {"valid", "invalid"} /\ (doc = "valid") # f.invert
  THEN Because("checked") ELSE Because("violation")

---------------------------------------------------------------------------
\* The exchange

RequestDone(d, t, saw) ==
  /\ log' = [log EXCEPT !.request = [forward |-> d.forward, why |-> d.why, seen |-> saw]]
  /\ stage' = IF d.forward THEN "upstream" ELSE "done"
  /\ sent' = IF d.forward THEN t ELSE <<>>
  /\ UNCHANGED <<guard, content, back>>

ResponseDone(d, t, saw) ==
  /\ log' = [log EXCEPT !.response = [forward |-> d.forward, why |-> d.why, seen |-> saw]]
  /\ stage' = "done" /\ back' = IF d.forward THEN t ELSE <<>>
  /\ UNCHANGED <<guard, content, sent, masked>>

Off(f) == f = Unset \/ ~f.enabled

BedrockOnRequestBody(o) ==
  /\ guard.kind = "bedrock" /\ stage = "request"
  /\ IF Off(guard.request) THEN RequestDone(Because("off"), content, [text |-> content, o |-> o]) /\ UNCHANGED masked
     ELSE LET r == BedrockValidatePayload(guard.request, content, o, FALSE)
          IN RequestDone(r.d, r.text, [text |-> content, o |-> o]) /\ masked' = r.mask

BedrockOnResponseBody(t, o) ==
  /\ guard.kind = "bedrock" /\ stage = "upstream"
  /\ IF Off(guard.response) THEN ResponseDone(Because("off"), t, [text |-> t, o |-> o])
     ELSE LET r == BedrockValidatePayload(guard.response, t, o, TRUE)
          IN ResponseDone(r.d, r.text, [text |-> t, o |-> o])

AzureOnRequestBody(t, rs) ==
  /\ guard.kind = "azure" /\ stage = "request"
  /\ RequestDone(IF guard.request = Unset THEN Because("off") ELSE AzureValidatePayload(guard.request, t, rs),
                 content, [text |-> t, rs |-> rs])
  /\ UNCHANGED masked

AzureOnResponseBody(t, rs) ==
  /\ guard.kind = "azure" /\ stage = "upstream"
  /\ ResponseDone(IF guard.response = Unset THEN Because("off") ELSE AzureValidatePayload(guard.response, t, rs),
                  sent, [text |-> t, rs |-> rs])

PromptOnRequestBody(t, ok, sim) ==
  /\ guard.kind = "semantic" /\ stage = "request"
  /\ RequestDone(SemanticValidatePayload(t, ok, sim), content, [ok |-> ok, sim |-> sim])
  /\ UNCHANGED masked

SchemaOnRequestBody(doc) ==
  /\ guard.kind = "schema" /\ stage = "request"
  /\ RequestDone(IF Off(guard.request) THEN Because("off") ELSE SchemaValidatePayload(guard.request, doc),
                 content, doc)
  /\ UNCHANGED masked

SchemaOnResponseBody(doc) ==
  /\ guard.kind = "schema" /\ stage = "upstream"
  /\ ResponseDone(IF Off(guard.response) THEN Because("off") ELSE SchemaValidatePayload(guard.response, doc),
                  sent, doc)

Outputs == {[step |-> "evaluate", action |-> a, as |-> s] : a \in {"none", "intervened", "other"}, s \in Assessments}
           \union {[step |-> s, action |-> "nil", as |-> <<>>] : s \in {"nobody", "extract", "config", "call"}}

ServiceInit ==
  /\ \/ \E raw \in RawBedrock : guard = BedrockGetPolicy(raw)
     \/ \E raw \in RawAzure : guard = AzureGetPolicy(raw)
     \/ \E raw \in RawSemantic : guard = SemanticGetPolicy(raw)
     \/ \E raw \in RawSchema : guard = SchemaGetPolicy(raw)
  /\ stage = IF guard.ok THEN "request" ELSE "unconfigured"
  /\ content \in GuardedTexts
  /\ sent = <<>> /\ masked = <<>> /\ back = <<>>
  /\ log = [request |-> Because("off"), response |-> Because("off")]

ServiceNext ==
  \/ \E o \in Outputs : BedrockOnRequestBody(o)
  \/ \E t \in GuardedTexts \union {sent}, o \in Outputs : BedrockOnResponseBody(t, o)
  \/ \E t \in {"text", "broken", "nobody"}, rs \in [1..MaxRetries -> AzureReplies] :
       AzureOnRequestBody(t, rs) \/ AzureOnResponseBody(t, rs)
  \/ \E t \in {"text", "broken", "nobody"}, ok \in BOOLEAN :
       \E sim \in [Phrases -> Scores] : PromptOnRequestBody(t, ok, sim)
  \/ \E doc \in {"valid", "invalid", "broken"} : SchemaOnRequestBody(doc) \/ SchemaOnResponseBody(doc)

ServiceSpec == ServiceInit /\ [][ServiceNext]_serviceVars

---------------------------------------------------------------------------
\* Properties

Covered(i) ==
  \E w \in DOMAIN masked : \E j \in 1..i :
    /\ j + Len(w) > i /\ j + Len(w) - 1 <= Len(content)
    /\ SubSeq(content, j, j + Len(w) - 1) = w

\* The masking of aws-bedrock-guardrail goes both ways: no part of a value that
\* the service reports as anonymised reaches the upstream, also when one value
\* is part of another (a symbol the prompt has outside values too may), and a
\* reply that echoes the masked prompt is restored to what the client wrote.
\* Redaction takes out every value of the first assessment, blocked ones too.
BedrockRoundTrip ==
  (guard.kind = "bedrock" /\ stage = "upstream") =>
    /\ DOMAIN masked # {} =>
         /\ \A i \in DOMAIN content :
              (\A j \in DOMAIN content : content[j] = content[i] => Covered(j)) => content[i] \notin Range(sent)
         /\ RestorePIIInResponse(sent, masked) = content
    /\ log.request.why = "checked" /\ guard.request.redactPII /\ PIIReported(log.request.seen.o) =>
         \A e \in Range(log.request.seen.o.as[1]) : ~Occurs(e.match, sent)

Direction(f, d, due(_, _)) == d.forward /\ d.why # "off" => due(f, d.seen)

AzureDue(f, seen) ==
  \/ f.passthroughOnError \/ seen.text = "nobody" \/ \A c \in Categories : f.threshold[c] < 0
  \/ /\ seen.text = "text"
     /\ \E i \in DOMAIN seen.rs :
          /\ \A j \in 1..(i - 1) : seen.rs[j].status = 0 \/ seen.rs[j].status >= 500
          /\ seen.rs[i].status = 200
          /\ \A a \in seen.rs[i].analysis :
               a.category \in Categories /\ f.threshold[a.category] >= 0 => a.severity < f.threshold[a.category]

\* Nothing found, or personal data found: the code forwards every intervention
\* that reports some, one that blocks it or a topic as well included.
BedrockDue(f, seen) ==
  \/ f.passthroughOnError \/ seen.o.step = "nobody"
  \/ seen.o.step = "evaluate" /\ (seen.o.action = "none" \/ PIIReported(seen.o))

\* A reply in which a placeholder of the request is found is not checked.
BedrockReplyDue(f, seen) ==
  \/ BedrockDue(f, seen)
  \/ ~f.redactPII /\ DOMAIN masked # {} /\ RestorePIIInResponse(seen.text, masked) # seen.text

\* A guarded text goes on only when the service was asked and answered for it:
\* a failed or overloaded call, however many attempts it took, an unreadable
\* text or an unknown answer lets it through under passthroughOnError only
\* (never in semantic-prompt-guard and json-schema-guardrail).  The answer that
\* lets it on is a clean one; in aws-bedrock-guardrail it is also any intervention
\* that reports personal data, and a reply is not checked at all, and only then,
\* when a placeholder in it is restored.  A Bedrock policy never runs under a role
\* outside its allow list.
ServiceVerdictDue ==
  /\ guard.kind = "azure" => /\ Direction(guard.request, log.request, AzureDue)
                             /\ Direction(guard.response, log.response, AzureDue)
  /\ guard.kind = "bedrock" =>
       /\ Direction(guard.request, log.request, BedrockDue)
       /\ Direction(guard.response, log.response, BedrockReplyDue)
       /\ stage # "unconfigured" /\ guard.role # <<>> /\ guard.allowedRoles # {} =>
            \E r \in guard.allowedRoles : r.v = guard.role \/ (r.star = "last" /\ IsPrefix(r.v, guard.role))
  /\ guard.kind = "semantic" /\ log.request.forward /\ log.request.why # "off" =>
       /\ log.request.seen.ok
       /\ \A p \in guard.denied : log.request.seen.sim[p] < guard.deny
       /\ guard.allowed # {} => \E p \in guard.allowed : log.request.seen.sim[p] >= guard.allow
  /\ guard.kind = "schema" =>
       \A d \in {"request", "response"} : log[d].forward /\ log[d].why # "off" =>
         log[d].seen = IF guard[d].invert THEN "invalid" ELSE "valid"

=============================================================================
