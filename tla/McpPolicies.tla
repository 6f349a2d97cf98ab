---------------------------- MODULE McpPolicies ----------------------------
(***************************************************************************)
(* The policies of an MCP proxy: what each handler makes of a request.  A  *)
(* handler takes the policy's configuration p, the client's request req    *)
(* and the state st of the request in the chain, and returns the new       *)
(* state; st.denied is the code of the error the client gets, 0 while the  *)
(* request lives.  st.body is the body as the policies before left it.     *)
(***************************************************************************)
EXTENDS McpMessages

HeaderMismatch == -32020
InvalidParams  == -32602
NotAllowed     == -32000
BadRequest     == 400

Refuse(st, code) == [st EXCEPT !.denied = code]

HandleUnusableBody(st, reason) == Refuse(st, IF reason = "syntax-error" THEN -32700 ELSE -32600)

\* Decide(st, method, name, readable) on the facts of the request's era; acl,
\* authz, auth and ratelimit share this shape and differ where a body is absent.
FromMirroredHeaders(st, facts, Decide(_, _, _, _), code) ==
  IF ~HasMethod(facts) \/ MissingRequiredName(facts) THEN Refuse(st, code)
  ELSE Decide(st, facts.method, facts.name, TRUE)

FromResolvedBody(st, req, facts, Decide(_, _, _, _), Absent(_), absent) ==
  IF Resolve(req).unusable # "" THEN HandleUnusableBody(st, Resolve(req).unusable)
  ELSE IF absent THEN Absent(st)
  ELSE Decide(st, facts.method, facts.name, TRUE)

(***************************************************************************)
(* mcp-acl-list                                                            *)
(***************************************************************************)
NoAcl == [enabled |-> FALSE, mode |-> "", exceptions |-> {}]
AclConfigError(raw) == raw.given /\ raw.mode \notin {"", "allow", "deny"}
ParseAclConfig(raw) ==
  IF ~raw.given THEN NoAcl
  ELSE [enabled |-> TRUE, mode |-> IF raw.mode = "" THEN "deny" ELSE raw.mode, exceptions |-> raw.exceptions]

GetAclConfig(p, type) == IF type \in McpTypes THEN ParseAclConfig(p.acl[type]) ELSE NoAcl

IsAllowedByAcl(config, key) == IF config.mode = "allow" THEN key \notin config.exceptions ELSE key \in config.exceptions

\* Mutant: an item whose name cannot be read is judged like the others, and the
\* exceptions of an allow list are kept.
KeepExceptions(items, config) == SelectSeq(items, LAMBDA k : k = "" \/ k \in config.exceptions)

\* Items without a name pass under "allow" and not under "deny".
FilterListItems(items, config) ==
  SelectSeq(items, LAMBDA k : IF k = "" THEN config.mode = "allow" ELSE IsAllowedByAcl(config, k))

AclGovern(p, st, method, name, readable) ==
  LET type == ParseMcpMethod(method)[1]
      action == ParseMcpMethod(method)[2]
      config == GetAclConfig(p, type)
      noted == [st EXCEPT !.type = type, !.action = action]
  IN IF type = "" THEN st
     ELSE IF ~IsApplicableOnRequest(type, action) \/ ~config.enabled THEN noted
     ELSE IF ~readable \/ name = "" THEN Refuse(noted, InvalidParams)
     ELSE IF ~IsAllowedByAcl(config, name) THEN Refuse(noted, NotAllowed)
     ELSE noted

AclOnRequestHeaders(p, req, st) ==
  LET facts == McpFacts(req)
      Decide(s, m, n, r) == AclGovern(p, s, m, n, r)
      Nothing(s) == s
  IN IF ~IsMcpPostRequest(req) \/ ShouldParseBody(req) THEN st
     ELSE IF facts.modern THEN FromMirroredHeaders(st, facts, Decide, HeaderMismatch)
     ELSE FromResolvedBody(st, req, facts, Decide, Nothing, ~facts.present)

AclOnRequestBody(p, req, st) ==
  LET at == ParseRequestPayload(st.body, req.sse)
      ms == st.body[at].members
      params == Exactly(ms, "params")
      method == LastValue(Exactly(ms, "method"), <<>>)
      readable == params # <<>> /\ Last(params).ok
      name == IF readable /\ method # <<>> THEN LastValue(Exactly(Last(params).value, GetParamKey(Head(method))), "") ELSE ""
  IN IF ~ShouldParseBody(req) \/ ~IsMcpPostRequest(req) \/ st.body = <<>> THEN st
     ELSE IF at = 0 THEN HandleUnusableBody(st, "syntax-error")
     ELSE AclGovern(p, st, method, name, readable)

\* Every event of the answer that carries the list is filtered.
AclOnResponseBody(p, req, st, answer) ==
  LET config == GetAclConfig(p, st.type) IN
  IF ~IsMcpPostRequest(req) \/ st.type = "" \/ st.action # "list" \/ ~config.enabled THEN answer
  ELSE [i \in DOMAIN answer |->
          IF answer[i].kind = "list" THEN [answer[i] EXCEPT !.items = FilterListItems(@, config)] ELSE answer[i]]

(***************************************************************************)
(* mcp-authz                                                               *)
(***************************************************************************)
IsEmptyConstraints(c) == c.allOf = {} /\ c.anyOf = {}

\* A rule without any constraint is refused when the policy is built.
RuleError(rule) == IsEmptyConstraints(rule.scopes) /\ IsEmptyConstraints(rule.claims) /\ rule.requiredScopes = {} /\ rule.requiredClaims = {}

ClaimConstraintsFromRequired(required) ==
  [allOf |-> {[claim |-> c[1], values |-> {c[2]}, legacy |-> TRUE] : c \in required}, anyOf |-> {}]

ClaimMatcherMatches(m, auth) ==
  CASE m.claim = "sub" -> auth.subject \in m.values
    [] m.claim = "aud" -> auth.audience \intersect m.values # {}
    [] OTHER -> IF ~m.legacy /\ m.claim \in DOMAIN auth.typed THEN auth.typed[m.claim] \intersect m.values # {}
                ELSE m.claim \in DOMAIN auth.properties /\ auth.properties[m.claim] \in m.values

CheckClaims(cc, auth) ==
  /\ \A m \in cc.allOf : ClaimMatcherMatches(m, auth)
  /\ cc.anyOf # {} => \E m \in cc.anyOf : ClaimMatcherMatches(m, auth)

CheckScopes(sc, auth) ==
  /\ sc.allOf \subseteq auth.scopes
  /\ sc.anyOf # {} => sc.anyOf \intersect auth.scopes # {}

\* The deprecated forms count only where the new ones are absent.
RuleGrantsAccess(rule, auth) ==
  LET scopes == IF IsEmptyConstraints(rule.scopes) THEN [allOf |-> {}, anyOf |-> rule.requiredScopes] ELSE rule.scopes
      claims == IF IsEmptyConstraints(rule.claims) THEN ClaimConstraintsFromRequired(rule.requiredClaims) ELSE rule.claims
  IN CheckClaims(claims, auth) /\ CheckScopes(scopes, auth)

FindMatchingRules(p, type, name, method) ==
  {rule \in p.rules : \/ rule.type = "methods" /\ (rule.any \/ rule.method = method)
                      \/ rule.type = type /\ name # "" /\ (rule.any \/ rule.name = name)}

EvaluateRules(rules, auth) == \A rule \in rules : RuleGrantsAccess(rule, auth)

HandleAuthFailure(st, status) == Refuse(st, status)

AuthzGovern(p, st, method, name, readable) ==
  LET type == ParseMcpMethod(method)[1]
      rules == FindMatchingRules(p, type, name, method)
  IN IF type = "" \/ rules = {} THEN st
     ELSE IF ~st.auth.authenticated THEN HandleAuthFailure(st, 401)
     ELSE IF ~EvaluateRules(rules, st.auth) THEN HandleAuthFailure(st, 403)
     ELSE [st EXCEPT !.auth.authType = IF @ = "mcp/oauth" THEN "mcp/oauth+authz" ELSE @]

AuthzOnRequestHeaders(p, req, st) ==
  LET facts == McpFacts(req)
      Decide(s, m, n, r) == AuthzGovern(p, s, m, n, r)
      Nothing(s) == s
  IN IF ~IsMcpPostRequest(req) \/ ShouldParseBody(req) THEN st
     ELSE IF facts.modern THEN FromMirroredHeaders(st, facts, Decide, BadRequest)
     ELSE IF Resolve(req).unusable # "" THEN HandleAuthFailure(st, BadRequest)
     ELSE FromResolvedBody(st, req, facts, Decide, Nothing, ~facts.present)

AuthzOnRequestBody(p, req, st) ==
  LET raw == RawPayload([req EXCEPT !.body = st.body])
      method == StructMethod(raw)
      name == IF method = <<>> THEN "" ELSE StructName(raw, GetParamKey(Head(method)))
  IN IF ~ShouldParseBody(req) \/ ~IsMcpPostRequest(req) \/ st.body = <<>> THEN st
     ELSE IF UnmarshalError(raw) # "" \/ ~ValidateUnambiguousMembers(raw, method) THEN Refuse(st, BadRequest)
     ELSE AuthzGovern(p, st, method, name, TRUE)

(***************************************************************************)
(* mcp-auth                                                                *)
(***************************************************************************)
IsAuthRequired(p, method, name) ==
  LET named == method \in MethodsMirroringName
      config == IF named THEN p.security[Head(method)] ELSE p.security["methods"]
      exception == IF named THEN name \in config.exceptions ELSE method \in config.exceptions
  IN config.enabled # exception

IsFullyUnprotected(p) == \A s \in DOMAIN p.security : ~p.security[s].enabled /\ p.security[s].exceptions = {}

RequiresTransportAuth(p, req) ==
  req.path = "mcp" /\ req.verb \notin {"POST", "OPTIONS"} /\ ~IsFullyUnprotected(p)

\* A peer policy has replaced the value the client sent.
IsTokenHeaderClaimed(req, st) == req.token # "none" /\ st.token # "client"

\* jwt-auth judges the token of the request; once it has consumed it, it
\* removes the header, or writes it when it forwards under the same name.
Authenticate(p, req, st) ==
  IF req.token # "valid" THEN [st EXCEPT !.denied = p.status, !.auth.authenticated = FALSE, !.auth.authType = "mcp/oauth"]
  ELSE [st EXCEPT !.auth = [req.claims EXCEPT !.authenticated = TRUE, !.authType = "mcp/oauth"],
                  !.token = IF p.forward = "same" THEN "client" ELSE "removed"]

AuthenticateAndKeepClaimedToken(p, req, st) ==
  LET done == Authenticate(p, req, st) IN
  IF done.denied = 0 /\ IsTokenHeaderClaimed(req, st) THEN [done EXCEPT !.token = st.token] ELSE done

\* The protected resource metadata: 200 with the issuers of the configured key
\* managers, or of those the policy names.
WellKnown(p, st) ==
  LET issuers == IF p.issuers = {} THEN p.keyManagers ELSE p.issuers \intersect p.keyManagers IN
  Refuse(st, IF issuers = {} THEN p.status ELSE 200)

ConfigValid(p) == p.status \in {401, 403}

ApplyAuthRule(p, req, st, method, name) ==
  IF IsAuthRequired(p, method, name) THEN AuthenticateAndKeepClaimedToken(p, req, st) ELSE st

AuthOnRequestHeaders(p, req, st) ==
  LET facts == McpFacts(req)
      Decide(s, m, n, r) == ApplyAuthRule(p, req, s, m, n)
      Always(s) == AuthenticateAndKeepClaimedToken(p, req, s)
  IN IF ~ConfigValid(p) THEN Refuse(st, 500)
     ELSE IF req.verb = "GET" /\ req.path = "wellknown" THEN WellKnown(p, st)
     ELSE IF IsMcpPostRequest(req)
          THEN IF ShouldParseBody(req) THEN st
               ELSE IF facts.modern THEN FromMirroredHeaders(st, facts, Decide, HeaderMismatch)
               ELSE FromResolvedBody(st, req, facts, Decide, Always, ~facts.present)
     ELSE IF RequiresTransportAuth(p, req) THEN Authenticate(p, req, st)
     ELSE st

AuthOnRequestBody(p, req, st) ==
  LET raw == RawPayload([req EXCEPT !.body = st.body])
      method == StructMethod(raw)
      name == IF method = <<"resources", "read">> THEN StructName(raw, "uri") ELSE StructName(raw, "name")
  IN IF ~ConfigValid(p) THEN Refuse(st, 500)
     ELSE IF ~ShouldParseBody(req) \/ ~IsMcpPostRequest(req) THEN st
     ELSE IF st.body = <<>> THEN AuthenticateAndKeepClaimedToken(p, req, st)
     ELSE IF UnmarshalError(raw) # "" THEN HandleUnusableBody(st, UnmarshalError(raw))
     ELSE IF ~ValidateUnambiguousMembers(raw, method) THEN Refuse(st, -32600)
     ELSE ApplyAuthRule(p, req, st, method, name)

(***************************************************************************)
(* mcp-ratelimit.  st.used[k] counts the calls the delegate of key k, an   *)
(* entry and a capability, has let pass.                                   *)
(***************************************************************************)
CapabilityFrom(method, name) ==
  IF Len(method) < 2 \/ Head(method) \notin McpTypes THEN <<"", "">>
  ELSE <<Head(method), IF IsApplicableOnRequest(method[1], method[2]) /\ Len(method) = 2 THEN name ELSE "">>

\* The entries that target the operation, the exact ones before the wildcards.
FindMatches(p, method, capability) ==
  LET hit(entry, any) ==
        /\ entry.any = any
        /\ IF entry.section = "methods" THEN any \/ entry.method = method
           ELSE entry.section = capability[1] /\ capability[2] # "" /\ (any \/ entry.name = capability[2])
      select(any) == SelectSeq([i \in DOMAIN p.entries |-> i], LAMBDA i : hit(p.entries[i], any))
  IN select(FALSE) \o select(TRUE)

DelegateKey(p, i, method, capability) == <<i, IF p.entries[i].section = "methods" THEN method ELSE <<capability[2]>>>>

Used(st, k) == IF k \in DOMAIN st.used THEN st.used[k] ELSE 0

\* The delegates are asked in turn until one refuses; those before it have
\* counted the call.
Enforce(p, st, method, name, readable) ==
  LET capability == CapabilityFrom(method, name)
      matches == FindMatches(p, method, capability)
      key(j) == DelegateKey(p, matches[j], method, capability)
      full == {j \in DOMAIN matches : Used(st, key(j)) >= p.entries[matches[j]].limit}
      asked == IF full = {} THEN DOMAIN matches
               ELSE {j \in DOMAIN matches : \A f \in full : j < f}
      counted == {key(j) : j \in asked}
      now == [st EXCEPT !.used = [k \in DOMAIN @ \union counted |-> Used(st, k) + IF k \in counted THEN 1 ELSE 0]]
  IN IF method = <<>> THEN st
     ELSE IF full # {} THEN Refuse(now, 429)
     ELSE [now EXCEPT !.invoked = counted]

RateOnRequestHeaders(p, req, st) ==
  LET facts == McpFacts(req)
      Decide(s, m, n, r) == Enforce(p, s, m, n, r)
      Nothing(s) == s
  IN IF ~IsMcpPostRequest(req) \/ ShouldParseBody(req) THEN st
     ELSE IF facts.modern THEN FromMirroredHeaders(st, facts, Decide, HeaderMismatch)
     ELSE FromResolvedBody(st, req, facts, Decide, Nothing, ~HasMethod(facts))

RateOnRequestBody(p, req, st) ==
  LET raw == IF req.sse THEN ExtractFirstSseJSON(st.body) ELSE Head(st.body)
      method == StructMethod(raw)
      name == IF method # <<>> /\ Head(method) = "resources" THEN StructName(raw, "uri") ELSE StructName(raw, "name")
  IN IF ~ShouldParseBody(req) \/ req.verb # "POST" \/ st.body = <<>> THEN st
     ELSE IF UnmarshalError(raw) # "" THEN HandleUnusableBody(st, "syntax-error")
     ELSE IF ~ValidateUnambiguousMembers(raw, method) THEN HandleUnusableBody(st, "ambiguous")
     ELSE Enforce(p, st, method, name, TRUE)

(***************************************************************************)
(* mcp-rewrite                                                             *)
(***************************************************************************)
\* The name the client uses, and the one the server knows.
EntryKey(type, e) == IF type = "resources" THEN e.uri ELSE e.name
EntryTarget(type, e) == IF e.target # "" THEN e.target ELSE EntryKey(type, e)

\* Of two entries for one key, the later one counts.
LookupLast(entries, Is(_)) ==
  LET hits == {i \in DOMAIN entries : Is(entries[i])} IN
  IF hits = {} THEN 0 ELSE CHOOSE i \in hits : \A j \in hits : j <= i

Lookup(config, type, key) == LET is(e) == EntryKey(type, e) = key IN LookupLast(config.entries, is)
TargetLookup(config, type, key) == LET is(e) == EntryTarget(type, e) = key IN LookupLast(config.entries, is)

\* Only what an entry targets is listed, under the name of the entry.
RewriteListItems(items, config, type) ==
  LET known == SelectSeq(items, LAMBDA k : k # "" /\ TargetLookup(config, type, k) # 0)
  IN [i \in DOMAIN known |-> EntryKey(type, config.entries[TargetLookup(config, type, known[i])])]

MirroredMethodMismatch(req, method) == IsModernRequest(req.version) /\ req.hMethod # method
MirroredNameMismatch(req, name) ==
  IsModernRequest(req.version) /\ (DecodeFails(req.hName) \/ DecodeSentinel(req.hName) # name)

\* Writing the target into the last member the map reads: the map has one
\* member per name, so the duplicates are gone.
SetMember(ms, n, value) ==
  LET rest == SelectSeq(ms, LAMBDA m : m.name # n)
      once == SelectSeq([i \in DOMAIN rest |-> i], LAMBDA i : \A j \in i + 1 .. Len(rest) : rest[j].name # rest[i].name)
  IN [i \in DOMAIN once |-> rest[once[i]]] \o <<[name |-> n, fold |-> n, ok |-> TRUE, value |-> value]>>

RewriteOnRequestBody(p, req, st) ==
  LET at == ParseRequestPayload(st.body, req.sse)
      ms == st.body[at].members
      method == LastValue(Exactly(ms, "method"), <<>>)
      type == ParseMcpMethod(method)[1]
      action == ParseMcpMethod(method)[2]
      config == p.capabilities[type]
      params == Exactly(ms, "params")
      readable == params # <<>> /\ Last(params).ok
      key == GetParamKey(type)
      name == LastValue(Exactly(Last(params).value, key), "")
      entry == Lookup(config, type, name)
      target == EntryTarget(type, config.entries[entry])
      noted == [st EXCEPT !.type = type, !.action = action]
  IN IF ~IsMcpPostRequest(req) \/ st.body = <<>> THEN st
     ELSE IF req.resolved /\ Resolve(req).unusable # "" THEN HandleUnusableBody(st, Resolve(req).unusable)
     ELSE IF at = 0 THEN Refuse(st, -32700)
     ELSE IF MirroredMethodMismatch(req, method) THEN Refuse(st, HeaderMismatch)
     ELSE IF type = "" THEN st
     ELSE IF ~IsApplicableOnRequest(type, action) \/ ~config.enabled THEN noted
     ELSE IF ~readable THEN Refuse(noted, InvalidParams)
     ELSE IF MirroredNameMismatch(req, name) THEN Refuse(noted, HeaderMismatch)
     ELSE IF name = "" \/ entry = 0 THEN Refuse(noted, InvalidParams)
     ELSE IF target = name THEN noted
     ELSE [noted EXCEPT !.body = [@ EXCEPT ![at] = [@ EXCEPT !.members = SetMember(@, "params", SetMember(Last(params).value, key, target))]],
                        !.hName = IF IsModernRequest(req.version) THEN EncodeSentinel(target) ELSE @]

RewriteOnResponseBody(p, req, st, answer) ==
  IF ~IsMcpPostRequest(req) \/ st.action # "list" \/ ~p.capabilities[st.type].enabled THEN answer
  ELSE [i \in DOMAIN answer |-> IF answer[i].kind # "list" THEN answer[i]
          ELSE [answer[i] EXCEPT !.items = RewriteListItems(@, p.capabilities[st.type], st.type)]]

(***************************************************************************)
(* mcp-spec-validation                                                     *)
(***************************************************************************)
\* Mutant: a name between sentinels is taken for checked once it decodes.
PlainNameMatchesBody(req) ==
  req.hName.form = "sentinel" \/ req.hName = NoName \/ Resolve(req).name = DecodeSentinel(req.hName)

\* Any name sent is compared; for a task the body may not carry the id.
NameMatchesBody(req) ==
  LET task == req.hMethod \in TaskMethods
      value == IF task THEN Resolve(req).taskId ELSE Resolve(req).name
  IN req.hName = NoName \/ (task /\ value = "") \/ value = DecodeSentinel(req.hName)

SpecOnRequestHeaders(req, st) ==
  LET attrs == Resolve(req) IN
  IF req.verb # "POST" \/ ShouldParseBody(req) THEN st
  ELSE IF req.version # "" /\ ~IsSpecVersion(req.version) THEN Refuse(st, HeaderMismatch)
  ELSE IF attrs.unusable # "" THEN HandleUnusableBody(st, attrs.unusable)
  ELSE IF ~IsModernRequest(req.version) THEN st
  ELSE IF \/ ~req.clean \/ req.hMethod = <<>>
          \/ req.hMethod \in MethodsRequiringName /\ req.hName = NoName
          \/ DecodeFails(req.hName) \/ attrs.version # req.version \/ attrs.method # req.hMethod
          \/ ~NameMatchesBody(req)
       THEN Refuse(st, HeaderMismatch)
  ELSE st

SpecOnRequestBody(req, st) ==
  LET reason == UnusableBodyReason(st.body, req.sse) IN
  IF req.verb # "POST" \/ ~ShouldParseBody(req) \/ reason = "" THEN st ELSE HandleUnusableBody(st, reason)

=============================================================================
