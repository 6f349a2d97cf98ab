------------------------------ MODULE McpChain ------------------------------
(***************************************************************************)
(* A chain of MCP policies in front of an MCP server.  The engine hands a  *)
(* request to the header handlers in order, then to the body handlers in   *)
(* order; the server runs what the forwarded body says; the policies see   *)
(* the answer in reverse order.  Requests follow one another, so that what *)
(* the rate limiter remembers is seen.                                     *)
(***************************************************************************)
EXTENDS McpPolicies

CONSTANTS Chains,      \* the chains the proxy may be configured with
          Messages,    \* the requests clients send
          Answers,     \* what the server answers to a list operation
          MaxRequests  \* bound: requests in a behaviour

VARIABLES chain, phase, at, req, st, answer, ran, served,
          folds   \* the server reads a member under every spelling that folds onto its name
mcpVars == <<chain, phase, at, req, st, answer, ran, served, folds>>

NoAuth == [authenticated |-> FALSE, authType |-> "", scopes |-> {}, subject |-> "", audience |-> {}, typed |-> << >>, properties |-> << >>]

\* The state of a request when it enters the chain.
Fresh(r, used) ==
  [denied |-> 0, body |-> r.body, hName |-> r.hName, type |-> "", action |-> "", auth |-> NoAuth,
   token |-> IF r.token = "none" THEN "none" ELSE "client", used |-> used, invoked |-> {}]

\* GetPolicy refuses a configuration it cannot parse.
Buildable(p) ==
  CASE p.kind = "acl"   -> \A t \in McpTypes : ~AclConfigError(p.acl[t])
    [] p.kind = "authz" -> \A r \in p.rules : ~RuleError(r)
    [] OTHER -> TRUE

\* What an MCP server reads in the first JSON event (external): members by their
\* exact name, as a strict server does, or by any spelling that folds onto it, the
\* last one, as the comments of the policies say that servers may.
ReadsNothing == [method |-> <<>>, name |-> ""]

ReadsExactly(payload) ==
  LET method == LastValue(Exactly(payload.members, "method"), <<>>)
      params == Exactly(payload.members, "params")
  IN [method |-> method,
      name |-> IF method = <<>> \/ params = <<>> \/ ~Last(params).ok THEN ""
               ELSE LastValue(Exactly(Last(params).value, GetParamKey(Head(method))), "")]

ReadsFolding(payload) ==
  LET method == StructMethod(payload)
  IN IF UnmarshalError(payload) # "" THEN ReadsNothing
     ELSE [method |-> method, name |-> IF method = <<>> THEN "" ELSE StructName(payload, GetParamKey(Head(method)))]

ServerReads(body, sse) ==
  LET i == ParseRequestPayload(body, sse)
  IN IF i = 0 THEN ReadsNothing
     ELSE IF folds THEN ReadsFolding(body[i]) ELSE ReadsExactly(body[i])

McpInit ==
  /\ chain \in {c \in Chains : \A i \in DOMAIN c : Buildable(c[i])}
  /\ phase = "idle" /\ at = 0 /\ served = 0 /\ ran = << >> /\ answer = <<>>
  /\ req \in Messages /\ st = Fresh(req, << >>) /\ folds \in BOOLEAN

McpReceive ==
  /\ phase = "idle" /\ served < MaxRequests
  /\ \E r \in Messages : req' = r /\ st' = Fresh(r, st.used)
  /\ phase' = "headers" /\ at' = 1 /\ answer' = <<>>
  /\ UNCHANGED <<chain, ran, served, folds>>

OnRequestHeaders(p) ==
  CASE p.kind = "acl"   -> AclOnRequestHeaders(p, req, st)
    [] p.kind = "authz" -> AuthzOnRequestHeaders(p, req, st)
    [] p.kind = "auth"  -> AuthOnRequestHeaders(p, req, st)
    [] p.kind = "rate"  -> RateOnRequestHeaders(p, req, st)
    [] p.kind = "spec"  -> SpecOnRequestHeaders(req, st)
    [] p.kind = "peer"  -> [st EXCEPT !.token = "peer"]
    [] OTHER -> st

OnRequestBody(p) ==
  CASE p.kind = "acl"     -> AclOnRequestBody(p, req, st)
    [] p.kind = "authz"   -> AuthzOnRequestBody(p, req, st)
    [] p.kind = "auth"    -> AuthOnRequestBody(p, req, st)
    [] p.kind = "rate"    -> RateOnRequestBody(p, req, st)
    [] p.kind = "spec"    -> SpecOnRequestBody(req, st)
    [] p.kind = "rewrite" -> RewriteOnRequestBody(p, req, st)
    [] OTHER -> st

\* The next policy of the request; a refusal is the client's answer.
Proceed(next, now, after) ==
  /\ st' = now
  /\ IF now.denied # 0 THEN phase' = "idle" /\ at' = 0 /\ served' = served + 1
     ELSE IF at < Len(chain) THEN phase' = next /\ at' = at + 1 /\ UNCHANGED served
     ELSE phase' = after /\ at' = 1 /\ UNCHANGED served
  /\ UNCHANGED <<chain, req, answer, ran, folds>>

HeaderPhase == phase = "headers" /\ Proceed("headers", OnRequestHeaders(chain[at]), "body")
BodyPhase   == phase = "body" /\ Proceed("body", OnRequestBody(chain[at]), "forward")

\* Op: the operation the client asked for and the name the server ran.
Op == [method |-> ServerReads(req.body, req.sse).method, name |-> ServerReads(req.body, req.sse).name,
       target |-> ServerReads(st.body, req.sse).name]

Count(f, k) == IF k \in DOMAIN f THEN f[k] ELSE 0

Serve ==
  /\ phase = "forward"
  /\ ran' = LET k == <<Op.method, Op.name>> IN [x \in DOMAIN ran \union {k} |-> Count(ran, x) + IF x = k THEN 1 ELSE 0]
  /\ IF Len(Op.method) = 2 /\ Op.method[2] = "list" THEN answer' \in Answers ELSE answer' = <<>>
  /\ phase' = "answer" /\ at' = Len(chain)
  /\ UNCHANGED <<chain, req, st, served, folds>>

AnswerPhase ==
  /\ phase = "answer"
  /\ answer' = LET p == chain[at] IN
       CASE p.kind = "acl"     -> AclOnResponseBody(p, req, st, answer)
         [] p.kind = "rewrite" -> RewriteOnResponseBody(p, req, st, answer)
         [] OTHER -> answer
  /\ IF at > 1 THEN phase' = "answer" /\ at' = at - 1 /\ UNCHANGED served
     ELSE phase' = "idle" /\ at' = 0 /\ served' = served + 1
  /\ UNCHANGED <<chain, req, st, ran, folds>>

McpNext == McpReceive \/ HeaderPhase \/ BodyPhase \/ Serve \/ AnswerPhase
McpSpec == McpInit /\ [][McpNext]_mcpVars

-----------------------------------------------------------------------------
Names(type, action) == action \in {"call", "read", "get"} /\ type \in McpTypes

AclPermits(p) == LET c == GetAclConfig(p, Op.method[1]) IN
  c.enabled => (Op.name \in c.exceptions) = (c.mode = "deny")

AuthzPermits(p) ==
  \A rule \in p.rules :
     (rule.type = Op.method[1] /\ (rule.any \/ rule.name = Op.name)) \/ (rule.type = "methods" /\ (rule.any \/ rule.method = Op.method))
       => /\ req.token = "valid"
          /\ rule.scopes.allOf \subseteq req.claims.scopes
          /\ rule.scopes.anyOf # {} => rule.scopes.anyOf \intersect req.claims.scopes # {}

AuthPermits(p) == LET c == p.security[Op.method[1]] IN c.enabled # (Op.name \in c.exceptions) => req.token = "valid"

RewritePermits(p) == LET c == p.capabilities[Op.method[1]] IN
  c.enabled => \E i \in DOMAIN c.entries : EntryKey(Op.method[1], c.entries[i]) = Op.name /\ EntryTarget(Op.method[1], c.entries[i]) = Op.target

RatePermits(p) ==
  \A i \in DOMAIN p.entries :
    \A k \in DOMAIN ran : Len(k[1]) = 2 /\ Names(k[1][1], k[1][2]) /\ p.entries[i].section = k[1][1] /\ (p.entries[i].any \/ p.entries[i].name = k[2])
      => ran[k] <= p.entries[i].limit

\* A modern request's headers are vouched for by mcp-spec-validation only; the
\* policies' documentation asks to attach it where such requests are served.
Vouched == (req.resolved /\ IsModernRequest(req.version)) => \E i \in DOMAIN chain : chain[i].kind = "spec"

\* Every member the policies govern by is there once, under its own name.
Canonical(payload) ==
  /\ ~MemberSpelling(payload.members, {"method", "params"})
  /\ \A i \in DOMAIN payload.members :
       payload.members[i].name = "params" /\ payload.members[i].ok =>
         ~MemberSpelling(payload.members[i].value, {"name", "uri"})

\* Where no resolver refuses a body that spells a member in two ways, mcp-acl-list
\* and mcp-rewrite read members by their exact name and let it pass.  A server that
\* folds the case may then run another operation than they judged, unless a policy
\* of the chain that looks for such members refuses the body.
SpellingSettled ==
  \/ ~folds \/ req.resolved
  \/ \E i \in DOMAIN chain : chain[i].kind \in {"spec", "authz", "auth", "rate"}
  \/ \A i \in DOMAIN req.body : Canonical(req.body[i])

\* What the server runs is what every policy of the chain has judged: whether the
\* server reads members exactly or folding their case, and however the request
\* encodes its headers, frames its body and, where the spelling is settled, spells
\* its members, the operation the server reads in the forwarded bytes is one the
\* access list, the authorization rules and the authentication rules admit for
\* this client, that the rewrite maps, and that every limit which targets it has
\* counted.
McpGoverned ==
  /\ phase = "answer" /\ Len(Op.method) = 2 /\ Names(Op.method[1], Op.method[2]) /\ Op.name # "" /\ req.path = "mcp" /\ Vouched /\ SpellingSettled =>
       \A i \in DOMAIN chain : LET p == chain[i] IN
         CASE p.kind = "acl"     -> AclPermits(p)
           [] p.kind = "authz"   -> AuthzPermits(p)
           [] p.kind = "auth"    -> AuthPermits(p)
           [] p.kind = "rewrite" -> RewritePermits(p)
           [] OTHER -> TRUE
  /\ \A i \in DOMAIN chain : chain[i].kind = "rate" => RatePermits(chain[i])

\* The list a client is shown offers nothing it could not call: every name in
\* the answer of a list operation passes the access list and the rewrite of
\* the same chain, where the spelling is settled.  And a token header a peer policy has written reaches the
\* server although mcp-auth consumed the client's token.
McpListHonest ==
  phase = "idle" /\ answer # <<>> /\ SpellingSettled =>
    \A e \in Range(answer) : e.kind = "list" =>
      \A name \in Range(e.items) \ {""} :
        \A i \in DOMAIN chain : LET p == chain[i] IN
          CASE p.kind = "acl" -> LET c == GetAclConfig(p, st.type) IN c.enabled => (name \in c.exceptions) = (c.mode = "deny")
            [] p.kind = "rewrite" -> p.capabilities[st.type].enabled => Lookup(p.capabilities[st.type], st.type, name) # 0
            [] p.kind = "peer" -> st.token = "peer"
            [] OTHER -> TRUE
=============================================================================
