--------------------------- MODULE TrafficValues ---------------------------
(***************************************************************************)
(* The routes of the model-routing, rate-limit, MCP, guardrail and Jev     *)
(* policies, and their traffic, for TLC.                                   *)
(***************************************************************************)
EXTENDS Integers, Sequences, TLC
LOCAL Targets == INSTANCE ModelTargets WITH Patterns <- <<>>, MaxScaled <- 0, MinutesPerDay <- 1, DaysPerWeek <- 1
LOCAL FrontEnds == INSTANCE RateLimitFrontends
LOCAL Texts == INSTANCE GuardrailText
LOCAL Jev == INSTANCE JevQuestions WITH One <- 2, MaxScoreLevels <- 10, MaxChoiceOption <- 255
LOCAL Mcp == INSTANCE McpMessages WITH Unprintable <- {"y"}

---------------------------------------------------------------------------
\* Routes with model-routing policies.
RoutingPatterns == [s \in {"*", "g*"} |-> IF s = "*" THEN [matches |-> {"a", "b", "g1", "g2"}, specificity |-> 0]
                                     ELSE [matches |-> {"g1", "g2"}, specificity |-> 1]]
LOCAL RM(l) == [location |-> l, identifier |-> "id", expression |-> "group"]
LOCAL A == Targets!Target("a", "p1")
LOCAL B == Targets!Target("b", "")
LOCAL Rotation(l, w) == [kind |-> "rotation", weighted |-> w > 1, requestModel |-> RM(l), suspendDuration |-> 2,
  models |-> <<[target |-> A, weight |-> w], [target |-> B, weight |-> 1]>>]
LOCAL Limit(a) == <<[amount |-> a, duration |-> 1]>>
LOCAL CostOf(l, be, fo, ex, fb) == [kind |-> "cost", requestModel |-> RM(l), scale |-> 5, onExhausted |-> ex, removed |-> {}, fallback |-> fb,
  primary |-> Targets!NoTarget, limits |-> <<>>, backend |-> be, failOpen |-> fo, redisUp |-> TRUE,
  modelBudgets |-> <<[name |-> "", target |-> A, limits |-> Limit(4)], [name |-> "", target |-> B, limits |-> Limit(6)],
                     [name |-> "w", target |-> Targets!Target("other", ""), limits |-> Limit(4)], [name |-> "g", target |-> Targets!Target("g*", ""), limits |-> Limit(4)]>>]
LOCAL Primary == [CostOf("payload", "memory", TRUE, "fallback", B) EXCEPT !.modelBudgets = <<>>, !.primary = A, !.limits = Limit(4)]
LOCAL TimeOf(l) == [kind |-> "time", requestModel |-> RM(l), fallback |-> Targets!NoTarget,
  schedules |-> <<[from |-> 2, to |-> 1, days |-> {1}, target |-> A], [from |-> 1, to |-> 2, days |-> {}, target |-> B]>>]
LOCAL Route(n, t, h) == [name |-> n, target |-> t, threshold |-> h]
LOCAL ClassifierOf(k) == [kind |-> k, requestModel |-> RM("payload"), default |-> Targets!Target("d", ""), threshold |-> 5,
  routes |-> <<Route("x", A, 6), Route("y", B, 99)>>]
LOCAL HeaderOf == [kind |-> "header", requestModel |-> RM("header"), fallback |-> "", mappings |-> <<[value |-> "v", provider |-> "p2"]>>]
LOCAL Raw(k) == k @@ [scale |-> 1, onExhausted |-> "", removed |-> {}, fallback |-> Targets!NoTarget, primary |-> Targets!NoTarget, limits |-> <<>>,
               backend |-> "memory", failOpen |-> TRUE, redisUp |-> TRUE, modelBudgets |-> <<>>]
LOCAL RawChain(c) == [i \in DOMAIN c |-> Raw(c[i])]
RoutingChains == {RawChain(c) : c \in
  {<<Rotation("payload", 3)>>, <<HeaderOf, Rotation("header", 1)>>, <<Rotation("pathParam", 1), HeaderOf>>,
   <<CostOf("body", "memory", TRUE, "fallback", B)>>, <<CostOf("header", "redis", TRUE, "default", B)>>, <<CostOf("queryParam", "redis", FALSE, "", Targets!NoTarget)>>, <<Primary>>,
   <<TimeOf("body")>>, <<TimeOf("header")>>,
   <<HeaderOf, ClassifierOf("semantic")>>, <<ClassifierOf("intelligent")>>, <<ClassifierOf("jev")>>}}
LOCAL Msg(b, s, m, c, h) == [body |-> b, settable |-> s, model |-> m, content |-> c, header |-> h]
LOCAL Content(t, x) == [type |-> t, text |-> x]
RoutingMessages == {Msg("object", TRUE, "a", Content("string", "words"), "v"), Msg("object", TRUE, "g1", Content("parts", "words"), ""),
  Msg("empty", FALSE, "b", Content("none", ""), "")}
LOCAL Reply(s, t, q, sc, ch, pr) == [status |-> s, timeLeft |-> t, retried |-> q, scores |-> sc, choice |-> ch, probability |-> pr]
ClassifierReplies == {Reply("ok", TRUE, "ok", <<6, 6>>, "x", 5), Reply("busy", TRUE, "ok", <<3, 9>>, "y", 4), Reply("busy", FALSE, "ok", <<0, 0>>, "z", 9),
              Reply("error", TRUE, "ok", <<0, 0>>, "z", 0), Reply("ok", TRUE, "ok", <<7, 9>>, "y", 9)}
RoutingLoad == [k \in {"rotation", "cost", "header", "time", "semantic", "intelligent", "jev"} |->
             CASE k = "rotation" -> 3 [] k \in {"cost", "header"} -> 2 [] OTHER -> 1]
RoutingCosts == {-1, 1, 5, 12}

---------------------------------------------------------------------------
\* Routes with rate-limit policies.
PhaseMissing == -9
LOCAL Src(t, m) == FrontEnds!Source(t, "v", m)
LOCAL Cost(d, ss) == [enabled |-> TRUE, default |-> d, sources |-> ss]
LOCAL Key(t, k, match) == [type |-> t, key |-> k, fallback |-> "", match |-> match, regexOk |-> TRUE]
LOCAL RouteKey == Key("routename", "", {})
LOCAL Quota(n, l, ks, c) == [name |-> n, limits |-> <<[limit |-> l, duration |-> TRUE]>>, keyExtraction |-> ks, cost |-> c]
LOCAL Advanced(be, fo, qs) == [kind |-> "advanced", backend |-> be, failOpen |-> fo, redisUp |-> TRUE, keyExtraction |-> <<>>, quotas |-> qs]
LOCAL PlainQuota == Quota("", 2, <<>>, FrontEnds!NoCost)
LOCAL Header == Key("header", "h", {})
LOCAL ByHeader == Quota("a", 3, <<Header>>, Cost(PhaseMissing, <<Src("request_header", 1)>>))
LOCAL ByBody == Quota("b", 3, <<Header>>, Cost(2, <<Src("request_header", 1), Src("request_body", 2), Src("response_header", 1)>>))
LOCAL Cel == Quota("", 2, <<Key("cel", "e", {})>>, FrontEnds!NoCost)
LOCAL Matched == Quota("m", 2, <<Key("header", "h", {<<"u">>}), Key("ip", "", {})>>, Cost(1, <<Src("response_header", 2)>>))
LOCAL Tokens == Quota("t", 3, <<Header>>, Cost(PhaseMissing, <<Src("response_body", 1), Src("request_header", 1)>>))
LOCAL Meta == Quota("x", 3, <<RouteKey>>, Cost(0, <<Src("response_metadata", 1)>>))
LOCAL Window(n) == <<[limit |-> n, duration |-> TRUE]>>
LOCAL FrontEnd(k) == [kind |-> k, backend |-> "redis", failOpen |-> TRUE, redisUp |-> FALSE, level |-> "api", consumerBased |-> TRUE,
  limits |-> Window(1), requestLimits |-> <<[requests |-> 1, duration |-> TRUE]>>,
  promptTokenLimits |-> <<>>, completionTokenLimits |-> <<>>, totalTokenLimits |-> <<[count |-> 4, duration |-> TRUE]>>,
  template |-> [promptTokens |-> [at |-> "p", location |-> "payload"], completionTokens |-> [at |-> "c", location |-> "payload"],
                totalTokens |-> [at |-> "", location |-> ""]],
  systemScale |-> 0, scale |-> 2, defaultScale |-> 9, budgetLimits |-> <<[amount |-> 7, numeric |-> FALSE, duration |-> TRUE], [amount |-> 2, numeric |-> TRUE, duration |-> TRUE]>>,
  capability |-> "tool", entryKeys |-> <<>>, globalKeys |-> <<Header>>]
LOCAL MCFronts == {<<FrontEnd("token")>>, <<FrontEnd("basic")>>, <<FrontEnd("cost")>>, <<FrontEnd("mcp")>>}
PhaseChains ==
  {<<Advanced("memory", TRUE, <<PlainQuota, ByBody>>)>>, <<Advanced("redis", TRUE, <<Cel, Tokens>>)>>, <<Advanced("redis", FALSE, <<Matched, Meta>>)>>,
   <<Advanced("memory", TRUE, <<ByHeader, Cel>>)>>, <<Advanced("memory", TRUE, <<ByHeader>>), Advanced("memory", TRUE, <<Tokens>>)>>}
  \union MCFronts
LOCAL Request(h, c, b) == [attr |-> [header |-> h, xff |-> "", metadata |-> h, realip |-> "r", cel |-> "k"],
  cost |-> ("request_header" :> c) @@ ("request_body" :> b) @@ ("request_metadata" :> PhaseMissing) @@ ("request_cel" :> PhaseMissing)]
PhaseMessages == {Request("u", 1, PhaseMissing), Request("", 0, 1)}
LOCAL Res(form, s, h, body, p, c) == [form |-> form, streaming |-> s, body |-> body,
  reports |-> [v |-> p, p |-> p, c |-> c],
  cost |-> ("response_header" :> h) @@ ("response_metadata" :> h) @@ ("response_cel" :> PhaseMissing)]
PhaseResponses == {Res("json", s, 1, <<<<>>, [v |-> 2, p |-> 2, c |-> 1]>>, 2, 1) : s \in BOOLEAN}
  \union {Res("sse", TRUE, PhaseMissing, <<[v |-> 1, p |-> 1], <<>>, [v |-> 3, p |-> 3]>>, 3, PhaseMissing), Res("sse", FALSE, 0, <<<<>>>>, PhaseMissing, PhaseMissing)}

---------------------------------------------------------------------------
\* Chains of the MCP policies.
LOCAL NoAuth == [authenticated |-> FALSE, authType |-> "", scopes |-> {}, subject |-> "", audience |-> {}, typed |-> << >>, properties |-> << >>]
LOCAL Mem(n, f, v) == [name |-> n, fold |-> f, ok |-> TRUE, value |-> v]
LOCAL Field(n, v) == Mem(n, n, v)
LOCAL Obj(ms) == [kind |-> "object", members |-> ms]
LOCAL Bad(k) == [kind |-> k, members |-> <<>>]
LOCAL Call(n) == Obj(<<Field("method", <<"tools", "call">>), Field("params", <<Field("name", n), Field("version", "2026-07-28")>>)>>)
LOCAL ListOp == Obj(<<Field("method", <<"tools", "list">>), Field("params", <<Field("version", "2026-07-28")>>)>>)
LOCAL Two(n, m) == Obj(<<Field("method", <<"tools", "call">>), Field("params", <<Field("name", n), Mem("Name", "name", m)>>)>>)
LOCAL Dup(n, m) == Obj(<<Field("method", <<"tools", "call">>), Field("params", <<Field("name", n), Field("name", m)>>)>>)
LOCAL Other(ty, a, k, n) == Obj(<<Field("method", <<ty, a>>), Field("params", <<Field(k, n), Field("version", "2026-07-28")>>)>>)
LOCAL Cased(n) == Obj(<<Mem("Method", "method", <<"tools", "call">>), Field("params", <<Field("name", n)>>)>>)
LOCAL NoParams == Obj(<<Field("method", <<"tools", "call">>)>>)
LOCAL Wrong == Obj(<<Field("method", <<"tools", "call">>), Field("params", <<[Field("name", "a") EXCEPT !.ok = FALSE]>>)>>)
LOCAL Bodies == {<<Call("a")>>, <<Call("b")>>, <<Two("b", "a")>>, <<Dup("a", "b")>>, <<Cased("b")>>, <<ListOp>>, <<NoParams>>, <<Wrong>>, <<Bad("array")>>, <<>>,
           <<Bad("syntax"), Call("b")>>, <<Other("resources", "read", "uri", "b")>>, <<Other("tasks", "update", "taskId", "t")>>,
           <<Obj(<<Field("method", <<"initialize">>)>>)>>}
LOCAL Claims(s) == [NoAuth EXCEPT !.scopes = s, !.subject = "u", !.audience = {"g"}, !.typed = ("role" :> {"x"}), !.properties = ("role" :> "x")]
LOCAL Base == [verb |-> "POST", path |-> "mcp", resolved |-> FALSE, version |-> "", hMethod |-> <<>>, hName |-> Mcp!NoName, clean |-> TRUE,
         sse |-> FALSE, body |-> <<>>, token |-> "valid", claims |-> Claims({"s"})]
LOCAL Plain(n) == [form |-> "plain", text |-> n]
LOCAL Modern(b, m, n) == [Base EXCEPT !.resolved = TRUE, !.version = "2026-07-28", !.body = b, !.hMethod = m, !.hName = n]
LOCAL Legacy == {[Base EXCEPT !.body = b, !.resolved = r, !.sse = s] : b \in Bodies, r \in BOOLEAN, s \in BOOLEAN}
LOCAL Callers == {[Base EXCEPT !.body = <<Call("b")>>, !.token = t, !.claims = Claims(c), !.resolved = r] : t \in {"invalid", "none"}, c \in {{}}, r \in BOOLEAN}
  \union {[Base EXCEPT !.body = <<Call("b")>>, !.claims = Claims({})]}
LOCAL Moderns == {Modern(<<Call(n)>>, <<"tools", "call">>, h) : n \in {"a", "b"}, h \in {Mcp!NoName, Plain("a"), [form |-> "sentinel", text |-> "b"], [form |-> "broken", text |-> "a"]}}
  \union {Modern(<<Other("tasks", "update", "taskId", "t")>>, <<"tasks", "update">>, Plain("t")), Modern(<<Other("resources", "read", "uri", "b")>>, <<"resources", "read">>, Plain("b")),
          Modern(<<ListOp>>, <<"tools", "list">>, Mcp!NoName), Modern(<<Call("b")>>, <<>>, Mcp!NoName), [Modern(<<Call("b")>>, <<"tools", "call">>, Plain("b")) EXCEPT !.version = "draft"],
          Modern(<<Call("b")>>, <<"tools", "get">>, Plain("a"))}
LOCAL Else == {[Base EXCEPT !.verb = "GET", !.path = "wellknown"], [Base EXCEPT !.verb = "GET", !.token = "none"], [Base EXCEPT !.path = "other", !.body = <<Call("a")>>]}
McpRequests == Legacy \union Callers \union Moderns \union Else

LOCAL Spec1 == [kind |-> "spec"]
LOCAL Off == [given |-> FALSE, mode |-> "", exceptions |-> {}]
LOCAL Acl(t) == [kind |-> "acl", acl |-> ("tools" :> t) @@ ("resources" :> Off) @@ ("prompts" :> Off)]
LOCAL Rule(ty, any, n, m, all, some) == [type |-> ty, any |-> any, name |-> n, method |-> m, scopes |-> [allOf |-> all, anyOf |-> some],
  claims |-> [allOf |-> {[claim |-> "role", values |-> {"x"}, legacy |-> FALSE], [claim |-> "sub", values |-> {"u"}, legacy |-> FALSE]}, anyOf |-> {[claim |-> "aud", values |-> {"g"}, legacy |-> FALSE]}],
  requiredScopes |-> {}, requiredClaims |-> {<<"role", "x">>}]
LOCAL Authz == [kind |-> "authz", rules |-> {Rule("tools", FALSE, "b", <<>>, {"s"}, {}), Rule("methods", FALSE, "", <<"resources", "read">>, {}, {"s", "q"}),
   [Rule("tools", TRUE, "", <<>>, {}, {}) EXCEPT !.claims = [allOf |-> {}, anyOf |-> {}], !.requiredScopes = {"s"}]}]
LOCAL Sec(e, x) == [enabled |-> e, exceptions |-> x]
LOCAL Auth(f) == [kind |-> "auth", status |-> 401, forward |-> f, issuers |-> {"i"}, keyManagers |-> {"i", "j"},
  security |-> ("tools" :> Sec(FALSE, {"b"})) @@ ("resources" :> Sec(TRUE, {})) @@ ("prompts" :> Sec(TRUE, {})) @@ ("methods" :> Sec(TRUE, {<<"initialize">>}))]
LOCAL Rate == [kind |-> "rate", entries |-> <<[section |-> "tools", any |-> TRUE, name |-> "", method |-> <<>>, limit |-> 2], [section |-> "tools", any |-> FALSE, name |-> "b", method |-> <<>>, limit |-> 1],
   [section |-> "methods", any |-> FALSE, name |-> "", method |-> <<"tools", "list">>, limit |-> 1]>>]
LOCAL Ent(n, t) == [name |-> n, uri |-> "", target |-> t]
LOCAL Rewrite == [kind |-> "rewrite", capabilities |-> ("tools" :> [enabled |-> TRUE, entries |-> <<Ent("a", "x"), Ent("b", ""), Ent("a", "y")>>]) @@ ("resources" :> [enabled |-> FALSE, entries |-> <<>>]) @@ ("prompts" :> [enabled |-> FALSE, entries |-> <<>>])]
LOCAL On(m, x) == [given |-> TRUE, mode |-> m, exceptions |-> x]
McpChains == {<<Spec1, Acl(On("deny", {"b"}))>>, <<Acl(On("allow", {"y", "a"})), Rewrite>>, <<Spec1, Auth("no"), Authz, Acl(On("", {"a", "b"}))>>,
  <<Spec1, Rate, Rewrite>>, <<Spec1, [kind |-> "peer"], Auth("same"), Rewrite>>, <<Acl(On("bad", {}))>>,
  <<Auth("no"), Authz>>, <<Acl(On("deny", {"b"}))>>}
LOCAL Item(k, xs) == [kind |-> k, items |-> xs]
McpAnswers == {<<Item("list", <<"a", "b", "x", "y", "">>)>>, <<Item("error", <<>>), Item("list", <<"y">>), Item("list", <<"a">>)>>}

---------------------------------------------------------------------------
\* Configurations, texts and findings for the guardrails.
LOCAL Num(n) == [k |-> "whole", n |-> n]

LOCAL CountFlow(form, enabled, min, max, invert) ==
  [form |-> form, enabled |-> enabled, min |-> min, max |-> max, invert |-> invert,
   illTyped |-> FALSE]

LOCAL NoFlow == CountFlow("absent", "absent", Num(0), Num(0), FALSE)

LOCAL CountRaw ==
  {[request |-> NoFlow, response |-> CountFlow("object", "true", Num(lo), Num(2), inv)] :
     lo \in {0, 2}, inv \in BOOLEAN}
  \union {[request |-> CountFlow("object", "absent", Num(1), [k |-> "text", n |-> 2], FALSE),
           response |-> CountFlow(f, e, Num(0), Num(1), FALSE)] : f \in {"object", "empty"}, e \in {"absent", "false"}}
  \union {[request |-> CountFlow("object", "true", Num(2), Num(1), FALSE), response |-> NoFlow],
          [request |-> CountFlow("bad", "true", Num(0), Num(1), FALSE), response |-> NoFlow]}

LOCAL UrlFlow(form, enabled, onlyDNS, t) ==
  [form |-> form, enabled |-> enabled, onlyDNS |-> onlyDNS, timeout |-> t, illTyped |-> FALSE]

LOCAL UrlRaw ==
  {[request |-> UrlFlow("object", "true", TRUE, Num(3000)), response |-> UrlFlow("object", "absent", d, [k |-> "absent", n |-> 0])] :
     d \in BOOLEAN}
  \union {[request |-> UrlFlow("absent", "absent", TRUE, Num(0)), response |-> UrlFlow("object", "true", TRUE, Num(-1))]}

LOCAL RegexFlow(form, enabled, regex, invert, whole) ==
  [form |-> form, enabled |-> enabled, regex |-> regex, invert |-> invert, whole |-> whole, illTyped |-> FALSE]

LOCAL RegexRaw ==
  {[request |-> RegexFlow("object", "absent", "compiles", TRUE, w), response |-> RegexFlow("object", "true", "compiles", i, FALSE)] :
     w \in BOOLEAN, i \in BOOLEAN}
  \union {[request |-> RegexFlow("object", "absent", "broken", TRUE, FALSE), response |-> RegexFlow("absent", "absent", "none", FALSE, FALSE)]}

GuardrailRaw == [k \in {"word", "sentence", "length", "url", "regex"} |->
            CASE k = "url" -> UrlRaw [] k = "regex" -> RegexRaw [] OTHER -> CountRaw]

LOCAL Data(t) == Texts!Line("data", "json", Texts!Str(t))

LOCAL Listed(ts) == Texts!Line("data", "json", [k |-> "list", t |-> <<>>, items |-> ts])

LOCAL Done == Texts!Line("data", "done", Texts!Str(<<>>))

GuardrailEvents == [k \in DOMAIN GuardrailRaw |->
  {Done} \union
  CASE k = "word"     -> {Data(<<"a">>), Data(<<"a", "_">>), Texts!Line("event", "raw", Texts!Str(<<"_", "a">>))}
    [] k = "sentence" -> {Data(<<"a">>), Data(<<".">>), Data(<<"_", ".">>)}
    [] k = "length"   -> {Data(<<"a">>), Listed(<<Texts!Str(<<"a">>), [k |-> "num", t |-> <<"a">>, items |-> <<>>], Texts!Str(<<"a">>)>>)}
    [] k = "url"      -> {Data(t) : t \in {<<"h">>, <<"t">>, <<"h", "t">>, <<"a", "h">>, <<"u">>, <<"u", "_">>}}
    [] k = "regex"    -> {Data(<<"a">>), Data(<<".">>), Data(<<>>)}]

GuardrailPieces == [k \in DOMAIN GuardrailRaw |->
  {Texts!Line("none", "raw", Texts!Str(<<"a">>))} \union
  CASE k \in {"word", "sentence", "length"} ->
         {Texts!Line("none", "json", Texts!Str(<<"a", "_", "a">>)), Texts!Line("none", "json", Texts!Str(<<"a", ".", "_", ".">>)),
          Texts!Line("none", "json", [k |-> "null", t |-> <<>>, items |-> <<>>]),
          Texts!Line("none", "json", [k |-> "list", t |-> <<>>, items |-> <<Texts!Str(<<"a">>), Texts!Str(<<"_">>)>>])}
    [] k = "url"   -> {Texts!Line("none", "json", Texts!Str(<<"h", "t", "u">>)), Texts!Line("none", "json", Texts!Str(<<"h", "t", "u", "u">>))}
    [] k = "regex" -> {Texts!Line("none", "json", Texts!Str(<<"a", ".">>)), Texts!Line("none", "json", Texts!Str(<<".">>))}]

UrlsResolvable == {<<"h", "t", "u">>, <<"h", "t", "u", "u">>}

UrlsReachable == {<<"h", "t", "u">>}

GuardrailPattern == <<"a", ".">>

\* Guardrails that ask a service
LOCAL Categories == {"hate", "sexual", "selfharm", "violence"}

LOCAL Creds(role) == [illTyped |-> FALSE, roleARN |-> role, roleOk |-> TRUE, roleRegion |-> TRUE, key |-> TRUE, secret |-> TRUE]
LOCAL BFlow(en, red, pass) == [present |-> TRUE, illTyped |-> FALSE, enabled |-> en, redactPII |-> red, passthroughOnError |-> pass]
LOCAL Bedrock(type, allowed, req, res) == [id |-> [legacy |-> "", canonical |-> "g"], allowedIDs |-> {},
  allowedTypes |-> {}, allowedRoles |-> allowed, system |-> Creds(<<>>),
  auth |-> [type |-> type, creds |-> Creds(IF type = "irsa" THEN <<>> ELSE <<"a", "r">>)],
  env |-> [role |-> <<"b", "r">>, token |-> TRUE], request |-> req, response |-> res]
LOCAL Star == {[v |-> <<"a">>, star |-> "last"]}
LOCAL Exact == {[v |-> <<"b", "r">>, star |-> "none"]}
ServiceRawBedrock ==
  {Bedrock("sts", Star, BFlow("absent", red, pass), BFlow("true", FALSE, pass)) : red, pass \in BOOLEAN}
  \union {Bedrock(t, l, BFlow("absent", FALSE, FALSE), BFlow("absent", FALSE, FALSE)) :
             t \in {"irsa", "iam", "absent", "sts"}, l \in {Star, Exact, {}}}
LOCAL AFlow(pass, sev) == [present |-> TRUE, illTyped |-> FALSE, severity |-> sev, passthroughOnError |-> pass]
LOCAL NoService == [present |-> FALSE]
ServiceRawAzure == {[endpoint |-> TRUE, key |-> TRUE, request |-> AFlow(p, s), response |-> r] :
  p \in BOOLEAN, s \in {<<>>, [hate |-> 8], [c \in Categories |-> -1]},
  r \in {NoService, AFlow(FALSE, [hate |-> 2])}}
ServiceRawSemantic == {[endpoint |-> TRUE, apiKey |-> TRUE, provider |-> "OPENAI", model |-> TRUE, allow |-> 65, deny |-> 65,
  illTyped |-> FALSE, embedded |-> e, allowed |-> a, denied |-> d] : e \in BOOLEAN, a \in {{}, {"p"}}, d \in {{}, {"q"}}}
LOCAL SFlow(en, sch, inv) == [present |-> TRUE, illTyped |-> FALSE, enabled |-> en, schema |-> sch, invert |-> inv]
ServiceRawSchema == {[request |-> f, response |-> g] :
  f \in {NoService, SFlow("false", "none", FALSE), SFlow("absent", "json", FALSE), SFlow("absent", "none", FALSE)},
  g \in {NoService, SFlow("absent", "json", FALSE), SFlow("true", "json", TRUE)}}
LOCAL E(m, t, an) == [match |-> m, type |-> t, anonymized |-> an]
ServiceFindings == {<<>>, <<<<E(<<"x", "y">>, "E", TRUE), E(<<"y">>, "P", TRUE)>>>>,
  <<<<E(<<"y">>, "P", TRUE), E(<<"x", "y">>, "E", TRUE), E(<<"z">>, "E", FALSE)>>>>}
ServiceTexts == {<<"a", "x", "y", "y">>, <<"z">>}
LOCAL AzureReply(s, b, an) == [status |-> s, body |-> b, analysis |-> an]
ServiceAzureReplies == {AzureReply(0, FALSE, {}), AzureReply(503, TRUE, {}), AzureReply(400, TRUE, {}), AzureReply(200, FALSE, {})}
  \union {AzureReply(200, TRUE, {[category |-> c, severity |-> n]}) : c \in {"hate"}, n \in {2, 4}}

\* pii-masking-regex
PiiDetectors == ("E" :> {<<"x", "y">>, <<"z">>}) @@ ("P" :> {<<"y">>})
LOCAL Custom(n, nameOk, regexOk) == [name |-> n, nameOk |-> nameOk, regexOk |-> regexOk]
PiiRawParams == {[custom |-> <<Custom("P", TRUE, TRUE)>>, builtin |-> {"E"}, illTyped |-> FALSE],
  [custom |-> <<Custom("E", TRUE, TRUE)>>, builtin |-> {"E"}, illTyped |-> FALSE]}
PiiContents == {<<"x","y">>, <<"a","x","y","y">>, <<"[","z","x","y">>, <<"a">>, <<"y","[","E","a","y">>}

---------------------------------------------------------------------------
\* Questions, messages and replies for the policies that ask Jev.
LOCAL List(l) == [form |-> "strings", list |-> l]
LOCAL NoList == [form |-> "absent", list |-> <<>>]
LOCAL Q(k, type, thr, cthr) == [key |-> k, type |-> type, instructions |-> TRUE, threshold |-> thr,
  confidenceThreshold |-> cthr, criteria |-> IF type = "noul" THEN NoList ELSE List(<<"a", "b">>),
  blockOn |-> IF type = "choice" THEN List(<<"b">>) ELSE NoList]
LOCAL Noul == Q("n", "noul", 2, Jev!Missing)
JevDefault == <<Noul>>
LOCAL Both == <<Q("s", "score", 2, 1), Q("c", "choice", 1, Jev!Missing)>>
LOCAL BadQuestions == {<<Noul, Noul>>, <<Q("s", "score", 3, Jev!Missing)>>}
LOCAL NoT == [form |-> "absent", n |-> 0]
LOCAL Flow(qs, mode, pass) == [present |-> TRUE, questions |-> qs, timeout |-> NoT, mode |-> mode,
  passthroughOnError |-> pass, illTyped |-> FALSE]
LOCAL NoJevFlow == [Flow(<<>>, "absent", "absent") EXCEPT !.present = FALSE]
LOCAL JevRule(n, qs, mode, pass) == [name |-> n, questions |-> qs, mode |-> mode, passthroughOnError |-> pass, scope |-> TRUE]
LOCAL Tool(kind, rs) == [kind |-> kind, apiKey |-> "k", topLevelRule |-> FALSE, timeout |-> [form |-> "duration", n |-> 1],
  showAssessment |-> "absent", tools |-> rs, maxResultBytes |-> 2]
JevRaw ==
  {[kind |-> "content", apiKey |-> "k", request |-> f, response |-> g] :
     f \in {NoJevFlow, Flow(<<>>, "enforce", "absent"), Flow(Both, "monitor", "absent")} \union {Flow(b, "absent", "absent") : b \in BadQuestions},
     g \in {NoJevFlow, Flow(Both, "absent", "true"), Flow(<<Noul>>, "absent", "false")}}
  \union {Tool(k, rs) : k \in {"intent", "result"},
      rs \in {<<JevRule("t", <<>>, "monitor", "absent"), JevRule("*", Both, "enforce", "false")>>,
              <<JevRule("t", <<>>, "absent", "absent")>>,
              <<JevRule("t", <<>>, "absent", "absent"), JevRule("t", <<>>, "absent", "absent")>>}}
LOCAL Str(t) == [k |-> "string", t |-> t, parts |-> <<>>]
LOCAL Val(k) == [k |-> k, t |-> <<>>, parts |-> <<>>]
LOCAL Parts(ps) == [k |-> "parts", t |-> <<>>, parts |-> ps]
LOCAL MCContent ==
  {[form |-> "empty"], [form |-> "raw", t |-> <<"x">>], [form |-> "broken"],
   [form |-> "value", v |-> Val("null")], [form |-> "value", v |-> Parts(<<Str(<<"x">>), Val("typed")>>)],
   [form |-> "value", v |-> Parts(<<Val("other")>>)], [form |-> "value", v |-> Val("object")],
   [form |-> "wildcard", matches |-> <<>>],
   [form |-> "wildcard", matches |-> <<Str(<<"x">>), Str(<<"x", "x">>), Str(<<"y">>), Val("null")>>],
   [form |-> "wildcard", matches |-> <<Str(<<"x">>), Val("object")>>],
   [form |-> "sse", lines |-> <<Val("unparsed"), Str(<<"x">>), Val("missing")>>],
   [form |-> "sse", lines |-> <<Val("missing")>>], [form |-> "sse", lines |-> <<Val("unparsed")>>]}
LOCAL In(n, r, sp, a) == [name |-> n, runs |-> r, spelled |-> sp, args |-> a]
LOCAL ToolCall(in) == [mcp |-> TRUE, empty |-> FALSE, events |-> 1, object |-> TRUE, spelled |-> TRUE,
  method |-> "tools/call", params |-> "object", in |-> in, id |-> "1"]
LOCAL PlainCall == ToolCall(In("u", "u", TRUE, "object"))
LOCAL MCCall == {PlainCall, ToolCall(In("t", "t", TRUE, "null")), ToolCall(In("t", "u", FALSE, "object")), ToolCall(In("blank", "u", TRUE, "object")),
  ToolCall(In("u", "u", TRUE, "other")), [PlainCall EXCEPT !.spelled = FALSE, !.in.name = "t"], [PlainCall EXCEPT !.mcp = FALSE],
  [PlainCall EXCEPT !.empty = TRUE], [PlainCall EXCEPT !.events = 2], [PlainCall EXCEPT !.object = FALSE],
  [PlainCall EXCEPT !.method = "other"], [PlainCall EXCEPT !.method = "wrongtype"], [PlainCall EXCEPT !.params = "absent"],
  [PlainCall EXCEPT !.id = "null"]}
LOCAL ToolRes(form, cs, st) == [form |-> form, contents |-> cs, structured |-> st]
LOCAL Ev(k, res, id) == [k |-> k, result |-> res, method |-> FALSE, id |-> id]
LOCAL NoRes == ToolRes("absent", <<>>, <<>>)
LOCAL Answers1 == {Ev("object", ToolRes("ok", <<[type |-> "text", t |-> <<"x">>], [type |-> "image", t |-> <<"y">>]>>, <<>>), "1"),
  Ev("object", ToolRes("ok", <<>>, <<>>), "1"), Ev("object", ToolRes("ok", <<[type |-> "resource", t |-> <<"x">>]>>, <<"x", "x">>), "1"),
  Ev("object", ToolRes("broken", <<>>, <<>>), "1")}
LOCAL Others == {Ev("object", NoRes, "1"), Ev("object", ToolRes("ok", <<>>, <<"x">>), "2"), Ev("unreadable", NoRes, "1"), Ev("brace", NoRes, "1"), Ev("blank", NoRes, "1")}
LOCAL MCStream == {<<>>} \union {<<e>> : e \in Answers1 \union Others} \union {<<o, a>> : o \in Others, a \in Answers1 \union Others}
JevBodies == [content |-> MCContent, call |-> MCCall, stream |-> MCStream]
LOCAL JevAnswer(v, c, f, of) == [readable |-> TRUE, value |-> v, confidence |-> c, probabilities |-> [form |-> f, of |-> of]]
LOCAL Ans(v, c, p) == ("n" :> JevAnswer(v, Jev!Missing, "none", <<>>)) @@ ("s" :> JevAnswer(v, c, "none", <<>>)) @@ ("c" :> JevAnswer(Jev!Missing, Jev!Missing, "object", "b" :> p))
LOCAL Ok(a) == [status |-> 200, body |-> "answers", answers |-> a]
LOCAL Bare(s, b) == [status |-> s, body |-> b, answers |-> <<>>]
JevReplies == {Bare(0, "none"), Bare(429, "none"), Bare(529, "toolarge"), Bare(500, "none"), Bare(200, "toolarge"), Bare(200, "broken")}
  \union {Ok(Ans(v, c, p)) : v \in {1, 2}, c \in {0, 1, Jev!Missing}, p \in {0, 1}}
  \union {Ok("n" :> JevAnswer(2, Jev!Missing, "none", <<>>)), Ok("n" :> [JevAnswer(1, 0, "none", <<>>) EXCEPT !.readable = FALSE]),
          Ok(("s" :> JevAnswer(2, 1, "none", <<>>)) @@ ("c" :> JevAnswer(Jev!Missing, Jev!Missing, "none", <<>>)))}

\* Tool filtering.  JevAnswer JSON value is [k, s, of, items].
LOCAL V(k, s, of, items) == [k |-> k, s |-> s, of |-> of, items |-> items]
LOCAL S(s) == V("string", <<s>>, <<>>, <<>>)
LOCAL Arr(items) == V("array", <<>>, <<>>, items)
LOCAL ToolObj(of) == V("object", <<>>, of, <<>>)
LOCAL Seg(k, i) == [key |-> k, index |-> i]
LOCAL Path(segs) == [root |-> TRUE, segs |-> segs]
LOCAL NoPath == [root |-> FALSE, segs |-> <<>>]
LOCAL N(n) == [k |-> "whole", n |-> n]
LOCAL NoN == [k |-> "absent", n |-> 0]
LOCAL Params(mode, limit, thr, least) == [apiKey |-> <<"k", "_">>, baseURL |-> [scheme |-> "https", host |-> "h", user |-> FALSE],
  maxTools |-> N(3), maxToolBytes |-> N(3), maxTotalBytes |-> N(8), selectionMode |-> mode, limit |-> limit, threshold |-> thr,
  minimumScore |-> least, timeout |-> [k |-> "duration", n |-> 1], query |-> NoPath, tools |-> NoPath]
LOCAL Std == Params("absent", N(1), NoN, NoN)
ToolParams ==
  {Params("absent", l, NoN, m) : l \in {N(0), N(1), N(2)}, m \in {NoN, N(5)}}
  \union {Params("threshold", NoN, t, NoN) : t \in {NoN, N(5)}}
  \union {[Std EXCEPT !.tools = Path(<<Seg("tools", -200), Seg("function", -100)>>), !.query = Path(<<Seg("prompt", -100)>>)],
          [Params("threshold", NoN, N(5), NoN) EXCEPT !.tools = Path(<<Seg("sets", 0)>>)]}
  \union {[Std EXCEPT !.tools = Path(<<Seg("tools", -200), Seg("all", -200)>>)], [Std EXCEPT !.query = Path(<<Seg("[", -100)>>)],
          [Std EXCEPT !.apiKey = <<"_">>], [Std EXCEPT !.baseURL.scheme = "http"], [Std EXCEPT !.maxToolBytes = N(9)],
          [Std EXCEPT !.limit = [k |-> "fraction", n |-> 1]], [Std EXCEPT !.threshold = N(11)], [Std EXCEPT !.timeout.n = 0]}
LOCAL ChatMsg(role, content) == ToolObj([role |-> S(role), content |-> content])
LOCAL User == ChatMsg("user", S("p"))
LOCAL Fn(name, d) == ToolObj([type |-> S("function"), function |-> ToolObj([name |-> S(name), description |-> S(d)])])
LOCAL Schema == ToolObj([properties |-> ToolObj([x |-> ToolObj([type |-> S("int"), description |-> S("d")]), y |-> ToolObj([type |-> S("_")])])])
LOCAL Own(name) == ToolObj([name |-> name, summary |-> V("string", <<"d", "d">>, <<>>, <<>>), input_schema |-> Schema, title |-> S("t")])
LOCAL Three == <<Fn("a", "d"), Own(S("b")), Fn("c", "d")>>
LOCAL Long == V("string", <<"a", "b", "c", "d">>, <<>>, <<>>)
LOCAL Body(msgs, tools) == ("messages" :> Arr(msgs)) @@ ("tools" :> tools) @@ ("prompt" :> S("p")) @@ ("sets" :> Arr(<<tools>>))
  @@ ("temperature" :> S("0"))
LOCAL With(choice, tools) == ToolObj(("tool_choice" :> choice) @@ ("parallel_tool_calls" :> S("true")) @@ Body(<<User>>, Arr(tools)))
LOCAL Kind(t) == ToolObj("type" :> S(t))
ToolBodies ==
  {V("absent", <<>>, <<>>, <<>>), Arr(<<>>), ToolObj(Body(<<User, ChatMsg("assistant", S("q"))>>, Arr(Three))),
   ToolObj(Body(<<ChatMsg("user", Arr(<<ToolObj([type |-> S("text"), text |-> S("p")]), Kind("image")>>))>>, Arr(Three))),
   ToolObj(Body(<<ChatMsg("user", S("_"))>>, Arr(Three))), ToolObj(Body(<<User>>, V("string", <<"json">>, <<>>, Three))),
   ToolObj(Body(<<User>>, S("x"))), ToolObj(Body(<<User>>, V("null", <<>>, <<>>, <<>>))), ToolObj(Body(<<User>>, Arr(Three \o Three))),
   ToolObj(Body(<<User>>, Arr(<<Fn("a", "d"), Kind("search")>>))), ToolObj(Body(<<User>>, Arr(<<Fn("a", "d"), S("x")>>)))}
  \union {ToolObj(Body(<<User, m>>, Arr(Three))) : m \in {ChatMsg("tool", S("r")), Kind("function_call"), ChatMsg("user", Arr(<<Kind("tool_result")>>)),
                                                    ToolObj("tool_calls" :> Arr(<<S("x")>>)), ToolObj("function_call" :> S("x"))}}
  \union {With(c, Three) : c \in {S("auto"), S("any"), Kind("required"), ToolObj([type |-> S("tool"), name |-> S("b")]),
                                 ToolObj([function |-> ToolObj([name |-> S("c")])]), ToolObj([name |-> S("z")])}}
  \union {With(ToolObj([name |-> Long]), <<Own(Long), Fn("a", "d")>>)}
LOCAL Noul10(i, n) == [id |-> i, readable |-> TRUE, type |-> "noul", noul |-> n]
LOCAL Scored(u, as) == [status |-> 200, body |-> "answers", usage |-> u, answers |-> as]
LOCAL Three3(x, y, z) == <<Noul10(1, x), Noul10(2, y), Noul10(3, z)>>
LOCAL NoScores(s, b) == [status |-> s, body |-> b, usage |-> Jev!Missing, answers |-> <<>>]
ToolReplies ==
  {Scored(1, Three3(x, y, z)) : x, y, z \in {0, 5, 10}}
  \union {Scored(Jev!Missing, <<Noul10(1, 0), Noul10(2, n)>>) : n \in {0, 10}}
  \union {Scored(Jev!Missing, <<Noul10(2, 5), Noul10(1, 5), Noul10(2, 5)>>), Scored(Jev!Missing, Three3(5, 11, 5)), Scored(Jev!Missing, Three3(5, Jev!Missing, 5)),
          Scored(-1, Three3(0, 0, 0)), [Scored(1, Three3(0, 5, 0)) EXCEPT !.answers[2].type = "score"]}
  \union {NoScores(0, "none"), NoScores(429, "none"), NoScores(529, "toolarge"), NoScores(500, "none"), NoScores(200, "broken")}

\* semantic-cache
LOCAL ToolNum(n) == [k |-> "number", n |-> n]
LOCAL Asks(k, type, thr) == [key |-> k, type |-> type, instructions |-> TRUE, threshold |-> thr, criteria |-> List(<<"a", "b", "c">>)]
CacheQuestions == <<Asks("live", "noul", ToolNum(70))>>
LOCAL NoCheck == [form |-> "absent", enabled |-> "absent", timeout |-> [k |-> "absent", n |-> 0], questions |-> [form |-> "absent", list |-> <<>>]]
LOCAL Check(qs) == [NoCheck EXCEPT !.form = "object", !.enabled = "yes", !.questions = [form |-> "array", list |-> qs]]
LOCAL Cached == [embeddingProvider |-> "OPENAI", vectorStoreProvider |-> "REDIS", threshold |-> ToolNum(50), endpoint |-> TRUE, apiKey |-> TRUE, dbHost |-> TRUE, model |-> TRUE,
  dbPort |-> ToolNum(1), dimension |-> ToolNum(1), ttl |-> [k |-> "absent", n |-> 0], jsonPath |-> "", streamingJsonPath |-> "absent", cacheUnauthenticated |-> "absent", jevApiKey |-> TRUE, check |-> NoCheck]
CacheSettings == {Cached, [Cached EXCEPT !.cacheUnauthenticated = "yes", !.jsonPath = "$.p", !.threshold = ToolNum(100)], [Cached EXCEPT !.check = Check(<<>>)],
  [Cached EXCEPT !.embeddingProvider = "AZURE_OPENAI", !.model = FALSE, !.check = Check(<<Asks("live", "noul", ToolNum(100)), Asks("odd", "score", ToolNum(150))>>)],
  [Cached EXCEPT !.check = Check(<<Asks("odd", "score", ToolNum(250))>>)], [Cached EXCEPT !.vectorStoreProvider = "OTHER"], [Cached EXCEPT !.threshold = ToolNum(101)]}
LOCAL Who(a, s, c, t) == [app |-> a, subject |-> s, credential |-> c, token |-> t]
LOCAL Asking(who) == [api |-> "x", caller |-> who, body |-> "t1", at |-> "t1"]
LOCAL Known == Asking(Who("", "a", "", ""))
CacheTraffic == {Asking(Who("a", "u", "", "")), Known, [Known EXCEPT !.body = "t2", !.at = "t2", !.caller.credential = "c"], [Known EXCEPT !.body = "t3", !.at = ""], [Known EXCEPT !.at = "error", !.api = ""],
  Asking(Who("", "", "a", "h")), Asking(Who("", "", "", "")), [Known EXCEPT !.api = "y"]}
CacheSimilarity == [t \in {"t1", "t2", "t3"} |-> [u \in {"t1", "t2", "t3"} |-> IF t = u THEN 10000 ELSE IF "t3" \in {t, u} THEN 7999 ELSE 8000]]
LOCAL Said(c) == [status |-> 200, json |-> TRUE, content |-> c, sse |-> FALSE, events |-> <<>>, noStore |-> FALSE]
LOCAL Chunk(t, c) == [json |-> TRUE, text |-> t, choices |-> c]
LOCAL AskDone == [json |-> FALSE, text |-> <<>>, choices |-> FALSE]
LOCAL Streamed(es) == [Said(<<"none">>) EXCEPT !.json = FALSE, !.sse = TRUE, !.events = es]
CacheAnswers == {Said(<<"r">>), [Said(<<"r">>) EXCEPT !.noStore = TRUE], [Said(<<"r">>) EXCEPT !.status = 500], [Streamed(<<>>) EXCEPT !.sse = FALSE],
  Streamed(<<Chunk(<<"r">>, TRUE), Chunk(<<"s">>, TRUE), AskDone>>), [Streamed(<<Chunk(<<"r">>, TRUE), Chunk(<<>>, FALSE), AskDone>>) EXCEPT !.sse = FALSE], Streamed(<<AskDone>>)}
LOCAL Gave(t, n) == [type |-> t, value |-> n]
CacheReplies == {[NoScores(s, "none") EXCEPT !.usage = Jev!Missing] : s \in {0, 429, 500}} \union {NoScores(529, "toolarge")}
  \union {Scored(1, a) : a \in {"live" :> Gave("noul", 69), "live" :> Gave("noul", 70), "live" :> Gave("noul", 101), "live" :> Gave("noul", Jev!Missing), <<>>,
       ("live" :> Gave("noul", 99)) @@ ("odd" :> Gave("score", 149)), ("live" :> Gave("noul", 0)) @@ ("odd" :> Gave("score", 150)), ("live" :> Gave("noul", 0)) @@ ("odd" :> Gave("score", 201)),
       ("live" :> Gave("noul", 0)) @@ ("odd" :> Gave("noul", 0))}}
  \union {Scored(-1, "live" :> Gave("noul", 0))}

\* subscription-validation
SubscriptionSettings == {[header |-> "absent", cookie |-> "sub"], [header |-> "x-sub", cookie |-> "other"]}
SubscriptionUnits == ("min" :> 2) @@ ("hour" :> 4) @@ ("day" :> 6)
LOCAL Plan(n, u, stop) == [limit |-> n, unit |-> u, stop |-> stop]
LOCAL Subs(t, a) == (<<FALSE, <<"api", "t1">>>> :> t) @@ (<<TRUE, <<"api", "app">>>> :> a)
SubscriptionStores == {Subs(Plan(1, "min", TRUE), Plan(1, "odd", TRUE)), Subs(Plan(2, "min", TRUE), Plan(0, "", TRUE)), Subs(Plan(1, "hour", TRUE), Plan(0, "", TRUE)),
  <<FALSE, <<"api", "t1">>>> :> Plan(1, "day", FALSE)}
LOCAL Demand(h, c, app) == [api |-> "api", headers |-> h, cookies |-> c, live |-> c, app |-> app]
LOCAL Cookie(n, v) == [name |-> n, value |-> v]
SubscriptionDemands == {Demand("subscription-key" :> <<"t1", "t2">>, <<>>, ""), Demand("subscription-key" :> <<"">>, <<Cookie("", "x"), Cookie("sub", "t1"), Cookie("sub", "t1")>>, ""),
  Demand("x-sub" :> <<"t2">>, <<Cookie("sub", "")>>, "app"), [Demand(<<>>, <<>>, "app") EXCEPT !.live = <<Cookie("sub", "t1")>>], [Demand(<<>>, <<>>, "app") EXCEPT !.api = ""]}

=============================================================================
