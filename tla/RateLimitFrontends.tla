------------------------ MODULE RateLimitFrontends ------------------------
(***************************************************************************)
(* The policies that are a front end of advanced-ratelimit: what           *)
(* parameters they build for the policy they delegate to.  basic-ratelimit *)
(* counts requests, token-based-ratelimit the tokens the provider's        *)
(* template locates, llm-cost-based-ratelimit money, scaled to integers,   *)
(* and mcp-ratelimit the calls of one capability.                          *)
(***************************************************************************)
EXTENDS Integers, Sequences, FiniteSets, SequencesExt

Component(type, key, fallback) ==
  [type |-> type, key |-> key, fallback |-> fallback, match |-> {}, regexOk |-> TRUE]

NoCost == [enabled |-> FALSE, default |-> 1, sources |-> <<>>]

Source(type, at, multiplier) == [type |-> type, at |-> at, multiplier |-> multiplier, expression |-> TRUE]

\* The backend settings are passed on as they are.
SystemParams(raw, quotas) ==
  [quotas |-> quotas, keyExtraction |-> <<>>,
   backend |-> raw.backend, failOpen |-> raw.failOpen, redisUp |-> raw.redisUp]

LevelKey(level) == IF level = "api" THEN "apiname" ELSE "routename"

ConsumerKeys(type, consumerBased) ==
  <<Component(type, "", "")>>
  \o IF consumerBased THEN <<Component("metadata", "x-wso2-application-id", "default")>> ELSE <<>>

\* basic-ratelimit: its limits say "requests".
BasicTransform(raw) ==
  SystemParams(raw, <<[name |-> "default", cost |-> NoCost,
                       limits |-> [i \in DOMAIN raw.requestLimits |->
                         [limit |-> raw.requestLimits[i].requests, duration |-> raw.requestLimits[i].duration]],
                       keyExtraction |-> <<Component(LevelKey(raw.level), "", "")>>]>>)

\* token-based-ratelimit.  A template says, per kind of token, where the
\* provider reports it; "" when it does not.
ResolveCostSource(spec, k) ==
  IF spec[k].at = "" THEN <<>>
  ELSE <<Source(CASE spec[k].location = "header" -> "request_header"
                  [] spec[k].location = "metadata" -> "metadata"
                  [] OTHER -> "response_body", spec[k].at, 1)>>

\* Token limits say "count".
ConvertLimits(ls) == [i \in DOMAIN ls |-> [limit |-> ls[i].count, duration |-> ls[i].duration]]

\* The first group of fields of which the template has any; without one the
\* quota counts requests.
AddQuota(name, limits, groups, raw) ==
  LET sources(g) == FlattenSeq([i \in DOMAIN g |-> ResolveCostSource(raw.template, g[i])])
      usable == {i \in DOMAIN groups : sources(groups[i]) # <<>>}
      first == CHOOSE i \in usable : \A j \in usable : i <= j
  IN IF ConvertLimits(limits) = <<>> THEN <<>>
     ELSE <<[name |-> name, limits |-> ConvertLimits(limits),
             keyExtraction |-> ConsumerKeys(LevelKey(raw.level), raw.consumerBased),
             cost |-> IF usable = {} THEN NoCost
                      ELSE [enabled |-> TRUE, default |-> 1, sources |-> sources(groups[first])]]>>

TokenTransform(raw) ==
  SystemParams(raw,
    AddQuota("prompt_tokens", raw.promptTokenLimits, <<<<"promptTokens">>>>, raw)
    \o AddQuota("completion_tokens", raw.completionTokenLimits, <<<<"completionTokens">>>>, raw)
    \o AddQuota("total_tokens", raw.totalTokenLimits, <<<<"totalTokens">>, <<"promptTokens", "completionTokens">>>>, raw))

\* llm-cost-based-ratelimit: amounts and costs in dollars times the scale factor.
ExtractCostScaleFactor(raw) ==
  IF raw.systemScale > 0 THEN raw.systemScale ELSE IF raw.scale > 0 THEN raw.scale ELSE raw.defaultScale

CostTransform(raw) ==
  LET scale == ExtractCostScaleFactor(raw)
      budgets == SelectSeq(raw.budgetLimits, LAMBDA b : b.numeric)
  IN
  SystemParams(raw, IF budgets = <<>> THEN <<>> ELSE
    <<[name |-> "llm_cost_quota",
       limits |-> [i \in DOMAIN budgets |-> [limit |-> budgets[i].amount * scale, duration |-> budgets[i].duration]],
       keyExtraction |-> ConsumerKeys("routename", raw.consumerBased),
       cost |-> [enabled |-> TRUE, default |-> 0, sources |-> <<Source("response_metadata", "x-llm-cost", scale)>>]]>>)

\* mcp-ratelimit: one delegate per entry and capability, its keys completed by
\* a constant that names both.
McpTransform(raw) ==
  SystemParams(raw, <<[name |-> raw.capability, limits |-> raw.limits, cost |-> NoCost,
    keyExtraction |-> (IF raw.entryKeys # <<>> THEN raw.entryKeys
                       ELSE IF raw.globalKeys # <<>> THEN raw.globalKeys
                       ELSE <<Component("routename", "", "")>>)
                      \o <<Component("constant", raw.capability, "")>>]>>)

\* The parameters advanced-ratelimit is built from.
Transform(raw) ==
  CASE raw.kind = "advanced" -> raw
    [] raw.kind = "basic" -> BasicTransform(raw)
    [] raw.kind = "token" -> TokenTransform(raw)
    [] raw.kind = "cost"  -> CostTransform(raw)
    [] raw.kind = "mcp"   -> McpTransform(raw)

=============================================================================
