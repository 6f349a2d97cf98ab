---------------------------- MODULE ModelTargets ----------------------------
(***************************************************************************)
(* Which model and provider the routing policies choose for a request:     *)
(* the parameters they accept and the selections they compute.  A target   *)
(* is a model and the provider that serves it, "" for the upstream of the  *)
(* route.  Amounts of money are in tenths of a dollar.                     *)
(***************************************************************************)
EXTENDS Integers, Sequences, FiniteSets, SequencesExt, FiniteSetsExt

CONSTANTS Patterns,      \* model names with a "*": the models they match and their specificity
          MaxScaled,     \* math.MaxInt64
          MinutesPerDay, DaysPerWeek

Target(m, p) == [model |-> m, provider |-> p]

NoTarget == Target("", "")

Classifiers == {"semantic", "intelligent", "jev"}

\* The first index of a sequence with a property, 0 if there is none.
FirstIndex(s, P(_)) ==
  LET found == {i \in DOMAIN s : P(s[i])} IN IF found = {} THEN 0 ELSE Min(found)

---------------------------------------------------------------------------
\* Where the model is written.  cost and time routing also say "body", compile
\* the path expression, and cost routing wants a group in it.

ParseRequestModel(kind, rm) ==
  LET location == IF kind \in {"cost", "time"} /\ rm.location = "body" THEN "payload" ELSE rm.location
  IN [location |-> location,
      ok |-> /\ location \in IF kind \in Classifiers THEN {"payload"} ELSE {"payload", "header", "queryParam", "pathParam"}
             /\ rm.identifier # ""
             /\ location = "pathParam" /\ kind = "cost" => rm.expression = "group"
             /\ location = "pathParam" /\ kind = "time" => rm.expression # "invalid"]

ParseTarget(t) == t.model # ""

---------------------------------------------------------------------------
\* model-round-robin and model-weighted-round-robin

ParseRoundRobin(raw) ==
  /\ raw.models # <<>> /\ \A i \in DOMAIN raw.models : ParseTarget(raw.models[i].target)
  /\ raw.suspendDuration >= 0

ParseWeighted(raw) == ParseRoundRobin(raw) /\ \A i \in DOMAIN raw.models : raw.models[i].weight >= 1

InOrder(models) == [i \in DOMAIN models |-> models[i].target]

\* Every model as often as it weighs, in order.
BuildWeightedSequence(models) ==
  FlattenSeq([i \in DOMAIN models |-> [j \in 1 .. models[i].weight |-> models[i].target]])

---------------------------------------------------------------------------
\* cost-based-model-routing

IsPatternModel(m) == m \in DOMAIN Patterns \union {"*", "other"}

ScaleDollars(amount, scale) == (amount * scale) \div 10

ParseBudgetLimits(limits, scale) ==
  /\ limits # <<>>
  /\ \A i \in DOMAIN limits : /\ limits[i].amount > 0
                              /\ ScaleDollars(limits[i].amount, scale) \in 1 .. MaxScaled - 1
                              /\ limits[i].duration > 0

\* A cost too small for the scale is zero; one too large is the maximum.
ScaleCost(cost, scale) == Min({(cost * scale) \div 10, MaxScaled})

WildcardName(m) == IF m = "other" THEN "*" ELSE m

ParseRoutes(budgets, scale) ==
  LET name(i) == IF budgets[i].name # "" THEN budgets[i].name ELSE <<"route-1", "route-2", "route-3", "route-4">>[i]
      model(i) == WildcardName(budgets[i].target.model)
  IN [ok |-> /\ Len(budgets) \in 1 .. 10
             /\ \A i \in DOMAIN budgets :
                  /\ ParseTarget(budgets[i].target)
                  /\ IsPatternModel(budgets[i].target.model) => budgets[i].target.provider = ""
                  /\ ParseBudgetLimits(budgets[i].limits, scale)
             /\ \A i, j \in DOMAIN budgets : i # j => name(i) # name(j) /\ model(i) # model(j),
      routes |-> [i \in DOMAIN budgets |->
        [target |-> Target(model(i), budgets[i].target.provider),
         pattern |-> model(i) \in DOMAIN Patterns,
         limit |-> Min({ScaleDollars(budgets[i].limits[j].amount, scale) : j \in DOMAIN budgets[i].limits})]]]

\* modelBudgets and fallback, or the older primary, fallback and budgetLimits.
ParseRoutingTargets(raw, onExhausted) ==
  LET parsed == IF raw.modelBudgets # <<>> THEN ParseRoutes(raw.modelBudgets, raw.scale)
                ELSE ParseRoutes(<<[name |-> "primary", target |-> raw.primary, limits |-> raw.limits]>>, raw.scale)
  IN [routes |-> parsed.routes, fallback |-> raw.fallback,
      ok |-> /\ parsed.ok
             /\ ~IsPatternModel(raw.fallback.model)
             /\ raw.modelBudgets = <<>> => ~IsPatternModel(raw.primary.model) /\ ParseTarget(raw.fallback)
             /\ raw.modelBudgets # <<>> /\ raw.fallback = NoTarget => onExhausted = "reject"]

ParseCostConfig(raw) ==
  LET onExhausted == IF raw.onExhausted = "default" THEN "fallback"
                     ELSE IF raw.onExhausted = "" THEN "reject" ELSE raw.onExhausted
      targets == ParseRoutingTargets(raw, onExhausted)
  IN [ok |-> /\ onExhausted \in {"fallback", "reject"} /\ raw.removed = {}
             /\ raw.scale >= 1 /\ targets.ok
             /\ raw.backend # "memory" /\ ~raw.failOpen => raw.redisUp,
      routes |-> targets.routes, fallback |-> targets.fallback, onExhausted |-> onExhausted,
      scale |-> raw.scale, failOpen |-> raw.backend = "memory" \/ raw.failOpen, backend |-> raw.backend]

\* The budgets a request is checked against, in order.
SelectTarget(cfg, requested) ==
  LET exact(m) == {i \in DOMAIN cfg.routes : ~cfg.routes[i].pattern /\ cfg.routes[i].target.model = m}
      spec(i) == Patterns[cfg.routes[i].target.model].specificity
      matching == IF requested = "" \/ IsPatternModel(requested) THEN {}
                  ELSE {i \in DOMAIN cfg.routes : /\ cfg.routes[i].pattern
                                                  /\ requested \in Patterns[cfg.routes[i].target.model].matches}
      best == {i \in matching : \A j \in matching : spec(i) > spec(j) \/ (spec(i) = spec(j) /\ i <= j)}
      fallback == IF cfg.onExhausted = "reject" \/ cfg.fallback = NoTarget THEN {}
                  ELSE exact(cfg.fallback.model) \ exact(requested)
      checks(is, t(_)) == SetToSeq({[budget |-> i, target |-> t(i)] : i \in is})
  IN (IF exact(requested) # {} THEN checks(exact(requested), LAMBDA i : cfg.routes[i].target)
      ELSE checks(best, LAMBDA i : Target(requested, "")))
     \o checks(fallback, LAMBDA i : cfg.fallback)

---------------------------------------------------------------------------
\* time-based-model-routing

ScheduleStartAppliesOn(s, day) == s.days = {} \/ day \in s.days

\* The minutes of the week a schedule covers; the night of the last day goes
\* on at the start of the week.
UnwrappedRanges(s) ==
  {<<day * MinutesPerDay + s.from, day * MinutesPerDay + s.to>> :
     day \in {d \in 0 .. DaysPerWeek - 1 : ScheduleStartAppliesOn(s, d)}}

ExpandWeekRanges(s) ==
  LET week == DaysPerWeek * MinutesPerDay
      start(day) == day * MinutesPerDay + s.from
      end(day) == day * MinutesPerDay + s.to + IF s.from > s.to THEN MinutesPerDay ELSE 0
  IN UNION {IF end(day) <= week THEN {<<start(day), end(day)>>}
            ELSE {<<start(day), week>>, <<0, end(day) - week>>} :
              day \in {d \in 0 .. DaysPerWeek - 1 : ScheduleStartAppliesOn(s, d)}}

SchedulesOverlap(s, t) ==
  \E a \in ExpandWeekRanges(s), b \in ExpandWeekRanges(t) : a[1] < b[2] /\ b[1] < a[2]

ParseTimeConfig(raw) ==
  /\ raw.schedules # <<>>
  /\ \A i \in DOMAIN raw.schedules : /\ raw.schedules[i].from # raw.schedules[i].to
                                     /\ ParseTarget(raw.schedules[i].target)
  /\ \A i, j \in DOMAIN raw.schedules : i # j => ~SchedulesOverlap(raw.schedules[i], raw.schedules[j])

ScheduleMatches(s, minute) == \E a \in ExpandWeekRanges(s) : a[1] <= minute /\ minute < a[2]

\* NoTarget: the request is left alone.
SelectScheduled(cfg, minute) ==
  LET i == FirstIndex(cfg.schedules, LAMBDA s : ScheduleMatches(s, minute))
  IN IF i # 0 THEN cfg.schedules[i].target ELSE cfg.fallback

---------------------------------------------------------------------------
\* semantic-model-routing, intelligent-model-routing, typesafe-jev-model-routing

ParseSemanticRoute(route) == ParseTarget(route.target)

\* A threshold outside 0 .. 10 is replaced by the default.
RouteThreshold(route) == IF route.threshold \in 0 .. 10 THEN route.threshold ELSE 9

ParseSemantic(raw) ==
  /\ raw.routes # <<>> /\ raw.default.model # ""
  /\ \A i \in DOMAIN raw.routes : ParseSemanticRoute(raw.routes[i])

ParseRoutingRule(rule) == rule.name # "" /\ ParseTarget(rule.target)

ParseIntelligent(raw) ==
  /\ raw.routes # <<>> /\ raw.default.model # ""
  /\ \A i \in DOMAIN raw.routes : ParseRoutingRule(raw.routes[i])

ParseRoutingRules(rules) ==
  /\ Len(rules) \in 1 .. 255
  /\ \A i \in DOMAIN rules : ParseRoutingRule(rules[i])
  /\ \A i, j \in DOMAIN rules : i # j => rules[i].name # rules[j].name

ParseJev(raw) == raw.default.model # "" /\ raw.threshold \in 0 .. 10 /\ ParseRoutingRules(raw.routes)

\* What the content path gives: a string, the parts of a message, or neither.
ExtractRequestText(kind, content) ==
  IF content.type = "string" THEN content.text
  ELSE IF content.type = "parts" /\ kind = "jev" THEN content.text
  ELSE "error"

\* The route with the best score, the first of equals; it must reach its own
\* threshold.
FindBestRoute(cfg, scores) ==
  LET best == Max({scores[i] : i \in DOMAIN cfg.routes} \union {0})
      i == Min({j \in DOMAIN cfg.routes : scores[j] = best})
  IN IF best > 0 /\ best >= RouteThreshold(cfg.routes[i]) THEN cfg.routes[i].target ELSE cfg.default

\* The model answers with the name of a rule, in any case, or not.
ValidateAndSelectTarget(cfg, answer) ==
  LET i == FirstIndex(cfg.routes, LAMBDA r : r.name = answer)
  IN IF i = 0 THEN cfg.default ELSE cfg.routes[i].target

\* Jev answers with a rule and the probability of each.
JevSelectTarget(cfg, choice, probability) ==
  IF probability < cfg.threshold THEN cfg.default ELSE ValidateAndSelectTarget(cfg, choice)

\* One retry when Jev is busy and there is time left.
CallJev(reply) ==
  IF reply.status = "busy" THEN (IF reply.timeLeft THEN reply.retried ELSE "error") ELSE reply.status

---------------------------------------------------------------------------
\* llm-header-router

ParseMappings(raw) ==
  /\ raw.mappings # <<>>
  /\ \A i \in DOMAIN raw.mappings : raw.mappings[i].value # "" /\ raw.mappings[i].provider # ""
  /\ \A i, j \in DOMAIN raw.mappings : i # j => raw.mappings[i].value # raw.mappings[j].value

SelectProvider(cfg, value) ==
  LET i == FirstIndex(cfg.mappings, LAMBDA m : m.value = value)
  IN IF i # 0 THEN cfg.mappings[i].provider ELSE cfg.fallback

=============================================================================
