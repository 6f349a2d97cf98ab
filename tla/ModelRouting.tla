---------------------------- MODULE ModelRouting ----------------------------
(***************************************************************************)
(* The routing policies at work: model-round-robin and its weighted form,  *)
(* cost-based, time-based, semantic, intelligent and Jev model routing,    *)
(* and llm-header-router.  Requests run concurrently through one chain;    *)
(* they share the position of the rotation, the suspended models and the   *)
(* budgets.  A step is one call of a handler.                              *)
(***************************************************************************)
EXTENDS ModelTargets

CONSTANTS Chains,      \* raw parameters of the policies of a route
          Load,        \* how many requests run through a policy of a kind
          Messages,
          Replies,     \* what a classifier answers
          Statuses,    \* of the upstream
          Costs,       \* reported by llm-cost; -1: none
          StartTime, MaxTime

Requests == 1 .. Max({Load[k] : k \in DOMAIN Load})

VARIABLES chain, now,
          index,      \* currentIndex of a policy
          suspended,  \* suspendedModels of a policy: target -> until
          spent,      \* what a policy charged to each of its budgets
          req,
          lastFail    \* when each target last failed (history)

vars == <<chain, now, index, suspended, spent, req, lastFail>>

ParsePolicy(raw) ==
  LET rm == ParseRequestModel(raw.kind, raw.requestModel)
      cost == ParseCostConfig(raw)
  IN CASE raw.kind = "rotation" -> [kind |-> raw.kind, location |-> rm.location, ok |-> rm.ok /\ IF raw.weighted THEN ParseWeighted(raw) ELSE ParseRoundRobin(raw),
                                    models |-> IF raw.weighted THEN BuildWeightedSequence(raw.models) ELSE InOrder(raw.models),
                                    suspendDuration |-> raw.suspendDuration]
       [] raw.kind = "cost" -> [kind |-> raw.kind, location |-> rm.location, ok |-> rm.ok /\ cost.ok,
                                routes |-> cost.routes, fallback |-> cost.fallback, onExhausted |-> cost.onExhausted,
                                scale |-> cost.scale, failOpen |-> cost.failOpen, backend |-> cost.backend]
       [] raw.kind = "time" -> [kind |-> raw.kind, location |-> rm.location, ok |-> rm.ok /\ ParseTimeConfig(raw),
                                schedules |-> raw.schedules, fallback |-> raw.fallback]
       [] raw.kind = "header" -> [kind |-> raw.kind, ok |-> ParseMappings(raw), mappings |-> raw.mappings, fallback |-> raw.fallback]
       [] OTHER -> [kind |-> raw.kind, location |-> rm.location,
                    ok |-> rm.ok /\ (CASE raw.kind = "semantic" -> ParseSemantic(raw)
                                       [] raw.kind = "intelligent" -> ParseIntelligent(raw)
                                       [] OTHER -> ParseJev(raw)),
                    routes |-> raw.routes, default |-> raw.default, threshold |-> raw.threshold]

Targets(p) == IF p.kind = "rotation" THEN {p.models[i] : i \in DOMAIN p.models} ELSE {}

\* What the parsers return for a rotation they accept.
IsRotation(p) ==
  p.ok => p.models \in Seq(Targets(p)) /\ Len(p.models) > 0 /\ p.suspendDuration \in Nat

\* Schedules start and end at minutes of the day.
AreSchedules(schedules) ==
  /\ DOMAIN schedules = 1 .. Len(schedules) /\ Len(schedules) \in Nat
  /\ \A i \in DOMAIN schedules : {schedules[i].from, schedules[i].to} \subseteq 0 .. MinutesPerDay - 1

\* Rotations of a kind name the target they chose by the same metadata keys, so
\* that two of them in a chain would read each other's choice: a chain has one.
OneOfAKind(c) ==
  \A p, q \in DOMAIN c : (c[p].kind = "rotation" /\ c[q].kind = "rotation" /\ c[p].weighted = c[q].weighted) => p = q

ASSUME RoutingAssumption ==
  /\ StartTime \in Nat /\ MaxTime \in Nat /\ MinutesPerDay \in Nat \ {0} /\ DaysPerWeek \in Nat \ {0}
  /\ IsFiniteSet(Requests) /\ Costs \subseteq Int /\ MaxScaled \in Nat
  /\ \A m \in DOMAIN Patterns : Patterns[m].specificity \in Int
  /\ \A c \in Chains :
       /\ Len(c) \in Nat \ {0} /\ DOMAIN c = 1 .. Len(c) /\ OneOfAKind(c)
       /\ \A p \in DOMAIN c : /\ c[p].kind = "rotation" => IsRotation(ParsePolicy(c[p]))
                              /\ c[p].kind = "time" => AreSchedules(c[p].schedules)
                              /\ c[p].kind = "cost" => /\ DOMAIN c[p].modelBudgets = 1 .. Len(c[p].modelBudgets)
                                                       /\ Len(c[p].modelBudgets) \in Nat /\ c[p].scale \in Int

Budgets(p) == IF p.kind = "cost" THEN DOMAIN p.routes ELSE {}

\* selected: the targets the policies chose; budget: the budget to charge;
\* charged: the charge was claimed; billed: it was made (history).
Fresh == [phase |-> "idle", pos |-> 1, msg |-> <<>>, model |-> "", upstream |-> "", routing |-> "",
          selected |-> [p \in DOMAIN chain |-> NoTarget], at |-> 0, rested |-> TRUE,
          budget |-> [p \in DOMAIN chain |-> 0], charged |-> FALSE, billed |-> FALSE, cost |-> -1, answer |-> 0]

Init == /\ chain \in {[p \in DOMAIN c |-> ParsePolicy(c[p])] : c \in Chains}
        /\ \A p \in DOMAIN chain : chain[p].ok
        /\ now = StartTime
        /\ index = [p \in DOMAIN chain |-> 0]
        /\ suspended = [p \in DOMAIN chain |-> [t \in Targets(chain[p]) |-> 0]]
        /\ spent = [p \in DOMAIN chain |-> [b \in Budgets(chain[p]) |-> 0]]
        /\ lastFail = [p \in DOMAIN chain |-> [t \in Targets(chain[p]) |-> StartTime - chain[p].suspendDuration]]
        /\ req = [r \in Requests |-> Fresh]

Here(r) == chain[req[r].pos]

\* The next policy of the chain, else the next phase.
NextPos(q, after) ==
  IF q.pos < Len(chain) THEN [q EXCEPT !.pos = @ + 1] ELSE [q EXCEPT !.pos = 1, !.phase = after]

After(phase) == CASE phase = "headers" -> "body" [] phase = "body" -> "upstream" [] OTHER -> "done"

Pass(r) == req' = [req EXCEPT ![r] = NextPos(@, After(@.phase))]

Refuse(r, status) == req' = [req EXCEPT ![r].phase = "refused", ![r].answer = status]

\* The model of the target is written and, if it names a provider, that is the
\* upstream of the request.
Forward(r, t, written, budget) ==
  LET q == req[r]
      provider == IF t.provider # "" THEN t.provider ELSE q.upstream
      routing == IF t.provider # "" THEN t.provider ELSE IF Here(r).kind = "cost" THEN "" ELSE q.routing
  IN req' = [req EXCEPT ![r] = NextPos(
       [q EXCEPT !.model = IF written THEN t.model ELSE q.model, !.upstream = provider, !.routing = routing,
                 !.selected[q.pos] = t, !.budget[q.pos] = budget, !.at = now], After(q.phase))]

---------------------------------------------------------------------------
\* model-round-robin, model-weighted-round-robin

\* From the current position on, the first target that is not suspended; its
\* suspension, if any, has ended and is deleted.
SelectNextAvailable(r) ==
  LET p == req[r].pos
      models == Here(r).models
      at(k) == models[((index[p] + k) % Len(models)) + 1]
      free == {k \in 0 .. Len(models) - 1 : ~(now < suspended[p][at(k)])}
  IN IF free = {} THEN [found |-> FALSE, target |-> NoTarget, index |-> index[p] % Len(models)]
     ELSE [found |-> TRUE, target |-> at(Min(free)), index |-> (index[p] + Min(free) + 1) % Len(models)]

\* modifyQueryParamInPath, modifyPathParamInPath: a path that cannot be
\* rewritten is left as it is.
PathModified(r) == Here(r).location \in {"queryParam", "pathParam"} /\ req[r].msg.settable

RotationOnRequestHeaders(r) ==
  LET q == req[r]  p == q.pos
      pick == SelectNextAvailable(r)
      provider == pick.target.provider
      resting(t) == Here(r).suspendDuration > 0 /\ now - lastFail[p][t] < Here(r).suspendDuration
      location == Here(r).location
  IN /\ Here(r).kind = "rotation" /\ req[r].phase = "headers"
     /\ index' = [index EXCEPT ![p] = pick.index]
     /\ IF ~pick.found
        THEN /\ req' = [req EXCEPT ![r] =
                  [q EXCEPT !.phase = "refused", !.answer = 503, !.rested = \A t \in Targets(Here(r)) : resting(t)]]
             /\ UNCHANGED suspended
        ELSE /\ suspended' = [suspended EXCEPT ![p][pick.target] = 0]
             /\ req' = [req EXCEPT ![r] = NextPos(
                  [q EXCEPT !.model = IF location = "header" \/ PathModified(r) THEN pick.target.model ELSE q.model,
                            !.upstream = IF provider # "" THEN provider ELSE q.upstream,
                            !.routing = IF provider # "" THEN provider ELSE q.routing,
                            !.selected[p] = pick.target, !.at = now, !.rested = ~resting(pick.target)], "body")]
     /\ UNCHANGED <<chain, now, spent, lastFail>>

RotationOnRequestBody(r) ==
  /\ Here(r).kind = "rotation" /\ req[r].phase = "body"
  /\ IF Here(r).location # "payload" THEN Pass(r)
     ELSE IF req[r].msg.body # "object" \/ ~req[r].msg.settable THEN Refuse(r, 400)
     ELSE req' = [req EXCEPT ![r] = NextPos([@ EXCEPT !.model = req[r].selected[req[r].pos].model], "upstream")]
  /\ UNCHANGED <<chain, now, index, suspended, spent, lastFail>>

\* An overloaded or failing model rests from now on.
KeepSuspension(r) ==
  LET p == req[r].pos  t == req[r].selected[p]
  IN suspended' = [suspended EXCEPT ![p][t] = IF now < @ THEN @ ELSE now + Here(r).suspendDuration]

Suspend(r) ==
  suspended' = [suspended EXCEPT ![req[r].pos][req[r].selected[req[r].pos]] = now + Here(r).suspendDuration]

RotationOnResponseHeaders(r) ==
  LET p == req[r].pos  failing == req[r].answer >= 500 \/ req[r].answer = 429
  IN /\ Here(r).kind = "rotation" /\ req[r].phase = "response"
     /\ IF failing /\ Here(r).suspendDuration > 0 THEN Suspend(r) ELSE UNCHANGED suspended
     /\ lastFail' = IF failing THEN [lastFail EXCEPT ![p][req[r].selected[p]] = now] ELSE lastFail
     /\ Pass(r)
     /\ UNCHANGED <<chain, now, index, spent>>

---------------------------------------------------------------------------
\* cost-based-model-routing

\* What the addition and the subtraction of two counters leave in an int64.
Wrapped(x) == IF x > MaxScaled THEN x - 2 * (MaxScaled + 1) ELSE x

\* budgetStore.Query.  A limiter that is not local may fail.
Exhausted(p, b) == Wrapped(chain[p].routes[b].limit - spent[p][b]) <= 0

\* The first budget of the list that is not used up decides; errs: the queries
\* that fail.
FirstBudget(r, checks, errs) ==
  LET open == {i \in DOMAIN checks : i \in errs \/ ~Exhausted(req[r].pos, checks[i].budget)}
  IN IF open = {} THEN [status |-> 429, target |-> NoTarget, budget |-> 0]
     ELSE IF Min(open) \in errs /\ ~Here(r).failOpen THEN [status |-> 503, target |-> NoTarget, budget |-> 0]
     ELSE [status |-> 200, target |-> checks[Min(open)].target, budget |-> checks[Min(open)].budget]

ChargeRequested(r, checks, errs) ==
  LET c == FirstBudget(r, checks, errs) IN IF c.status = 200 THEN [c EXCEPT !.budget = checks[1].budget] ELSE c

CheckBudget(r, checks, errs) == FirstBudget(r, checks, errs)

\* OnRequestHeaders or, when the model is in the payload, OnRequestBody.
CostOnRequest(r, errs) ==
  LET payload == Here(r).location = "payload"
      pick == CheckBudget(r, SelectTarget(Here(r), req[r].msg.model), errs)
  IN /\ Here(r).kind = "cost" /\ req[r].phase \in {"headers", "body"}
     /\ errs # {} => Here(r).backend # "memory"
     /\ IF payload # (req[r].phase = "body") THEN Pass(r)
        ELSE IF payload /\ req[r].msg.body # "object" THEN Refuse(r, 400)
        ELSE IF pick.status # 200 THEN Refuse(r, pick.status)
        ELSE IF Here(r).location # "header" /\ ~req[r].msg.settable THEN Refuse(r, 400)
        ELSE Forward(r, pick.target, TRUE, pick.budget)
     /\ UNCHANGED <<chain, now, index, suspended, spent, lastFail>>

\* chargeOnce, at the end of the response, in whichever form it arrives.  A
\* limiter that fails loses the charge, and Redis refuses a sum above the
\* largest counter; the counter in memory goes on below zero.
ChargeOnce(r, err) ==
  LET p == req[r].pos  b == req[r].budget[p]
      claim == ~req[r].charged /\ b # 0
      scaled == ScaleCost(req[r].cost, Here(r).scale)
      lost == err \/ (Here(r).backend # "memory" /\ spent[p][b] + scaled > MaxScaled)
      q == IF claim THEN [req[r] EXCEPT !.charged = TRUE, !.billed = ~lost] ELSE req[r]
  IN /\ Here(r).kind = "cost" /\ req[r].phase = "response"
     /\ err => Here(r).backend # "memory"
     /\ IF claim /\ req[r].cost > 0 /\ scaled > 0 /\ ~lost
        THEN spent' = [spent EXCEPT ![p][b] = Wrapped(@ + scaled)] ELSE UNCHANGED spent
     /\ req' = [req EXCEPT ![r] = NextPos(q, "done")]
     /\ UNCHANGED <<chain, now, index, suspended, lastFail>>

---------------------------------------------------------------------------
\* The policies that decide on the body alone.

\* A body whose model cannot be set passes unchanged.
ModifyRequestModel(r, t) ==
  IF req[r].msg.body # "object" \/ ~req[r].msg.settable THEN Pass(r) ELSE Forward(r, t, TRUE, 0)

Text(r) == ExtractRequestText(Here(r).kind, req[r].msg.content)

SemanticOnRequestBody(r, reply) ==
  /\ Here(r).kind = "semantic" /\ req[r].phase = "body"
  /\ ModifyRequestModel(r, IF Text(r) \in {"error", "blank"} \/ reply.status # "ok" THEN Here(r).default
                           ELSE FindBestRoute(Here(r), reply.scores))
  /\ UNCHANGED <<chain, now, index, suspended, spent, lastFail>>

IntelligentOnRequestBody(r, reply) ==
  /\ Here(r).kind = "intelligent" /\ req[r].phase = "body"
  /\ ModifyRequestModel(r, IF Text(r) \in {"error", "blank"} \/ reply.status # "ok" THEN Here(r).default
                           ELSE ValidateAndSelectTarget(Here(r), reply.choice))
  /\ UNCHANGED <<chain, now, index, suspended, spent, lastFail>>

JevOnRequestBody(r, reply) ==
  /\ Here(r).kind = "jev" /\ req[r].phase = "body"
  /\ ModifyRequestModel(r, IF Text(r) \in {"error", "blank"} \/ CallJev(reply) # "ok" THEN Here(r).default
                           ELSE JevSelectTarget(Here(r), reply.choice, reply.probability))
  /\ UNCHANGED <<chain, now, index, suspended, spent, lastFail>>

TimeOnRequestBody(r) ==
  LET t == SelectScheduled(Here(r), now % (DaysPerWeek * MinutesPerDay))
      location == Here(r).location
  IN /\ Here(r).kind = "time" /\ req[r].phase = "body"
     /\ IF t = NoTarget THEN req' = [req EXCEPT ![r] = NextPos([@ EXCEPT !.at = now], "upstream")]
        ELSE IF location = "payload" /\ req[r].msg.body # "object" THEN Refuse(r, 400)
        ELSE IF location # "header" /\ ~req[r].msg.settable THEN Refuse(r, 400)
        ELSE Forward(r, t, TRUE, 0)
     /\ UNCHANGED <<chain, now, index, suspended, spent, lastFail>>

\* llm-header-router: publishSelection.  A provider chosen before it stays.
HeaderOnRequest(r) ==
  LET q == req[r]
      provider == SelectProvider(Here(r), q.msg.header)
  IN /\ Here(r).kind = "header" /\ req[r].phase \in {"headers", "body"}
     /\ IF req[r].routing # "" THEN Pass(r)
        ELSE req' = [req EXCEPT ![r] = NextPos(
               [q EXCEPT !.routing = provider,
                         !.upstream = IF provider # "" /\ q.phase = "headers" THEN provider ELSE q.upstream], After(q.phase))]
     /\ UNCHANGED <<chain, now, index, suspended, spent, lastFail>>

---------------------------------------------------------------------------
\* The engine, the upstream, the clock.

\* Requests are numbered as they arrive.
Arrive(r, m) ==
  /\ req[r].phase = "idle" /\ \A q \in 1 .. r - 1 : req[q].phase # "idle"
  /\ \A p \in DOMAIN chain : r <= Load[chain[p].kind]
  /\ req' = [req EXCEPT ![r].phase = "headers", ![r].msg = m, ![r].model = m.model]
  /\ UNCHANGED <<chain, now, index, suspended, spent, lastFail>>

\* A cost is reported where cost routing is attached, after llm-cost.
Upstream(r, status, cost) ==
  /\ req[r].phase = "upstream"
  /\ (\A p \in DOMAIN chain : chain[p].kind # "cost") => cost < 0
  /\ req' = [req EXCEPT ![r].phase = "response", ![r].answer = status, ![r].cost = cost]
  /\ UNCHANGED <<chain, now, index, suspended, spent, lastFail>>

\* Policies without a handler for the phase.
NoHandler(r) ==
  /\ \/ req[r].phase = "headers" /\ Here(r).kind \in Classifiers \union {"time"}
     \/ req[r].phase = "response" /\ Here(r).kind \notin {"rotation", "cost"}
  /\ Pass(r)
  /\ UNCHANGED <<chain, now, index, suspended, spent, lastFail>>

Timed == \E p \in DOMAIN chain : chain[p].kind \in {"rotation", "time"}

Tick == /\ Timed /\ now < MaxTime
        /\ now' = now + 1
        /\ UNCHANGED <<chain, index, suspended, spent, req, lastFail>>

Next == \/ Tick
        \/ \E r \in Requests :
             \/ \E m \in Messages : Arrive(r, m)
             \/ RotationOnRequestHeaders(r) \/ RotationOnRequestBody(r) \/ RotationOnResponseHeaders(r)
             \/ \E errs \in SUBSET (1 .. 2) : CostOnRequest(r, errs)
             \/ \E err \in BOOLEAN : ChargeOnce(r, err)
             \/ \E reply \in Replies : SemanticOnRequestBody(r, reply) \/ IntelligentOnRequestBody(r, reply) \/ JevOnRequestBody(r, reply)
             \/ TimeOnRequestBody(r) \/ HeaderOnRequest(r)
             \/ \E s \in Statuses, c \in Costs : Upstream(r, s, c)
             \/ NoHandler(r)

Spec == Init /\ [][Next]_vars

---------------------------------------------------------------------------
\* A model that failed rests for the suspend duration, counted from its last
\* failure, and a request is turned away only when all models rest: whatever
\* the order in which the responses of concurrent requests come back.
RotationRests == \A r \in Requests : req[r].rested

\* The budget that stands for a model: its own, else that of the pattern
\* nearest to it, the first listed of equally near ones.
BudgetOf(p, m) ==
  LET exact == {b \in Budgets(chain[p]) : chain[p].routes[b].target.model = m /\ ~chain[p].routes[b].pattern}
      matching == {b \in Budgets(chain[p]) : chain[p].routes[b].pattern /\ m \in Patterns[chain[p].routes[b].target.model].matches}
      spec(b) == Patterns[chain[p].routes[b].target.model].specificity
  IN IF exact # {} THEN exact
     ELSE {b \in matching : \A c \in matching : spec(b) > spec(c) \/ (spec(b) = spec(c) /\ b <= c)}

\* What the answer to a request costs a budget.
CostTo(p, b, q) ==
  IF q.billed /\ q.cost > 0 /\ b \in BudgetOf(p, q.model) THEN ScaleCost(q.cost, chain[p].scale) ELSE 0

\* Every budget holds the cost of the answers of the models it stands for, as
\* the upstream saw them, each answer once: the fallback pays for itself, a
\* model without a budget of its own is charged to the pattern nearest to it.
\* Not claimed for a budget in memory that costs have taken past the largest
\* counter: it starts again below zero.
BudgetOfModelUsed ==
  \A p \in DOMAIN chain : \A b \in Budgets(chain[p]) :
    LET used == SumFunction([r \in Requests |-> CostTo(p, b, req[r])])
    IN (chain[p].backend # "memory" \/ used <= MaxScaled) => spent[p][b] = used

\* The schedule that is due in a minute of the week: it started at most one
\* turn ago and has not ended.
Due(s, minute) ==
  \E d \in 0 .. DaysPerWeek - 1 :
    /\ s.days = {} \/ d \in s.days
    /\ ((minute - d * MinutesPerDay - s.from) % (DaysPerWeek * MinutesPerDay)) < ((s.to - s.from) % MinutesPerDay)

\* A request that reaches the upstream carries the model of the target that
\* was chosen for it and goes to the provider of that target; a schedule is
\* chosen exactly while it is due, around midnight and the end of the week too.
\* Not claimed for a rotation whose model is in the path: it forwards a path
\* it cannot rewrite, to the provider it chose.
TargetWhole ==
  \A r \in Requests, p \in DOMAIN chain :
    req[r].phase \in {"upstream", "response", "done"} =>
      LET t == req[r].selected[p]
          c == chain[p]
      IN /\ (t # NoTarget /\ ~(c.kind = "rotation" /\ c.location \in {"queryParam", "pathParam"} /\ ~req[r].msg.settable))
              => (req[r].model = t.model /\ (t.provider # "" => req[r].upstream = t.provider))
         /\ c.kind = "time" =>
              LET due == {i \in DOMAIN c.schedules : Due(c.schedules[i], req[r].at % (DaysPerWeek * MinutesPerDay))}
              IN IF due = {} THEN t = c.fallback ELSE due = {i \in due : c.schedules[i].target = t}

=============================================================================
