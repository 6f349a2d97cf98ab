-------------------------- MODULE RateLimitPhases --------------------------
(***************************************************************************)
(* What an advanced-ratelimit policy charges for a request:                *)
(* OnRequestHeaders, OnRequestBody, OnResponseHeaders, OnResponseBody and  *)
(* OnResponseBodyChunk of ratelimit.go, with the keys and costs they       *)
(* extract (cost_extractor.go), for this policy and its front ends.  The   *)
(* phases of one request hand their results on in the metadata of the      *)
(* request, which all policies of the chain share.  Requests run           *)
(* concurrently against the same limiters; a step is one quota of one      *)
(* call.  One window: what is charged is not given back.                   *)
(***************************************************************************)
EXTENDS RateLimitFrontends, FiniteSetsExt

CONSTANTS Chains,     \* raw parameters of the policies of a route, in chain order
          Requests,   \* concurrent requests
          Messages,   \* requests as they arrive: attributes and cost values
          Responses,  \* what the upstream answers
          Missing     \* a value that is not there

VARIABLES chain,   \* the policies
          msg,     \* what each request carries
          res,     \* its response
          st,      \* where it is, and the locals of the running call
          meta,    \* its metadata, by instance ID
          charged, \* what it was charged: <<policy, quota, key>> -> cost
          failed,  \* the quotas whose limiter failed it
          told     \* the x-ratelimit-remaining it got

vars == <<chain, msg, res, st, meta, charged, failed, told>>

---------------------------------------------------------------------------
\* Parameters

ParseLimits(ls) == \A i \in DOMAIN ls : ls[i].limit # Missing /\ ls[i].duration

\* match is {} when there is no condition, else the values the regex accepts.
ParseKeyExtraction(ks) ==
  \A i \in DOMAIN ks : /\ ks[i].type # ""
                       /\ ks[i].type = "cel" => ks[i].key # ""
                       /\ ks[i].regexOk

\* A list without a usable source disables the extraction.
ParseCostExtractionConfig(c) ==
  LET usable == SelectSeq(c.sources, LAMBDA s : s.type # "")
  IN [ok |-> c.enabled => \A i \in DOMAIN usable : /\ usable[i].type \in {"request_cel", "response_cel"} => usable[i].expression
                                                   /\ usable[i].multiplier >= 0,
      enabled |-> c.enabled /\ usable # <<>>,
      default |-> IF c.default = Missing THEN 1 ELSE Max({0, c.default}),
      sources |-> usable]

ParseQuotas(qs) ==
  /\ qs # <<>>
  /\ \A i \in DOMAIN qs : /\ qs[i].limits # <<>> /\ ParseLimits(qs[i].limits)
                          /\ ParseKeyExtraction(qs[i].keyExtraction)
                          /\ ParseCostExtractionConfig(qs[i].cost).ok

\* quotaNameFor.
QuotaNameFor(q, i) == IF q.name # "" THEN q.name ELSE <<"quota-0", "quota-1", "quota-2">>[i]

\* The keys of a quota, else those of the policy, else the route.
EffectiveKeys(raw, q) ==
  IF q.keyExtraction # <<>> THEN q.keyExtraction
  ELSE IF raw.keyExtraction # <<>> THEN raw.keyExtraction
  ELSE <<[type |-> "routename", key |-> "", fallback |-> "", match |-> {}, regexOk |-> TRUE]>>

\* The instance ID hashes the names of the quotas and the types and keys of
\* their components.
InstanceID(raw) ==
  [i \in DOMAIN raw.quotas |->
    <<raw.quotas[i].name,
      [j \in DOMAIN EffectiveKeys(raw, raw.quotas[i]) |->
        <<EffectiveKeys(raw, raw.quotas[i])[j].type, EffectiveKeys(raw, raw.quotas[i])[j].key>>]>>]

\* Redis that does not answer when the policy is built fails it in mode "closed".
RatelimitGetPolicy(raw) ==
  [ok |-> /\ ParseKeyExtraction(raw.keyExtraction) /\ ParseQuotas(raw.quotas)
          /\ raw.backend \in {"redis", "redis-local-async"} => (raw.failOpen \/ raw.redisUp),
   id |-> InstanceID(raw), backend |-> raw.backend, failOpen |-> raw.failOpen,
   quotas |-> [i \in DOMAIN raw.quotas |->
     LET q == raw.quotas[i]
     IN [name |-> QuotaNameFor(q, i), keys |-> EffectiveKeys(raw, q),
         limit |-> Min({q.limits[j].limit : j \in DOMAIN q.limits}),
         cost |-> ParseCostExtractionConfig(q.cost)]]]

---------------------------------------------------------------------------
\* Cost sources

RequestPhase == {"request_header", "request_metadata", "request_body", "request_cel"}
ResponsePhase == {"response_header", "response_metadata", "response_body", "response_cel"}

Types(q) == {q.cost.sources[i].type : i \in DOMAIN q.cost.sources}

HasRequestPhaseSources(q) == q.cost.enabled /\ Types(q) \cap RequestPhase # {}

HasResponsePhaseSources(q) == q.cost.enabled /\ Types(q) \cap ResponsePhase # {}

RequiresResponseBody(q) == q.cost.enabled /\ Types(q) \cap {"response_body", "response_cel"} # {}

HasRequestBodyPhase(q) ==
  q.cost.enabled /\ Types(q) \cap {"request_body", "request_cel", "request_metadata"} # {}

HasRequestHeaderOnlyCostSources(q) ==
  q.cost.enabled /\ ~HasRequestBodyPhase(q) /\ Types(q) \cap RequestPhase = {"request_header"}

HasResponseHeaderOnlyCostSources(q) ==
  q.cost.enabled /\ ~RequiresResponseBody(q) /\ Types(q) \cap ResponsePhase = {"response_header"}

HasCELKey(q) == \E i \in DOMAIN q.keys : q.keys[i].type = "cel"

RequiresRequestBody(p) == \E i \in DOMAIN p.quotas : HasRequestBodyPhase(p.quotas[i]) \/ HasCELKey(p.quotas[i])

HasStreamingResponseSourceForQuota(q) == ~HasResponseHeaderOnlyCostSources(q) /\ HasResponsePhaseSources(q)

RequiresAnyResponseBodyMode(p) ==
  \E i \in DOMAIN p.quotas : HasStreamingResponseSourceForQuota(p.quotas[i])

\* The sum over the sources of a phase that give a number, else the default.
ExtractCost(q, types, value(_)) ==
  LET found == {i \in DOMAIN q.cost.sources : /\ q.cost.sources[i].type \in types
                                              /\ value(q.cost.sources[i]) # Missing}
  IN IF found = {} THEN q.cost.default
     ELSE Max({0, MapThenSumSet(LAMBDA i : q.cost.sources[i].multiplier * value(q.cost.sources[i]), found)})

ExtractRequestHeaderOnlyCost(q, m) == ExtractCost(q, {"request_header"}, LAMBDA s : m.cost[s.type])

ExtractRequestCost(q, m) == ExtractCost(q, RequestPhase, LAMBDA s : m.cost[s.type])

\* The last event with a number counts.
ExtractFromSSEBodyBytes(b, at) ==
  LET hits == {i \in DOMAIN b : at \in DOMAIN b[i]}
  IN IF hits = {} THEN Missing ELSE b[Max(hits)][at]

\* A JSON document, in pieces, has a value only when it is whole and alone;
\* anything else is read as events.
ExtractFromBodyBytes(b, rs, at) ==
  IF rs.form = "json" /\ b # rs.body THEN Missing ELSE ExtractFromSSEBodyBytes(b, at)

ExtractResponseCost(q, rs, b) ==
  ExtractCost(q, ResponsePhase,
    LAMBDA s : IF s.type # "response_body" THEN rs.cost[s.type]
               ELSE IF b = <<>> THEN Missing ELSE ExtractFromBodyBytes(b, rs, s.at))

---------------------------------------------------------------------------
\* Keys

ExtractIPAddress(m) == IF m.attr.xff # "" THEN m.attr.xff ELSE IF m.attr.realip # "" THEN m.attr.realip ELSE "unknown"

\* A value that is missing is replaced by the fallback (not for headers) or by
\* a placeholder that names the component.
ExtractKeyComponent(p, m, c) ==
  CASE c.type = "constant" -> <<c.key>>
    [] c.type = "ip" -> <<ExtractIPAddress(m)>>
    [] c.type \in {"header", "metadata", "authproperty"} ->
         IF m.attr[c.type] # "" THEN <<m.attr[c.type]>>
         ELSE IF c.type # "header" /\ c.fallback # "" THEN <<c.fallback>>
         ELSE <<"_missing_", c.type, c.key>>
    [] c.type = "cel" -> IF m.attr.cel # "" THEN <<m.attr.cel>> ELSE <<"_cel_eval_error_">>
    [] OTHER -> <<c.type>>

ExtractQuotaKey(p, m, q) == [i \in DOMAIN q.keys |-> ExtractKeyComponent(p, m, q.keys[i])]

QuotaApplies(p, m, q) ==
  \A i \in DOMAIN q.keys : q.keys[i].match # {} => ExtractKeyComponent(p, m, q.keys[i]) \in q.keys[i].match

\* The same in the header phase, which never sees a quota with a CEL key.
ExtractQuotaKeyFromHeaderCtx(p, m, q) == ExtractQuotaKey(p, m, q)

QuotaAppliesFromHeaderCtx(p, m, q) == QuotaApplies(p, m, q)

---------------------------------------------------------------------------
\* The limiters, as their interface promises: a fixed amount per key.

Charge(r, k) == IF k \in DOMAIN charged[r] THEN charged[r][k] ELSE 0

Used(k) == MapThenSumSet(LAMBDA r : Charge(r, k), Requests)

Nil == -1   \* a quota that passed without a result

Here(r) == chain[st[r].inst]

Quota(r) == Here(r).quotas[st[r].q]

Running(r, phase) == st[r].phase = phase /\ st[r].q <= Len(Here(r).quotas)

LimiterKey(r, key) == <<st[r].inst, st[r].q, key>>

GetAvailable(r, key) == Max({0, Quota(r).limit - Used(LimiterKey(r, key))})

\* Record n under the key of this quota.
Consume(r, key, n) ==
  charged' = [charged EXCEPT ![r] =
    [k \in DOMAIN @ \union {LimiterKey(r, key)} |-> Charge(r, k) + IF k = LimiterKey(r, key) THEN n ELSE 0]]

---------------------------------------------------------------------------
\* Steps of a call.  The locals: results, the keys for the response phase and
\* the quotas handled in the header phase.

Set(f, x, v) == [y \in DOMAIN f \union {x} |-> IF y = x THEN v ELSE f[y]]

\* On to the next quota, with these keys, results and handled quotas.
NextQuota(r, keys, results, handled) ==
  st' = [st EXCEPT ![r].q = @ + 1, ![r].keys = keys, ![r].results = results, ![r].handled = handled]

Deny(r) == st' = [st EXCEPT ![r].phase = "denied"]

\* A limiter error: redisBacked and fail-open goes on without a result.
LimiterFails(r, keys) ==
  /\ failed' = [failed EXCEPT ![r] = @ \union {<<st[r].inst, st[r].q>>}]
  /\ IF Here(r).backend # "memory" /\ Here(r).failOpen
     THEN NextQuota(r, keys, st[r].results, st[r].handled) ELSE Deny(r)
  /\ UNCHANGED charged

\* AllowN: charged if it fits, refused and not charged otherwise.
AllowN(r, key, keys, n, err, handled) ==
  LET left == GetAvailable(r, key) IN
  IF err THEN LimiterFails(r, keys)
  ELSE IF n > left THEN Deny(r) /\ UNCHANGED <<charged, failed>>
  ELSE /\ Consume(r, key, n)
       /\ NextQuota(r, keys, Set(st[r].results, Quota(r).name, left - n), handled)
       /\ UNCHANGED failed

\* A cost of zero is not charged and not refused.
Lookup(r, key, keys, err, handled) ==
  IF err THEN LimiterFails(r, keys)
  ELSE /\ NextQuota(r, keys, Set(st[r].results, Quota(r).name, GetAvailable(r, key)), handled)
       /\ UNCHANGED <<charged, failed>>

\* The cost comes later: only an exhausted quota refuses now.
PreCheck(r, key, keys, err) ==
  IF err THEN LimiterFails(r, keys)
  ELSE /\ IF GetAvailable(r, key) <= 0 THEN Deny(r)
          ELSE NextQuota(r, keys, Set(st[r].results, Quota(r).name, Nil), st[r].handled)
       /\ UNCHANGED <<charged, failed>>

\* A quota the call leaves alone, with its stored result if there is one.
Carry(r, keys, stored) ==
  /\ NextQuota(r, keys, IF Quota(r).name \in DOMAIN stored
                         THEN Set(st[r].results, Quota(r).name, stored[Quota(r).name]) ELSE st[r].results,
                st[r].handled)
  /\ UNCHANGED <<charged, failed>>

Stored(r) == meta[r][Here(r).id]

OnRequestHeaders(r, err) ==
  LET q == Quota(r)
      key == ExtractQuotaKeyFromHeaderCtx(Here(r), msg[r], q)
      keys == Set(st[r].keys, q.name, key)
      cost == ExtractRequestHeaderOnlyCost(q, msg[r])
      handled == st[r].handled \union {q.name}
  IN /\ Running(r, "request_headers")
     /\ IF HasCELKey(q) \/ ~QuotaAppliesFromHeaderCtx(Here(r), msg[r], q) THEN Carry(r, st[r].keys, <<>>)
        ELSE IF ~q.cost.enabled THEN AllowN(r, key, keys, 1, err, handled)
        ELSE IF ~HasRequestHeaderOnlyCostSources(q) THEN PreCheck(r, key, keys, err)
        ELSE IF cost = 0 THEN Lookup(r, key, keys, err, handled)
        ELSE AllowN(r, key, keys, cost, err, handled)
     /\ UNCHANGED <<chain, msg, res, meta, told>>

\* Every quota again, handled or not.
ChargeAgain(r, err) ==
  LET q == Quota(r)
      key == ExtractQuotaKey(Here(r), msg[r], q)
      keys == Set(st[r].keys, q.name, key)
      cost == ExtractRequestCost(q, msg[r])
  IN /\ Running(r, "request_body") /\ RequiresRequestBody(Here(r))
     /\ IF ~QuotaApplies(Here(r), msg[r], q) THEN Carry(r, st[r].keys, <<>>)
        ELSE IF ~q.cost.enabled THEN AllowN(r, key, keys, 1, err, st[r].handled)
        ELSE IF HasRequestPhaseSources(q) THEN AllowN(r, key, keys, cost, err, st[r].handled)
        ELSE PreCheck(r, key, keys, err)
     /\ UNCHANGED <<chain, msg, res, meta, told>>

\* Header-only quotas count as handled; a plain quota is charged here when the
\* header phase did not.
OnRequestBody(r, err) ==
  LET q == Quota(r)
      key == ExtractQuotaKey(Here(r), msg[r], q)
      keys == Set(st[r].keys, q.name, key)
      cost == ExtractRequestCost(q, msg[r])
  IN /\ Running(r, "request_body") /\ RequiresRequestBody(Here(r))
     /\ IF ~QuotaApplies(Here(r), msg[r], q) THEN Carry(r, st[r].keys, <<>>)
        ELSE IF HasRequestHeaderOnlyCostSources(q) \/ (~q.cost.enabled /\ q.name \in Stored(r).handled)
             THEN Carry(r, keys, Stored(r).results)
        ELSE IF ~q.cost.enabled THEN AllowN(r, key, keys, 1, err, st[r].handled)
        ELSE IF ~HasRequestPhaseSources(q) THEN PreCheck(r, key, keys, err)
        ELSE IF cost = 0 THEN Lookup(r, key, keys, err, st[r].handled)
        ELSE AllowN(r, key, keys, cost, err, st[r].handled)
     /\ UNCHANGED <<chain, msg, res, meta, told>>

---------------------------------------------------------------------------
\* Response phases

\* ConsumeN: the whole cost, also past the limit.  An error only loses the charge.
ConsumeN(r, key, cost, err) ==
  IF err
  THEN /\ failed' = [failed EXCEPT ![r] = @ \union {<<st[r].inst, st[r].q>>}]
       /\ NextQuota(r, st[r].keys, st[r].results, st[r].handled)
       /\ UNCHANGED charged
  ELSE /\ Consume(r, key, cost)
       /\ NextQuota(r, st[r].keys,
                    Set(st[r].results, Quota(r).name, Max({0, GetAvailable(r, key) - cost})), st[r].handled)
       /\ UNCHANGED failed

StoredResult(r) == LET n == Quota(r).name
                   IN IF n \in DOMAIN Stored(r).results THEN Stored(r).results[n] ELSE Nil

\* The stored result, if it is one; else what is available now, if asked for.
Report(r, lookup, err) ==
  /\ NextQuota(r, st[r].keys,
               IF StoredResult(r) # Nil THEN Set(st[r].results, Quota(r).name, StoredResult(r))
               ELSE IF lookup /\ ~err /\ Quota(r).name \in DOMAIN Stored(r).keys
               THEN Set(st[r].results, Quota(r).name, GetAvailable(r, Stored(r).keys[Quota(r).name]))
               ELSE st[r].results, st[r].handled)
  /\ UNCHANGED <<charged, failed>>

\* The cost of the response under the key the request phase stored; without a
\* stored key the quota did not apply.
ChargeResponse(r, body, err, report) ==
  LET cost == ExtractResponseCost(Quota(r), res[r], body)
  IN IF Quota(r).name \notin DOMAIN Stored(r).keys THEN Carry(r, st[r].keys, <<>>)
     ELSE IF cost = 0 THEN Report(r, report, err)
     ELSE ConsumeN(r, Stored(r).keys[Quota(r).name], cost, err)

OnResponseHeaders(r, err) ==
  /\ Running(r, "response_headers")
  /\ IF HasResponseHeaderOnlyCostSources(Quota(r)) THEN ChargeResponse(r, <<>>, err, TRUE)
     ELSE Report(r, res[r].streaming, err)
  /\ UNCHANGED <<chain, msg, res, meta, told>>

OnResponseBody(r, err) ==
  /\ Running(r, "response_body") /\ RequiresAnyResponseBodyMode(Here(r))
  /\ IF HasResponseHeaderOnlyCostSources(Quota(r)) THEN Carry(r, st[r].keys, Stored(r).results)
     ELSE IF HasResponsePhaseSources(Quota(r)) THEN ChargeResponse(r, res[r].body, err, TRUE)
     ELSE Report(r, FALSE, err)
  /\ UNCHANGED <<chain, msg, res, meta, told>>

\* The end of a stream: what was gathered is read as one body.
FinalizeAndConsumeStreamingCosts(r, err) ==
  LET n == Quota(r).name
      body == IF n \in DOMAIN Stored(r).stream THEN Stored(r).stream[n] ELSE <<>>
  IN /\ Running(r, "end_of_stream")
     /\ IF HasStreamingResponseSourceForQuota(Quota(r)) THEN ChargeResponse(r, body, err, FALSE)
        ELSE Carry(r, st[r].keys, <<>>)
     /\ UNCHANGED <<chain, msg, res, meta, told>>

\* A chunk reaches policy inst: every quota that reads bodies gathers it.
OnResponseBodyChunk(r) ==
  LET p == Here(r)
      names == {p.quotas[i].name : i \in {j \in DOMAIN p.quotas : RequiresResponseBody(p.quotas[j])}}
      have == Stored(r).stream
      sofar(n) == IF n \in DOMAIN have THEN have[n] ELSE <<>>
      last == st[r].chunk = Len(res[r].body)
  IN /\ st[r].phase = "chunk"
     /\ meta' = [meta EXCEPT ![r][p.id].stream =
          [n \in names \union DOMAIN have |-> IF n \in names THEN Append(sofar(n), res[r].body[st[r].chunk]) ELSE sofar(n)]]
     /\ st' = [st EXCEPT ![r] =
          IF last THEN [@ EXCEPT !.phase = "end_of_stream", !.q = 1]
          ELSE IF @.inst < Len(chain) THEN [@ EXCEPT !.inst = @ + 1]
          ELSE [@ EXCEPT !.inst = 1, !.chunk = @ + 1]]
     /\ UNCHANGED <<chain, msg, res, charged, failed, told>>

---------------------------------------------------------------------------
\* The end of a call, and the order of the calls.

\* x-ratelimit-remaining: the smallest of the results.
BuildMultiQuotaHeaders(results) ==
  LET known == {results[n] : n \in DOMAIN results} \ {Nil}
  IN IF known = {} THEN Nil ELSE Min(known)

After(phase, r) ==
  CASE phase = "request_headers" -> "request_body"
    [] phase = "request_body" -> "upstream"
    [] phase = "response_headers" -> IF res[r].streaming THEN "chunk" ELSE "response_body"
    [] OTHER -> "done"

Fresh(phase, inst) == [phase |-> phase, inst |-> inst, q |-> 1, chunk |-> 1, keys |-> <<>>, results |-> <<>>, handled |-> {}]

\* The next policy of the chain, else the next phase.
NextCall(r, phase) ==
  st' = [st EXCEPT ![r] =
    IF @.inst < Len(chain)
    THEN [Fresh(IF phase = "end_of_stream" THEN "chunk" ELSE phase, @.inst + 1) EXCEPT !.chunk = st[r].chunk]
    ELSE Fresh(After(phase, r), 1)]

Finished(r, phase) == st[r].phase = phase /\ st[r].q > Len(Here(r).quotas)

\* metaKey: the entries of this instance ID.
StoreResults(r) ==
  /\ NextCall(r, st[r].phase)
  /\ meta' = [meta EXCEPT ![r][Here(r).id] =
       [@ EXCEPT !.results = st[r].results,
                 !.keys = IF st[r].phase = "response_headers" THEN @ ELSE st[r].keys,
                 !.handled = IF st[r].phase = "request_headers" THEN st[r].handled ELSE @]]

RequestCallReturns(r) ==
  /\ Finished(r, "request_headers") \/ Finished(r, "request_body")
  /\ StoreResults(r)
  /\ UNCHANGED <<chain, msg, res, charged, failed, told>>

\* Headers are set here unless a body phase is still to come.
ResponseHeadersReturn(r) ==
  /\ Finished(r, "response_headers")
  /\ StoreResults(r)
  /\ told' = [told EXCEPT ![r] = IF RequiresAnyResponseBodyMode(Here(r)) /\ ~res[r].streaming
                                 THEN @ ELSE BuildMultiQuotaHeaders(st[r].results)]
  /\ UNCHANGED <<chain, msg, res, charged, failed>>

ResponseBodyReturns(r) ==
  /\ Finished(r, "response_body") \/ Finished(r, "end_of_stream")
  /\ NextCall(r, st[r].phase)
  /\ told' = [told EXCEPT ![r] = IF st[r].phase = "response_body" THEN BuildMultiQuotaHeaders(st[r].results) ELSE @]
  /\ UNCHANGED <<chain, msg, res, meta, charged, failed>>

\* A body phase the policy did not ask for.
SkipBody(r) ==
  /\ \/ st[r].phase = "request_body" /\ ~RequiresRequestBody(Here(r))
     \/ st[r].phase = "response_body" /\ ~RequiresAnyResponseBodyMode(Here(r))
  /\ NextCall(r, st[r].phase)
  /\ UNCHANGED <<chain, msg, res, meta, charged, failed, told>>

Upstream(r, a) ==
  /\ st[r].phase = "upstream"
  /\ res' = [res EXCEPT ![r] = a]
  /\ st' = [st EXCEPT ![r] = Fresh("response_headers", 1)]
  /\ UNCHANGED <<chain, msg, meta, charged, failed, told>>

Init ==
  /\ \E raws \in Chains : /\ chain = [i \in DOMAIN raws |-> RatelimitGetPolicy(Transform(raws[i]))]
                          /\ \A i \in DOMAIN chain : chain[i].ok
  /\ msg \in [Requests -> Messages]
  /\ res = [r \in Requests |-> Missing]
  /\ st = [r \in Requests |-> Fresh("request_headers", 1)]
  /\ meta = [r \in Requests |-> [id \in {chain[i].id : i \in DOMAIN chain} |->
                                 [results |-> <<>>, keys |-> <<>>, handled |-> {}, stream |-> <<>>]]]
  /\ charged = [r \in Requests |-> <<>>]
  /\ failed = [r \in Requests |-> {}]
  /\ told = [r \in Requests |-> Nil]

Next ==
  \E r \in Requests :
    \/ \E err \in BOOLEAN : \/ OnRequestHeaders(r, err) \/ OnRequestBody(r, err)
                             \/ OnResponseHeaders(r, err) \/ OnResponseBody(r, err)
                             \/ FinalizeAndConsumeStreamingCosts(r, err)
    \/ OnResponseBodyChunk(r) \/ RequestCallReturns(r) \/ ResponseHeadersReturn(r)
    \/ ResponseBodyReturns(r) \/ SkipBody(r)
    \/ \E a \in Responses : Upstream(r, a)

Spec == Init /\ [][Next]_vars

---------------------------------------------------------------------------
\* Properties

Sum(q, types, value(_)) ==
  LET n == {i \in DOMAIN q.cost.sources : q.cost.sources[i].type \in types}
      given == {i \in n : value(q.cost.sources[i]) # Missing}
  IN IF n = {} THEN 0 ELSE IF given = {} THEN q.cost.default
     ELSE Max({0, MapThenSumSet(LAMBDA i : q.cost.sources[i].multiplier * value(q.cost.sources[i]), given)})

Due(r, q) ==
  IF ~q.cost.enabled THEN 1
  ELSE Sum(q, RequestPhase, LAMBDA s : msg[r].cost[s.type])
       + Sum(q, ResponsePhase, LAMBDA s :
           IF s.type = "response_body" THEN res[r].reports[s.at] ELSE res[r].cost[s.type])

\* A request that was served has been charged exactly once in every quota that
\* applies to it, its cost of request and response together, under the key of
\* the request, whichever phases the costs were known in, however the body was
\* cut and whoever else is being served; a quota that does not apply is not
\* charged.  Only a failing limiter, in a policy that tolerates it, loses a charge.
ChargedOnce ==
  \A r \in Requests : st[r].phase = "done" =>
    \A i \in DOMAIN chain : \A j \in DOMAIN chain[i].quotas :
      LET p == chain[i]  q == p.quotas[j]
          mine == {k \in DOMAIN charged[r] : k[1] = i /\ k[2] = j}
          sum == MapThenSumSet(LAMBDA k : charged[r][k], mine)
          applies == \A n \in DOMAIN q.keys : q.keys[n].match # {} => ExtractKeyComponent(p, msg[r], q.keys[n]) \in q.keys[n].match
      IN <<i, j>> \notin failed[r] =>
           /\ sum = IF applies THEN Due(r, q) ELSE 0
           /\ \A k \in mine : k[3] = [n \in DOMAIN q.keys |-> ExtractKeyComponent(p, msg[r], q.keys[n])]
=============================================================================
