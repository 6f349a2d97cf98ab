--------------------------- MODULE SemanticCache ---------------------------
(***************************************************************************)
(* semantic-cache: a request that is similar enough to an earlier one of   *)
(* the same caller is answered with the response to that one.  The entries *)
(* are in a vector database, by scope: API and caller.  A response is      *)
(* stored after it has passed, if its origin allows it and, where that is  *)
(* configured, the Jev service finds nothing against it; requests run      *)
(* concurrently, and each call to another system can fail.                 *)
(*                                                                         *)
(* An embedding is the text it was made of, and Similarity tells how close *)
(* two texts are, in units of 1/10000; thresholds of the parameters are in *)
(* units of 1/100.  What the database finds is left open as far as it has  *)
(* to be close enough: an entry may have expired.                          *)
(***************************************************************************)
EXTENDS Integers, Sequences, FiniteSets, SequencesExt, FiniteSetsExt

CONSTANTS CacheParams,     \* raw configurations
          CacheRequests,   \* [api, caller, body, at]: the text of the body, and at the JSONPath
          CacheResponses,  \* [status, json, content, sse, events, noStore]
          CheckReplies,    \* what Jev may answer
          DefaultQuestions,
          Similarity,
          NumCacheCalls, MaxCacheRequests, MaxCheckTimeout

VARIABLES conf,
          entries,    \* of the database: [scope, text, data]
          calls, asked,
          last        \* how the last step of a request ended

cacheVars == <<conf, entries, calls, asked, last>>

Absent == -1000
Idle == [phase |-> "idle"]
NoContent == <<"none">>

\* Thresholds and scores are numbers, and the ID a request has in place of an
\* API is the name of none.
ASSUME AnswersAssumption ==
  /\ MaxCacheRequests \in Nat
  /\ \A raw \in CacheParams : /\ raw.threshold.n \in Int
                             /\ \A i \in DOMAIN raw.check.questions.list : raw.check.questions.list[i].threshold.n \in Int
  /\ \A i \in DOMAIN DefaultQuestions : DefaultQuestions[i].threshold.n \in Int
  /\ \A r \in CheckReplies : "status" \in DOMAIN r /\ \A k \in DOMAIN r.answers : r.answers[k].value \in Int
  /\ \A msg \in CacheRequests, n \in 0..(MaxCacheRequests - 1) : msg.api # ToString(n)
  /\ \A res \in CacheResponses : Len(res.events) \in Nat /\ DOMAIN res.events = 1..Len(res.events)

---------------------------------------------------------------------------
\* Parameters.  A number is [k, n] with k "number" (numeric strings included),
\* "absent" or "other".

ExtractFloat64(p) == p.k \in {"number", "fraction"}

ExtractInt(p) == p.k = "number"

JevStringList(l) == l.form = "strings" /\ "" \notin Range(l.list)

ParseJevQuestion(q) ==
  /\ q.key # "" /\ q.type \in {"noul", "score"} /\ q.instructions /\ ExtractFloat64(q.threshold)
  /\ 0 < q.threshold.n
  /\ q.type = "noul" => q.threshold.n <= 100
  /\ q.type = "score" => /\ JevStringList(q.criteria) /\ Len(q.criteria.list) \in 2..10
                         /\ q.threshold.n <= 100 * (Len(q.criteria.list) - 1)

\* Off is off whatever else is there; no questions are the default ones.
ParseJevCacheCheck(raw) ==
  LET c == raw.check
      off == c.form = "absent" \/ (c.form = "object" /\ c.enabled \in {"absent", "no"})
      qs == c.questions
  IN [enabled |-> ~off,
      ok |-> off \/ /\ c.form = "object" /\ c.enabled = "yes" /\ raw.jevApiKey
                    /\ c.timeout.k = "absent" \/ (c.timeout.k = "duration" /\ 0 < c.timeout.n /\ c.timeout.n <= MaxCheckTimeout)
                    /\ qs.form \in {"absent", "array"}
                    /\ \A i \in DOMAIN qs.list : ParseJevQuestion(qs.list[i])
                    /\ IsInjective([i \in DOMAIN qs.list |-> qs.list[i].key]),
      questions |-> IF off THEN <<>> ELSE IF qs.list = <<>> THEN DefaultQuestions ELSE qs.list]

\* The texts that are required are flags.
ParseParams(raw) ==
  LET check == ParseJevCacheCheck(raw)
  IN [ok |-> /\ raw.embeddingProvider # "" /\ raw.vectorStoreProvider # ""
             /\ ExtractFloat64(raw.threshold) /\ 0 <= raw.threshold.n /\ raw.threshold.n <= 100
             /\ raw.endpoint /\ raw.apiKey /\ raw.dbHost
             /\ raw.embeddingProvider \in {"OPENAI", "MISTRAL"} => raw.model
             /\ ExtractInt(raw.dbPort) /\ ExtractInt(raw.dimension) /\ (raw.ttl.k = "absent" \/ ExtractInt(raw.ttl))
             /\ raw.streamingJsonPath # "other" /\ raw.cacheUnauthenticated \in {"absent", "yes", "no"}
             /\ check.ok,
      threshold |-> raw.threshold.n, jsonPath |-> raw.jsonPath,
      cacheUnauthenticated |-> raw.cacheUnauthenticated = "yes", check |-> check]

CreateEmbeddingProvider(name) == name \in {"OPENAI", "MISTRAL", "AZURE_OPENAI"}

CreateVectorDBProvider(name) == name \in {"REDIS", "MILVUS"}

GetPolicy(raw) ==
  LET p == ParseParams(raw)
  IN [p EXCEPT !.ok = @ /\ CreateEmbeddingProvider(raw.embeddingProvider) /\ CreateVectorDBProvider(raw.vectorStoreProvider)]

---------------------------------------------------------------------------
\* The scope of an entry

\* The first identity the request has, with the place it comes from.
CallerIdentity(c) ==
  CASE c.app # "" -> <<"appid", c.app>>
    [] c.app = "" /\ c.subject # "" -> <<"subject", c.subject>>
    [] c.app = "" /\ c.subject = "" /\ c.credential # "" -> <<"credential", c.credential>>
    [] c.app = "" /\ c.subject = "" /\ c.credential = "" /\ c.token # "" -> <<"token", c.token>>
    [] OTHER -> <<>>

\* The value alone, wherever it comes from.
UntaggedScopeID(c, api) ==
  LET id == CallerIdentity(c)
  IN [ok |-> id # <<>> \/ conf.cacheUnauthenticated, scope |-> <<api>> \o (IF id = <<>> THEN <<>> ELSE <<id[2]>>)]

\* No scope without an identity, unless such callers share one.
CacheScopeID(c, api) ==
  LET id == CallerIdentity(c)
  IN [ok |-> id # <<>> \/ conf.cacheUnauthenticated, scope |-> <<api>> \o id]

\* 0.6 + threshold * 0.4
EffectiveThreshold == 6000 + conf.threshold * 40

\* The database is external: an entry of the scope, close enough.
Retrieve(text, scope) == {e \in entries : e.scope = scope /\ Similarity[text][e.text] >= EffectiveThreshold}

---------------------------------------------------------------------------
\* Request

ExtractCachedText(msg) == IF conf.jsonPath = "" \/ msg.body = "" THEN msg.body ELSE msg.at

BuildErrorResponse == [k |-> "error"]

OnItsWay(msg, text) == [phase |-> "upstream", msg |-> msg, id |-> asked, text |-> text]

\* A request takes the first free place.
OnRequestBody(i, msg) ==
  LET text == ExtractCachedText(msg)
      scope == CacheScopeID(msg.caller, msg.api)
  IN /\ conf.ok /\ calls[i] = Idle /\ asked < MaxCacheRequests /\ \A j \in 1..(i - 1) : calls[j] # Idle
     /\ asked' = asked + 1
     /\ \/ text = "error" /\ last' = BuildErrorResponse /\ UNCHANGED calls
           \* nothing to embed, or the provider fails
        \/ text # "error" /\ calls' = [calls EXCEPT ![i] = OnItsWay(msg, "")] /\ last' = [k |-> "none"]
           \* no lookup, or nothing found
        \/ text \notin {"error", ""} /\ calls' = [calls EXCEPT ![i] = OnItsWay(msg, text)] /\ last' = [k |-> "none"]
        \/ /\ text \notin {"error", ""} /\ scope.ok
           /\ \E e \in Retrieve(text, scope.scope) : last' = [k |-> "hit", msg |-> msg, text |-> text, data |-> e.data]
           /\ UNCHANGED calls
     /\ UNCHANGED <<conf, entries>>

---------------------------------------------------------------------------
\* Response

IsNoStoreResponse(res) == res.noStore

IsSSEResponse(res) == res.sse

IsSSEContent(res) == res.events # <<>>

\* The texts of the JSON events go into the last one, if that has choices.
AssembleSSEResponse(events) ==
  LET json == {n \in DOMAIN events : events[n].json}
  IN [ok |-> json # {},
      content |-> IF json # {} /\ events[Max(json)].choices
                  THEN FlattenSeq([n \in DOMAIN events |-> IF events[n].json THEN events[n].text ELSE <<>>]) ELSE NoContent]

Parsed(res) ==
  CASE res.json -> [ok |-> TRUE, content |-> res.content]
    [] ~res.json /\ (IsSSEResponse(res) \/ IsSSEContent(res)) -> AssembleSSEResponse(res.events)
    [] OTHER -> [ok |-> FALSE]

ResponseText(content) == IF content = NoContent THEN <<>> ELSE content

\* The call ends; whether the database took the entry is not known to it.
Store(i, scope, data, reply) ==
  /\ \/ entries' = entries \union {[scope |-> scope, text |-> data.text, data |-> [data EXCEPT !.reply = reply]]}
     \/ UNCHANGED entries
  /\ calls' = [calls EXCEPT ![i] = Idle]
  /\ last' = [k |-> "store"]

Skip(i, k) == calls' = [calls EXCEPT ![i] = Idle] /\ last' = [k |-> k] /\ UNCHANGED entries

ProcessResponseBody(i, res) ==
  LET c == calls[i]
      parsed == Parsed(res)
      scope == CacheScopeID(c.msg.caller, IF c.msg.api = "" THEN ToString(c.id) ELSE c.msg.api)
      data == [msg |-> c.msg, res |-> res, text |-> c.text, content |-> parsed.content, reply |-> [status |-> Absent]]
      stores == res.status = 200 /\ c.text # "" /\ parsed.ok /\ ~IsNoStoreResponse(res) /\ scope.ok
      texts == ExtractCachedText(c.msg) \notin {"error", ""} /\ ResponseText(parsed.content) # <<>>
  IN /\ c.phase = "upstream"
     /\ \/ ~stores /\ Skip(i, "none")
        \/ stores /\ ~conf.check.enabled /\ Store(i, scope.scope, data, data.reply)
        \/ stores /\ conf.check.enabled /\ ~texts /\ Skip(i, "skip")
        \/ /\ stores /\ conf.check.enabled /\ texts
           /\ calls' = [calls EXCEPT ![i] = [phase |-> "checking", scope |-> scope.scope, data |-> data, again |-> TRUE]]
           /\ last' = [k |-> "none"] /\ UNCHANGED entries
     /\ UNCHANGED <<conf, asked>>

---------------------------------------------------------------------------
\* The check.  A reply is [status, body, usage, answers] with answers by key.

Post(r) == IF r.body = "toolarge" THEN [r EXCEPT !.status = 0] ELSE r

\* All questions and no others.
DecodeJevAnswers(r, qs) ==
  r.body = "answers" /\ (r.usage # Absent => r.usage >= 0) /\ DOMAIN r.answers = {qs[n].key : n \in DOMAIN qs}

JevBlockingValue(q, a) ==
  /\ a.type = q.type /\ a.value # Absent /\ 0 <= a.value
  /\ a.value <= IF q.type = "noul" THEN 100 ELSE 100 * (Len(q.criteria.list) - 1)

\* The verdict of an answer that cannot be read is left to the others.
LenientVerdict(r, qs) ==
  CASE ~(r.status \in 200..299 /\ DecodeJevAnswers(r, qs)) -> "skip"
    [] OTHER -> IF \E n \in DOMAIN qs : JevBlockingValue(qs[n], r.answers[qs[n].key]) /\ r.answers[qs[n].key].value >= qs[n].threshold.n
                THEN "skip" ELSE "store"

\* Nothing is stored without an answer to each question, and each below its threshold.
Verdict(r, qs) ==
  IF /\ r.status \in 200..299 /\ DecodeJevAnswers(r, qs)
     /\ \A n \in DOMAIN qs : JevBlockingValue(qs[n], r.answers[qs[n].key]) /\ r.answers[qs[n].key].value < qs[n].threshold.n
  THEN "store" ELSE "skip"

\* One attempt; the first one is repeated when the service is overloaded.
ShouldStore(i, raw) ==
  LET c == calls[i]
      r == Post(raw)
  IN /\ c.phase = "checking"
     /\ \/ /\ c.again /\ r.status \in {429, 529}
           /\ calls' = [calls EXCEPT ![i] = [c EXCEPT !.phase = "backoff"]] /\ UNCHANGED <<entries, last>>
        \/ /\ ~(c.again /\ r.status \in {429, 529})
           /\ IF Verdict(r, conf.check.questions) = "store" THEN Store(i, c.scope, c.data, r) ELSE Skip(i, "skip")
     /\ UNCHANGED <<conf, asked>>

Retry(i) ==
  /\ calls[i].phase = "backoff" /\ calls' = [calls EXCEPT ![i] = [@ EXCEPT !.phase = "checking", !.again = FALSE]]
  /\ UNCHANGED <<conf, entries, asked, last>>

TimedOut(i) == calls[i].phase = "backoff" /\ Skip(i, "skip") /\ UNCHANGED <<conf, asked>>

CacheInit ==
  /\ \E raw \in CacheParams : conf = GetPolicy(raw)
  /\ entries = {} /\ calls = [i \in 1..NumCacheCalls |-> Idle] /\ asked = 0 /\ last = [k |-> "none"]

CacheNext ==
  \E i \in 1..NumCacheCalls :
    \/ \E msg \in CacheRequests : OnRequestBody(i, msg)
    \/ \E res \in CacheResponses : ProcessResponseBody(i, res)
    \/ \E r \in CheckReplies : ShouldStore(i, r)
    \/ Retry(i)
    \/ TimedOut(i)

CacheSpec == CacheInit /\ [][CacheNext]_cacheVars

---------------------------------------------------------------------------
\* Properties

\* Two callers are one if the strongest name that either has is the name of both.
Names(c) == <<c.app, c.subject, c.credential, c.token>>
SameCaller(c, d) ==
  LET known == {n \in 1..4 : Names(c)[n] # "" \/ Names(d)[n] # ""}
  IN known = {} \/ Names(c)[Min(known)] = Names(d)[Min(known)]

Anonymous(c) == c.app = "" /\ c.subject = "" /\ c.credential = "" /\ c.token = ""

\* What the upstream said, and whether its last event has the form of the others.
Said(res) == IF res.json THEN res.content ELSE FlattenSeq([n \in DOMAIN res.events |-> IF res.events[n].json THEN res.events[n].text ELSE <<>>])
EndsInChoices(res) == \E n \in DOMAIN res.events : res.events[n].json /\ res.events[n].choices /\ \A m \in (n + 1)..Len(res.events) : ~res.events[m].json

\* An answer from the cache is the whole of what the upstream answered (a stream
\* that closes with an event of another form loses its texts), with
\* success and without reservations, to a request of the same API and the same
\* caller (nobody's, only where they are let in), no further from this one than
\* the configuration allows; and where a check is configured, Jev has answered
\* each of its questions about it, each below the threshold.
CachedAnswerDue ==
  last.k = "hit" =>
    LET d == last.data
        qs == conf.check.questions
    IN /\ d.msg.api = last.msg.api /\ SameCaller(d.msg.caller, last.msg.caller)
       /\ Anonymous(last.msg.caller) => conf.cacheUnauthenticated
       /\ d.text = ExtractCachedText(d.msg) /\ Similarity[last.text][d.text] >= 6000 + 40 * conf.threshold
       /\ d.res.status = 200 /\ ~d.res.noStore
       /\ (d.res.json \/ EndsInChoices(d.res)) => d.content = Said(d.res)
       /\ conf.check.enabled =>
            d.reply.status \in 200..299 /\ \A n \in DOMAIN qs : d.reply.answers[qs[n].key].value \in 0..(qs[n].threshold.n - 1)

=============================================================================
