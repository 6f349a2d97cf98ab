# Gateway policies in TLA+

A verification project for the gateway policies of this repository: TLA+ modules that
model the stateful policies, TLC runs over small instances, and TLAPS proofs for every
value of the constants. `PROJECT.json` lists components, runs, mutants, the map from
definitions to source lines, findings, hazards and theorems; this file explains them.

## 1. The system

The repository holds some seventy policies. Each is a Go package that the gateway's
policy engine loads. `GetPolicy` builds a policy object for every attachment (API or
operation level, per route) whenever configuration is loaded; the engine then calls
`OnRequestHeaders`, `OnRequestBody`, `OnResponseHeaders`, `OnResponseBody` and their
chunked variants, concurrently, one goroutine per request. Most policies are stateless
transformations of one message. What can go wrong over time is concentrated in a few:

| Part | State | Operations | Hard behaviour | What makes it correct |
|---|---|---|---|---|
| local-async limiter (`fixedwindow/redis_local_async.go`) | striped map of window states, dirty sets, evicted deltas, outage latch | AllowN, flush (snapshot, pipeline, reconcile, TTL), eviction, Close | requests, worker and Close interleave; half-applied pipelines; eviction while in flight | no delta is lost or counted twice, no limiter sleeps on work, an outage ends |
| flush coordinator (`fixedwindow/flush_coordinator.go`) | shards, active set, enqueued marks, deadlines | markActive, tickShard, flushDue, deregister | wakeups against the tick | one marker per active period |
| fixed-window limiters (`memory.go`, `redis.go`, `multi.go`) | counter per key and window | AllowN, ConsumeOrClampN, ConsumeN, GetAvailable | non-atomic Redis commands, window ends between steps, check before and charge after | limit kept, bounded overshoot, keys expire |
| GCRA limiters (`gcra/memory.go`, `redis.go`, `gcra.lua`) | theoretical arrival time per key | the same four calls | forgetting an arrival time too early, rounding | the rate contract over every interval |
| limiter cache (`ratelimit.go`, `GetPolicy`) | limiters by cache key with reference counts, quota keys by reconcile key | build, rebuild, release | long sequences of reloads, failure in the middle | no limiter is closed while a policy runs on it |
| request phases (`ratelimit.go`) | per-request metadata, streaming accumulators | header, body and chunk handlers | several quotas, a stream that ends without its last chunk | every quota is charged once |
| token provider (`oauth2-generator`) | local token, Redis entry, source with a shared fetch | Token, Purge | purge against a fetch, joiners, cancelled owner, missing expires_in | a purged token does not come back, nobody is stranded |
| text guardrails (word, sentence, length, url, regex) | text accumulated per stream | request, buffered and chunk handlers, the streaming gate | a verdict on pieces of a text, cut anywhere; bytes that are gone cannot be withdrawn | the verdict is that of the whole text |
| masking (pii-masking-regex, aws-bedrock-guardrail) | values and placeholders of the request | mask, redact, restore | values inside values, placeholders cut by events | nothing masked leaves, everything is restored |
| tool filtering (typesafe-jev-tool-filtering) | none beyond the request | read prompt and tools, ask, retry, select, rewrite | partial answers, tools the request names or has called, budgets of bytes | filtered as a whole or not at all, and never below what the request needs |
| response cache (semantic-cache) | entries of a vector database, by API and caller | look up, check, store | concurrent requests, identities of several sources, responses that may not be kept, a check that fails | an answer is served only to the caller it was given to, whole and checked |
| screens (Bedrock, Azure content safety, semantic-prompt-guard, the Jev policies) | none beyond the request | read, ask, retry, judge | overload, deadlines, refusals, attempts that fail in different ways | a failed check is never a clean one |
| delegates (token-based, llm-cost-based, mcp rate limits) | advanced-ratelimit policies by provider or entry | resolve, build, pin, charge | the template changes under a request; construction races | a request is limited by the configuration it read |
| MCP policies (acl, authz, auth, ratelimit, rewrite, spec-validation) | facts handed from one policy to the next | header, body and response handlers | two eras of the protocol, a name in a header and in the body, several readers of one text | what runs is what was judged |
| model routing (rotations, cost, time, semantic, intelligent, Jev, header) | cursor, suspensions, budgets | select, suspend, fall back, charge | concurrent selection, late failures, budgets checked before and charged after | a resting model rests; the model that answered is charged |
| authentication (jwt-auth, opaque-token-auth) | key sets, verdicts and introspections shared by all routes | get, fetch, retry, store, evict | late answers, rotation and revocation, routes that share a cache | only callers their own route trusts, and all of them |
| plans (subscription-validation) | counters by API and credential, one map for all routes | look up, count, clean | the clock is read before the lock; plans change; counters are dropped | the quota of the plan, no less and not much more |
| backend credentials (oauth2-token-exchange, backend-jwt) | tokens by caller and parameters | exchange or sign, cache | other policies between two phases, redeployment | a backend is sent the token of this caller |

Every package is a component of `PROJECT.json`, including the stateless ones, with its
status and reason.

**Interactions.** All rate-limit policies delegate to advanced-ratelimit, whose limiter
cache hands out limiters shared by policy objects of different routes. A limiter of the
local-async backend registers with the process-wide flush coordinator, which flushes it
to Redis; the other replicas see it only through Redis counters. The token provider
shares its Redis entry with the other replicas in the same way.

## 2. Modules

### LocalAsyncLimiter

One `RedisLocalAsyncLimiter` on one replica, the coordinator worker that flushes it, a
caller of Close, and the Redis counters. A region the code runs under a lock is one
step: `AllowNReadClock`, `AllowNDecide` (stripe lock), `AllowNEnqueue` (the
compare-and-swap) and `AllowNMarkActive` of a request; `TickShard`, `WorkerLock`,
`WorkerRequeue`, `WorkerMarkActive` of the worker; `Deregister`, `DeregisterClear`,
`CloserLock` of Close; and the steps of a flush, `fl[p].step`, that worker and Close
share: snapshot per stripe, one INCRBY per step, return of Exec with or without an
error, one applied reply per step, EXPIRE.

Abstracted: an Exec that fails has run a prefix of its commands; the scan for a victim
picks any entry the randomized scan can settle on; a limiter in the active set may be
due at any tick, since deadlines are left to the planned FlushCoordinator.

### LeakyBucket and Gcra

`LeakyBucket` states what a GCRA limiter promises, without storage: a backlog that
drains with time and grants that fit. `Gcra` is the code: arrival times with an
expiration, for both backends, which differ in how long they keep an entry. A call is
one step because it runs under a mutex or as one Lua script, and reads one clock.
`Bucket == INSTANCE LeakyBucket WITH backlog <- ...` is the refinement mapping and
`BucketSpec` the property. Not modelled: Lua's doubles and the textual form of the
stored TAT.

### FixedWindow

Two concurrent requests, one key, one or two limiters behind a MultiLimiter. What is
deployed (backend, limits, windows, the calls requests make, whether EXPIRE may fail) is
a record `conf` chosen in Init from the constant `Deployments` and never changed, so one
run covers several deployments. A memory
call is one step. A Redis call is a clock reading, INCRBY and EXPIRE as separate steps
(the clamp is one script), each of which can find that its window has ended. go-redis
sends the TTL of EXPIRE in whole seconds, rounded down (a TTL below one second as one), and
that of SET in the script in whole milliseconds: `ExpireUnit` and `ScriptUnit` are the
lengths of the two in ticks of the clock, so a key may die within the last unit of its
window. The Redis AllowN counts denied requests too, as the code does. `"charge"` requests call
GetAvailable first and ConsumeN once the upstream has answered.

### LimiterCache

`GetPolicy` under the lock of the process-wide cache, for one API. Cache keys and
reconcile keys are records of the fields the code hashes. Creating a limiter can fail
after earlier quotas were counted (`GetPolicyFails`).

### TokenCache

The token provider of one oauth2-generator instance. Token goes through the tiers
(`LocalHit`, `LocalMiss`, `RedisHit`, `RedisMiss`, `RedisDown`, `Adopt`), takes its
`Snapshot` of source and generation, owns or joins the source's fetch (`Own`, `Join`,
`Reuse`, `Ask`, `Issue`, `FetchFails`, `FetchRefused`, `Backoff`, `Clear`, `Close`), and
checks and stores the result (`Stale`, `NotStale`, `SetLocal`, `Save`). Purge is three
steps: local entry, source and generation under the lock, Redis entry. Another replica
appears as a writer of the Redis entry. A joiner holds the number of its owner; closing
`done` hands it the result. The in-flight branch of reuseTokenSource is not an action:
`SingleFlight`, checked and proved, shows that it is never taken below the retry layer.
The rebuild in Purge cannot fail in the model, as it succeeded with the same parameters
when the policy was built and the transport is then found in the registry.

### RateLimitFrontends, RateLimitPhases and DelegateCache

`RateLimitFrontends` is the translation of the front ends' parameters (basic, token,
cost, mcp) into those of advanced-ratelimit. `RateLimitPhases` runs a chain of such
policies over concurrent requests: each handler is a loop over quotas, and one turn of
it is a step, so that requests meet at the limiters; keys, costs and the metadata that
carries results from phase to phase are as in `ratelimit.go` and `cost_extractor.go`.
A limiter call may fail, fail-open or not. A JSON path is a name and a CEL expression
the value it yields.

`DelegateCache` is resolveDelegate in its three forms: two maps and a singleflight group
(token-based), one map of entries and a delegate pinned in the request (cost-based), and
LoadOrStore (mcp). Every map access is a step, and configuration may change between two.
A delegate is named by the request that built it, since a request builds at most one.

### GuardrailText, CountGuardrails, PatternGuardrails and GuardrailStream

Text is a sequence of symbols (white space, sentence end, the two halves of the token
http, a piece of a URL, any other letter), so a stream can cut a URL anywhere, in the
middle of http too; a body a sequence of lines with the SSE prefix and what the JSONPath finds in
it. The five packages are copies of one skeleton that have drifted apart, so each has
its own handlers in `CountGuardrails` (word, sentence, length) and `PatternGuardrails`
(url, regex), with its own parameter parsing. `GuardrailStream` is one exchange: the
engine holds chunks back while NeedsMoreResponseData says so; the end of the stream
comes with bytes, with white space or with nothing. DNS and HTTP are sets of names that
answer.

### TextEdit and PiiMasking

`TextEdit` holds what the masking policies use of Go's `strings`. `PiiMasking` is
pii-masking-regex: masking or redacting the request, then restoring the response in one
piece or event by event, with the held-back tail. A placeholder is four symbols, so an
event can cut it; an expression is the set of texts it matches. A payload whose path holds
no text, or that cannot be written back, goes on as it came, as in the code.

### ServiceGuardrails

Bedrock, Azure content safety, semantic-prompt-guard and json-schema-guardrail. A phase
is one synchronous call, so it is one action whose inputs are the payload and whatever
the service answers, attempt by attempt where the code retries. The Bedrock part carries
masked values from the request to the response phase.

### JevQuestions and JevScreening

The three policies that ask the Jev service and let a message pass or withhold it:
content-safety, mcp-tool-intent-verification and mcp-tool-result-screening. Questions
and answers are in `JevQuestions`; `JevScreening` is the exchange: reading the message,
finding the rule of the tool (a request whose members are repeated or oddly spelled may
be read in several ways), the call, its one retry, the deadline, and the outcome by mode
and failure setting. Probabilities and scores are integers on a coarse scale.

### ToolFiltering

typesafe-jev-tool-filtering: the tools a request offers are found at a path, their
metadata is cut to a budget, the Jev service scores them in one call with one retry, and
the request goes on with the tools that rank or score high enough. Tools that were called
before, or that the request names, stay; a request that may end without the tool it
demands goes on unchanged. A JSON value is a small tree, a size a number of symbols.

### SemanticCache

The lookup of a request and the storing of its response are two steps of one call, and
several calls run over one database. An embedding is the text it was made of and
`Similarity` a table; the vector database finds any entry of the scope that is close
enough, or none. A response is JSON or an event stream put together; the Jev check is a
phase of its own with its retry and its deadline.

### McpMessages, McpPolicies and McpChain

`McpMessages` is how the policies read a request: methods, JSON members in document
order with the spelling they fold onto, event streams, mirrored headers with their
encoding, and the facts one policy leaves for the next. `McpPolicies` has a handler per
policy and phase, from the request state to the request state. `McpChain` runs any of a
set of chains: headers in order, bodies in order, the server, the answer in reverse order,
and a second request after the first. The server reads members by their exact name or folds
their case (`folds`), since comments of the policies expect both. The delegated jwt-auth of mcp-auth is a verdict on the token.

### ModelTargets and ModelRouting

`ModelTargets` has the parameters and the pure choices: patterns, weights, schedules as
ranges of the week, budgets, classifier answers. `ModelRouting` runs concurrent requests
through one policy: a step is a handler call. Rotations share a cursor and the suspended
models; cost-based routing checks its budgets on the way in and charges on the way out.
A budget is a counter: the limiter behind it is the subject of FixedWindow, and its width
is kept (`Wrapped`): past the largest counter the one in memory goes on below zero, and
Redis refuses the charge.

### JwtTokens, JwtAuth and OpaqueAuth

`JwtTokens` is the part without state: key managers for a token, claims, scopes and
audiences, the demands of a route. `JwtAuth` is one instance serving all routes: a key
set is read at the issuer, arrives later or not at all, and is stored when it arrives;
verdicts are cached, in a cache that is resized and evicts. `OpaqueAuth` asks the
introspection providers one after the other in the same way. Issuers rotate keys and
providers revoke tokens at any time (history: when a key or token was last good). A
signature is the name of the key that made it.

### SubscriptionValidation

`OnRequestHeaders` finds the credential (header, cookie or application), looks it up and
reads the clock; `CheckRateLimit` is the region under the mutex, so others may be counted
in between. Retry-After is in whole seconds, rounded down, at least one (`Second` ticks each).
`RunRateLimitCleaner` and changes of the store come at any time. The property
is about `history`, the order in which requests were counted.

### TokenExchange and BackendJwt

`TokenExchange`: the subject token is looked for in the header phase; `Edit` is any
policy that writes headers between the phases; the body phase looks again, exchanges or
takes the cached token, and writes the output header. `subject` is the history of whose
token the backend is due: the one the header phase found, the last one another policy
wrote since, and again the first when a policy takes that one out. `BackendJwt`: the claims of a
caller, the digest the signed token is cached under, and `Redeploy`. A token is the
record of what it says. The digest is of parts joined by `|`, `=` and `,` without escaping:
a text with a separator falls into pieces (`Severed`, `Listed`), so two requests can have one
key, and the run has such a pair. A token of the exchange lives as long as its endpoint means
it to (`life`), whatever expires_in says; `Word` tells whether the two agree.

### Suites and values

Small components are checked together. The variable `part`, chosen initially and never
changed, says which component a behaviour is of; the variables of the others keep their
initial value. `MCLimits` extends all of its components (`Gcra`, `FixedWindow`,
`LimiterCache` and `DelegateCache`), so its properties are theirs as they stand, and the
ones the theorems state; `MCAccess` likewise extends `TokenExchange`, `BackendJwt`, `JwtAuth`
and `OpaqueAuth`. `MCMessages` extends `ModelRouting`, `SemanticCache`, `ServiceGuardrails`
and `JevScreening`; its other components are INSTANCEs over the shared variables `s1`, `s2`,
..., and a property that joins several of them asks of each under the condition that the
behaviour is of that part. What all of them are given (configurations, messages, replies) is in
`TrafficValues` and `AccessValues`.
`MCLocalAsync` and `MCTokenCache` instantiate one component. `*Proofs` hold the theorems.

A run about one part alone is a second configuration of its suite: `MCLimits_level.cfg`
(cache_level) and `MCAccess_redeploy.cfg` (backend_redeploy).

## 3. Runs

Passing runs:

| Run | Instance | Shows |
|---|---|---|
| limits | GCRA in memory, burst 3, interval 2; four fixed-window deployments (two windows in memory, one in memory with charges, Redis with AllowN and clamp, Redis with check before and charge after and a failing EXPIRE); limiter cache with 3 attachments on 2 routes; 3 requests that resolve delegates while the configuration changes | GCRA refines LeakyBucket, keeps its rate, its pre-check agrees with its decision and its retry time is honest; window counters are exact, limits kept and the overshoot at most one cost per request upstream, but for counters that Redis loses within the last unit of their TTL; either window's denial reported, TTLs set; no closed limiter in use, API scope shared; the delegate of a request is of the configuration it read and stays with it (DelegateSettled) |
| messages | the ten parts of MCMessages: text guardrails, PII masking, service guardrails, Jev screens, tool filtering, the semantic cache, MCP chains, rate-limit phases, plans and subscriptions, model routing | see below |
| access | jwt-auth, opaque-token-auth, oauth2-token-exchange with 2 concurrent requests each over several routes, answers that arrive up to one tick late; backend-jwt over redeployments, with header claims that hold separators of the key | who is admitted (CallerDue), and whose token the backend is sent (CredentialDue) |
| local_wakeup | 2 keys on 2 stripes, 2 requests, budget 1, fail-closed, outages, Close | no delta and no latched outage without a goroutine that returns to it; one marker |
| local_count | 2 keys, chunks of 1 that fail whole, another replica | every token counted exactly once; the limit per replica |
| local_evict | stripe of capacity 1, half-applied pipelines, windows of length 1 that end, counters that expire | nothing granted is missing from Redis or from what is owed |
| local_live | outage across a window end, fair worker, Close competing for flushMu | recovery, and every delta is flushed; replies are never applied out of order |
| token | 2 goroutines, Redis tier with failing commands, failure mode closed, retries, cancellation, a purge, another replica, tokens with and without expires_in, fair | one fetch per source, an old token is recognised, no needless token request, no entry without expiry, every call returns |

The properties of `messages`:

| Property | States |
|---|---|
| GuardrailVerdictDue | however a stream is cut and held back, it completes exactly when the whole text satisfies the configuration (for the url guardrail, where no event cuts a URL in the letters of http or after a letter: `CutUnseen`); what a client of a count guardrail has is within the limits that cannot be repaired; and the tools of a request are filtered as a whole or not at all, to a request that still offers what it names or needs |
| UpstreamSeesNoPII, ClientReadsOriginal | no PII value of a text that could be read and written back leaves, nor a part of it; the client reads the values it sent, however placeholders are cut |
| BedrockRoundTrip | the same for the values a service reports, in any order, one inside another; redaction takes out every value of the first assessment |
| ServiceVerdictDue | a text goes on only after an answer that lets it, or where the configuration tolerates a failure, whichever attempts fail. For Bedrock that is no intervention, or any that reports personal data (below) |
| JevVerdictDue | nothing goes on without the answers the rule of the tool that will run asks for; and nothing is withheld without a cause |
| CachedAnswerDue | a cached answer is the whole of what the upstream answered, with success and without reservations, to a similar enough prompt of the same caller at the same API, and below every threshold where Jev is asked |
| McpGoverned, McpListHonest | what the server runs is what every policy of the chain has judged, for a server that matches member names exactly and, where the spelling is settled, for one that folds their case; a list shows only what the client could call |
| ChargedOnce | a served request is charged once in every quota that applies, whichever phases knew the costs; a request with a subscription goes on within the quota of its plan and is refused only beyond it, and its credential stays in the gateway |
| RotationRests, BudgetOfModelUsed, TargetWhole | a failed model rests from its last failure on; each cost is charged to the budget of the model that answered, as long as the counter holds the sum; model and provider are those of the chosen target, and of the schedule in force |

In `access`, CallerDue is, by part: an admitted request has a token that an issuer its own
route trusts vouched for recently enough (and jwt-auth refuses no such request). In
CredentialDue, the claims of a signed token are asked of requests without a separator in
their texts, on both sides of the cache, and that an exchanged token is alive of endpoints
that keep their word. ChargedOnce says of subscriptions: a request goes on within the quota of
its plan, is refused only when as many as the limit came before it, and is not refused for
what was counted before once a second has passed after the time it was told.

In `limits`, ReadsAgree joins AvailableAgrees and RetryHonest of Gcra. The part "gcra" uses the memory backend, whose expiry differs between
GetAvailable and AllowN. For Redis the refinement and the rate are proved for every
policy whose entries are kept long enough, and gcra_fraction shows what happens to one
whose are not.

Violation runs, each the evidence of a finding in `PROJECT.json`, which quotes the
comment or document the code disagrees with:

| Run | Finding |
|---|---|
| gcra_fraction | a duration of 1.5 s: Redis forgets the arrival time after one second |
| cache_level | two policy instances at one level of a route share a reconcile key and close each other's limiter |
| token_race | staleness check and setLocal are not one critical section: a purge fits between |
| backend_redeploy | the digest a signed token is cached under omits the signing key: after a redeployment with a new key the old key's tokens are still sent |

**Other behaviour the models show**, for which no property is stated because none holds,
or which a property names as its exception:

- *local-async limiter*: a request that read the clock before a window end replaces the
  new window's state and its unflushed delta (history variable `dropped`); after eviction
  a key starts again from an estimate of zero, so local_count, which is about the limit,
  has room for every key; Close gives up after numStripes + 1 flushes of the budget; a
  reply equal to the increment is taken as creation of the counter, which decides who
  sets the TTL; a flush that is late skips it.
- *fixed window, limiter cache*: the TTL of a counter is the rest of its window and a
  jitter, cut to whole seconds (`redis.go:118-122`; `formatSec` of go-redis), or to whole
  milliseconds in the script. With a jitter below the fraction the key dies up to a second
  before its window ends and the count starts again: CountExact is claimed until then, and
  AllowWithinLimit and OvershootBounded once more for each counter lost (`Restarts`). An EXPIRE that fails, or is skipped because its window
  is over, leaves a counter without TTL; an API-scoped quota keeps its limiter when
  backend or tuning change; a change of the parameters the base key hashes leaves its
  bucket and limiters behind.
- *token provider*: a token read from Redis before a purge deletes it is adopted locally
  afterwards; a token without expires_in is given a new default lifetime by each Token
  call that finds it in its source.
- *delegates*: token-based-ratelimit loads the delegate and its key separately, so a
  template change between the two pairs one with the other's; DelegateSettled asks the
  pairing of it only while the template stays the same.
- *guardrails*: EndOfStream on an empty chunk skips the final check, although a comment
  in `wordcountguardrail.go` promises it; on white space three of the five policies parse
  the white space as a body. GuardrailVerdictDue leaves these two endings out. A comment in
  `urlguardrail.go:440-442` promises that "a URL is never validated while it is still being
  streamed"; `incompleteURLAtEnd` does not hold back `ht`, nor a URL directly after a letter,
  and OnResponseBodyChunk looks at one chunk only, so a URL cut there passes unvalidated or
  is validated in part. The run has these cuts, and the property leaves them out.
- *PII masking*: a value at the path that is no text, and a payload that cannot be updated,
  are forwarded as they came, unmasked (`piimaskingregex.go:388-392, 439-442`), where
  `docs/pii-masking-regex/v1.0/docs/pii-masking-regex.md:218` announces HTTP 500.
  UpstreamSeesNoPII promises nothing of them.
- *semantic cache*: a stream whose last JSON event has no choices (a closing usage chunk)
  is put together without its texts and cached as that; CachedAnswerDue asks for the whole
  text of the other streams.
- *subscriptions*: a counter that is not used for two hours is dropped, whatever the
  window of its plan, so a plan by day or month then starts with its full quota; ChargedOnce
  speaks of plans with shorter windows. A counter may start again in the middle of a
  sliding window, so up to twice the limit less one go on in a window. Token and
  application with the same text share a counter. Retry-After leaves out the fraction of a
  second (`subscriptionvalidation.go:458`), so a client that comes back exactly then can be
  refused again for what was counted before.
- *Bedrock*: an entity reported twice gets a second placeholder, and only one of the two
  is restored. An intervention that reports any personal data is forwarded, whatever else it
  was for: entities the guardrail blocks, a denied topic or a word next to them, and a response
  as it is (`awsbedrockguardrail.go:869-901, 940`), where
  `docs/aws-bedrock-guardrail/v1.2/docs/aws-bedrock-guardrail.md:449,475` has blocked content
  refused. Redaction covers the first assessment only. A response that holds placeholders is
  restored and returned without being checked. ServiceVerdictDue names these three.
- *MCP*: the decisions taken in the header phase rest on mirrored headers, which only
  mcp-spec-validation compares with the body (`Vouched`). mcp-rewrite acts in the body
  phase, so the order its documentation asks for
  (`docs/mcp-rewrite/v1.1/docs/mcp-rewrite.md:148`) makes no difference to a decision
  taken on headers. On a route without the resolver mcp-acl-list and mcp-rewrite match JSON
  members exactly and let a body through that spells one of them otherwise; a server that
  folds the case, as the comments at `mcp-acl-list.go:440-441,724`,
  `mcp-rewrite.go:488-489,616`, `unusable_body.go:77-79,160-162` and
  `request_validation.go:29-30` say a server may, then runs what they have not judged, unless
  mcp-spec-validation, mcp-authz, mcp-auth or mcp-ratelimit is in the chain and refuses the
  body. McpGoverned and McpListHonest leave this case out (`SpellingSettled`).
- *model routing*: a rotation that selects by path or query parameter sends a request
  whose path it cannot rewrite to the chosen provider with the client's model; a budget
  is checked before the call and charged after it, so concurrent requests pass together. A cost
  too large for an int64 is clamped so that it "still exhausts the budget"
  (`budget.go:244-247`), which it does for a fresh budget only: added to a used one, the
  counter in memory wraps below zero (`fixedwindow/memory.go:262`) and Redis refuses INCRBY,
  so the charge is lost. BudgetOfModelUsed speaks of sums the counter holds and of charges
  that were not refused. Two rotations of one kind in a chain would read each other's target
  from shared metadata keys (`roundrobin.go:319-321,367-377`,
  `weightedroundrobin.go:384-386,434-444`), and the earlier one suspend the later one's:
  `OneOfAKind` assumes that a chain has one.
- *jwt-auth*: with two key managers of one issuer and no `issuers` on the route, the
  choice is that of Go's map order; key sets are cached by URI alone; an unknown key ID is
  not looked for again before the cached key set ends. CallerDue therefore bounds how
  long a withdrawn key lives, and says nothing of how soon a new one is accepted.
- *token exchange*: a policy that writes the same subject token back between the phases
  makes it reach the backend although forwardToken is false. A positive expires_in below one
  second becomes 24 hours, and one that is zero, negative or missing the default
  (`oauth2_token_exchange.go:1071-1093`), so the cached token can outlive its own end.
- *backend-jwt*: tokenExpiry and the sources of claim mappings are missing from the
  cache key too, and callers with a token ID are told apart by it alone, whoever issued
  it. The versions of the access run change what the key does hold. The parts of the key are
  joined without escaping (`backendjwt.go:480-535,549-574`, unlike
  `oauth2_token_exchange.go:1130-1138` and `jwtauth.go:354-355`): a header claim `t1|tenant=n1`
  and two claims `t1` and `n1` make one key, and the second request is sent the first one's
  token. CredentialDue asks for the claims only where no text on either side holds a separator.

Every property of a passing run has a mutant: a small change of the modelled code, as a
plausible bug would make it, under which TLC finds the property violated.

**Bounds.** Two requests, two keys and two stripes are what it takes for a request to
race the snapshot of another stripe, for a spent budget to leave a stripe behind, and
for eviction to hit a key in flight. Two goroutines of TokenCache give an owner and a
joiner or purger; that more of them share one fetch is proved (`FetchShared`). In the
suites two requests run against shared caches, quotas and rotations, three through
DelegateCache (the leader of a flight, one who joins and one who comes later); clocks
run past the end of every cached value, and rotations and revocations fall anywhere
before. What other policies may write, and what the endpoint says of a lifetime, is
given route by route. Of the requests of TokenExchange one is edited, at most twice: a
second edit is what it takes to undo the first. Answers on the way may be one tick late,
long enough to be stored after a rotation, a revocation or the end of what they vouch for;
`MaxOpaqueTime` and `MaxClock` lie one past the longest a call and the cached values it
relies on may take together, so a token vouched for too long ago does come up. A stream has up to four lines and ends in three ways; a text is long enough for
a URL, a value inside a value, and a placeholder in three pieces. Two requests of
SemanticCache are enough, since a hit depends on one stored entry; three counted
requests of SubscriptionValidation exceed its limits of one and two within a window that
ends twice. Counters are bounded in
guards by constants marked "bound" in the modules. `MaxTime = 0` freezes the clock in
runs about a single window; local_evict and local_live move it into a second one. In
LimiterCache a reload fails only below `MaxRefs = 2` references, since each failure
leaves counts behind that nothing releases, and one value of the parameters the base key
hashes is enough: a second only adds buckets of its own. Symmetry is used for requests
no definition tells apart, and never with liveness. Deadlock is not checked where a
bounded clock and bounded calls let an instance simply end; TokenCache checks it. The
limiter modules' assumptions on their constants are evaluated in limits
(`LimitsAssumption`).

**Fairness.** local_live: weak fairness of the worker loop (its timer is reset after
every tick), of the steps of a flush (client timeouts end a pipeline), of Close once it
drains, and of requests inside AllowN; none of Redis, other replicas, the clock or new
requests. Both liveness properties assume that Redis stays reachable from some point.
token: weak fairness of goroutines inside Token and Purge, since the endpoint and Redis
answer or time out; none of cancellation, the clock or new calls. The suites state no
liveness: their calls are sequences of steps that client timeouts end.

## 4. Proofs

| Theorem | Module | Establishes |
|---|---|---|
| TypeCorrect | LocalAsyncProofs | types, and flushMu is held exactly by the running flush |
| WakeupNeverLost, MarkerUnique, DownAlwaysArmed | LocalAsyncProofs | NoLostWakeup, OneMarker, DownStaysArmed |
| BaseNeverFallsBack | LocalAsyncProofs | GlobalBaseMonotone, an action property |
| ReplicaLimitKept | LocalAsyncProofs | PerReplicaLimit, within a window whose keys all have room |
| NoTokenLost | LocalAsyncProofs | NoLostCount |
| EachTokenOnce | LocalAsyncProofs | CountedOnce, within such a window, while no pipeline fails half-way |
| WindowTypes, CountsAreExact, LimitKept | LimiterProofs | types, CountExact, AllowWithinLimit |
| DenialsReported, OvershootIsBounded, CountersExpire | LimiterProofs | DenialReported, OvershootBounded, KeysExpire |
| CacheTypes, ReferencesCover | LimiterProofs | types; a cached limiter has a reference for every bucket that lists it |
| RunningStaysOpen, ApiQuotaShared | LimiterProofs | NoClosedInUse, ApiScopeShared, with one instance per level |
| RateContract | LeakyBucketProofs | Conforms |
| GcraTypes, GcraRefinesBucket, MemoryRefinesBucket, GcraRate | LimiterProofs | types, refinement, RateKept |
| GcraTellsTheTruth, MemoryTellsTheTruth | LimiterProofs | ReadsAgree |
| TokenTypes, FetchShared, PurgeFence, TokensThrifty, TiersExpire | TokenCacheProofs | TypeOK; SingleFlight and JoinerHasOwner; StaleRecognised; OneTokenPerSource; NoEternalEntry |
| DelegatesSettle | LimiterProofs | DelegateSettled |
| FailedModelsRest | MessageProofs | RotationRests |
| TargetsWhole | MessageProofs | TargetWhole, where one policy of a route chooses the target |
| BudgetsKept | MessageProofs | BudgetOfModelUsed, under the same condition |
| CredentialsDue | AccessProofs | CredentialDue, where the parameters the digest covers and the token ID tell apart what a token depends on |
| OpaqueCallersDue | AccessProofs | OpaqueAdmitsDue, the part of CallerDue about opaque-token-auth |
| CachedAnswersDue | MessageProofs | CachedAnswerDue |
| ServiceVerdictsDue | ServiceProofs | ServiceVerdictDue |
| JevVerdictsDue | JevProofs | JevVerdictDue |

**Hypotheses.** Every theorem rests on the assumptions its module names on the constants:
ranges, and finite sets of keys and requests (`BucketAssumption` is a hypothesis of
`RateContract`, which LimiterProofs discharges for the instance). Some need more:

- `GcraRefinesBucket`, `GcraRate` and `GcraTellsTheTruth` assume `KeptLongEnough`: an
  entry is kept as long as a full burst takes to drain. `MemoryKeeps` proves it for the
  memory backend, whence `MemoryRefinesBucket` and `MemoryTellsTheTruth`; for Redis it is
  what fails in gcra_fraction.
- `RunningStaysOpen` and `ApiQuotaShared` assume `OneInstancePerLevel`: a route has at
  most one instance of the policy at a level. It is what cache_level lacks, so the
  condition cannot be dropped.
- `ReplicaLimitKept` and `EachTokenOnce` assume `OneWindow` (the clock does not reach a
  window end) and `RoomForAll` (a stripe has room for its keys). Both speak of one window
  of the replica's own counting: a request that read the clock before a window end
  replaces the new window's state, and an evicted key starts again from an estimate of
  zero, and either can grant tokens again (section 3, other behaviour). local_count checks
  them under the same conditions. `NoTokenLost` and `BaseNeverFallsBack` need neither.
- `EachTokenOnce` also assumes `MaxAmbiguous = 0`: a pipeline that failed after a prefix
  of its commands was applied is sent again whole, so its prefix is counted twice. That
  nothing is then missing is `NoTokenLost`, which allows any number of such failures.
- The theorems about model routing rest on `RoutingAssumption`: a rotation the parsers
  accept has at least one model and a suspend duration that is not negative, and schedules
  have minutes of a day and days of a week. They check exactly this, over sequences whose
  length only folds can give, so it is an assumption on the chains; TLC evaluates it on
  every chain of the run messages. The rest are types: finitely many requests, a list of
  budgets, and integers for costs, scales and the specificity of patterns.
- `TargetsWhole` assumes `OneRouter`: one policy of a route chooses the target. With two,
  the one that writes last decides, and a request may leave with the model of one and the
  provider of the other. `BudgetsKept` assumes it because a later router would change the
  model after the budget was chosen, and because the metadata of a request has one charged
  mark, which a second instance of cost-based-model-routing would find set.
- `CredentialsDue` assumes `DigestTells`: versions of backend-jwt between which the digest
  does not distinguish have the same signing key and claim mappings, and a token ID names
  one caller. That two requests without separators have different keys where their tokens
  differ is not assumed but proved. backend_redeploy lacks the first of these. For the exchange it rests on
  `ExchangeAssumption`: what other policies write is a subject's token, never one the
  endpoint has issued; and for backend-jwt on `BackendAssumption`: tokenExpiry is positive,
  which Validate checks, callers that have not been authenticated are one, and an audience has
  no empty entry. Names of claims and of properties are taken to be free of separators, and a
  custom claim to be a text.
- `OpaqueCallersDue` rests on `OpaqueAssumption`: times are whole numbers, some route keeps
  answers longest, and a provider that can be asked has answers. TLC evaluates all three in
  the run access.
- `CachedAnswersDue` rests on `AnswersAssumption` of SemanticCache: thresholds, scores and
  verdicts are numbers, the events of a stream are a sequence, and the ID that a request
  has in place of an unknown API is the name of no API. TLC evaluates it in the run messages.
- `ServiceVerdictsDue` assumes `ServiceValues`: HTTP statuses, severities and similarities
  are numbers, a similarity lies between -1 and 1, invert is Boolean, and the service is
  asked about the phrases of the configurations. TLC evaluates it in the run messages.
- `JevVerdictsDue` assumes `JevValues`: a policy is of one of the three kinds, the default
  questions are usable, thresholds, confidences, values and weights are numbers, and a
  server runs the tool a request names where no member of the request is repeated or oddly
  spelled. Configured questions need not be usable; that a policy is deployed only if they are
  is part of the proof. TLC evaluates it in the run messages.
- Bounds (the last clock value, the amounts granted, the number of calls) are constants
  too: the theorems hold for every value of them.

**Arguments.**

*LocalAsyncProofs.* `TypeOK /\ StructInv` is inductive; `StructInv` ties flushMu to the
program counters and the fields of the one running flush. `NoLostWakeup` then follows by
a case split on who might have been the last to cover a stripe: a request that marks a
key dirty goes on to the compare-and-swap, and the snapshot sets `more` or has the
stripe ahead. `OneMarker` and `DownStaysArmed` are inductive relative to it.

*Counts and bases, in the same module.* GlobalBaseMonotone speaks of a step; its invariant `BaseInv` says that
neither the base of a state nor a reply still to be applied exceeds what Redis has reached
for that window key, and that replies for one key are in the order in which Redis gave
them. flushMu (`StructInv`) keeps the replies of two flushes apart. `LimitInv` adds, for
one window, that what was granted is covered by what the replica knows Redis to have and
by its delta, and that a batch has at most one entry per key: the part of the delta that is
in flight stays in the state until its reply is applied, so a decision taken
meanwhile counts it.

*Tokens on their way to Redis, in the same module.* For every key and window that has not ended, `SumInv` balances

    Redis + delta of the state + evictedPending + Worth(flush) + given up
          >= granted here + granted elsewhere

where the worth of a flush is what it carries of evicted states and has not sent, less what
it has sent of live states and not yet subtracted from their deltas. "Given up" is the
history variable `dropped`, the deltas that AllowN replaces with a state of another window.
Every step moves tokens from one term to another or, where commands of a failed pipeline
took effect, adds to the left; one lemma per step says which. `OnceInv` is the same balance
as an equality without the terms that `OneWindow` and `RoomForAll` leave empty, and
NoLostCount and CountedOnce follow by naming what the flushes hold. The sums run over
batches of any length: `Total` is the last of a sequence of partial sums, and its laws
are proved by induction on the length. The library's induction rules have an operator for
a parameter, so `CountingInduction` and `FiniteInduction` are derived first, for sets in
place of predicates, from the fact that finite subsets are well-founded: a set without the
property would have a smallest one.

*LimiterProofs, fixed window.* CountExact and AllowWithinLimit follow from `CounterInv`: for the
running window and the ones to come, nothing is stored before the first token, the counter is
what was taken unless it has restarted, and what was admitted is within one limit for the live
counter and one for each that is lost. `Dying` is a key whose TTL ends before its window: it
has at least one restart ahead, and `ExpireTtl` and `ScriptTtl` show that a TTL cut to whole
units ends less than one unit early, so each way of setting it costs a window at most one
counter. In memory the entry outlives its window, so the cleanup takes none away early. `DenialInv` says that a denial left no tokens, which is why a later
result cannot replace it in MultiLimiter. OvershootBounded is not inductive:
`OvershootInv` counts the requests that may still charge a window without asking again
(`Chargers`), and asks that what was taken and one largest cost for each of them stay within
the bound of the live counter and of the lost ones. A request enters that set only when the check finds tokens left, and leaves
it with its charge. Whoever is on the way to an earlier window counts too, since the
response may arrive in the next one.

*LimiterProofs, limiter cache.* `CountedInv` (types, `GenInv`: a cached limiter is the last of its
key and open; `RefInv`: it has at least as many references as buckets that list its key)
holds without hypotheses, through a GetPolicy that fails after it has counted earlier
quotas. `HeldInv` says that a deployed policy has the limiters that are cached under the
keys of its bucket; under `OneInstancePerLevel` the bucket of a policy is reconciled by
its own reloads only, and NoClosedInUse and ApiScopeShared follow. For the delegates,
`DelegateInv` says that a flight has one builder, that what waits for it has read the
builder's configuration or will find its result, and that the key map follows the
delegate map before the next build can begin; so what a request has pinned is what it,
or the builder it joined, made of a configuration read in its own call.

*LeakyBucketProofs.* `Conforms` speaks of grants only and is not inductive: the
strengthening relates the backlog to what has been granted since each past time.

*LimiterProofs, GCRA.* Induction on `TatKept`: an entry that is not live has no backlog left, so
dropping it changes nothing the bucket can see. The rate contract is then inherited from
`RateContract` through the instance. `ToldInv` carries what a denied caller was told to
the time it was told of: until the next grant or charge the backlog only drains, so the
request fits then and not before.

*TokenCacheProofs.* `TokenInv` adds to the types: `FlightInv` (inFlight and owner name
each other), `SnapInv` (a fetch remembers the generation of the source it asks),
`SourceInv` (a fetch ends with a token of its source, through a join or reuse too),
`ThriftInv` (freshness is lost for good), `ExpiryInv`, and `PurgeInv` (pending purges
stay within their bound). StaleRecognised is not a guard restated: the check compares
generations, the property speaks of the source a token came from.

*MessageProofs, the routing.* `RestInv` says that a suspension ends exactly a suspend duration after the
last failure of its target, or that both are over: a selection that resets a suspension to
zero only does so when it was over. Which target is found is an argument about going
around: `Around` shows that stepping on from the index reaches every position within one
round, and `PickFacts` that the first target found is not suspended, and that none is
found only if all are. The other policies of the chain are shown once to leave the
rotations' state alone (`StillKeeps`). For TargetWhole, `RoutedInv` keeps, for every
request and policy, that the target in its metadata is one of that policy's and, once
written, that model and upstream are its own. `MatchesWhenDue` is arithmetic: the ranges of
the week into which a schedule is expanded contain a minute exactly if the schedule names
it, whether or not it crosses midnight and whether or not that is the end of the week.
For BudgetOfModelUsed, `BudgetsInv` adds `BilledOK`: from the phase in which
cost-based-model-routing chooses until the end, the budget in the metadata is the one that
stands for the model the request then has (`BudgetDue`), and only a request that has left
the policy behind in the response is charged. `ChecksDue` shows the first for every check
selectTarget makes, its own budget, the nearest pattern or the fallback's, with two patterns
equally near told apart by their order. The counter is then the sum of the bills: one more
bill adds its cost to both (`BillAdded`, by induction on the set of requests), unless the sum
passes the largest counter: in Redis the charge is then refused and not billed, in memory
nothing is claimed from there on, and a sum that has passed it stays past it.

*AccessProofs.* A cached token is right if the key tells everything it depends on. For the
exchange this is `CacheOK` and `SameKey`: an entry was issued for the subject and the form
its key names, and two routes with one key ask for the same form; an entry ends no later
than its token, because half the lifetime, and the least time an entry is kept, are within
the lifetime where the endpoint keeps its word on it (`AliveAt`). Between the phases `WaitsOK` relates what the header phase has left to the
message as it is then, so that the body phase takes a result over only if its subject is
still the one due. For backend-jwt `Signed` is the same relation between an entry and its
key, for the version that made it. `SameKey` compares the keys of two requests part by part:
where neither holds a separator each text is one piece (`PlainKey`), rows of pieces of equal
length tell their entries (`InARow`, `RowTells`) and sets of pairs their functions
(`PairsTell`), so the claims are the same; `DigestTells` adds what the key does not hold. For
opaque-token-auth `OpaqueInv` follows the answer: what a provider called active it did when it
was asked or later, an answer on the way is at most the timeout old, and one in the cache at
most the longest time a route keeps it more; so an admitted request has a provider its route
selects (`MayAnswer`) that called its token active within the two.

*MessageProofs, the cache.* `CacheInv` follows what will be stored from the request on: the text is the one
looked up, the scope is made of its API and its caller's identity (`ScopeOf`), the content is
what the upstream said (`DataOK`), and an entry with a check has its answers (`EntryOK`). That
equal scopes mean one API and one caller (`ScopeTells`, `IdentityTells`) rests on the name of
its place in each identity: without it a subject who is called like an application would share
that application's entries. The attempts of a check change neither what was asked about nor
whose it is.

*ServiceProofs.* One lemma per service says what a verdict that forwards rests on.
`CallAnswered` is the one with retries: the answer taken is that of the first attempt that
had one, and every attempt before it failed; that a first one exists is shown with the
well-founded order on finite sets (`LeastMember`), as are greatest similarities (`BestOf`).
`AzureVerdict`, `BedrockVerdict`, `SemanticVerdict` and `SchemaVerdict` then go through the
ways a direction is decided, and `Inv` keeps them until the exchange is over: a direction
not yet reached has no verdict, nothing is masked before the request was evaluated, and a
policy that runs was accepted (`Parsed`): its thresholds are within their ranges, and its
role is the one the allow list was asked about, through every kind of credentials.

*JevProofs.* A verdict follows from the rule and the last reply (`OutcomeOK`, by
`Concluded`): `AnswerDecides` says that a usable answer blocks exactly when it reaches its
threshold with confidence, and `Assessed` that the loop over the questions, which stops at
the first unusable one, finds whether every answer is usable and whether one blocks. What
a choice weighs is a fold over its options; `WeighsExist` shows that the sums it stands for
exist, by induction on the number of options (`CountingUp`, derived from the well-founded
order on finite sets), and `ValueInt` that the weight is therefore a number. Whose rule it
is, is carried by `IntentInv`, for a call that goes on, and by `ResultInv`, which keeps the request
of a tool call until its response: a request read in several ways is under the rule for
any tool, and one read in a single way names the tool the server runs (`RuleOfResult`).

**Only model-checked.** Liveness and everything with fairness, which the prover cannot
reason about: EventuallyFlushed, RecoversFromOutage and CallsReturn. The properties of the
parts of messages other than model routing, the cache, the Jev screens and the verdicts of
the guardrails that ask a service: stream guardrails and tool filtering
(GuardrailVerdictDue), masking (UpstreamSeesNoPII, ClientReadsOriginal, BedrockRoundTrip) and
MCP (McpGoverned, McpListHonest) are about texts, streams
and messages that folds and recursive functions take apart, and
what these compute for every input is induction over data, out of the prover's reach. Within
reach, and left: ChargedOnce, and what CallerDue says of jwt-auth.

## 5. Plan

1. **Proofs**: the part of CallerDue about jwt-auth, and ChargedOnce.
2. **FlushCoordinator**: several limiters on shards, deadlines, base-tick reference
   counts, grouping by client, the order of locks; composed with LocalAsyncLimiter.
3. **Budgets of cost-based routing**: the limiter cache of `budget.go` with its reference
   counts, as LimiterCache.
4. **Caches left**: the embedding LRU of semantic-tool-filtering, the credential
   registries of oauth2-generator.

## 6. Not modelled

- *Cryptography and signatures*: mtls-auth, websub-hmac-auth, aws-authentication; in the
  modelled authentication policies a signature is the name of its key.
- *Conversions of formats*: the openai-to-* transformers, json-xml-mediator, llm-cost and
  azure-llm-cost (arithmetic over usage JSON). A model of these would be a copy.
- *One edit of one message, no state*: headers, hosts, paths, redirects, cors, prompt
  decoration and templates, logging and analytics filters.
- *One call or lookup per request*: api-key-auth, basic-auth, opa-policy,
  interceptor-service, mcp-tool-schema-validator.
- *State left for later* (plan): several limiters on one coordinator shard,
  semantic-tool-filtering.
- *Construction*: limiter factory and options, Redis clients and TLS options.
- *Policies without Go code*: prompt-compressor and the two guardrails around Python models.
- The policy engine itself, which is outside this repository and appears only as the
  caller of the handlers.
