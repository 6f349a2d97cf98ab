----------------------------- MODULE MCMessages -----------------------------
(***************************************************************************)
(* The policies that act on the messages of a route, for TLC.  A behaviour *)
(* is one of the parts below: the model-routing policies, semantic-cache,  *)
(* the guardrails that ask a service or the Jev screens, extended here, or *)
(* one of the components instanced over the shared variables s1 to s9.     *)
(* The variables a part does not use keep their initial value.             *)
(***************************************************************************)
EXTENDS ModelRouting, SemanticCache, ServiceGuardrails, JevScreening, TrafficValues

VARIABLES part, s1, s2, s3, s4, s5, s6, s7, s8, s9

slots == <<s1, s2, s3, s4, s5, s6, s7, s8, s9>>

G == INSTANCE GuardrailStream WITH
  RawPolicies <- GuardrailRaw, Events <- GuardrailEvents, Pieces <- GuardrailPieces, MaxLines <- 4,
  Resolvable <- UrlsResolvable, Reachable <- UrlsReachable, Pattern <- GuardrailPattern,
  kind <- s1, pol <- s2, phase <- s3, shape <- s4, buf <- s5, meta <- s6, sent <- s7, total <- s8, last <- s9

P == INSTANCE PiiMasking WITH
  Detectors <- PiiDetectors, RawParams <- PiiRawParams, Contents <- PiiContents, Counters <- <<"0", "1", "2">>,
  MaxTail <- 3, MaxEvent <- 2,
  redact <- s1, phase <- s2, content <- s3, piiMap <- s4, upstream <- s5, reply <- s6, held <- s7, out <- s8, form <- s9

T == INSTANCE ToolFiltering WITH
  RawParams <- ToolParams, Bodies <- ToolBodies, Replies <- ToolReplies, One <- 10, MaxLimit <- 20, MinBytes <- 2, MaxTimeout <- 2,
  conf <- s1, phase <- s2, body <- s3, asked <- s4, reply <- s5, out <- s6, usage <- s7

M == INSTANCE McpChain WITH
  Chains <- McpChains, Messages <- McpRequests, Answers <- McpAnswers, MaxRequests <- 2, Unprintable <- {"y"},
  chain <- s1, phase <- s2, at <- s3, req <- s4, st <- s5, answer <- s6, ran <- s7, served <- s8, folds <- s9

L == INSTANCE RateLimitPhases WITH
  Chains <- PhaseChains, Requests <- {"r1", "r2"}, Messages <- PhaseMessages, Responses <- PhaseResponses, Missing <- PhaseMissing,
  chain <- s1, msg <- s2, res <- s3, st <- s4, meta <- s5, charged <- s6, failed <- s7, told <- s8

V == INSTANCE SubscriptionValidation WITH
  SubscriptionParams <- SubscriptionSettings, Demands <- SubscriptionDemands, Stores <- SubscriptionStores, Units <- SubscriptionUnits,
  Second <- 2, EvictionTTL <- 5, NumDemands <- 2, MaxDelay <- 1, MaxDemands <- 3, MaxSubscriptionTime <- 5, MaxUpdates <- 1,
  instant <- s1, store <- s2, rateLimits <- s3, demands <- s4, history <- s5, answer <- s6, updates <- s7

\* A route without a model-routing policy.
NoRouting ==
  /\ chain = <<>> /\ now = StartTime
  /\ index = <<>> /\ suspended = <<>> /\ spent = <<>> /\ lastFail = <<>>
  /\ req = [r \in Requests |-> Fresh]

\* A route without a cache.
NoCache == conf = [ok |-> FALSE] /\ entries = {} /\ calls = <<>> /\ asked = 0 /\ last = [k |-> "none"]

\* A route without a guardrail that asks a service.
NoService ==
  /\ guard = [kind |-> "none"] /\ stage = "unconfigured" /\ content = <<>> /\ sent = <<>> /\ masked = <<>> /\ back = <<>>
  /\ log = [request |-> Because("off"), response |-> Because("off")]

\* A route without a Jev screen.
NoScreen ==
  /\ screen = [kind |-> "none"] /\ turn = "unconfigured"
  /\ dir = "request" /\ msg = None /\ rule = None /\ text = <<>> /\ reply = None /\ outcome = Outcome(TRUE, "none")

NoSlots == s1 = 0 /\ s2 = 0 /\ s3 = 0 /\ s4 = 0 /\ s5 = 0 /\ s6 = 0 /\ s7 = 0 /\ s8 = 0 /\ s9 = 0

SuiteInit ==
  \/ part = "routing" /\ Init /\ NoCache /\ NoService /\ NoScreen /\ NoSlots
  \/ part = "cache" /\ CacheInit /\ NoRouting /\ NoService /\ NoScreen /\ NoSlots
  \/ part = "services" /\ ServiceInit /\ NoRouting /\ NoCache /\ NoScreen /\ NoSlots
  \/ part = "jev" /\ JevInit /\ NoRouting /\ NoCache /\ NoService /\ NoSlots
  \/ /\ NoRouting /\ NoCache /\ NoService /\ NoScreen
     /\ \/ part = "guardrails" /\ G!Init
        \/ part = "pii" /\ P!Init
        \/ part = "tools" /\ T!Init /\ s8 = 0 /\ s9 = 0
        \/ part = "mcp" /\ M!McpInit
        \/ part = "limits" /\ L!Init /\ s9 = 0
        \/ part = "subscription" /\ V!SubscriptionInit /\ s8 = 0 /\ s9 = 0

\* The variables of the components that are extended.
extended == <<vars, cacheVars, serviceVars, jevVars>>

SuiteNext ==
  \/ part = "routing" /\ Next /\ UNCHANGED <<part, cacheVars, serviceVars, jevVars, slots>>
  \/ part = "cache" /\ CacheNext /\ UNCHANGED <<part, vars, serviceVars, jevVars, slots>>
  \/ part = "services" /\ ServiceNext /\ UNCHANGED <<part, vars, cacheVars, jevVars, slots>>
  \/ part = "jev" /\ JevNext /\ UNCHANGED <<part, vars, cacheVars, serviceVars, slots>>
  \/ part = "guardrails" /\ G!Next /\ UNCHANGED <<part, extended>>
  \/ part = "pii" /\ P!Next /\ UNCHANGED <<part, extended>>
  \/ part = "tools" /\ T!Next /\ UNCHANGED <<part, extended, s8, s9>>
  \/ part = "mcp" /\ M!McpNext /\ UNCHANGED <<part, extended>>
  \/ part = "limits" /\ L!Next /\ UNCHANGED <<part, extended, s9>>
  \/ part = "subscription" /\ V!SubscriptionNext /\ UNCHANGED <<part, extended, s8, s9>>

SuiteSpec == SuiteInit /\ [][SuiteNext]_<<part, extended, slots>>

ASSUME ServiceInputs == ServiceValues

ASSUME JevInputs == JevValues

-----------------------------------------------------------------------------
\* Text guardrails: an exchange completes exactly when its text as a whole
\* satisfies the configuration, however the stream is cut (for the url guardrail, as
\* long as no event cuts the token http or a URL that follows a letter), and what a
\* client of a count guardrail has received is inside the limits that cannot be
\* repaired.
\* typesafe-jev-tool-filtering: a request is filtered as a whole or not at all, to
\* one that still offers the tool it names or needs.
GuardrailVerdictDue ==
  /\ part = "guardrails" => G!VerdictOfWholeText /\ G!GateHolds
  /\ part = "tools" => T!FilteredRequestDue

\* pii-masking-regex: no PII value of a text that could be read and written back
\* leaves for the upstream, in whole or in part.
UpstreamSeesNoPII == part = "pii" => P!UpstreamSeesNoPII

\* pii-masking-regex: the client reads the values it sent, however the stream
\* cuts the placeholders, and the closing event is not lost.
ClientReadsOriginal == part = "pii" => P!ClientReadsOriginal

\* The MCP policies: what the server runs is what every policy of the chain
\* has judged, however the request is encoded or framed; and however it is spelled,
\* but for a server that folds member names behind policies that match them exactly.
McpGoverned == part = "mcp" => M!McpGoverned

\* The MCP policies: a list shows only what the client could call, and a token
\* a peer policy has written reaches the server.
McpListHonest == part = "mcp" => M!McpListHonest

\* The rate-limit policies: a request that was served has been charged exactly
\* once in every quota that applies to it, whichever phases knew the costs.
\* subscription-validation: a request is let through within the quota of its own
\* plan and refused only beyond it, and its credential stays in the gateway.
ChargedOnce ==
  /\ part = "limits" => L!ChargedOnce
  /\ part = "subscription" => V!QuotaKept /\ V!TokenStripped

=============================================================================
