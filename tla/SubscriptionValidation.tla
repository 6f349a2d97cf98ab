----------------------- MODULE SubscriptionValidation -----------------------
(***************************************************************************)
(* subscription-validation: a request goes on if it shows the token of an  *)
(* active subscription, or comes from an application that has one, and the *)
(* plan of the subscription still has quota.  The counters of all policies *)
(* are one map under one mutex, in the process.  A request reads the clock *)
(* before it takes the mutex, so others may be counted in between; a       *)
(* cleaner drops counters that were not used for EvictionTTL.              *)
(*                                                                         *)
(* The subscription store belongs to the gateway: a subscription is [limit,*)
(* unit, stop] by API and credential, and changes under running requests.  *)
(* Times are in ticks, Second of them to a second.                         *)
(***************************************************************************)
EXTENDS Integers, Sequences, FiniteSets, SequencesExt, FiniteSetsExt

CONSTANTS SubscriptionParams,  \* raw parameters of the policies
          Demands,             \* requests: [api, headers, cookies, live, app]
          Stores,              \* what the store may hold: API and credential to subscription
          Second,
          Units,               \* the window of a throttle unit
          EvictionTTL,
          NumDemands,          \* requests at the same time
          MaxDelay,            \* how long a request waits for the mutex
          MaxDemands, MaxSubscriptionTime,
          MaxUpdates           \* changes of the store

VARIABLES instant, store, updates, rateLimits, demands,
          answer,   \* to the last request, until another comes
          history   \* the requests that had a subscription, in the order they were counted

subscriptionVars == <<instant, store, updates, rateLimits, demands, answer, history>>

Idle == <<>>
NoAnswer == [status |-> 0]

---------------------------------------------------------------------------
\* A blank header keeps the default; cookies are read only if one is named.
\* "other" is a value that is not a string.
MergeConfig(raw) ==
  [header |-> IF raw.header \in {"absent", "other", ""} THEN "subscription-key" ELSE raw.header,
   cookie |-> IF raw.cookie \in {"absent", "other"} THEN "" ELSE raw.cookie]

\* A unit that is not known has no window.
WindowDuration(unit) == IF unit \in DOMAIN Units THEN Units[unit] ELSE 0

\* Cookies are [name, value] with names in lower case; "" is a part without "=".
GetCookieValue(cookies, name) ==
  LET named == {i \in DOMAIN cookies : cookies[i].name = name}
  IN IF name = "" \/ named = {} THEN "" ELSE cookies[Min(named)].value

\* Mutant: a cookie that is repeated stays.
StripFirst(cookies, name) ==
  LET named == {i \in DOMAIN cookies : cookies[i].name = name}
  IN IF named = {} THEN cookies ELSE RemoveAt(cookies, Min(named))

StripCookie(cookies, name) == SelectSeq(cookies, LAMBDA c : c.name # name)

\* The credential that decides, from what the client sent and not from what
\* other policies made of it: only the first value of the header counts.
Credential(cfg, d) ==
  LET values == IF cfg.header \in DOMAIN d.headers THEN d.headers[cfg.header] ELSE <<>>
      cookie == GetCookieValue(d.cookies, cfg.cookie)
  IN CASE values # <<>> /\ values[1] # "" -> [kind |-> "header", id |-> values[1]]
       [] (values = <<>> \/ values[1] = "") /\ cookie # "" -> [kind |-> "cookie", id |-> cookie]
       [] (values = <<>> \/ values[1] = "") /\ cookie = "" /\ d.app # "" -> [kind |-> "app", id |-> d.app]
       [] OTHER -> [kind |-> "none", id |-> ""]

ForbiddenResponse == [status |-> 403]

\* What the upstream receives: a header goes as a whole, of the cookies the one
\* that was read, by all its names.
Forward(cfg, d, kind) ==
  [headers |-> IF kind = "header" THEN [h \in (DOMAIN d.headers) \ {cfg.header} |-> d.headers[h]] ELSE d.headers,
   cookies |-> IF kind = "cookie" THEN StripCookie(d.live, cfg.cookie) ELSE d.live]

Admit(d) == [status |-> 200, sent |-> Forward(d.cfg, d.msg, d.cred.kind), cfg |-> d.cfg, cred |-> d.cred]

\* Whole seconds, rounded down, but at least one.
RateLimitResponse(reset) ==
  [status |-> 429, retryAfter |-> Second * Max({1, Max({0, reset - instant}) \div Second})]

---------------------------------------------------------------------------
\* The active subscription of a token, or of an application, if there is one.
ValidateByToken(api, token) == {store[k] : k \in {<<FALSE, <<api, token>>>>} \intersect DOMAIN store}
ValidateByApplication(api, app) == {store[k] : k \in {<<TRUE, <<api, app>>>>} \intersect DOMAIN store}

\* The subscription is looked up, and the clock is read.  A request takes the
\* first free place.
OnRequestHeaders(i, raw, msg) ==
  LET cfg == MergeConfig(raw)
      cred == Credential(cfg, msg)
      found == IF msg.api = "" \/ cred.kind = "none" THEN {}
               ELSE IF cred.kind = "app" THEN ValidateByApplication(msg.api, cred.id) ELSE ValidateByToken(msg.api, cred.id)
      Demand(entry) == [cfg |-> cfg, cred |-> cred, msg |-> msg, key |-> <<msg.api, cred.id>>, entry |-> entry, at |-> instant]
      Throttled(entry) == entry.limit > 0 /\ WindowDuration(entry.unit) # 0
  IN /\ demands[i] = Idle /\ Len(history) < MaxDemands /\ \A j \in 1..(i - 1) : demands[j] # Idle
     /\ \/ found = {} /\ answer' = ForbiddenResponse /\ UNCHANGED demands
        \/ \E entry \in found :
             \/ ~Throttled(entry) /\ answer' = Admit(Demand(entry)) /\ UNCHANGED demands
             \/ Throttled(entry) /\ demands' = [demands EXCEPT ![i] = Demand(entry)] /\ answer' = NoAnswer
     /\ UNCHANGED <<instant, store, updates, rateLimits, history>>

\* Mutant: a counter goes on for as long as it is used.
NeverEnds(rl, at, window) == FALSE

WindowEnded(rl, at, window) == at - rl.windowStart >= window

\* Under the mutex.  A counter of an ended window starts again, with the clock
\* the request has read; a plan without stop goes on beyond its limit.
CheckRateLimit(i) ==
  LET d == demands[i]
      window == WindowDuration(d.entry.unit)
      fresh == d.key \notin DOMAIN rateLimits \/ WindowEnded(rateLimits[d.key], d.at, window)
      rl == IF fresh THEN [windowStart |-> d.at, count |-> 1, lastSeen |-> d.at]
            ELSE [rateLimits[d.key] EXCEPT !.count = @ + 1, !.lastSeen = d.at]
      refused == ~fresh /\ rl.count > d.entry.limit /\ d.entry.stop
  IN /\ d # Idle
     /\ rateLimits' = [k \in DOMAIN rateLimits \union {d.key} |-> IF k = d.key THEN rl ELSE rateLimits[k]]
     /\ answer' = IF refused THEN RateLimitResponse(rl.windowStart + window) ELSE Admit(d)
     /\ demands' = [demands EXCEPT ![i] = Idle]
     /\ history' = Append(history, [key |-> d.key, at |-> d.at, entry |-> d.entry, ok |-> ~refused,
                                    again |-> IF refused THEN instant + answer'.retryAfter ELSE 0])
     /\ UNCHANGED <<instant, store, updates>>

\* Mutant: counters are dropped long before their last use is EvictionTTL ago.
EagerCleaner ==
  /\ rateLimits' = [k \in {k \in DOMAIN rateLimits : rateLimits[k].lastSeen > instant - 2} |-> rateLimits[k]]
  /\ UNCHANGED <<instant, store, updates, demands, answer, history>>

RunRateLimitCleaner ==
  /\ rateLimits' = [k \in {k \in DOMAIN rateLimits : rateLimits[k].lastSeen >= instant - EvictionTTL} |-> rateLimits[k]]
  /\ UNCHANGED <<instant, store, updates, demands, answer, history>>

\* Subscriptions come, go and change their plans.
UpdateStore ==
  /\ updates < MaxUpdates /\ updates' = updates + 1 /\ store' \in Stores
  /\ UNCHANGED <<instant, rateLimits, demands, answer, history>>

Pass ==
  /\ instant < MaxSubscriptionTime
  /\ \A i \in DOMAIN demands : demands[i] # Idle => instant - demands[i].at < MaxDelay
  /\ instant' = instant + 1 /\ UNCHANGED <<store, updates, rateLimits, demands, answer, history>>

SubscriptionInit ==
  /\ instant = 0 /\ store \in Stores /\ updates = 0 /\ rateLimits = <<>> /\ history = <<>> /\ answer = NoAnswer
  /\ demands = [i \in 1..NumDemands |-> Idle]

SubscriptionNext ==
  \/ \E i \in 1..NumDemands, raw \in SubscriptionParams, msg \in Demands : OnRequestHeaders(i, raw, msg)
  \/ \E i \in 1..NumDemands : CheckRateLimit(i)
  \/ RunRateLimitCleaner
  \/ UpdateStore
  \/ Pass

---------------------------------------------------------------------------
\* Properties

\* The requests of the key of request i in the last w seconds up to it, as the
\* clock they read tells, and not counted after it.
Recent(i, w) == {j \in 1..i : history[j].key = history[i].key /\ history[j].at > history[i].at - w /\ history[j].at <= history[i].at}

\* However requests of a credential wait for the mutex, counters are dropped and
\* plans change: no window of the length of a plan sees more than one request
\* less than twice its limit go on, where the plan stops at the limit and the
\* cleaner does not cut its window; a request is refused for its quota only if
\* as many requests as the limit were made shortly before it; and one that
\* comes a second after the time a refused one was told, which leaves out the
\* fraction of a second, is not refused for what was counted before.
QuotaKept ==
  \A i \in DOMAIN history :
    LET h == history[i]
        w == WindowDuration(h.entry.unit)
        went == {j \in Recent(i, w) : history[j].ok}
        counted == {j \in 1..(i - 1) : history[j].key = h.key /\ history[j].at > h.at - w - MaxDelay}
    IN /\ (h.ok /\ h.entry.stop /\ w < EvictionTTL /\ \A j \in went : history[j].entry = h.entry) =>
            Cardinality(went) <= 2 * h.entry.limit - 1
       /\ ~h.ok => Cardinality(counted) >= h.entry.limit
       /\ \A j \in 1..(i - 1) :
            (~h.ok /\ ~history[j].ok /\ history[j].key = h.key /\ history[j].entry = h.entry /\ h.at >= history[j].again + Second - 1) =>
              Cardinality({k \in counted : k > j}) >= h.entry.limit

\* The credential that admitted a request stays in the gateway.
TokenStripped ==
  answer.status = 200 =>
    /\ answer.cred.kind = "header" => answer.cfg.header \notin DOMAIN answer.sent.headers
    /\ answer.cred.kind = "cookie" => GetCookieValue(answer.sent.cookies, answer.cfg.cookie) = ""

=============================================================================
