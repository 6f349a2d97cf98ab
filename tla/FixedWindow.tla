---------------------------- MODULE FixedWindow ----------------------------
(***************************************************************************)
(* The fixed-window limiters of policies/advanced-ratelimit/algorithms/    *)
(* fixedwindow behind a MultiLimiter, for one key: memory.go, where a call *)
(* runs under a mutex, and redis.go, where it is a clock reading followed  *)
(* by separate Redis commands.  Requests run concurrently; each calls      *)
(* AllowN, ConsumeOrClampN, or first GetAvailable and, once the upstream   *)
(* has answered, ConsumeN (OnRequestHeaders and OnResponseBody).           *)
(***************************************************************************)
EXTENDS Integers, Sequences, FiniteSets

CONSTANTS
    Deployments,   \* configurations to consider, each of limiters in order
    Reqs,          \* concurrent requests
    MaxTokens,     \* bound: largest cost of a call
    Grace,         \* how long memory keeps the entry of an ended window
    Jitter,        \* the Redis TTL is lengthened by less than this
    ExpireUnit,    \* EXPIRE counts whole seconds
    ScriptUnit,    \* the script's TTL counts whole milliseconds
    Never,         \* expiration of a Redis key without TTL
    LastTime,      \* bound: last clock value
    MaxCalls       \* bound: calls of a request

\* A deployment: the backend, limit and duration of each limiter behind the
\* MultiLimiter, the calls its requests make, and whether EXPIRE may fail.
IsDeployment(d) ==
    /\ d.backend \in {"memory", "redis"}
    /\ d.limit \in Seq(Nat \ {0}) /\ d.duration \in Seq(Nat \ {0})
    /\ Len(d.limit) > 0 /\ Len(d.limit) = Len(d.duration)
    /\ d.ops \subseteq {"allow", "clamp", "charge"} /\ d.expireFails \in BOOLEAN

\* Every TTL ends before Never.
ASSUME FixedWindowAssumption ==
    /\ \A d \in Deployments : IsDeployment(d)
    /\ IsFiniteSet(Reqs)
    /\ MaxTokens \in Nat \ {0} /\ Grace \in Nat /\ Jitter \in Nat \ {0}
    /\ ScriptUnit \in Nat \ {0} /\ ExpireUnit \in Nat /\ ScriptUnit <= ExpireUnit
    /\ LastTime \in Nat /\ MaxCalls \in Nat /\ Never \in Nat /\ LastTime + ExpireUnit < Never
    /\ \A d \in Deployments : \A i \in 1..Len(d.duration) :
          LastTime + d.duration[i] + Jitter + Grace < Never

VARIABLES
    conf,       \* the deployment, fixed from the start
    clock,      \* the time
    store,      \* per limiter and window start: the counter and when it expires
    req,        \* the state of each request
    taken,      \* history: tokens counted per limiter and window
    admitted    \* history: tokens of AllowN calls a limiter allowed, per window

windowVars == <<conf, clock, store, req, taken, admitted>>

Limiters == 1..Len(conf.limit)
PolicyLimit == conf.limit
PolicyDuration == conf.duration
PolicyBackend == conf.backend

Times == 0..LastTime

LesserOf(a, b) == IF a < b THEN a ELSE b
GreaterOf(a, b) == IF a < b THEN b ELSE a

WindowStart(i, t) == (t \div PolicyDuration[i]) * PolicyDuration[i]
WindowEnd(i, t) == WindowStart(i, t) + PolicyDuration[i]

Gone == [count |-> 0, expiration |-> 0]

\* The counter a call made at time t finds.  Redis hides an expired key; memory
\* ignores an entry after its expiration.
CurrentCount(i, t) ==
    LET entry == store[i][WindowStart(i, t)] IN
    IF (IF PolicyBackend = "memory" THEN clock > entry.expiration ELSE clock >= entry.expiration)
    THEN 0 ELSE entry.count

RemainingUnclamped(i, count) == PolicyLimit[i] - count

Remaining(i, count) == GreaterOf(PolicyLimit[i] - count, 0)

NoResult == [allowed |-> TRUE, remaining |-> -1]
Result == [allowed : BOOLEAN, remaining : Nat \cup {-1}]

Idle == [pc |-> "idle", op |-> "allow", n |-> 0, i |-> 1, read |-> 0,
         result |-> NoResult, denied |-> FALSE, calls |-> 0]

WindowInit ==
    /\ conf \in Deployments
    /\ clock = 0
    /\ store = [i \in Limiters |-> [w \in Times |-> Gone]]
    /\ req = [r \in Reqs |-> Idle]
    /\ taken = [i \in Limiters |-> [w \in Times |-> 0]]
    /\ admitted = [i \in Limiters |-> [w \in Times |-> 0]]

AdvanceClock ==
    /\ clock < LastTime
    /\ clock' = clock + 1
    /\ UNCHANGED <<conf, store, req, taken, admitted>>

-----------------------------------------------------------------------------
(* MultiLimiter: the limiters one after the other.                          *)

MostRestrictiveByRemaining(seen, result) ==
    IF seen = NoResult \/ result.remaining < seen.remaining THEN result ELSE seen

MostRestrictive(seen, result) ==
    IF seen = NoResult \/ ~result.allowed \/ result.remaining < seen.remaining
    THEN result ELSE seen

\* The call of limiter i returned: AllowN stops at the first denial, the others
\* run every limiter.
Returned(r, result) ==
    LET q == req[r]
        last == q.i + 1 \notin Limiters \/ (q.op = "allow" /\ ~result.allowed) IN
    req' = [req EXCEPT ![r] = [q EXCEPT
               !.pc = IF last THEN "done" ELSE "call",
               !.i = IF last THEN q.i ELSE q.i + 1,
               !.result = MostRestrictive(q.result, result),
               !.denied = q.denied \/ ~result.allowed]]

\* A limiter returned an error: the MultiLimiter gives up at once.
Failed(r) == req' = [req EXCEPT ![r].pc = "error"]

Start(r, op, n) ==
    /\ req[r].pc = "idle" /\ req[r].calls < MaxCalls
    /\ req' = [req EXCEPT ![r] = [Idle EXCEPT
                  !.pc = IF op = "charge" THEN "check" ELSE "call",
                  !.op = op, !.n = n, !.read = clock, !.calls = req[r].calls + 1]]
    /\ UNCHANGED <<conf, clock, store, taken, admitted>>

Finish(r) ==
    /\ req[r].pc \in {"done", "error"}
    /\ req' = [req EXCEPT ![r] = [Idle EXCEPT !.calls = req[r].calls]]
    /\ UNCHANGED <<conf, clock, store, taken, admitted>>

-----------------------------------------------------------------------------
(* CheckAvailable, before the request goes upstream.                          *)

\* The time for which limiter q.i answers: Redis looks up the window of the
\* earlier clock reading.
AskedAt(q) == IF PolicyBackend = "memory" THEN clock ELSE q.read

CheckPassesAtLimit(i, t) == PolicyLimit[i] - CurrentCount(i, t) >= 0

CheckPasses(i, t) == Remaining(i, CurrentCount(i, t)) > 0

CheckAvailable(r) ==
    LET q == req[r] IN
    /\ q.pc = "check"
    /\ req' = [req EXCEPT ![r] =
          IF ~CheckPasses(q.i, AskedAt(q)) THEN [q EXCEPT !.pc = "done"]
          ELSE IF q.i + 1 \in Limiters THEN [q EXCEPT !.i = q.i + 1, !.read = clock]
          ELSE [q EXCEPT !.pc = "upstream"]]
    /\ UNCHANGED <<conf, clock, store, taken, admitted>>

\* The response arrives: its cost is now charged, whatever it is.
Respond(r) ==
    /\ req[r].pc = "upstream"
    /\ req' = [req EXCEPT ![r].pc = "call", ![r].i = 1]
    /\ UNCHANGED <<conf, clock, store, taken, admitted>>

-----------------------------------------------------------------------------
(* The limiters.                                                            *)

Count(i, w, n) == taken' = [taken EXCEPT ![i][w] = @ + n]

Admit(q, w, allowed) ==
    admitted' = IF q.op = "allow" /\ allowed
                THEN [admitted EXCEPT ![q.i][w] = @ + q.n] ELSE admitted

\* What a call with cost n adds to a counter that stands at count.
Consumed(op, i, count, n) ==
    CASE op = "allow"  -> IF count + n <= PolicyLimit[i] THEN n ELSE 0
      [] op = "clamp"  -> LesserOf(n, Remaining(i, count))
      [] op = "charge" -> n

Allows(op, i, count, n) == count + n <= PolicyLimit[i]

\* Memory keeps one entry per key, so a write for this window drops the others.
WriteEntry(i, w, count) ==
    [store EXCEPT ![i] = [v \in Times |->
        IF v = w THEN [count |-> count, expiration |-> w + PolicyDuration[i] + Grace] ELSE Gone]]

MemoryCall(r) ==
    LET q == req[r]
        i == q.i
        w == WindowStart(i, clock)
        count == CurrentCount(i, clock)
        consumed == Consumed(q.op, i, count, q.n)
        left == Remaining(i, count + consumed)
        allowed == Allows(q.op, i, count, q.n) IN
    /\ PolicyBackend = "memory" /\ q.pc = "call"
    /\ store' = IF consumed > 0 THEN WriteEntry(i, w, count + consumed) ELSE store
    /\ Count(i, w, consumed)
    /\ Admit(q, w, allowed)
    /\ Returned(r, [allowed |-> allowed, remaining |-> left])
    /\ UNCHANGED <<conf, clock>>

\* removeExpired, on the cleanup ticker.
RemoveExpiredEntries ==
    /\ PolicyBackend = "memory"
    /\ store' = [i \in Limiters |-> [w \in Times |->
                   IF clock > store[i][w].expiration THEN Gone ELSE store[i][w]]]
    /\ UNCHANGED <<conf, clock, req, taken, admitted>>

\* The Redis limiter reads the clock and builds the key of the window.
RedisReadClock(r) ==
    /\ PolicyBackend = "redis" /\ req[r].pc = "call"
    /\ req' = [req EXCEPT ![r].pc = IF req[r].op = "clamp" THEN "script" ELSE "incr",
                          ![r].read = clock]
    /\ UNCHANGED <<conf, clock, store, taken, admitted>>

RedisAllowsOneMore(i, count) == count <= PolicyLimit[i] + 1

RedisAllows(i, count) == count <= PolicyLimit[i]

RedisResult(i, count) ==
    [allowed |-> RedisAllows(i, count), remaining |-> Remaining(i, count)]

FirstOne(count, n) == count = 1

FirstInWindow(count, n) == count = n

\* INCRBY counts the request whether or not it is allowed; whoever finds that it
\* created the key goes on to set its TTL.
RedisIncr(r) ==
    LET q == req[r]
        i == q.i
        w == WindowStart(i, q.read)
        count == CurrentCount(i, q.read) + q.n
        created == clock >= store[i][w].expiration IN
    /\ q.pc = "incr"
    /\ store' = [store EXCEPT ![i][w] =
                    [count |-> count, expiration |-> IF created THEN Never ELSE @.expiration]]
    /\ Count(i, w, q.n)
    /\ Admit(q, w, RedisAllows(i, count))
    /\ IF FirstInWindow(count, q.n)
       THEN req' = [req EXCEPT ![r].pc = "expire"]
       ELSE Returned(r, RedisResult(i, count))
    /\ UNCHANGED <<conf, clock>>

\* An INCRBY, GET or script that fails changes nothing.
RedisError(r) ==
    /\ PolicyBackend = "redis" /\ req[r].pc \in {"check", "incr", "script"}
    /\ Failed(r)
    /\ UNCHANGED <<conf, clock, store, taken, admitted>>

\* A TTL in whole units, rounded down.
WholeUnits(ttl, unit) == (ttl \div unit) * unit

TtlJitterOnly(i, read, t, jitter) == jitter

\* time.Until(windowEnd) at time t, for the window of time read, and the jitter.
Ttl(i, read, t, jitter) == WindowEnd(i, read) + jitter - t

\* go-redis sends a TTL as whole seconds, one that is below a second as one.
InSeconds(ttl) ==
    IF ttl \in 1..(ExpireUnit - 1) THEN ExpireUnit ELSE WholeUnits(ttl, ExpireUnit)

\* A TTL that is over deletes the key.
RedisExpire(r, jitter) ==
    LET q == req[r]
        i == q.i
        w == WindowStart(i, q.read)
        ttl == InSeconds(Ttl(i, q.read, clock, jitter)) IN
    /\ q.pc = "expire"
    /\ store' = [store EXCEPT ![i][w] =
                    IF clock >= @.expiration \/ ttl <= 0 THEN Gone
                    ELSE [@ EXCEPT !.expiration = clock + ttl]]
    /\ Returned(r, RedisResult(i, q.n))
    /\ UNCHANGED <<conf, clock, taken, admitted>>

RedisExpireFails(r) ==
    /\ conf.expireFails
    /\ req[r].pc = "expire"
    /\ Failed(r)
    /\ UNCHANGED <<conf, clock, store, taken, admitted>>

\* fixedwindow.lua: SET with a TTL for a new counter, INCRBY for an old one.
ScriptWrite(i, w, count, consumed, end) ==
    IF consumed = 0 THEN store
    ELSE [store EXCEPT ![i][w] = [count |-> count + consumed,
                                  expiration |-> IF count = 0 THEN end ELSE @.expiration]]

\* The TTL was computed when the clock was read, and counts from the execution
\* of the script; Redis refuses to SET one of 0 milliseconds.
RedisScript(r, jitter) ==
    LET q == req[r]
        i == q.i
        w == WindowStart(i, q.read)
        count == CurrentCount(i, q.read)
        consumed == Consumed("clamp", i, count, q.n)
        ttl == WholeUnits(Ttl(i, q.read, q.read, jitter), ScriptUnit) IN
    /\ q.pc = "script"
    /\ count = 0 /\ consumed > 0 => ttl > 0
    /\ store' = ScriptWrite(i, w, count, consumed, clock + ttl)
    /\ Count(i, w, consumed)
    /\ Returned(r, [allowed |-> consumed = q.n, remaining |-> Remaining(i, count + consumed)])
    /\ UNCHANGED <<conf, clock, admitted>>

WindowNext ==
    \/ AdvanceClock
    \/ RemoveExpiredEntries
    \/ \E r \in Reqs :
        \/ \E op \in conf.ops, n \in 1..MaxTokens : Start(r, op, n)
        \/ Finish(r) \/ CheckAvailable(r) \/ Respond(r)
        \/ MemoryCall(r)
        \/ RedisReadClock(r) \/ RedisIncr(r) \/ RedisError(r) \/ RedisExpireFails(r)
        \/ \E jitter \in 0..(Jitter - 1) : RedisExpire(r, jitter) \/ RedisScript(r, jitter)

WindowSpec == WindowInit /\ [][WindowNext]_windowVars

-----------------------------------------------------------------------------
(* Properties.                                                              *)

Request == [pc : {"idle", "check", "upstream", "call", "incr", "expire", "script", "done", "error"},
            op : {"allow", "clamp", "charge"}, n : 0..MaxTokens, i : Limiters,
            read : Times, result : Result, denied : BOOLEAN, calls : 0..MaxCalls]

WindowTypeOK ==
    /\ conf \in Deployments
    /\ clock \in Times
    /\ store \in [Limiters -> [Times -> [count : Nat, expiration : Nat]]]
    /\ req \in [Reqs -> Request]
    /\ taken \in [Limiters -> [Times -> Nat]]
    /\ admitted \in [Limiters -> [Times -> Nat]]

\* How often the Redis counter of window w may have started again by time t.  A TTL
\* is cut to whole units, so the key may be gone within the last unit of a longer
\* window: a second if INCRBY created it, a millisecond if the script did.
Restarts(i, w, t) ==
    LET lost(unit) == IF unit < PolicyDuration[i] /\ w + PolicyDuration[i] - t < unit
                      THEN 1 ELSE 0 IN
    IF PolicyBackend = "memory" THEN 0
    ELSE (IF conf.ops \cap {"allow", "charge"} # {} THEN lost(ExpireUnit) ELSE 0)
         + (IF "clamp" \in conf.ops THEN lost(ScriptUnit) ELSE 0)

\* The counter of the running window is exactly what was counted in it: neither
\* expiry, cleanup nor a late request of an ended window disturbs it, until the
\* window has less than the unit of its TTL to go; nor does it ever count more.
CountExact ==
    \A i \in Limiters : LET w == WindowStart(i, clock) IN
        /\ CurrentCount(i, clock) <= taken[i][w]
        /\ Restarts(i, w, clock) = 0 => CurrentCount(i, clock) = taken[i][w]

\* AllowN admits no more than the limit into the running window, also next to
\* clamped and forced charges and to requests of ended windows, and once more the
\* limit for each time that the counter may have been lost at the end of the window.
AllowWithinLimit ==
    \A i \in Limiters : LET w == WindowStart(i, clock) IN
        admitted[i][w] <= PolicyLimit[i] * (1 + Restarts(i, w, clock))

\* The MultiLimiter denies exactly when one of its limiters denied, although an
\* allowed result with less remaining may replace one that was denied.
DenialReported ==
    \A r \in Reqs : req[r].pc = "done" => (req[r].result.allowed <=> ~req[r].denied)

\* Where quotas are only checked before and charged after the response, a window is
\* overshot by no more than one cost for each request that was upstream; a counter
\* that was lost at the end of the window lets the same happen again.
OvershootBounded ==
    conf.ops = {"charge"} =>
        \A i \in Limiters, w \in Times :
            taken[i][w] <= (PolicyLimit[i] - 1 + Cardinality(Reqs) * MaxTokens)
                             * (1 + Restarts(i, w, clock))

\* "Set expiration and handle potential error to avoid keys without TTL": unless
\* EXPIRE fails, a key without TTL has a request that is about to set it.
KeysExpire ==
    ~conf.expireFails =>
        \A i \in Limiters, w \in Times :
            store[i][w].expiration = Never
            => \E r \in Reqs : /\ req[r].pc = "expire" /\ req[r].i = i
                               /\ WindowStart(i, req[r].read) = w

=============================================================================
