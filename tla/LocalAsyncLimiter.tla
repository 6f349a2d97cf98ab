------------------------- MODULE LocalAsyncLimiter -------------------------
(***************************************************************************)
(* One RedisLocalAsyncLimiter (policies/advanced-ratelimit/algorithms/     *)
(* fixedwindow/redis_local_async.go) on one replica, the coordinator       *)
(* worker that flushes it (flush_coordinator.go), a caller of Close, and   *)
(* the Redis counter they share with the other replicas.                   *)
(*                                                                         *)
(* Requests are decided locally from globalBase + localDelta.  A flush     *)
(* snapshots the dirty deltas under flushMu, sends them as one INCRBY      *)
(* pipeline and reconciles the counts read back.  Every region the code    *)
(* runs under a lock is one step; the regions of different goroutines      *)
(* interleave.                                                             *)
(*                                                                         *)
(* nextFlushAt and the base tick are left to module FlushCoordinator: here *)
(* a limiter in the active set may be found due at any tick.               *)
(***************************************************************************)
EXTENDS Integers, Sequences, FiniteSets

CONSTANTS
    Keys,                \* rate-limit keys
    Reqs,                \* request goroutines calling AllowN
    Costs,               \* the n a request asks for
    Limit,               \* policy.Limit
    Duration,            \* policy.Duration, in clock units
    Grace,               \* the minute a state is kept after its window
    Jitter,              \* the 5s of jitter added to a TTL
    MaxTime,             \* bound: last clock value
    NumStripes,          \* numStripes
    StripeOf,            \* stripeFor, the hash of a key
    StripeCap,           \* stripeCap
    ScanLimit,           \* entries scanned for a victim (8)
    Budget,              \* cfg.MaxPipelineCommands
    Chunk,               \* DefaultMaxPipelineCommands
    FailOpen,            \* cfg.FailOpen
    FailClosedThreshold, \* failClosedThreshold
    MaxOther,            \* bound: increments by the other replicas, per key
    MayClose,            \* may the limiter be closed?
    RedisFails,          \* may Redis become unreachable?
    MaxGrant,            \* bound: no new call once a key was granted this much
    MaxAmbiguous         \* bound: a pipeline may fail half-way while every counter
                         \* is below it

ASSUME LocalAsyncAssumption ==
    /\ Limit \in Nat /\ Duration \in Nat \ {0} /\ Grace \in Nat
    /\ Jitter \in Nat /\ MaxTime \in Nat /\ MaxOther \in Nat
    /\ NumStripes \in Nat \ {0} /\ StripeOf \in [Keys -> 0..(NumStripes - 1)]
    /\ StripeCap \in Nat \ {0} /\ ScanLimit \in Nat \ {0}
    /\ Budget \in Nat \ {0} /\ Chunk \in Nat \ {0}
    /\ FailClosedThreshold \in Nat \ {0}
    /\ Costs \subseteq Nat
    /\ Keys # {} /\ IsFiniteSet(Keys)
    /\ FailOpen \in BOOLEAN /\ RedisFails \in BOOLEAN /\ MayClose \in BOOLEAN
    /\ MaxGrant \in Nat /\ MaxAmbiguous \in Nat

VARIABLES
    now,         \* the clock
    states,      \* stripe.states, NoState for an absent key
    dirty,       \* the union of the stripes' dirty sets
    evicted,     \* stripe.evictedPending
    enqueued,    \* limiter.enqueued
    active,      \* is the limiter in its shard's active set?
    redisDown,   \* limiter.redisDown
    failStreak,  \* limiter.failStreak, capped at the threshold it is compared with
    flushCursor, \* limiter.flushCursor
    flushMu,     \* holder of limiter.flushMu
    fl,          \* locals of the flushes run by the worker and by Close
    wpc,         \* where the coordinator worker is
    cpc,         \* where Close is
    rounds,      \* flushPending calls left to Close
    req,         \* request goroutines
    redis,       \* Redis: count per key and window
    ttl,         \* Redis: the window keys that have a TTL
    redisUp,     \* Redis: reachable
    admitted,    \* history: tokens granted locally per key and window
    other,       \* history: tokens counted by the other replicas
    dropped      \* history: deltas the code discards, per key and window

local   == <<states, dirty, evicted>>
wake    == <<enqueued, active>>
health  == <<redisDown, failStreak>>
flush   == <<flushCursor, flushMu, fl>>
server  == <<redis, ttl, redisUp>>
history == <<admitted, other, dropped>>
vars == <<now, local, wake, health, flush, wpc, cpc, rounds, req, server, history>>

WindowStart(t) == t - (t % Duration)
Windows == {WindowStart(t) : t \in 0..MaxTime}
StripeIds == 0..(NumStripes - 1)
KeysOf(s) == {k \in Keys : StripeOf[k] = s}

MinOf(a, b) == IF a < b THEN a ELSE b
MaxOf(a, b) == IF a < b THEN b ELSE a

NoState == [windowStart |-> -1, globalBase |-> 0, localDelta |-> 0, blocked |-> FALSE]
FreshState(ws) == [NoState EXCEPT !.windowStart = ws]
LocalState == [windowStart : Windows, globalBase : Nat, localDelta : Nat,
               blocked : BOOLEAN]
PendingFlush == [key : Keys, flushN : Nat, ws : Windows, evicted : BOOLEAN]

NoRequest == [pc |-> "idle", key |-> CHOOSE k \in Keys : TRUE, n |-> 0, ws |-> 0,
              now |-> 0]
Flushers == {"worker", "closer"}
NoFlush == [step |-> "none", i |-> 0, budget |-> 0, now |-> 0, batch |-> <<>>,
            more |-> FALSE, sent |-> 0, res |-> <<>>, idx |-> 0, creators |-> {},
            tickErr |-> FALSE]

Counts == [Keys -> [Windows -> Nat]]
RequestState == [pc : {"idle", "decide", "enqueue", "mark"}, key : Keys, n : Nat,
                 ws : Windows, now : 0..MaxTime]
Reply == [ok : BOOLEAN, count : Nat]
FlushLocals ==
    [step : {"none", "snapshot", "exec", "apply", "expire"}, i : 0..NumStripes,
     budget : 0..Budget, now : 0..MaxTime, batch : Seq(PendingFlush), more : BOOLEAN,
     sent : Nat, res : Seq(Reply), idx : Nat,
     creators : SUBSET (Keys \X Windows), tickErr : BOOLEAN]

Init ==
    /\ now = 0
    /\ states = [k \in Keys |-> NoState]
    /\ dirty = {}
    /\ evicted = [s \in StripeIds |-> <<>>]
    /\ enqueued = FALSE /\ active = FALSE
    /\ redisDown = FALSE /\ failStreak = 0
    /\ flushCursor = 0 /\ flushMu = "none" /\ fl = [p \in Flushers |-> NoFlush]
    /\ wpc = "idle" /\ cpc = "open" /\ rounds = 0
    /\ req = [r \in Reqs |-> NoRequest]
    /\ redis = [k \in Keys |-> [w \in Windows |-> 0]]
    /\ ttl = {} /\ redisUp = TRUE
    /\ admitted = [k \in Keys |-> [w \in Windows |-> 0]]
    /\ other = [k \in Keys |-> [w \in Windows |-> 0]]
    /\ dropped = [k \in Keys |-> [w \in Windows |-> 0]]

-----------------------------------------------------------------------------
(* The environment: time, Redis and the other replicas.                     *)

AdvanceClock ==
    /\ now < MaxTime
    /\ now' = now + 1
    /\ UNCHANGED <<local, wake, health, flush, wpc, cpc, rounds, req, server, history>>

RedisToggle ==
    /\ RedisFails
    /\ redisUp' = ~redisUp
    /\ UNCHANGED <<now, local, wake, health, flush, wpc, cpc, rounds, req, redis, ttl, history>>

\* Another replica counts one request in the current window; it sets the TTL
\* of a key it creates.
OtherReplica(k) ==
    LET w == WindowStart(now) IN
    /\ redisUp
    /\ other[k][w] < MaxOther
    /\ redis' = [redis EXCEPT ![k][w] = @ + 1]
    /\ other' = [other EXCEPT ![k][w] = @ + 1]
    /\ ttl' = IF redis[k][w] = 0 THEN ttl \cup {<<k, w>>} ELSE ttl
    /\ UNCHANGED <<now, local, wake, health, flush, wpc, cpc, rounds, req, redisUp,
                   admitted, dropped>>

RedisExpires(k, w) ==
    /\ <<k, w>> \in ttl
    /\ now >= w + Duration
    /\ redis' = [redis EXCEPT ![k][w] = 0]
    /\ ttl' = ttl \ {<<k, w>>}
    /\ UNCHANGED <<now, local, wake, health, flush, wpc, cpc, rounds, req, redisUp, history>>

-----------------------------------------------------------------------------
(* AllowN: the clock is read before the stripe is locked.                   *)

AllowNReadClock(r, k, n) ==
    /\ req[r].pc = "idle"
    /\ admitted[k][WindowStart(now)] + n <= MaxGrant
    /\ req' = [req EXCEPT ![r] = [pc |-> "decide", key |-> k, n |-> n,
                                  ws |-> WindowStart(now), now |-> now]]
    /\ UNCHANGED <<now, local, wake, health, flush, wpc, cpc, rounds, server, history>>

Present(st, k) == st[k] # NoState

\* evictExpiredLocked: flushed states of windows that ended over Grace ago.
ExpiredStates(st, s, t) ==
    {k \in KeysOf(s) : /\ Present(st, k)
                       /\ st[k].localDelta = 0
                       /\ t > st[k].windowStart + Duration + Grace}

Remove(st, K) == [k \in Keys |-> IF k \in K THEN NoState ELSE st[k]]

\* The victims the randomized scan may settle on: a flushed entry when one is
\* among the first ScanLimit scanned, else any.
Victims(st, S) ==
    LET flushed == {k \in S : st[k].localDelta = 0} IN
    IF flushed = {} \/ Cardinality(S \ flushed) >= ScanLimit THEN S ELSE flushed

\* ensureCapacityLocked: the sets of keys {expired} or {expired, victim} it may
\* remove before a new key is inserted, each with the victim carried out.
Evictions(s, t) ==
    LET used    == {k \in KeysOf(s) : Present(states, k)}
        expired == ExpiredStates(states, s, t)
        left    == used \ expired
    IN  IF Cardinality(used) < StripeCap THEN {[gone |-> {}, victim |-> {}]}
        ELSE IF Cardinality(left) < StripeCap
             THEN {[gone |-> expired, victim |-> {}]}
             ELSE {[gone |-> expired \cup {v}, victim |-> {v}] : v \in Victims(states, left)}

CarryOutNothing(pending, e) == pending

\* evictLocked: an unflushed delta moves to evictedPending unless that is full.
CarryOut(pending, e) ==
    LET owing == {v \in e.victim : states[v].localDelta > 0} IN
    IF owing = {} \/ Len(pending) >= 2 * StripeCap THEN pending
    ELSE LET v == CHOOSE x \in owing : TRUE IN
         Append(pending, [key |-> v, flushN |-> states[v].localDelta,
                          ws |-> states[v].windowStart, evicted |-> TRUE])

AddDropped(drops, k, w, n) == [drops EXCEPT ![k][w] = @ + n]

DropVictim(pending, e) ==
    IF Len(pending) < 2 * StripeCap THEN dropped
    ELSE [k \in Keys |-> [w \in Windows |->
            IF k \in e.victim /\ states[k].windowStart = w
            THEN dropped[k][w] + states[k].localDelta ELSE dropped[k][w]]]

DecisionOnBase(st, n) ==
    IF st.globalBase + n > Limit THEN "latch-deny" ELSE "allow"

\* The switch of AllowN on the state found or created for the key.
Decision(st, n) ==
    IF st.blocked THEN "cached-deny"
    ELSE IF ~FailOpen /\ redisDown THEN "down"
    ELSE IF st.globalBase + st.localDelta + n > Limit THEN "latch-deny"
    ELSE "allow"

NeedEnqueue(pending, decision, n) ==
    \/ pending # <<>>
    \/ decision = "down"
    \/ decision = "allow" /\ n > 0

AllowNDecide(r) ==
    LET k  == req[r].key
        n  == req[r].n
        ws == req[r].ws
        s  == StripeOf[k]
        found == Present(states, k)
        same  == found /\ states[k].windowStart = ws
    IN
    /\ req[r].pc = "decide"
    /\ \E e \in IF found THEN {[gone |-> {}, victim |-> {}]} ELSE Evictions(s, req[r].now) :
        LET st       == IF same THEN states[k] ELSE FreshState(ws)
            decision == Decision(st, n)
            pending  == CarryOut(evicted[s], e)
            kept  == Remove(states, e.gone)
            drops == DropVictim(evicted[s], e)
        IN
        /\ evicted' = [evicted EXCEPT ![s] = pending]
        /\ states' = [kept EXCEPT ![k] =
                        IF decision = "allow" THEN [st EXCEPT !.localDelta = @ + n]
                        ELSE IF decision = "latch-deny" THEN [st EXCEPT !.blocked = TRUE]
                        ELSE st]
        /\ dirty' = (dirty \ e.gone) \cup (IF decision = "allow" /\ n > 0 THEN {k} ELSE {})
        /\ admitted' = IF decision = "allow" THEN [admitted EXCEPT ![k][ws] = @ + n]
                       ELSE admitted
        /\ dropped' = IF found /\ ~same
                      THEN AddDropped(drops, k, states[k].windowStart, states[k].localDelta)
                      ELSE drops
        /\ req' = [req EXCEPT ![r] = 
                        IF NeedEnqueue(pending, decision, n)
                        THEN [@ EXCEPT !.pc = "enqueue"] ELSE NoRequest]
    /\ UNCHANGED <<now, wake, health, flush, wpc, cpc, rounds, server, other>>

EnqueueBlind(r) == [req EXCEPT ![r].pc = "mark"]

\* Only the winner of enqueued.CompareAndSwap(false, true) calls markActive.
Enqueued(r) == [req EXCEPT ![r] = IF enqueued THEN NoRequest ELSE [@ EXCEPT !.pc = "mark"]]

AllowNEnqueue(r) ==
    /\ req[r].pc = "enqueue"
    /\ enqueued' = TRUE
    /\ req' = Enqueued(r)
    /\ UNCHANGED <<now, local, active, health, flush, wpc, cpc, rounds, server, history>>

AllowNMarkActive(r) ==
    /\ req[r].pc = "mark"
    /\ active' = TRUE
    /\ req' = [req EXCEPT ![r] = NoRequest]
    /\ UNCHANGED <<now, local, enqueued, health, flush, wpc, cpc, rounds, server, history>>

-----------------------------------------------------------------------------
(* The flush, run by the coordinator worker (flushDue) or by Close          *)
(* (flushPending), under flushMu.                                           *)

NoteNeverClears(tickErr) ==
    LET streak == IF tickErr THEN MinOf(failStreak + 1, FailClosedThreshold) ELSE 0 IN
    /\ failStreak' = streak
    /\ redisDown' = (redisDown \/ (~FailOpen /\ streak >= FailClosedThreshold))

\* noteFlushOutcomeLocked
NoteFlushOutcome(tickErr) ==
    LET streak == IF tickErr THEN MinOf(failStreak + 1, FailClosedThreshold) ELSE 0 IN
    /\ failStreak' = streak
    /\ redisDown' = (~FailOpen /\ streak >= FailClosedThreshold)

LockFlushUnserialised(p) ==
    /\ flushMu' = p
    /\ fl' = [fl EXCEPT ![p] = [NoFlush EXCEPT !.step = "snapshot", !.budget = Budget,
                                              !.now = now]]

LockFlush(p) ==
    /\ flushMu = "none"
    /\ flushMu' = p
    /\ fl' = [fl EXCEPT ![p] = [NoFlush EXCEPT !.step = "snapshot", !.budget = Budget,
                                              !.now = now]]

AfterFlushIdle(more) == "idle"

\* Where flushDue goes when it releases flushMu.
AfterFlush(more) == IF more THEN "requeue" ELSE "idle"

\* flushMu is released; `more` decides whether the limiter goes back to the
\* active set (worker) or is drained again (Close).
Unlock(p, more) ==
    /\ flushMu' = "none"
    /\ fl' = [fl EXCEPT ![p] = NoFlush]
    /\ \/ /\ p = "worker"
          /\ wpc' = AfterFlush(more)
          /\ UNCHANGED <<cpc, rounds>>
       \/ /\ p = "closer"
          /\ cpc' = IF more /\ rounds > 1 THEN "drain" ELSE "closed"
          /\ rounds' = rounds - 1
          /\ UNCHANGED wpc

Orderings(S) == {f \in [1..Cardinality(S) -> S] : \A i, j \in DOMAIN f : f[i] = f[j] => i = j}

\* The sets of dirty keys one randomized pass may visit before the budget b is
\* spent.
Visits(D, b) ==
    {V \in SUBSET D :
        LET live == {k \in V : states[k].localDelta # 0} IN
        /\ Cardinality(live) <= b
        /\ V # D => Cardinality(live) = b
        /\ b = 0 => V = {}}

PendingOf(k) == [key |-> k, flushN |-> states[k].localDelta, ws |-> states[k].windowStart,
                 evicted |-> FALSE]

CursorUnwrapped == flushCursor + 1

NextCursor == (flushCursor + 1) % NumStripes

\* The stripe the snapshot visits i steps after its cursor.
StripeAt(i) == (flushCursor + i) % NumStripes

\* snapshotPendingLocked, one stripe under its lock.
SnapshotStripe(p) ==
    LET f    == fl[p]
        s    == StripeAt(f.i)
        take == MinOf(Len(evicted[s]), f.budget)
        b    == f.budget - take
        D    == dirty \cap KeysOf(s)
        old  == ExpiredStates(states, s, f.now)
    IN
    /\ f.step = "snapshot"
    /\ f.i < NumStripes
    /\ f.budget > 0
    /\ \E V \in Visits(D, b) :
       \E order \in Orderings({k \in V : states[k].localDelta # 0}) :
        /\ dirty' = dirty \ (V \cup old)
        /\ fl' = [fl EXCEPT ![p] = [f EXCEPT
             !.batch = f.batch \o SubSeq(evicted[s], 1, take)
                               \o [j \in 1..Len(order) |-> PendingOf(order[j])],
             !.budget = b - Len(order),
             !.more = f.more \/ take < Len(evicted[s]) \/ V # D,
             !.i = f.i + 1]]
    /\ evicted' = [evicted EXCEPT ![s] = SubSeq(@, take + 1, Len(@))]
    /\ states' = Remove(states, old)
    /\ UNCHANGED <<now, wake, health, flushCursor, flushMu, wpc, cpc, rounds, req, server,
                   history>>

SpillSilently(p) == [fl EXCEPT ![p] = [fl[p] EXCEPT !.i = NumStripes]]

\* The budget is spent before every stripe was visited.
Spill(p) == [fl EXCEPT ![p] = [fl[p] EXCEPT !.i = NumStripes, !.more = TRUE]]

SnapshotSpill(p) ==
    /\ fl[p].step = "snapshot"
    /\ fl[p].i < NumStripes
    /\ fl[p].budget = 0
    /\ fl' = Spill(p)
    /\ UNCHANGED <<now, local, wake, health, flushCursor, flushMu, wpc, cpc, rounds, req,
                   server, history>>

SnapshotDone(p) ==
    /\ fl[p].step = "snapshot"
    /\ fl[p].i = NumStripes
    /\ fl[p].batch # <<>>
    /\ flushCursor' = NextCursor
    /\ fl' = [fl EXCEPT ![p] = [fl[p] EXCEPT !.step = "exec"]]
    /\ UNCHANGED <<now, local, wake, health, flushMu, wpc, cpc, rounds, req, server, history>>

MoreAfterSpill(p, stillDown) == fl[p].more

\* After an empty snapshot flushDue re-enqueues a limiter that is still down.
MoreAfterEmpty(p, stillDown) == fl[p].more \/ (p = "worker" /\ stillDown)

\* Nothing to flush: a fail-closed limiter that is down pings Redis.
SnapshotEmpty(p) ==
    LET probe == ~FailOpen /\ redisDown IN
    /\ fl[p].step = "snapshot"
    /\ fl[p].i = NumStripes
    /\ fl[p].batch = <<>>
    /\ flushCursor' = NextCursor
    /\ IF probe THEN NoteFlushOutcome(~redisUp) ELSE UNCHANGED health
    /\ Unlock(p, MoreAfterEmpty(p, probe /\ redisDown'))
    /\ UNCHANGED <<now, local, wake, req, server, history>>

-----------------------------------------------------------------------------
(* execIncrBatch: INCRBY pipelines of at most one chunk.  Redis runs the    *)
(* commands one by one; the replies count once Exec returns.                *)

\* The end of the chunk in progress: flushDue sends chunks, flushPending one
\* pipeline.
ChunkEnd(p) == IF p = "closer" THEN Len(fl[p].batch)
               ELSE MinOf(fl[p].sent + Chunk, Len(fl[p].batch))

ExecCommand(p) ==
    LET e     == fl[p].batch[Len(fl[p].res) + 1]
        count == redis[e.key][e.ws] + e.flushN
    IN
    /\ fl[p].step = "exec"
    /\ Len(fl[p].res) < ChunkEnd(p)
    /\ redisUp
    /\ redis' = [redis EXCEPT ![e.key][e.ws] = count]
    /\ fl' = [fl EXCEPT ![p] = [fl[p] EXCEPT !.res = Append(fl[p].res, [ok |-> TRUE, count |-> count])]]
    /\ UNCHANGED <<now, local, wake, health, flushCursor, flushMu, wpc, cpc, rounds, req,
                   ttl, redisUp, history>>

\* Exec returns without an error.
ExecChunk(p) ==
    /\ fl[p].step = "exec"
    /\ Len(fl[p].res) = ChunkEnd(p)
    /\ redisUp
    /\ fl' = [fl EXCEPT ![p] = [fl[p] EXCEPT
                !.sent = ChunkEnd(p),
                !.step = IF ChunkEnd(p) = Len(fl[p].batch) THEN "apply" ELSE "exec"]]
    /\ UNCHANGED <<now, local, wake, health, flushCursor, flushMu, wpc, cpc, rounds, req,
                   server, history>>

AllFailed(p) == [i \in 1..Len(fl[p].batch) |-> [ok |-> FALSE, count |-> 0]]

\* The chunks before the failed one keep their replies; the failed chunk and the
\* ones after it, which are not sent, get its error.
TailFailed(p) ==
    [i \in 1..Len(fl[p].batch) |->
        IF i <= fl[p].sent THEN fl[p].res[i] ELSE [ok |-> FALSE, count |-> 0]]

\* Exec returns an error.  Commands of the chunk may have taken effect.
ExecFails(p) ==
    /\ fl[p].step = "exec"
    /\ ~redisUp
    /\ Len(fl[p].res) > fl[p].sent =>
         \A k \in Keys, w \in Windows : redis[k][w] < MaxAmbiguous
    /\ fl' = [fl EXCEPT ![p] = [fl[p] EXCEPT !.res = TailFailed(p), !.step = "apply"]]
    /\ UNCHANGED <<now, local, wake, health, flushCursor, flushMu, wpc, cpc, rounds, req,
                   server, history>>

-----------------------------------------------------------------------------
(* applyResultsLocked, one entry under its stripe's lock.                   *)

Matches(e) == Present(states, e.key) /\ states[e.key].windowStart = e.ws

\* A failed evicted delta goes back to evictedPending, any other stays in its
\* state, which is dirty again.
ApplyError(p, e) ==
    LET s == StripeOf[e.key]
        room == Len(evicted[s]) < 2 * StripeCap
    IN
    /\ fl' = [fl EXCEPT ![p] = [fl[p] EXCEPT !.idx = fl[p].idx + 1, !.tickErr = TRUE,
                                           !.more = TRUE]]
    /\ evicted' = IF e.evicted /\ room THEN [evicted EXCEPT ![s] = Append(@, e)] ELSE evicted
    /\ dropped' = IF e.evicted /\ ~room THEN AddDropped(dropped, e.key, e.ws, e.flushN)
                  ELSE dropped
    /\ dirty' = IF ~e.evicted /\ Matches(e) THEN dirty \cup {e.key} ELSE dirty
    /\ UNCHANGED states

Reconciled(st, e, count) ==
    [st EXCEPT !.globalBase = count,
               !.localDelta = IF e.evicted THEN @ ELSE MaxOf(@ - e.flushN, 0),
               !.blocked = @ \/ count >= Limit]

\* Did the INCRBY create the window key?
Creates(e, count) == count = e.flushN

ApplyReply(p, e, count) ==
    LET st == Reconciled(states[e.key], e, count)
        residue == Matches(e) /\ st.localDelta # 0
    IN
    /\ states' = IF Matches(e) THEN [states EXCEPT ![e.key] = st] ELSE states
    /\ dirty' = IF residue THEN dirty \cup {e.key} ELSE dirty
    /\ fl' = [fl EXCEPT ![p] = [fl[p] EXCEPT
                !.idx = fl[p].idx + 1, !.more = fl[p].more \/ residue,
                !.creators = fl[p].creators \cup
                               (IF Creates(e, count) THEN {<<e.key, e.ws>>} ELSE {})]]
    /\ UNCHANGED <<evicted, dropped>>

ApplyEntry(p) ==
    LET i == fl[p].idx + 1 IN
    /\ fl[p].step = "apply"
    /\ fl[p].idx < Len(fl[p].batch)
    /\ IF fl[p].res[i].ok THEN ApplyReply(p, fl[p].batch[i], fl[p].res[i].count)
                          ELSE ApplyError(p, fl[p].batch[i])
    /\ UNCHANGED <<now, wake, health, flushCursor, flushMu, wpc, cpc, rounds, req, server,
                   admitted, other>>

\* The worker notes the outcome before the EXPIRE pipeline, Close after it.
ApplyDone(p) ==
    /\ fl[p].step = "apply"
    /\ fl[p].idx = Len(fl[p].batch)
    /\ fl' = [fl EXCEPT ![p] = [fl[p] EXCEPT !.step = "expire"]]
    /\ IF p = "worker" THEN NoteFlushOutcome(fl[p].tickErr) ELSE UNCHANGED health
    /\ UNCHANGED <<now, local, wake, flushCursor, flushMu, wpc, cpc, rounds, req, server,
                   history>>

\* execExpire: a TTL that is already over is skipped, unless the jitter carries
\* it past now; a failure is only logged.
ExecExpire(p) ==
    /\ fl[p].step = "expire"
    /\ \E late \in SUBSET {c \in fl[p].creators : /\ c[2] + Duration <= now
                                                   /\ now < c[2] + Duration + Jitter} :
          ttl' = IF redisUp
                 THEN ttl \cup {c \in fl[p].creators : c[2] + Duration > now} \cup late
                 ELSE ttl
    /\ IF p = "closer" THEN NoteFlushOutcome(fl[p].tickErr) ELSE UNCHANGED health
    /\ Unlock(p, fl[p].more)
    /\ UNCHANGED <<now, local, wake, flushCursor, req, redis, redisUp, history>>

FlushStep(p) ==
    \/ SnapshotStripe(p) \/ SnapshotSpill(p) \/ SnapshotDone(p) \/ SnapshotEmpty(p)
    \/ ExecCommand(p) \/ ExecChunk(p) \/ ExecFails(p)
    \/ ApplyEntry(p) \/ ApplyDone(p) \/ ExecExpire(p)

-----------------------------------------------------------------------------
(* The coordinator worker: tickShard and the head and tail of flushDue.     *)

TickShard ==
    /\ wpc = "idle"
    /\ active
    /\ active' = FALSE
    /\ enqueued' = FALSE
    /\ wpc' = "due"
    /\ UNCHANGED <<now, local, health, flush, cpc, rounds, req, server, history>>

WorkerLock ==
    /\ wpc = "due"
    /\ LockFlush("worker")
    /\ wpc' = "flush"
    /\ UNCHANGED <<now, local, wake, health, flushCursor, cpc, rounds, req, server, history>>

WorkerRequeue ==
    /\ wpc = "requeue"
    /\ enqueued' = TRUE
    /\ wpc' = IF enqueued THEN "idle" ELSE "mark"
    /\ UNCHANGED <<now, local, active, health, flush, cpc, rounds, req, server, history>>

WorkerMarkActive ==
    /\ wpc = "mark"
    /\ active' = TRUE
    /\ wpc' = "idle"
    /\ UNCHANGED <<now, local, enqueued, health, flush, cpc, rounds, req, server, history>>

-----------------------------------------------------------------------------
(* Close: deregister, then at most numStripes + 1 flushPending calls.       *)

Deregister ==
    /\ MayClose
    /\ cpc = "open"
    /\ active' = FALSE
    /\ cpc' = "deregistered"
    /\ UNCHANGED <<now, local, enqueued, health, flush, wpc, rounds, req, server, history>>

DeregisterClear ==
    /\ cpc = "deregistered"
    /\ enqueued' = FALSE
    /\ cpc' = "drain"
    /\ rounds' = NumStripes + 1
    /\ UNCHANGED <<now, local, active, health, flush, wpc, req, server, history>>

CloserLock ==
    /\ cpc = "drain"
    /\ LockFlush("closer")
    /\ cpc' = "flush"
    /\ UNCHANGED <<now, local, wake, health, flushCursor, wpc, rounds, req, server, history>>

-----------------------------------------------------------------------------

Environment ==
    \/ AdvanceClock \/ RedisToggle
    \/ \E k \in Keys : OtherReplica(k) \/ \E w \in Windows : RedisExpires(k, w)

Request(r) ==
    \/ \E k \in Keys, n \in Costs : AllowNReadClock(r, k, n)
    \/ AllowNDecide(r) \/ AllowNEnqueue(r) \/ AllowNMarkActive(r)

Worker == TickShard \/ WorkerLock \/ WorkerRequeue \/ WorkerMarkActive

Closer == Deregister \/ DeregisterClear \/ CloserLock

Next ==
    \/ Environment
    \/ \E r \in Reqs : Request(r)
    \/ \E p \in Flushers : FlushStep(p)
    \/ Worker
    \/ Closer

Spec == Init /\ [][Next]_vars

(* The worker's timer is reset after every tick, pipelines are bounded by   *)
(* the client's timeouts and a request that reached AllowN runs to its end. *)
Fairness ==
    /\ \A p \in Flushers : WF_vars(FlushStep(p))
    /\ WF_vars(Worker)
    /\ WF_vars(CloserLock)
    /\ \A r \in Reqs : WF_vars(AllowNDecide(r) \/ AllowNEnqueue(r) \/ AllowNMarkActive(r))

FairSpec == Spec /\ Fairness

-----------------------------------------------------------------------------
(* Properties.                                                              *)

\* The type of the state.
TypeOK ==
    /\ now \in 0..MaxTime
    /\ states \in [Keys -> LocalState \cup {NoState}]
    /\ dirty \subseteq Keys
    /\ evicted \in [StripeIds -> Seq(PendingFlush)]
    /\ enqueued \in BOOLEAN /\ active \in BOOLEAN
    /\ redisDown \in BOOLEAN /\ failStreak \in 0..FailClosedThreshold
    /\ flushCursor \in StripeIds
    /\ flushMu \in Flushers \cup {"none"}
    /\ fl \in [Flushers -> FlushLocals]
    /\ wpc \in {"idle", "due", "flush", "requeue", "mark"}
    /\ cpc \in {"open", "deregistered", "drain", "flush", "closed"}
    /\ rounds \in 0..(NumStripes + 1)
    /\ req \in [Reqs -> RequestState]
    /\ redis \in Counts
    /\ ttl \subseteq Keys \X Windows
    /\ redisUp \in BOOLEAN
    /\ admitted \in Counts
    /\ other \in Counts
    /\ dropped \in Counts

\* Work a stripe owes Redis.
StripeWork(s) == evicted[s] # <<>> \/ dirty \cap KeysOf(s) # {}

\* The snapshot of p has still to reach stripe s.
Unvisited(p, s) ==
    /\ fl[p].step = "snapshot"
    /\ \E i \in fl[p].i..(NumStripes - 1) : StripeAt(i) = s

WorkerWillReturn(s) ==
    \/ wpc \in {"due", "requeue", "mark"}
    \/ wpc = "flush" /\ (fl["worker"].more \/ Unvisited("worker", s))

CloserWillReturn(s) ==
    \/ cpc \in {"deregistered", "drain"}
    \/ cpc = "flush" /\ (fl["closer"].more \/ Unvisited("closer", s))

Covered(s) ==
    \/ enqueued \/ active
    \/ \E r \in Reqs : req[r].pc \in {"enqueue", "mark"}
    \/ WorkerWillReturn(s)
    \/ CloserWillReturn(s)

\* Concurrency invariant 2 of the limiter: a delta that is not in the hands of a
\* flush is in a stripe that some goroutine is bound to come back to, whatever
\* the interleaving of AllowN, tickShard, flushDue and Close.
NoLostWakeup ==
    cpc # "closed" => \A s \in StripeIds : StripeWork(s) => Covered(s)

\* markActive "runs at most once per active period": until Close, enqueued is
\* exactly one entry in the active set or one goroutine about to add it.
Markers == {r \in Reqs : req[r].pc = "mark"}
OneMarker ==
    /\ enqueued => active \/ Markers # {} \/ wpc = "mark" \/ cpc = "deregistered"
    /\ cpc = "open" =>
        /\ active => enqueued /\ Markers = {} /\ wpc # "mark"
        /\ wpc = "mark" => enqueued /\ Markers = {}
        /\ \A r1, r2 \in Markers : r1 = r2
        /\ Markers # {} => enqueued

\* A fail-closed limiter that denies because Redis is down always has a flush or
\* a probe ahead of it: redisDown can only be cleared by one.
DownStaysArmed ==
    redisDown /\ cpc = "open" =>
      \/ enqueued
      \/ wpc \in {"due", "requeue"}
      \/ wpc = "flush" /\ (fl["worker"].more \/ fl["worker"].step # "expire")

\* Concurrency invariant 3: while a window is running, no reply of a flush takes
\* the base of a state of that window back to an older count.
GlobalBaseMonotone ==
    [][\A k \in Keys :
         /\ Present(states, k) /\ states'[k].windowStart = states[k].windowStart
         /\ now < states[k].windowStart + Duration
         => states'[k].globalBase >= states[k].globalBase]_vars

-----------------------------------------------------------------------------
(* Accounting.                                                              *)

\* What the entries J of a batch add to one window key.
Increment(batch, J, k, w) ==
    LET sum[j \in 0..Len(batch)] ==
          IF j = 0 THEN 0
          ELSE sum[j - 1] + (IF j \in J /\ batch[j].key = k /\ batch[j].ws = w
                             THEN batch[j].flushN ELSE 0)
    IN  sum[Len(batch)]

\* Entries of p's batch that Redis counted and that are still to be applied.
UnappliedOk(p) == {i \in (fl[p].idx + 1)..Len(fl[p].res) : fl[p].res[i].ok}

\* Entries of p's batch that came from evicted states and that Redis has not
\* acknowledged.
UnsentEvicted(p) ==
    {i \in (fl[p].idx + 1)..Len(fl[p].batch) :
        fl[p].batch[i].evicted /\ (i > Len(fl[p].res) \/ ~fl[p].res[i].ok)}

Unflushed(k, w) == IF states[k].windowStart = w THEN states[k].localDelta ELSE 0

\* Tokens of the key this replica has counted in Redis, and those it holds.
Delivered(k, w) == redis[k][w] - other[k][w]
Held(k, w) ==
    LET pending == evicted[StripeOf[k]]
        sent(p) == Increment(fl[p].batch, {i \in UnappliedOk(p) : ~fl[p].batch[i].evicted}, k, w)
        carried(p) == Increment(fl[p].batch, UnsentEvicted(p), k, w)
    IN  Unflushed(k, w) + Increment(pending, DOMAIN pending, k, w)
          + carried("worker") + carried("closer") - sent("worker") - sent("closer")

Running(w) == w <= now /\ now < w + Duration

\* Eviction, failed and half-applied pipelines, spills and retries never make
\* the shared count of a running window fall short of what was granted, but for
\* the deltas the code gives up (a full evictedPending, a replaced state).
NoLostCount ==
    \A k \in Keys, w \in Windows :
        Running(w) => admitted[k][w] <= Delivered(k, w) + Held(k, w) + dropped[k][w]

\* With no eviction, no rollover and no half-applied pipeline every token is
\* counted exactly once: retries after a failed chunk do not count it twice.
CountedOnce ==
    \A k \in Keys, w \in Windows : admitted[k][w] = Delivered(k, w) + Held(k, w)

\* One replica never grants more than the limit in a window, whatever it has
\* heard from Redis: an outage "degrades to per-replica enforcement".
PerReplicaLimit == \A k \in Keys, w \in Windows : admitted[k][w] <= Limit

\* Once Redis stays reachable, a fail-closed limiter does not deny for ever.
RecoversFromOutage ==
    <>[]redisUp => []<>(~redisDown \/ cpc # "open")

\* Once Redis stays reachable, everything granted is flushed.
EventuallyFlushed ==
    <>[]redisUp => []<>(cpc # "open" \/ \A s \in StripeIds : ~StripeWork(s))

=============================================================================
