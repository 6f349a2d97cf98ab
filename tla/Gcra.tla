-------------------------------- MODULE Gcra --------------------------------
(***************************************************************************)
(* The GCRA limiters of policies/advanced-ratelimit/algorithms/gcra: the   *)
(* in-memory one (memory.go) and the Redis one (redis.go, gcra.lua), which *)
(* run the same algorithm on a theoretical arrival time (TAT) per key but  *)
(* keep it for different times.  A call is one step: it runs under the     *)
(* limiter's mutex or as one Lua script.                                   *)
(***************************************************************************)
EXTENDS Integers

CONSTANTS
    Keys,
    Limit,      \* policy.Limit
    Duration,   \* policy.Duration, in clock units
    Burst,      \* policy.Burst
    Backend,    \* "memory" or "redis"
    Second,     \* clock units in a second: Redis TTLs are whole seconds
    MaxCost,    \* bound: the largest n of a call
    MaxTime,    \* bound: last clock value
    MaxDebt     \* bound: no charge once the TAT is this far ahead

ASSUME GcraAssumption ==
    /\ Limit \in Nat \ {0} /\ Duration \in Nat /\ Duration >= Limit
    /\ Burst \in Nat \ {0} /\ Backend \in {"memory", "redis"}
    /\ Second \in Nat \ {0} /\ MaxCost \in Nat
    /\ MaxTime \in Nat /\ MaxDebt \in Nat

VARIABLES
    now,     \* the clock
    data,    \* tatEntry per key, NoEntry when there is none
    retry,   \* history: the time a denied single request was told to come back
    total,   \* history: tokens granted
    before   \* history: before[k][t], tokens granted before time t

vars == <<now, data, retry, total, before>>

MaxOf(a, b) == IF a < b THEN b ELSE a
MinOf(a, b) == IF a < b THEN a ELSE b

EmissionInterval == Duration \div Limit
BurstAllowance == IF Burst <= 1 THEN 0 ELSE EmissionInterval * (Burst - 1)

NoEntry == [tat |-> 0, expiration |-> 0]
Entry == [tat : Nat, expiration : Nat]

\* An entry counts until its expiration; Redis drops the key then.
Live(k) == now < data[k].expiration

\* GCRA step 1: TAT = max(TAT, now).
Tat(k) == IF Live(k) THEN MaxOf(data[k].tat, now) ELSE now

CeilDiv(a, b) == (a + b - 1) \div b

FloorRemaining(tat) ==
    IF tat <= now THEN Burst
    ELSE IF tat - now > BurstAllowance THEN 0
    ELSE MaxOf(Burst - (tat - now) \div EmissionInterval, 0)

CalculateRemaining(tat) ==
    IF tat <= now THEN Burst
    ELSE IF tat - now > BurstAllowance THEN 0
    ELSE MaxOf(Burst - CeilDiv(tat - now, EmissionInterval), 0)

BaseExpiration(tat) ==
    IF Backend = "memory" THEN Duration + BurstAllowance
    ELSE ((Duration + BurstAllowance) \div Second) * Second

\* How long a granted TAT is kept: the whole seconds of Duration + burst in Redis.
GrantExpiration(tat) == BaseExpiration(tat)

\* How long a charged TAT is kept: at least as long as the debt lasts.
ChargeExpiration(tat) ==
    IF Backend = "memory" THEN MaxOf(BaseExpiration(tat), tat - now)
    ELSE MaxOf(BaseExpiration(tat), CeilDiv(tat - now, Second) * Second)

\* Redis refuses a TTL of zero seconds and the script fails.
Storable(kept) == Backend = "memory" \/ kept > 0

Store(k, tat, kept) == [data EXCEPT ![k] = [tat |-> tat, expiration |-> now + kept]]

RetrySwapped(tat) == BurstAllowance - tat

RetryTooSoon(tat) == tat - EmissionInterval * Burst

RetryAt(tat) == tat - BurstAllowance

Init ==
    /\ now = 0
    /\ data = [k \in Keys |-> NoEntry]
    /\ retry = [k \in Keys |-> MaxTime + 1]
    /\ total = [k \in Keys |-> 0]
    /\ before = [k \in Keys |-> [t \in 0..MaxTime |-> 0]]

Tick ==
    /\ now < MaxTime
    /\ now' = now + 1
    /\ before' = [k \in Keys |-> [before[k] EXCEPT ![now + 1] = total[k]]]
    /\ UNCHANGED <<data, retry, total>>

\* n tokens are granted: the TAT moves on and is stored.
Granted(k, n) ==
    LET tat == Tat(k) + EmissionInterval * n IN
    /\ Storable(GrantExpiration(tat))
    /\ data' = Store(k, tat, GrantExpiration(tat))
    /\ total' = [total EXCEPT ![k] = @ + n]
    /\ retry' = [retry EXCEPT ![k] = MaxTime + 1]

\* May AllowN take n tokens?  The second test is for batches.
Allowed(k, n) ==
    /\ now >= Tat(k) - BurstAllowance
    /\ n <= CalculateRemaining(Tat(k))

AllowN(k, n) ==
    /\ n > 0 /\ Allowed(k, n)
    /\ Granted(k, n)
    /\ UNCHANGED <<now, before>>

\* GetAvailable reads the entry by itself: in memory an entry still counts at
\* the instant it expires, in Redis it is gone.
GetAvailable(k) ==
    IF data[k] = NoEntry \/ (IF Backend = "memory" THEN now > data[k].expiration ELSE ~Live(k))
    THEN Burst
    ELSE CalculateRemaining(data[k].tat)

\* A denied single request is told when to retry.
AllowNDenied(k) ==
    /\ ~Allowed(k, 1)
    /\ retry' = [retry EXCEPT ![k] = RetryAt(Tat(k))]
    /\ UNCHANGED <<now, data, total, before>>

\* The part of n that ConsumeOrClampN takes.
Clamped(k, n) ==
    IF now < Tat(k) - BurstAllowance THEN 0 ELSE MinOf(n, CalculateRemaining(Tat(k)))

ConsumeOrClampN(k, n) ==
    /\ Clamped(k, n) > 0
    /\ Granted(k, Clamped(k, n))
    /\ UNCHANGED <<now, before>>

\* A cost recorded after the response, whether or not it fits.
ConsumeN(k, n) ==
    LET tat == Tat(k) + EmissionInterval * n IN
    /\ n > 0
    /\ Tat(k) - now < MaxDebt
    /\ Storable(ChargeExpiration(tat))
    /\ data' = Store(k, tat, ChargeExpiration(tat))
    /\ retry' = [retry EXCEPT ![k] = MaxTime + 1]
    /\ UNCHANGED <<now, total, before>>

ExpiredInverted == {k \in Keys : now < data[k].expiration}

\* removeExpired, and the expiry of Redis keys.
Expired == {k \in Keys : now > data[k].expiration}

RemoveExpired ==
    /\ data' = [k \in Keys |-> IF k \in Expired THEN NoEntry ELSE data[k]]
    /\ UNCHANGED <<now, retry, total, before>>

\* In Redis every call is runScript with its clamp and force flags.
Next ==
    \/ Tick
    \/ \E k \in Keys, n \in 1..MaxCost : AllowN(k, n) \/ ConsumeOrClampN(k, n) \/ ConsumeN(k, n)
    \/ \E k \in Keys : AllowNDenied(k)
    \/ RemoveExpired

Spec == Init /\ [][Next]_vars

-----------------------------------------------------------------------------
(* Properties.                                                              *)

TypeOK ==
    /\ now \in 0..MaxTime
    /\ data \in [Keys -> Entry]
    /\ retry \in [Keys -> Nat]
    /\ total \in [Keys -> Nat]
    /\ before \in [Keys -> [0..MaxTime -> Nat]]

\* The pre-check of the cost-based quotas (GetAvailable) and the decision of
\* AllowN agree on every number of tokens, also at the instant an entry expires.
AvailableAgrees ==
    \A k \in Keys, n \in 1..(Burst + 1) : n <= GetAvailable(k) <=> Allowed(k, n)

\* "RetryAfter is the duration to wait before retrying": a single request that
\* waits it out is allowed if nobody took the key's tokens meanwhile.
RetryHonest == \A k \in Keys : now >= retry[k] => Allowed(k, 1)

\* What the limiter tells is what it does: its pre-check and its retry time agree
\* with the decision of AllowN.
ReadsAgree == AvailableAgrees /\ RetryHonest

\* The limiter with its expiring store implements the bucket that never forgets:
\* neither expiry nor cleanup gives back tokens that were granted or charged.
Bucket == INSTANCE LeakyBucket WITH
            EI <- EmissionInterval,
            Amounts <- 0..MaxCost,
            backlog <- [k \in Keys |-> Tat(k) - now]

BucketSpec == Bucket!Spec

\* Over any interval, a key is granted no more than the burst and the rate.
RateKept == Bucket!Conforms

=============================================================================
