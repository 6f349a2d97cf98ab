---------------------------- MODULE LimiterProofs ----------------------------
(***************************************************************************)
(* Proofs about the limiters and the caches that hold them. The GCRA       *)
(* limiters implement the leaky bucket, for every policy, backend and      *)
(* length of the run, provided that an entry is kept as long as a full     *)
(* burst takes to drain. The fixed-window limiters, for any deployments,   *)
(* requests and bounds: the counter of the running window is exact, AllowN *)
(* keeps the limit in it, and the overshoot of quotas charged after the    *)
(* response is bounded, each up to the counters that a TTL in whole        *)
(* seconds may cost at the end of a window; the MultiLimiter reports       *)
(* denials, and Redis counters get their TTL. The limiter cache, for any   *)
(* number of routes, policies, quotas and reloads: references cover the    *)
(* buckets that count on a limiter, no running policy has a closed         *)
(* limiter, and API-scoped quotas are shared. The delegates of the front   *)
(* ends, for any number of requests and configurations.                    *)
(***************************************************************************)
EXTENDS Gcra, FixedWindow, LimiterCache, DelegateCache, FiniteSetTheorems, TLAPS

(***************************************************************************)
(* Gcra                                                                    *)
(***************************************************************************)
\* The time an entry is kept covers a burst.
KeptLongEnough == EmissionInterval * Burst <= BaseExpiration(0)

\* No entry expires before the instant its TAT names.
TatKept == \A k \in Keys : data[k].tat <= data[k].expiration

GcraInv == TypeOK /\ TatKept

\* Division of naturals.
LEMMA DivFacts ==
    ASSUME NEW a \in Nat, NEW b \in Nat \ {0}
    PROVE  /\ a \div b \in Nat
           /\ b * (a \div b) <= a
           /\ a < b * (a \div b) + b
  OBVIOUS

\* Rounding up covers the whole, and no more than the next multiple.
LEMMA CeilFacts ==
    ASSUME NEW u \in Nat, NEW b \in Nat \ {0}
    PROVE  /\ CeilDiv(u, b) \in Nat
           /\ u <= b * CeilDiv(u, b)
           /\ b * CeilDiv(u, b) < u + b
  <1> DEFINE a == u + b - 1
  <1>1. a \in Nat /\ a = u + b - 1
    OBVIOUS
  <1> HIDE DEF a
  <1>2. /\ a \div b \in Nat
        /\ b * (a \div b) <= a
        /\ a < b * (a \div b) + b
    BY <1>1, DivFacts
  <1> DEFINE m == b * (a \div b)
  <1>3. m \in Nat
    BY <1>2
  <1> HIDE DEF m
  <1>4. u <= m /\ m < u + b
    BY <1>1, <1>2, <1>3 DEF m
  <1> QED
    BY <1>2, <1>4 DEF CeilDiv, a, m

\* The emission interval and the burst allowance are numbers.
LEMMA EmissionFacts ==
    /\ EmissionInterval \in Nat \ {0}
    /\ EmissionInterval <= Duration
    /\ BurstAllowance \in Nat
    /\ BurstAllowance = EmissionInterval * (Burst - 1)
    /\ EmissionInterval * Burst = BurstAllowance + EmissionInterval
  <1>1. /\ Limit \in Nat \ {0} /\ Duration \in Nat /\ Duration >= Limit
        /\ Burst \in Nat \ {0}
    BY GcraAssumption
  <1> DEFINE e == Duration \div Limit
  <1>2. e \in Nat /\ Limit * e <= Duration /\ Duration < Limit * e + Limit
    BY <1>1, DivFacts
  <1> HIDE DEF e
  <1>3. e # 0
    BY <1>1, <1>2
  <1>4. e <= Limit * e
    <2>1. PICK r \in Nat : Limit = 1 + r
      <3>1. Limit - 1 \in Nat /\ Limit = 1 + (Limit - 1)
        BY <1>1
      <3> QED
        BY <3>1
    <2>2. Limit * e = e + r * e /\ r * e \in Nat
      BY <2>1, <1>2
    <2> QED
      BY <2>2, <1>2
  <1>5. e <= Duration
    <2>1. Limit * e \in Nat
      BY <1>1, <1>2
    <2> QED
      BY <1>1, <1>2, <1>4, <2>1
  <1>6. /\ Burst - 1 \in Nat
        /\ e * (Burst - 1) \in Nat
        /\ e * Burst = e * (Burst - 1) + e
    BY <1>1, <1>2
  <1>7. Burst <= 1 => e * (Burst - 1) = 0
    BY <1>1, <1>2
  <1>8. EmissionInterval = e
    BY DEF EmissionInterval, e
  <1>9. BurstAllowance = e * (Burst - 1)
    BY <1>1, <1>6, <1>7, <1>8 DEF BurstAllowance
  <1> QED
    BY <1>2, <1>3, <1>5, <1>6, <1>8, <1>9

\* The constants are numbers.
LEMMA BurstFacts == Burst \in Nat \ {0} /\ Second \in Nat \ {0} /\ MaxCost \in Nat
  BY GcraAssumption

\* The in-memory limiter always keeps its entries long enough.
LEMMA MemoryKeeps == Backend = "memory" => KeptLongEnough
  <1>1. Duration \in Nat
    BY GcraAssumption
  <1> QED
    BY <1>1, EmissionFacts DEF KeptLongEnough, BaseExpiration

\* How long an entry is kept does not depend on the time.
LEMMA BaseFacts ==
    ASSUME NEW t
    PROVE  BaseExpiration(t) \in Nat /\ BaseExpiration(t) = BaseExpiration(0)
  <1>1. Duration \in Nat /\ Second \in Nat \ {0} /\ BurstAllowance \in Nat
    BY GcraAssumption, EmissionFacts
  <1> DEFINE w == Duration + BurstAllowance
  <1>2. w \in Nat
    BY <1>1
  <1> HIDE DEF w
  <1>3. w \div Second \in Nat
    BY <1>1, <1>2, DivFacts
  <1>4. (w \div Second) * Second \in Nat
    BY <1>1, <1>3
  <1>5. BaseExpiration(t) = BaseExpiration(0)
    BY DEF BaseExpiration
  <1>6. BaseExpiration(t) \in Nat
    BY <1>2, <1>4 DEF BaseExpiration, w
  <1> QED
    BY <1>5, <1>6

\* The bucket's room is what calculateRemaining computes from the TAT.
LEMMA RemainingIsRoom ==
    ASSUME now \in Nat, NEW t \in Nat, t >= now
    PROVE  /\ CalculateRemaining(t) = Bucket!Room(t - now)
           /\ CalculateRemaining(t) \in Nat
  <1> DEFINE u == t - now
  <1>1. u \in Nat /\ (t <= now <=> u = 0) /\ t - now = u
    OBVIOUS
  <1> HIDE DEF u
  <1>2. EmissionInterval \in Nat \ {0} /\ BurstAllowance \in Nat /\ Burst \in Nat
        /\ BurstAllowance = EmissionInterval * (Burst - 1)
    BY EmissionFacts, BurstFacts
  <1> DEFINE c == CeilDiv(u, EmissionInterval)
  <1>3. /\ c \in Nat
        /\ u <= EmissionInterval * c
        /\ EmissionInterval * c < u + EmissionInterval
    BY <1>1, <1>2, CeilFacts
  <1>4. Bucket!Ceil(u, EmissionInterval) = c
    BY DEF Bucket!Ceil, CeilDiv
  <1> HIDE DEF c
  <1>5. u = 0 => c = 0
    BY <1>2, <1>3
  <1>6. Bucket!Room(u) = IF u > BurstAllowance THEN 0
                         ELSE Bucket!AtLeast(Burst - c, 0)
    BY <1>2, <1>4 DEF Bucket!Room
  <1>7. CalculateRemaining(t) = IF u = 0 THEN Burst
                                ELSE IF u > BurstAllowance THEN 0 ELSE MaxOf(Burst - c, 0)
    BY <1>1 DEF CalculateRemaining, c
  <1> QED
    BY <1>1, <1>2, <1>3, <1>5, <1>6, <1>7 DEF MaxOf, Bucket!AtLeast

\* Tokens that fit leave a TAT at most a burst away.
LEMMA GrantFits ==
    ASSUME now \in Nat, NEW t \in Nat, t >= now,
           NEW n \in Nat, n > 0, n <= CalculateRemaining(t)
    PROVE  t + EmissionInterval * n <= now + EmissionInterval * Burst
  <1> DEFINE u == t - now
             e == EmissionInterval
             c == CeilDiv(u, e)
  <1>1. e \in Nat \ {0} /\ Burst \in Nat /\ u \in Nat
    BY EmissionFacts, BurstFacts
  <1>2. c \in Nat /\ u <= e * c
    BY <1>1, CeilFacts
  <1>3. n <= Burst - c
    <2>1. CASE t <= now
      <3>1. u = 0
        BY <2>1
      <3>2. e * c < u + e
        BY <1>1, CeilFacts
      <3> HIDE DEF c, e, u
      <3>3. c = 0
        BY <1>1, <1>2, <3>1, <3>2
      <3> QED
        BY <1>1, <2>1, <3>3 DEF CalculateRemaining
    <2>2. CASE ~(t <= now)
      BY <1>1, <1>2, <2>2 DEF CalculateRemaining, MaxOf
    <2> QED
      BY <2>1, <2>2
  <1> HIDE DEF c, e
  <1>4. PICK d \in Nat : Burst = n + c + d
    <2>1. Burst - n - c \in Nat /\ Burst = n + c + (Burst - n - c)
      BY <1>1, <1>2, <1>3
    <2> QED
      BY <2>1
  <1>5. e * Burst = e * n + e * c + e * d
    BY <1>1, <1>2, <1>4
  <1>6. e * d \in Nat /\ e * n \in Nat /\ e * c \in Nat
    BY <1>1, <1>2, <1>4
  <1>7. t = now + u /\ u <= e * c
    BY <1>2
  <1> HIDE DEF u
  <1>8. t + e * n <= now + e * Burst
    BY <1>1, <1>5, <1>6, <1>7
  <1> QED
    BY <1>8 DEF e

\* The TAT of a key is a time not before now.
LEMMA TatFacts ==
    ASSUME TypeOK, NEW k \in Keys
    PROVE  Tat(k) \in Nat /\ Tat(k) >= now /\ now \in Nat
  <1>1. MaxTime \in Nat
    BY GcraAssumption
  <1>2. now \in Nat /\ data[k] \in Entry
    BY <1>1 DEF TypeOK
  <1> QED
    BY <1>2 DEF Entry, Tat, MaxOf

\* What a stored entry looks like afterwards, and that other keys keep theirs.
LEMMA Stored ==
    ASSUME TypeOK, NEW k \in Keys, NEW t \in Nat, NEW kept \in Nat,
           t >= now, t <= now + kept, kept > 0,
           data' = Store(k, t, kept), now' = now
    PROVE  /\ data' \in [Keys -> Entry]
           /\ TatKept => TatKept'
           /\ Tat(k)' = t
           /\ \A q \in Keys \ {k} : Tat(q)' = Tat(q)
  <1>1. now \in Nat
    BY TatFacts
  <1> DEFINE rec == [tat |-> t, expiration |-> now + kept]
  <1>2. rec \in Entry /\ rec.tat = t /\ rec.expiration = now + kept
    BY <1>1 DEF Entry
  <1>3. data' = [data EXCEPT ![k] = rec]
    BY DEF Store
  <1> HIDE DEF rec
  <1>4. data \in [Keys -> Entry]
    BY DEF TypeOK
  <1>5. data' \in [Keys -> Entry] /\ data'[k] = rec
        /\ \A q \in Keys \ {k} : data'[q] = data[q]
    BY <1>2, <1>3, <1>4
  <1>6. TatKept => TatKept'
    BY <1>2, <1>5 DEF TatKept
  <1>7. Tat(k)' = t
    BY <1>1, <1>2, <1>5 DEF Tat, Live, MaxOf
  <1>8. \A q \in Keys \ {k} : Tat(q)' = Tat(q)
    BY <1>5 DEF Tat, Live
  <1> QED
    BY <1>5, <1>6, <1>7, <1>8

\* A grant keeps the invariant and is a grant of the bucket.
LEMMA GrantedStep ==
    ASSUME KeptLongEnough, GcraInv, NEW k \in Keys, NEW n \in 1..MaxCost,
           n <= CalculateRemaining(Tat(k)), Granted(k, n), UNCHANGED <<now, before>>
    PROVE  GcraInv' /\ Bucket!Grant(k, n)
  <1>1. TypeOK /\ TatKept
    BY DEF GcraInv
  <1>2. Tat(k) \in Nat /\ Tat(k) >= now /\ now \in Nat /\ n \in Nat /\ n > 0
    BY <1>1, TatFacts, BurstFacts
  <1> DEFINE m == EmissionInterval * n
             t == Tat(k) + m
             kept == GrantExpiration(t)
  <1>3. m \in Nat /\ t \in Nat /\ t >= now
    BY <1>2, EmissionFacts
  <1>4. t <= now + EmissionInterval * Burst
    BY <1>2, GrantFits
  <1>5. kept \in Nat /\ EmissionInterval * Burst <= kept
    BY BaseFacts DEF KeptLongEnough, GrantExpiration
  <1>6. EmissionInterval * Burst \in Nat /\ EmissionInterval * Burst > 0
    BY EmissionFacts
  <1>7. t <= now + kept /\ kept > 0
    <2> HIDE DEF t, kept
    <2> QED
      BY <1>2, <1>3, <1>4, <1>5, <1>6
  <1>8. data' = Store(k, t, kept) /\ now' = now
    BY DEF Granted
  <1>9. total' = [total EXCEPT ![k] = @ + n] /\ retry' = [retry EXCEPT ![k] = MaxTime + 1]
    BY DEF Granted
  <1> HIDE DEF kept
  <1>10. /\ data' \in [Keys -> Entry]
         /\ TatKept'
         /\ Tat(k)' = t
         /\ \A q \in Keys \ {k} : Tat(q)' = Tat(q)
    <2> HIDE DEF t
    <2> QED
      BY <1>1, <1>2, <1>3, <1>5, <1>7, <1>8, Stored
  <1>11. TypeOK'
    <2>1. MaxTime + 1 \in Nat
      BY GcraAssumption
    <2>2. total' \in [Keys -> Nat] /\ retry' \in [Keys -> Nat]
      BY <1>1, <1>2, <1>9, <2>1 DEF TypeOK
    <2> QED
      BY <1>1, <1>10, <2>2 DEF TypeOK
  <1>12. Bucket!Grant(k, n)
    <2> DEFINE old == [q \in Keys |-> Tat(q) - now]
               new == [q \in Keys |-> Tat(q)' - now']
    <2>1. n <= Bucket!Room(old[k])
      BY <1>2, RemainingIsRoom
    <2>2. new = [old EXCEPT ![k] = @ + m]
      <3>1. \A q \in Keys : new[q] = IF q = k THEN old[q] + m ELSE old[q]
        BY <1>2, <1>3, <1>8, <1>10
      <3> QED
        BY <3>1
    <2> QED
      BY <1>9, <2>1, <2>2 DEF Bucket!Grant
  <1> QED
    BY <1>10, <1>11, <1>12 DEF GcraInv

\* A forced charge keeps the invariant and is a charge of the bucket.
LEMMA ConsumeStep ==
    ASSUME GcraInv, NEW k \in Keys, NEW n \in 1..MaxCost, ConsumeN(k, n)
    PROVE  GcraInv' /\ Bucket!Charge(k, n)
  <1>1. TypeOK /\ TatKept
    BY DEF GcraInv
  <1>2. Tat(k) \in Nat /\ Tat(k) >= now /\ now \in Nat /\ n \in Nat /\ n > 0
    BY <1>1, TatFacts, BurstFacts
  <1> DEFINE m == EmissionInterval * n
             t == Tat(k) + m
             kept == ChargeExpiration(t)
  <1>3. m \in Nat /\ m > 0 /\ t \in Nat /\ t > now
    BY <1>2, EmissionFacts
  <1>4. kept \in Nat /\ t - now <= kept
    <2> HIDE DEF t
    <2> DEFINE u == t - now
    <2>1. u \in Nat
      BY <1>2, <1>3
    <2> HIDE DEF u
    <2>2. CeilDiv(u, Second) \in Nat /\ u <= Second * CeilDiv(u, Second) /\ Second \in Nat
      BY <2>1, CeilFacts, BurstFacts
    <2>3. CeilDiv(u, Second) * Second \in Nat /\ u <= CeilDiv(u, Second) * Second
      BY <2>2
    <2>4. BaseExpiration(t) \in Nat
      BY BaseFacts
    <2>5. kept \in Nat /\ u <= kept
      BY <2>1, <2>3, <2>4 DEF ChargeExpiration, MaxOf, u
    <2> QED
      BY <2>5 DEF u
  <1>5. data' = Store(k, t, kept) /\ now' = now
    BY DEF ConsumeN
  <1>6. total' = total /\ before' = before /\ retry' = [retry EXCEPT ![k] = MaxTime + 1]
    BY DEF ConsumeN
  <1> HIDE DEF kept
  <1>7. /\ data' \in [Keys -> Entry]
        /\ TatKept'
        /\ Tat(k)' = t
        /\ \A q \in Keys \ {k} : Tat(q)' = Tat(q)
    <2> HIDE DEF t
    <2>1. t <= now + kept /\ kept > 0
      BY <1>2, <1>3, <1>4
    <2> QED
      BY <1>1, <1>2, <1>3, <1>4, <1>5, <2>1, Stored
  <1>8. TypeOK'
    <2>1. MaxTime + 1 \in Nat
      BY GcraAssumption
    <2>2. retry' \in [Keys -> Nat]
      BY <1>1, <1>6, <2>1 DEF TypeOK
    <2> QED
      BY <1>1, <1>5, <1>6, <1>7, <2>2 DEF TypeOK
  <1>9. Bucket!Charge(k, n)
    <2> DEFINE old == [q \in Keys |-> Tat(q) - now]
               new == [q \in Keys |-> Tat(q)' - now']
    <2>1. new = [old EXCEPT ![k] = @ + m]
      <3>1. \A q \in Keys : new[q] = IF q = k THEN old[q] + m ELSE old[q]
        BY <1>2, <1>3, <1>5, <1>7
      <3> QED
        BY <3>1
    <2> QED
      BY <1>5, <1>6, <2>1 DEF Bucket!Charge
  <1> QED
    BY <1>7, <1>8, <1>9 DEF GcraInv

\* The clock implements the draining of the bucket.
LEMMA TickStep ==
    ASSUME GcraInv, Tick
    PROVE  GcraInv' /\ Bucket!Tick
  <1>1. TypeOK /\ TatKept /\ MaxTime \in Nat
    BY GcraAssumption DEF GcraInv
  <1>2. TypeOK'
    BY <1>1 DEF TypeOK, Tick
  <1>3. TatKept'
    BY <1>1 DEF TatKept, Tick
  <1>4. ASSUME NEW k \in Keys
        PROVE  Tat(k)' - now' = Bucket!AtLeast((Tat(k) - now) - 1, 0)
    <2>1. /\ now \in Nat /\ now' = now + 1 /\ data' = data
          /\ data[k].tat \in Nat /\ data[k].expiration \in Nat
          /\ data[k].tat <= data[k].expiration
      BY <1>1 DEF TypeOK, TatKept, Tick, Entry
    <2> QED
      BY <2>1 DEF Tat, Live, MaxOf, Bucket!AtLeast
  <1>5. [k \in Keys |-> Tat(k)' - now'] =
            [k \in Keys |-> Bucket!AtLeast([q \in Keys |-> Tat(q) - now][k] - 1, 0)]
    BY <1>4
  <1>6. Bucket!Tick
    BY <1>5 DEF Tick, Bucket!Tick
  <1> QED
    BY <1>2, <1>3, <1>6 DEF GcraInv

\* A single request that comes no more than the burst early is allowed.
LEMMA SingleAllowed ==
    ASSUME TypeOK, NEW k \in Keys, now >= Tat(k) - BurstAllowance
    PROVE  Allowed(k, 1)
  <1> DEFINE t == Tat(k)
             u == t - now
             c == CeilDiv(u, EmissionInterval)
  <1>1. t \in Nat /\ t >= now /\ now \in Nat /\ u \in Nat
    BY TatFacts
  <1>2. EmissionInterval \in Nat \ {0} /\ BurstAllowance \in Nat /\ Burst \in Nat \ {0}
        /\ EmissionInterval * Burst = BurstAllowance + EmissionInterval
    BY EmissionFacts, BurstFacts
  <1>3. c \in Nat /\ EmissionInterval * c < u + EmissionInterval
    BY <1>1, <1>2, CeilFacts
  <1>4. u <= BurstAllowance
    BY <1>1, <1>2
  <1>5. c < Burst
    <2> DEFINE e == EmissionInterval
    <2>1. e \in Nat \ {0} /\ e * c < e * Burst
      <3>1. e * c \in Nat /\ e * Burst \in Nat
        BY <1>2, <1>3
      <3> HIDE DEF c, u
      <3> QED
        BY <1>1, <1>2, <1>3, <1>4, <3>1
    <2> HIDE DEF c, e
    <2>2. ~(Burst <= c)
      <3>1. SUFFICES ASSUME Burst <= c PROVE FALSE
        OBVIOUS
      <3>2. PICK d \in Nat : c = Burst + d
        <4>1. c - Burst \in Nat /\ c = Burst + (c - Burst)
          BY <1>2, <1>3, <3>1
        <4> QED
          BY <4>1
      <3>3. e * c = e * Burst + e * d /\ e * d \in Nat /\ e * Burst \in Nat
        BY <1>2, <2>1, <3>2
      <3> QED
        BY <2>1, <3>3
    <2> QED
      BY <1>2, <1>3, <2>2
  <1> HIDE DEF c
  <1>6. 1 <= CalculateRemaining(t)
    BY <1>1, <1>2, <1>3, <1>4, <1>5 DEF CalculateRemaining, MaxOf, c
  <1> QED
    BY <1>1, <1>2, <1>4, <1>6 DEF Allowed

\* A single request is denied only before the time it is told to come back.
LEMMA DeniedSingle ==
    ASSUME TypeOK, NEW k \in Keys, ~Allowed(k, 1)
    PROVE  RetryAt(Tat(k)) \in Nat
  <1>1. Tat(k) \in Nat /\ now \in Nat /\ BurstAllowance \in Nat
    BY TatFacts, EmissionFacts
  <1>2. ~(now >= Tat(k) - BurstAllowance)
    BY SingleAllowed
  <1> QED
    BY <1>1, <1>2 DEF RetryAt

\* A denial implements a stutter of the bucket.
LEMMA DeniedStep ==
    ASSUME GcraInv, NEW k \in Keys, AllowNDenied(k)
    PROVE  GcraInv' /\ UNCHANGED Bucket!bucketVars
  <1>1. TypeOK /\ TatKept
    BY DEF GcraInv
  <1>2. RetryAt(Tat(k)) \in Nat
    BY <1>1, DeniedSingle DEF AllowNDenied
  <1>3. now' = now /\ data' = data /\ total' = total /\ before' = before
        /\ retry' = [retry EXCEPT ![k] = RetryAt(Tat(k))]
    BY DEF AllowNDenied
  <1>4. retry' \in [Keys -> Nat]
    BY <1>1, <1>2, <1>3 DEF TypeOK
  <1>5. TypeOK' /\ TatKept'
    BY <1>1, <1>3, <1>4 DEF TypeOK, TatKept
  <1>6. \A q \in Keys : Tat(q)' = Tat(q)
    BY <1>3 DEF Tat, Live
  <1> QED
    BY <1>3, <1>5, <1>6 DEF GcraInv, Bucket!bucketVars

\* The cleanup implements a stutter of the bucket.
LEMMA CleanupStep ==
    ASSUME GcraInv, RemoveExpired
    PROVE  GcraInv' /\ UNCHANGED Bucket!bucketVars
  <1>1. TypeOK /\ TatKept /\ now \in Nat
    BY GcraAssumption DEF GcraInv, TypeOK
  <1>2. NoEntry \in Entry /\ NoEntry.tat = 0 /\ NoEntry.expiration = 0
    BY DEF NoEntry, Entry
  <1>3. now' = now /\ retry' = retry /\ total' = total /\ before' = before
        /\ data' = [k \in Keys |-> IF k \in Expired THEN NoEntry ELSE data[k]]
    BY DEF RemoveExpired
  <1>4. data' \in [Keys -> Entry]
    BY <1>1, <1>2, <1>3 DEF TypeOK
  <1>5. TypeOK' /\ TatKept'
    BY <1>1, <1>2, <1>3, <1>4 DEF TypeOK, TatKept
  <1>6. ASSUME NEW q \in Keys
        PROVE  Tat(q)' = Tat(q)
    <2>1. data[q].expiration \in Nat
      BY <1>1 DEF TypeOK, Entry
    <2>2. CASE q \in Expired
      BY <1>1, <1>2, <1>3, <2>1, <2>2 DEF Tat, Live, Expired
    <2>3. CASE q \notin Expired
      BY <1>3, <2>3 DEF Tat, Live
    <2> QED
      BY <2>2, <2>3
  <1> QED
    BY <1>3, <1>5, <1>6 DEF GcraInv, Bucket!bucketVars

\* Initial states map to initial states.
LEMMA InitStep == Init => GcraInv /\ Bucket!Init
  <1> SUFFICES ASSUME Init PROVE GcraInv /\ Bucket!Init
    OBVIOUS
  <1>1. NoEntry \in Entry /\ NoEntry.tat = 0 /\ NoEntry.expiration = 0
    BY DEF NoEntry, Entry
  <1>2. MaxTime \in Nat
    BY GcraAssumption
  <1>3. GcraInv
    BY <1>1, <1>2 DEF Init, GcraInv, TypeOK, TatKept
  <1>4. ASSUME NEW k \in Keys PROVE Tat(k) - now = 0
    <2>1. now = 0 /\ data[k] = NoEntry
      BY DEF Init
    <2>2. ~Live(k)
      BY <1>1, <2>1 DEF Live
    <2> QED
      BY <2>1, <2>2 DEF Tat
  <1> QED
    BY <1>3, <1>4 DEF Init, Bucket!Init

\* Every step maps to a step or a stutter.
LEMMA NextStep ==
    ASSUME KeptLongEnough, GcraInv, [Next]_vars
    PROVE  GcraInv' /\ [Bucket!Next]_(Bucket!bucketVars)
  <1>1. CASE Tick
    BY <1>1, TickStep DEF Bucket!Next
  <1>2. ASSUME NEW k \in Keys, NEW n \in 1..MaxCost, AllowN(k, n)
        PROVE  GcraInv' /\ Bucket!Next
    <2>1. n \in 0..MaxCost
      BY BurstFacts
    <2>2. GcraInv' /\ Bucket!Grant(k, n)
      BY <1>2, GrantedStep DEF AllowN, Allowed
    <2> QED
      BY <2>1, <2>2 DEF Bucket!Next
  <1>3. ASSUME NEW k \in Keys, NEW n \in 1..MaxCost, ConsumeOrClampN(k, n)
        PROVE  GcraInv' /\ Bucket!Next
    <2> DEFINE m == Clamped(k, n)
    <2>1. Tat(k) \in Nat /\ Tat(k) >= now /\ now \in Nat
      BY TatFacts DEF GcraInv
    <2>2. CalculateRemaining(Tat(k)) \in Nat
      BY <2>1, RemainingIsRoom
    <2>3. m \in 1..MaxCost /\ m <= CalculateRemaining(Tat(k))
      BY <1>3, <2>2, BurstFacts DEF ConsumeOrClampN, Clamped, MinOf
    <2>4. m \in 0..MaxCost
      BY <2>3, BurstFacts
    <2>5. Granted(k, m) /\ UNCHANGED <<now, before>>
      BY <1>3 DEF ConsumeOrClampN
    <2> HIDE DEF m
    <2>6. GcraInv' /\ Bucket!Grant(k, m)
      BY <2>3, <2>5, GrantedStep
    <2> QED
      BY <2>4, <2>6 DEF Bucket!Next
  <1>4. ASSUME NEW k \in Keys, NEW n \in 1..MaxCost, ConsumeN(k, n)
        PROVE  GcraInv' /\ Bucket!Next
    <2>1. n \in 0..MaxCost
      BY BurstFacts
    <2> QED
      BY <1>4, <2>1, ConsumeStep DEF Bucket!Next
  <1>5. CASE \E k \in Keys : AllowNDenied(k)
    BY <1>5, DeniedStep
  <1>6. CASE RemoveExpired
    BY <1>6, CleanupStep
  <1>7. CASE UNCHANGED vars
    <2>1. now' = now /\ data' = data /\ retry' = retry /\ total' = total /\ before' = before
      BY <1>7 DEF vars
    <2>2. \A q \in Keys : Tat(q)' = Tat(q)
      BY <2>1 DEF Tat, Live
    <2>3. GcraInv'
      BY <2>1 DEF GcraInv, TypeOK, TatKept
    <2> QED
      BY <2>1, <2>2, <2>3 DEF Bucket!bucketVars
  <1> QED
    BY <1>1, <1>2, <1>3, <1>4, <1>5, <1>6, <1>7 DEF Next

\* Every value stays in its domain, and an entry never expires before its TAT.
THEOREM GcraTypes == ASSUME KeptLongEnough PROVE Spec => []GcraInv
  <1>1. Init => GcraInv
    BY InitStep
  <1>2. GcraInv /\ [Next]_vars => GcraInv'
    BY NextStep
  <1> QED
    BY <1>1, <1>2, PTL DEF Spec

\* A limiter that keeps its entries as long as a burst takes to drain implements
\* the bucket that never forgets, whatever the policy and the backend.
THEOREM GcraRefinesBucket == ASSUME KeptLongEnough PROVE Spec => BucketSpec
  <1>1. Init => GcraInv /\ Bucket!Init
    BY InitStep
  <1>2. GcraInv /\ [Next]_vars => GcraInv' /\ [Bucket!Next]_(Bucket!bucketVars)
    BY NextStep
  <1> QED
    BY <1>1, <1>2, PTL DEF Spec, BucketSpec, Bucket!Spec

\* The in-memory limiter does so for every policy.
THEOREM MemoryRefinesBucket == ASSUME Backend = "memory" PROVE Spec => BucketSpec
  BY MemoryKeeps, GcraRefinesBucket

\* The facts proved of the bucket, for the bucket this limiter implements.
Contract == INSTANCE LeakyBucketProofs WITH
              EI <- EmissionInterval,
              Amounts <- 0..MaxCost,
              backlog <- [k \in Keys |-> Tat(k) - now]

\* The rate contract holds of the limiter itself: over any interval a key is
\* granted no more than the burst and one token per emission interval.
THEOREM GcraRate == ASSUME KeptLongEnough PROVE Spec => []RateKept
  <1>1. Contract!BucketAssumption
    BY GcraAssumption, EmissionFacts, BurstFacts DEF Contract!BucketAssumption
  <1>2. Contract!Spec => []Contract!Conforms
    BY <1>1, Contract!RateContract
  <1>3. Bucket!Init => Contract!Init
    BY DEF Bucket!Init, Contract!Init
  <1>4. [Bucket!Next]_(Bucket!bucketVars) => [Contract!Next]_(Contract!bucketVars)
    BY DEF Bucket!Next, Bucket!bucketVars, Contract!Next, Contract!bucketVars,
           Bucket!Tick, Contract!Tick, Bucket!Grant, Contract!Grant,
           Bucket!Charge, Contract!Charge, Bucket!Room, Contract!Room,
           Bucket!Ceil, Contract!Ceil, Bucket!AtLeast, Contract!AtLeast
  <1>5. Contract!Conforms => RateKept
    BY DEF Contract!Conforms, RateKept, Bucket!Conforms
  <1>6. Spec => BucketSpec
    BY GcraRefinesBucket
  <1> QED
    BY <1>2, <1>3, <1>4, <1>5, <1>6, PTL DEF Contract!Spec, BucketSpec, Bucket!Spec

-----------------------------------------------------------------------------
(* What the limiter tells is what it does.                                  *)

\* The pre-check reads the tokens that AllowN would find, also at the instant an
\* entry expires in memory: its TAT is not ahead of the clock any more.
LEMMA AvailableIsRemaining ==
    ASSUME GcraInv, NEW k \in Keys
    PROVE  GetAvailable(k) = CalculateRemaining(Tat(k))
  <1>1. /\ now \in Nat /\ data[k] \in Entry /\ Backend \in {"memory", "redis"}
        /\ data[k].tat \in Nat /\ data[k].expiration \in Nat
        /\ data[k].tat <= data[k].expiration
    BY GcraAssumption DEF GcraInv, TypeOK, TatKept, Entry
  <1>2. \A t \in Nat : t <= now => CalculateRemaining(t) = Burst
    BY DEF CalculateRemaining
  <1>3. CASE Live(k)
    <2>1. data[k] # NoEntry /\ ~(now > data[k].expiration)
      BY <1>1, <1>3 DEF Live, NoEntry
    <2>2. GetAvailable(k) = CalculateRemaining(data[k].tat)
      BY <1>3, <2>1 DEF GetAvailable
    <2>3. Tat(k) = MaxOf(data[k].tat, now)
      BY <1>3 DEF Tat
    <2>4. CASE data[k].tat < now
      BY <1>1, <1>2, <2>2, <2>3, <2>4 DEF MaxOf
    <2>5. CASE ~(data[k].tat < now)
      BY <2>2, <2>3, <2>5 DEF MaxOf
    <2> QED
      BY <2>4, <2>5
  <1>4. CASE ~Live(k)
    <2>1. CalculateRemaining(Tat(k)) = Burst
      BY <1>1, <1>2, <1>4 DEF Tat
    <2>2. data[k].tat <= data[k].expiration /\ data[k].expiration <= now
      BY <1>1, <1>4 DEF Live
    <2>3. CalculateRemaining(data[k].tat) = Burst
      BY <1>1, <1>2, <2>2
    <2> QED
      BY <1>4, <2>1, <2>3 DEF GetAvailable
  <1> QED
    BY <1>3, <1>4

\* For a request of at least one token, the second test of AllowN is the whole.
LEMMA AllowedIsRemaining ==
    ASSUME TypeOK, NEW k \in Keys, NEW n \in Nat \ {0}
    PROVE  Allowed(k, n) <=> n <= CalculateRemaining(Tat(k))
  <1>1. Tat(k) \in Nat /\ Tat(k) >= now /\ now \in Nat /\ BurstAllowance \in Nat
    BY TatFacts, EmissionFacts
  <1>2. CASE now >= Tat(k) - BurstAllowance
    BY <1>2 DEF Allowed
  <1>3. CASE now < Tat(k) - BurstAllowance
    <2>1. CalculateRemaining(Tat(k)) = 0
      BY <1>1, <1>3 DEF CalculateRemaining
    <2> QED
      BY <1>1, <1>3, <2>1 DEF Allowed
  <1> QED
    BY <1>1, <1>2, <1>3

\* The time a denied request was told is the time its key will allow it, or the
\* clock has passed both.
ToldOK(k) == retry[k] > MaxTime \/ Tat(k) - BurstAllowance <= MaxOf(retry[k], now)

ToldInv == \A k \in Keys : ToldOK(k)

\* The invariants make the answers agree.
LEMMA InvReadsAgree == GcraInv /\ ToldInv => ReadsAgree
  <1> SUFFICES ASSUME GcraInv, ToldInv PROVE AvailableAgrees /\ RetryHonest
    BY DEF ReadsAgree
  <1>1. ASSUME NEW k \in Keys, NEW n \in 1..(Burst + 1)
        PROVE  n <= GetAvailable(k) <=> Allowed(k, n)
    <2>1. n \in Nat \ {0}
      BY BurstFacts
    <2> QED
      BY <2>1, AvailableIsRemaining, AllowedIsRemaining DEF GcraInv
  <1>2. ASSUME NEW k \in Keys, now >= retry[k] PROVE Allowed(k, 1)
    <2>1. /\ now \in 0..MaxTime /\ MaxTime \in Nat /\ retry[k] \in Nat
          /\ Tat(k) \in Nat /\ BurstAllowance \in Nat
      BY GcraAssumption, TatFacts, EmissionFacts DEF GcraInv, TypeOK
    <2>2. now >= Tat(k) - BurstAllowance
      BY <1>2, <2>1 DEF ToldInv, ToldOK, MaxOf
    <2> QED
      BY <2>2, SingleAllowed DEF GcraInv
  <1> QED
    BY <1>1, <1>2 DEF AvailableAgrees, RetryHonest

\* A key whose tokens are taken has no request waiting any more; the others keep
\* their TAT.
LEMMA TakenTold ==
    ASSUME GcraInv, ToldInv, NEW k \in Keys, NEW t, NEW kept,
           data' = Store(k, t, kept), now' = now,
           retry' = [retry EXCEPT ![k] = MaxTime + 1]
    PROVE  ToldInv'
  <1>1. data \in [Keys -> Entry] /\ retry \in [Keys -> Nat] /\ MaxTime \in Nat
    BY GcraAssumption DEF GcraInv, TypeOK
  <1>2. ToldOK(k)'
    BY <1>1 DEF ToldOK
  <1>3. ASSUME NEW q \in Keys, q # k PROVE ToldOK(q)'
    <2>1. data'[q] = data[q] /\ retry'[q] = retry[q]
      BY <1>1, <1>3 DEF Store
    <2>2. Tat(q)' = Tat(q)
      BY <2>1 DEF Tat, Live
    <2>3. ToldOK(q)
      BY DEF ToldInv
    <2> QED
      BY <2>1, <2>2, <2>3 DEF ToldOK
  <1> QED
    BY <1>2, <1>3 DEF ToldInv

\* The clock keeps what was told true.
LEMMA TickTold ==
    ASSUME GcraInv, ToldInv, Tick
    PROVE  ToldInv'
  <1> SUFFICES ASSUME NEW q \in Keys PROVE ToldOK(q)'
    BY DEF ToldInv
  <1>1. now \in Nat /\ now' = now + 1 /\ data' = data /\ retry' = retry
    BY GcraAssumption DEF GcraInv, TypeOK, Tick
  <1>2. /\ data[q].tat \in Nat /\ data[q].expiration \in Nat /\ retry[q] \in Nat
        /\ Tat(q) \in Nat /\ BurstAllowance \in Nat /\ MaxTime \in Nat
    BY GcraAssumption, TatFacts, EmissionFacts DEF GcraInv, TypeOK, Entry
  <1>3. Tat(q)' = Tat(q) \/ Tat(q)' = now'
    BY <1>1, <1>2 DEF Tat, Live, MaxOf
  <1>4. ToldOK(q)
    BY DEF ToldInv
  <1> QED
    BY <1>1, <1>2, <1>3, <1>4 DEF ToldOK, MaxOf

\* The cleanup keeps what was told true.
LEMMA CleanupTold ==
    ASSUME GcraInv, ToldInv, RemoveExpired
    PROVE  ToldInv'
  <1> SUFFICES ASSUME NEW q \in Keys PROVE ToldOK(q)'
    BY DEF ToldInv
  <1>1. /\ now \in Nat /\ now' = now /\ retry' = retry
        /\ data' = [k \in Keys |-> IF k \in Expired THEN NoEntry ELSE data[k]]
        /\ data[q].expiration \in Nat /\ NoEntry.expiration = 0
    BY GcraAssumption DEF GcraInv, TypeOK, Entry, RemoveExpired, NoEntry
  <1>2. Tat(q)' = Tat(q)
    <2>1. CASE q \in Expired
      BY <1>1, <2>1 DEF Tat, Live, Expired
    <2>2. CASE q \notin Expired
      BY <1>1, <2>2 DEF Tat, Live
    <2> QED
      BY <2>1, <2>2
  <1> QED
    BY <1>1, <1>2 DEF ToldInv, ToldOK

\* Every step keeps what was told true.
LEMMA NextTold ==
    ASSUME GcraInv, ToldInv, [Next]_vars
    PROVE  ToldInv'
  <1>1. CASE Tick
    BY <1>1, TickTold
  <1>2. ASSUME NEW k \in Keys, NEW n \in 1..MaxCost,
               AllowN(k, n) \/ ConsumeOrClampN(k, n) \/ ConsumeN(k, n)
        PROVE  ToldInv'
    <2>1. PICK t, kept : /\ data' = Store(k, t, kept) /\ now' = now
                         /\ retry' = [retry EXCEPT ![k] = MaxTime + 1]
      BY <1>2 DEF AllowN, ConsumeOrClampN, ConsumeN, Granted
    <2> QED
      BY <2>1, TakenTold
  <1>3. ASSUME NEW k \in Keys, AllowNDenied(k) PROVE ToldInv'
    <2>1. /\ now' = now /\ data' = data /\ retry' = [retry EXCEPT ![k] = RetryAt(Tat(k))]
          /\ retry \in [Keys -> Nat] /\ now \in Nat
      BY <1>3, GcraAssumption DEF AllowNDenied, GcraInv, TypeOK
    <2>2. \A q \in Keys : Tat(q)' = Tat(q)
      BY <2>1 DEF Tat, Live
    <2>3. retry'[k] = Tat(k) - BurstAllowance /\ Tat(k) \in Nat /\ BurstAllowance \in Nat
      BY <2>1, TatFacts, EmissionFacts DEF RetryAt, GcraInv
    <2>4. ToldOK(k)'
      BY <2>1, <2>2, <2>3 DEF ToldOK, MaxOf
    <2>5. ASSUME NEW q \in Keys, q # k PROVE ToldOK(q)'
      BY <2>1, <2>2, <2>5 DEF ToldInv, ToldOK
    <2> QED
      BY <2>4, <2>5 DEF ToldInv
  <1>4. CASE RemoveExpired
    BY <1>4, CleanupTold
  <1>5. CASE UNCHANGED vars
    <2>1. now' = now /\ data' = data /\ retry' = retry
      BY <1>5 DEF vars
    <2>2. \A q \in Keys : Tat(q)' = Tat(q)
      BY <2>1 DEF Tat, Live
    <2> QED
      BY <2>1, <2>2 DEF ToldInv, ToldOK
  <1> QED
    BY <1>1, <1>2, <1>3, <1>4, <1>5 DEF Next

\* What GetAvailable tells the cost-based pre-check and what RetryAfter tells a
\* client are what AllowN then decides, at every instant of every run.
THEOREM GcraTellsTheTruth == ASSUME KeptLongEnough PROVE Spec => []ReadsAgree
  <1>1. Init => GcraInv /\ ToldInv
    <2>1. ASSUME Init PROVE ToldInv
      <3>1. MaxTime + 1 > MaxTime
        BY GcraAssumption
      <3>2. \A k \in Keys : retry[k] = MaxTime + 1
        BY <2>1 DEF Init
      <3> QED
        BY <3>1, <3>2 DEF ToldInv, ToldOK
    <2> QED
      BY <2>1, InitStep
  <1>2. GcraInv /\ ToldInv /\ [Next]_vars => GcraInv' /\ ToldInv'
    BY NextStep, NextTold
  <1> QED
    BY <1>1, <1>2, InvReadsAgree, PTL DEF Spec

\* The in-memory limiter tells the truth under every policy.
THEOREM MemoryTellsTheTruth == ASSUME Backend = "memory" PROVE Spec => []ReadsAgree
  BY MemoryKeeps, GcraTellsTheTruth

(***************************************************************************)
(* FixedWindow                                                             *)
(***************************************************************************)
Resting == {"idle", "done", "error"}

\* What a request carries from one of its steps to the next.
RequestOK(r) ==
    /\ req[r].read <= clock
    /\ req[r].pc \notin Resting => req[r].n > 0 /\ req[r].op \in conf.ops
    /\ req[r].pc \in {"check", "upstream"} => req[r].op = "charge"
    /\ req[r].pc = "script" => req[r].op = "clamp" /\ PolicyBackend = "redis"
    /\ req[r].pc \in {"incr", "expire"} => req[r].op # "clamp" /\ PolicyBackend = "redis"

RequestInv == \A r \in Reqs : RequestOK(r)

\* How often an INCRBY or a script may have restarted the counter of window w by time t.
ByIncr(i, w, t) ==
    IF /\ PolicyBackend # "memory" /\ conf.ops \cap {"allow", "charge"} # {}
       /\ ExpireUnit < PolicyDuration[i] /\ w + PolicyDuration[i] - t < ExpireUnit
    THEN 1 ELSE 0

ByScript(i, w, t) ==
    IF /\ PolicyBackend # "memory" /\ "clamp" \in conf.ops
       /\ ScriptUnit < PolicyDuration[i] /\ w + PolicyDuration[i] - t < ScriptUnit
    THEN 1 ELSE 0

\* What a call for window w finds.
Alive(i, w) ==
    IF PolicyBackend = "redis" /\ clock >= store[i][w].expiration THEN 0 ELSE store[i][w].count

\* The key of window w is there, and will be gone before the window ends.
Dying(i, w) ==
    /\ PolicyBackend = "redis" /\ clock < store[i][w].expiration
    /\ store[i][w].expiration < w + PolicyDuration[i]

\* How often the counter of window w has restarted, at most: a key that dies too soon
\* is not the last one.
Past(i, w) ==
    IF Dying(i, w) THEN Restarts(i, w, store[i][w].expiration) - 1 ELSE Restarts(i, w, clock)

\* The running window and the ones to come: the stored counter is not there before the
\* first token, is what was taken unless it restarted, and outlives its window but
\* for the last unit of its TTL; each restart admits up to the limit again.
CounterOK(i, w) ==
    w >= WindowStart(i, clock) =>
        /\ taken[i][w] = 0 => store[i][w] = Gone
        /\ taken[i][w] > 0 => w = WindowStart(i, clock)
        /\ PolicyBackend = "memory" =>
              /\ store[i][w].count = taken[i][w]
              /\ taken[i][w] > 0 => store[i][w].expiration >= w + PolicyDuration[i]
        /\ PolicyBackend = "redis" /\ clock < store[i][w].expiration => store[i][w].count > 0
        /\ Dying(i, w) => Restarts(i, w, store[i][w].expiration) > 0
        /\ Alive(i, w) <= taken[i][w]
        /\ admitted[i][w] <= taken[i][w]
        /\ Restarts(i, w, clock) = 0 =>
              Alive(i, w) = taken[i][w] /\ admitted[i][w] <= PolicyLimit[i]
        /\ admitted[i][w] <= LesserOf(Alive(i, w), PolicyLimit[i]) + PolicyLimit[i] * Past(i, w)

CounterInv == \A i \in Limiters, w \in Times : CounterOK(i, w)

\* A limiter that denied left no tokens, so that no later result replaces its own.
DenialOK(r) ==
    /\ req[r].result.allowed <=> ~req[r].denied
    /\ req[r].pc \notin Resting /\ req[r].denied =>
          req[r].op # "allow" /\ req[r].result.remaining = 0

DenialInv == \A r \in Reqs : DenialOK(r)

\* Request r may still charge window w of limiter i without asking again: it is on
\* its way to that limiter, or about to ask it for an earlier window.
MayCharge(r, i, w) ==
    LET q == req[r] IN
    \/ q.pc = "incr" /\ q.i = i /\ WindowStart(i, q.read) = w
    \/ /\ w >= WindowStart(i, clock)
       /\ \/ q.pc = "upstream"
          \/ q.pc = "check" /\ (q.i > i \/ (q.i = i /\ WindowStart(i, q.read) < w))
          \/ q.pc = "call" /\ q.i <= i
          \/ q.pc \in {"incr", "expire"} /\ q.i < i

Chargers(i, w) == {r \in Reqs : MayCharge(r, i, w)}

\* What one counter lets through of costs charged after the response.
Most(i) == PolicyLimit[i] - 1 + MaxTokens * Cardinality(Reqs)

\* How often the counter of a window has restarted, at most; once it has ended, that
\* is settled.
Lost(i, w) == IF w >= WindowStart(i, clock) THEN Past(i, w) ELSE Restarts(i, w, clock)

\* The running window is what its live counter and the lost ones let through.
Counted(i, w) == w >= WindowStart(i, clock) => taken[i][w] <= Alive(i, w) + Most(i) * Past(i, w)

\* What was taken and what requests under way may still take is what the counters of
\* the window let through; what they counted before the last restart, likewise.
OvershootOK(i, w) ==
    /\ taken[i][w] + MaxTokens * Cardinality(Chargers(i, w)) <= Most(i) * (1 + Lost(i, w))
    /\ Counted(i, w)

OvershootInv == conf.ops = {"charge"} => \A i \in Limiters, w \in Times : OvershootOK(i, w)

----------------------------------------------------------------------------
(* Windows.                                                                 *)

\* Division rounds down.
LEMMA QuotientFacts ==
    ASSUME NEW a \in Int, NEW b \in Nat, b > 0
    PROVE  /\ a \div b \in Int
           /\ a \in Nat => a \div b \in Nat
           /\ b * (a \div b) <= a
           /\ a < b * (a \div b) + b
  BY Z3

\* A product grows with its factor.
LEMMA MultipleMonotone ==
    ASSUME NEW k \in Nat, NEW a \in Nat, NEW b \in Nat, a <= b
    PROVE  k * a <= k * b /\ k * a \in Nat /\ k * b \in Nat
  BY Z3

\* Whole units are less than a unit short, and at least one where there is one.
LEMMA WholeFacts ==
    ASSUME NEW ttl \in Int, NEW unit \in Nat, unit > 0
    PROVE  /\ WholeUnits(ttl, unit) \in Int
           /\ WholeUnits(ttl, unit) <= ttl
           /\ ttl < WholeUnits(ttl, unit) + unit
           /\ WholeUnits(ttl, unit) > 0 \/ ttl >= unit => WholeUnits(ttl, unit) >= unit
<1> DEFINE q == ttl \div unit
<1>1. q \in Int /\ unit * q <= ttl /\ ttl < unit * q + unit
  BY QuotientFacts
<1> HIDE DEF q
<1>2. WholeUnits(ttl, unit) = unit * q /\ unit * q \in Int
  BY <1>1 DEF WholeUnits, q
<1>3. ASSUME q <= 0 PROVE unit * q <= 0
  BY <1>1, <1>3, Z3
<1>4. ASSUME q > 0 PROVE unit * q >= unit
  <2>1. unit * 1 <= unit * q
    BY <1>1, <1>4, MultipleMonotone
  <2> QED
    BY <2>1
<1> QED
  BY <1>1, <1>2, <1>3, <1>4

\* What the configuration of a deployment is.
LEMMA DeploymentFacts ==
    ASSUME WindowTypeOK
    PROVE  /\ Limiters = 1..Len(conf.limit) /\ Len(conf.limit) \in Nat /\ 1 \in Limiters
           /\ \A i \in Limiters : /\ PolicyLimit[i] \in Nat \ {0}
                                  /\ PolicyDuration[i] \in Nat \ {0}
                                  /\ LastTime + PolicyDuration[i] + Jitter + Grace < Never
           /\ PolicyBackend \in {"memory", "redis"} /\ conf.expireFails \in BOOLEAN
           /\ conf.ops \subseteq {"allow", "clamp", "charge"}
<1>1. IsDeployment(conf)
  BY FixedWindowAssumption DEF WindowTypeOK
<1>2. \A i \in 1..Len(conf.duration) : LastTime + conf.duration[i] + Jitter + Grace < Never
  BY FixedWindowAssumption DEF WindowTypeOK
<1> QED
  BY <1>1, <1>2 DEF IsDeployment, Limiters, PolicyLimit, PolicyDuration, PolicyBackend

\* The window of a time starts at or before it, and ends after it.
LEMMA WindowFacts ==
    ASSUME WindowTypeOK, NEW i \in Limiters, NEW t \in Nat
    PROVE  /\ WindowStart(i, t) \in Nat
           /\ WindowStart(i, t) <= t
           /\ t < WindowStart(i, t) + PolicyDuration[i]
           /\ t \in Times => WindowStart(i, t) \in Times
<1> DEFINE d == PolicyDuration[i]
<1>1. d \in Nat /\ d > 0
  BY DeploymentFacts
<1>2. /\ t \div d \in Nat
      /\ d * (t \div d) <= t
      /\ t < d * (t \div d) + d
  BY <1>1, QuotientFacts
<1>3. WindowStart(i, t) = d * (t \div d)
  BY <1>1, <1>2 DEF WindowStart
<1>4. d * (t \div d) \in Nat
  BY <1>1, <1>2
<1> QED
  BY <1>1, <1>2, <1>3, <1>4, FixedWindowAssumption DEF Times

\* Windows are ordered as their times are.
LEMMA WindowMonotone ==
    ASSUME WindowTypeOK, NEW i \in Limiters, NEW t \in Nat, NEW u \in Nat, t <= u
    PROVE  WindowStart(i, t) <= WindowStart(i, u)
<1> DEFINE d == PolicyDuration[i]
           a == t \div d
           b == u \div d
<1>1. d \in Nat /\ d > 0
  BY DeploymentFacts
<1>2. a \in Nat /\ b \in Nat /\ d * a <= t /\ u < d * b + d
  BY <1>1, QuotientFacts
<1>3. WindowStart(i, t) = d * a /\ WindowStart(i, u) = d * b
  BY <1>1, <1>2 DEF WindowStart
<1> HIDE DEF a, b, d
<1>4. ASSUME a > b PROVE FALSE
  <2>1. d * a >= d * (b + 1)
    BY <1>1, <1>2, <1>4
  <2>2. d * (b + 1) = d * b + d
    BY <1>1, <1>2
  <2> QED
    BY <1>1, <1>2, <2>1, <2>2
<1>5. d * a <= d * b
  BY <1>1, <1>2, <1>4
<1> QED
  BY <1>3, <1>5

\* A step leaves the windows of the deployment where they are.
LEMMA WindowsFixed ==
    ASSUME conf' = conf
    PROVE  /\ Limiters' = Limiters /\ PolicyLimit' = PolicyLimit
           /\ PolicyDuration' = PolicyDuration /\ PolicyBackend' = PolicyBackend
           /\ \A i, t : WindowStart(i, t)' = WindowStart(i, t)
           /\ \A i, w, t : Restarts(i, w, t)' = Restarts(i, w, t)
           /\ Request' = Request
  BY DEF Limiters, PolicyLimit, PolicyDuration, PolicyBackend, WindowStart, Request,
         Restarts

\* Times are numbers.
LEMMA TimesNat == Times \subseteq Nat
  BY FixedWindowAssumption DEF Times

\* A window starts early enough for its TTL to end before Never.
LEMMA TtlBounds ==
    ASSUME WindowTypeOK, NEW i \in Limiters, NEW w \in Times
    PROVE  /\ w \in Nat /\ PolicyDuration[i] \in Nat /\ Never \in Nat /\ Never # 0
           /\ LastTime \in Nat /\ Grace \in Nat /\ Jitter \in Nat
           /\ w + PolicyDuration[i] + Grace < Never
           /\ \A jitter \in 0..(Jitter - 1), t \in Times :
                 t + PolicyDuration[i] + jitter < Never
<1>1. /\ LastTime + PolicyDuration[i] + Jitter + Grace < Never /\ PolicyDuration[i] \in Nat \ {0}
  BY DeploymentFacts
<1> QED
  BY <1>1, FixedWindowAssumption DEF Times

\* The TTL that EXPIRE sets is less than a second short of the window's end, and only
\* if there was more than a second to go.
LEMMA ExpireTtl ==
    ASSUME WindowTypeOK, NEW i \in Limiters, NEW read \in Times, NEW jitter \in 0..(Jitter - 1),
           NEW ttl, ttl = InSeconds(Ttl(i, read, clock, jitter)),
           NEW end, end = WindowStart(i, read) + PolicyDuration[i]
    PROVE  /\ ttl \in Int /\ end \in Nat /\ clock \in Nat /\ ExpireUnit \in Nat
           /\ ttl > 0 => clock + ttl \in Nat /\ clock + ttl < Never
           /\ clock < end => ttl > 0
           /\ ttl > 0 /\ clock + ttl < end /\ WindowStart(i, read) <= clock =>
                 /\ ExpireUnit < PolicyDuration[i] /\ end - (clock + ttl) < ExpireUnit
                 /\ clock + ExpireUnit <= end
<1> DEFINE raw == Ttl(i, read, clock, jitter)
           w == WindowStart(i, read)
<1>1. /\ clock \in Nat /\ clock <= LastTime /\ read \in Nat /\ read <= LastTime
      /\ jitter \in Nat /\ jitter < Jitter /\ Jitter \in Nat /\ LastTime \in Nat
      /\ ExpireUnit \in Nat /\ ExpireUnit > 0 /\ Never \in Nat /\ LastTime + ExpireUnit < Never
  BY FixedWindowAssumption DEF Times, WindowTypeOK
<1>2. w \in Nat /\ w <= read /\ PolicyDuration[i] \in Nat /\ PolicyDuration[i] > 0
  BY <1>1, WindowFacts, DeploymentFacts
<1>3. LastTime + PolicyDuration[i] + Jitter + Grace < Never /\ Grace \in Nat
  BY DeploymentFacts, FixedWindowAssumption
<1>4. raw = end + jitter - clock /\ raw \in Int
  BY <1>1, <1>2 DEF Ttl, WindowEnd
<1> DEFINE whole == WholeUnits(raw, ExpireUnit)
<1>5. /\ whole \in Int /\ whole <= raw /\ raw < whole + ExpireUnit
      /\ whole > 0 \/ raw >= ExpireUnit => whole >= ExpireUnit
  BY <1>1, <1>4, WholeFacts
<1> HIDE DEF raw, whole
<1>6. ttl = IF raw \in 1..(ExpireUnit - 1) THEN ExpireUnit ELSE whole
  BY DEF InSeconds, raw, whole
<1> HIDE DEF w
<1>7. end = w + PolicyDuration[i]
  BY DEF w
<1> QED
  BY <1>1, <1>2, <1>3, <1>4, <1>5, <1>6, <1>7 DEF w

\* The TTL that the script sets is less than a millisecond short of the window's end.
LEMMA ScriptTtl ==
    ASSUME WindowTypeOK, NEW i \in Limiters, NEW read \in Times, NEW jitter \in 0..(Jitter - 1),
           NEW ttl, ttl = WholeUnits(Ttl(i, read, read, jitter), ScriptUnit),
           NEW end, end = WindowStart(i, read) + PolicyDuration[i]
    PROVE  /\ ttl \in Nat /\ end \in Nat /\ clock \in Nat /\ ScriptUnit \in Nat
           /\ clock + ttl < Never
           /\ ttl > 0 /\ clock + ttl < end /\ read <= clock =>
                 /\ ScriptUnit < PolicyDuration[i] /\ end - (clock + ttl) < ScriptUnit
                 /\ clock + ScriptUnit <= end
<1> DEFINE raw == Ttl(i, read, read, jitter)
           w == WindowStart(i, read)
<1>1. /\ clock \in Nat /\ clock <= LastTime /\ read \in Nat /\ read <= LastTime
      /\ jitter \in Nat /\ jitter < Jitter /\ Jitter \in Nat /\ LastTime \in Nat
      /\ ScriptUnit \in Nat /\ ScriptUnit > 0 /\ Never \in Nat
  BY FixedWindowAssumption DEF Times, WindowTypeOK
<1>2. w \in Nat /\ w <= read /\ read < w + PolicyDuration[i] /\ PolicyDuration[i] \in Nat
  BY <1>1, WindowFacts, DeploymentFacts
<1>3. LastTime + PolicyDuration[i] + Jitter + Grace < Never /\ Grace \in Nat
  BY DeploymentFacts, FixedWindowAssumption
<1>4. raw = end + jitter - read /\ raw \in Int
  BY <1>1, <1>2 DEF Ttl, WindowEnd
<1>5. /\ ttl \in Int /\ ttl <= raw /\ raw < ttl + ScriptUnit
      /\ ttl > 0 \/ raw >= ScriptUnit => ttl >= ScriptUnit
  BY <1>1, <1>4, WholeFacts
<1>6. ttl >= 0
  <2>1. /\ raw \div ScriptUnit \in Nat /\ ttl = (raw \div ScriptUnit) * ScriptUnit
    <3>1. raw \in Nat
      <4> HIDE DEF raw, w
      <4>1. end = w + PolicyDuration[i]
        BY DEF w
      <4> QED
        BY <1>1, <1>2, <1>4, <4>1
    <3> QED
      BY <1>1, <3>1, QuotientFacts DEF WholeUnits
  <2> HIDE DEF raw
  <2>2. ScriptUnit * 0 <= ScriptUnit * (raw \div ScriptUnit)
    BY <1>1, <2>1, MultipleMonotone
  <2> QED
    BY <1>1, <2>1, <2>2
<1> HIDE DEF raw
<1> HIDE DEF w
<1>7. end = w + PolicyDuration[i]
  BY DEF w
<1> QED
  BY <1>1, <1>2, <1>3, <1>4, <1>5, <1>6, <1>7 DEF w

\* Restarts are few, none in memory, and never become fewer.
LEMMA RestartFacts ==
    ASSUME WindowTypeOK, NEW i \in Limiters, NEW w \in Nat, NEW t \in Nat
    PROVE  /\ Restarts(i, w, t) = ByIncr(i, w, t) + ByScript(i, w, t)
           /\ ByIncr(i, w, t) \in {0, 1} /\ ByScript(i, w, t) \in {0, 1}
           /\ PolicyBackend = "memory" => Restarts(i, w, t) = 0
           /\ \A u \in Nat : t <= u => /\ ByIncr(i, w, t) <= ByIncr(i, w, u)
                                       /\ ByScript(i, w, t) <= ByScript(i, w, u)
                                       /\ Restarts(i, w, t) <= Restarts(i, w, u)
           /\ t + ExpireUnit <= w + PolicyDuration[i] => Restarts(i, w, t) = 0
           /\ t + ScriptUnit <= w + PolicyDuration[i] => ByScript(i, w, t) = 0
<1>1. /\ ExpireUnit \in Nat /\ ScriptUnit \in Nat /\ ScriptUnit <= ExpireUnit
      /\ PolicyDuration[i] \in Nat /\ PolicyBackend \in {"memory", "redis"}
  BY FixedWindowAssumption, DeploymentFacts
<1>2. ASSUME NEW u \in Nat
      PROVE  /\ Restarts(i, w, u) = ByIncr(i, w, u) + ByScript(i, w, u)
             /\ ByIncr(i, w, u) \in {0, 1} /\ ByScript(i, w, u) \in {0, 1}
  BY DEF Restarts, ByIncr, ByScript
<1>3. \A u \in Nat : t <= u => ByIncr(i, w, t) <= ByIncr(i, w, u)
  BY <1>1 DEF ByIncr
<1>4. \A u \in Nat : t <= u => ByScript(i, w, t) <= ByScript(i, w, u)
  BY <1>1 DEF ByScript
<1>5. t + ExpireUnit <= w + PolicyDuration[i] => ByIncr(i, w, t) = 0
  BY <1>1 DEF ByIncr
<1>6. t + ScriptUnit <= w + PolicyDuration[i] => ByScript(i, w, t) = 0
  BY <1>1 DEF ByScript
<1>7. PolicyBackend = "memory" => ByIncr(i, w, t) = 0 /\ ByScript(i, w, t) = 0
  BY DEF ByIncr, ByScript
<1>8. t + ExpireUnit <= w + PolicyDuration[i] => t + ScriptUnit <= w + PolicyDuration[i]
  BY <1>1
<1> QED
  BY <1>2, <1>3, <1>4, <1>5, <1>6, <1>7, <1>8

----------------------------------------------------------------------------
(* Types.                                                                   *)

\* The steps of a request that call no limiter for tokens.
Quiet(r) ==
    \/ \E op \in conf.ops, n \in 1..MaxTokens : Start(r, op, n)
    \/ Finish(r) \/ CheckAvailable(r) \/ Respond(r)
    \/ RedisReadClock(r) \/ RedisError(r) \/ RedisExpireFails(r)

\* They change nothing but the request.
LEMMA QuietChanges ==
    ASSUME NEW r \in Reqs, Quiet(r)
    PROVE  UNCHANGED <<conf, clock, store, taken, admitted>>
  BY DEF Quiet, Start, Finish, CheckAvailable, Respond, RedisReadClock, RedisError, RedisExpireFails

\* Whatever a step does, it leaves the deployment alone.
LEMMA StepCases ==
    ASSUME WindowNext
    PROVE  /\ conf' = conf
           /\ \/ AdvanceClock \/ RemoveExpiredEntries
              \/ \E r \in Reqs : \/ Quiet(r) \/ MemoryCall(r) \/ RedisIncr(r)
                                 \/ \E jitter \in 0..(Jitter - 1) :
                                       RedisExpire(r, jitter) \/ RedisScript(r, jitter)
<1>1. \/ AdvanceClock \/ RemoveExpiredEntries
      \/ \E r \in Reqs : \/ Quiet(r) \/ MemoryCall(r) \/ RedisIncr(r)
                         \/ \E jitter \in 0..(Jitter - 1) :
                               RedisExpire(r, jitter) \/ RedisScript(r, jitter)
  BY DEF WindowNext, Quiet
<1>2. AdvanceClock \/ RemoveExpiredEntries => conf' = conf
  BY DEF AdvanceClock, RemoveExpiredEntries
<1>3. ASSUME NEW r \in Reqs
      PROVE  /\ MemoryCall(r) \/ RedisIncr(r) => conf' = conf
             /\ \A jitter : RedisExpire(r, jitter) \/ RedisScript(r, jitter) => conf' = conf
  BY DEF MemoryCall, RedisIncr, RedisExpire, RedisScript
<1> QED
  BY <1>1, <1>2, <1>3, QuietChanges

\* What a limiter answers.
Answer == [allowed : BOOLEAN, remaining : Nat]

\* MultiLimiter.AllowN returns a result.
LEMMA ReturnedType ==
    ASSUME WindowTypeOK, NEW r \in Reqs, NEW result \in Answer, Returned(r, result)
    PROVE  req' \in [Reqs -> Request]
<1>1. MostRestrictive(req[r].result, result) \in Result
  BY DEF MostRestrictive, Result, Answer, WindowTypeOK, Request
<1>2. req[r] \in Request /\ req[r].denied \in BOOLEAN /\ result.allowed \in BOOLEAN
  BY DEF WindowTypeOK, Request, Answer
<1>3. (req[r].denied \/ ~result.allowed) \in BOOLEAN
  OBVIOUS
<1> QED
  BY <1>1, <1>2, <1>3 DEF Returned, WindowTypeOK, Request

\* What remains is never negative.
LEMMA RemainingType ==
    ASSUME WindowTypeOK, NEW i \in Limiters, NEW count \in Nat
    PROVE  Remaining(i, count) \in Nat
  BY DeploymentFacts DEF Remaining, GreaterOf

\* Counts are numbers.
LEMMA CountType ==
    ASSUME WindowTypeOK, NEW i \in Limiters, NEW t \in Times
    PROVE  CurrentCount(i, t) \in Nat
<1>1. t \in Nat
  BY FixedWindowAssumption DEF Times
<1>2. WindowStart(i, t) \in Times
  BY <1>1, WindowFacts
<1> QED
  BY <1>2 DEF CurrentCount, WindowTypeOK

\* A clamped call consumes no more than it asks.
LEMMA ConsumedType ==
    ASSUME WindowTypeOK, NEW i \in Limiters, NEW count \in Nat, NEW n \in Nat,
           NEW op \in {"allow", "clamp", "charge"}
    PROVE  Consumed(op, i, count, n) \in Nat
  BY RemainingType, DeploymentFacts DEF Consumed, LesserOf

\* What is known of a request.
LEMMA RequestFacts ==
    ASSUME WindowTypeOK, NEW r \in Reqs
    PROVE  /\ req[r] \in Request /\ req[r].i \in Limiters /\ req[r].read \in Times
           /\ req[r].n \in Nat /\ req[r].n <= MaxTokens
           /\ req[r].op \in {"allow", "clamp", "charge"}
           /\ PolicyLimit[req[r].i] \in Nat \ {0} /\ clock \in Times
<1>1. req[r] \in Request /\ clock \in Times
  BY DEF WindowTypeOK
<1>2. /\ req[r].i \in Limiters /\ req[r].read \in Times /\ req[r].n \in 0..MaxTokens
      /\ req[r].op \in {"allow", "clamp", "charge"}
  BY <1>1 DEF Request
<1> QED
  BY <1>1, <1>2, DeploymentFacts, FixedWindowAssumption

\* A quiet step keeps the type of the request.
LEMMA QuietType ==
    ASSUME WindowTypeOK, NEW r \in Reqs, Quiet(r)
    PROVE  req' \in [Reqs -> Request]
<1>1. clock \in Times /\ 1 \in Limiters /\ req[r] \in Request /\ req \in [Reqs -> Request]
  BY DeploymentFacts DEF WindowTypeOK
<1>2. CASE \E op \in conf.ops, n \in 1..MaxTokens : Start(r, op, n)
  <2> PICK op \in conf.ops, n \in 1..MaxTokens : Start(r, op, n)
    BY <1>2
  <2>1. op \in {"allow", "clamp", "charge"} /\ n \in 0..MaxTokens
    BY DeploymentFacts, FixedWindowAssumption
  <2>2. req[r].calls + 1 \in 0..MaxCalls
    BY <1>1, FixedWindowAssumption DEF Start, Request
  <2> QED
    BY <1>1, <2>1, <2>2 DEF Start, Request, Idle, NoResult, Result
<1>3. CASE Finish(r)
  <2>1. 0 \in 0..MaxTokens /\ 0 \in Times /\ req[r].calls \in 0..MaxCalls
    BY <1>1, FixedWindowAssumption DEF Times, Request
  <2> QED
    BY <1>1, <1>3, <2>1 DEF Finish, Request, Idle, NoResult, Result
<1>4. CASE CheckAvailable(r)
  BY <1>1, <1>4 DEF CheckAvailable, Request
<1>5. CASE Respond(r)
  BY <1>1, <1>5 DEF Respond, Request
<1>6. CASE RedisReadClock(r)
  BY <1>1, <1>6 DEF RedisReadClock, Request
<1>7. CASE RedisError(r) \/ RedisExpireFails(r)
  BY <1>1, <1>7 DEF RedisError, RedisExpireFails, Failed, Request
<1> QED
  BY <1>2, <1>3, <1>4, <1>5, <1>6, <1>7 DEF Quiet

WindowEntry == [count : Nat, expiration : Nat]
Entries == [Limiters -> [Times -> WindowEntry]]
Histories == [Limiters -> [Times -> Nat]]

\* The ghost counters keep their type when one of them grows.
LEMMA HistoryType ==
    ASSUME NEW h \in Histories, NEW i \in Limiters, NEW w \in Times, NEW m \in Nat
    PROVE  [h EXCEPT ![i][w] = @ + m] \in Histories
  BY DEF Histories

\* An answer has its type.
LEMMA AnswerType ==
    ASSUME NEW a \in BOOLEAN, NEW m \in Nat
    PROVE  [allowed |-> a, remaining |-> m] \in Answer
  BY DEF Answer

\* What a Redis limiter answers is a result.
LEMMA RedisResultType ==
    ASSUME WindowTypeOK, NEW i \in Limiters, NEW count \in Nat
    PROVE  RedisResult(i, count) \in Answer
<1>1. RedisAllows(i, count) \in BOOLEAN
  BY DEF RedisAllows
<1>2. Remaining(i, count) \in Nat
  BY RemainingType
<1> QED
  BY <1>1, <1>2, AnswerType DEF RedisResult

\* A call of a limiter for tokens keeps the types.
LEMMA CallType ==
    ASSUME WindowTypeOK, NEW r \in Reqs,
           \/ MemoryCall(r) \/ RedisIncr(r)
           \/ \E jitter \in 0..(Jitter - 1) : RedisExpire(r, jitter) \/ RedisScript(r, jitter)
    PROVE  /\ req' \in [Reqs -> Request] /\ store' \in Entries
           /\ taken' \in Histories /\ admitted' \in Histories
<1> DEFINE i == req[r].i
           n == req[r].n
<1>1. /\ i \in Limiters /\ n \in Nat /\ req[r].read \in Times /\ clock \in Times
      /\ req[r].op \in {"allow", "clamp", "charge"}
      /\ store \in Entries /\ taken \in Histories /\ admitted \in Histories
      /\ req \in [Reqs -> Request]
  <2>1. /\ store \in Entries /\ taken \in Histories /\ admitted \in Histories
        /\ req \in [Reqs -> Request] /\ req[r] \in Request /\ clock \in Times
    BY DEF WindowTypeOK, Entries, WindowEntry, Histories
  <2> QED
    BY <2>1, FixedWindowAssumption DEF Request
<1>2. \A t \in Times : WindowStart(i, t) \in Times /\ WindowStart(i, t) \in Nat
  BY <1>1, TimesNat, WindowFacts
<1>3. PolicyDuration[i] \in Nat /\ Grace \in Nat /\ Never \in Nat
  BY <1>1, DeploymentFacts, FixedWindowAssumption
<1>4. ASSUME NEW w \in Times, NEW allowed
      PROVE  /\ \A m \in Nat : Count(i, w, m) => taken' \in Histories
             /\ Admit(req[r], w, allowed) => admitted' \in Histories
  <2>1. ASSUME NEW m \in Nat, Count(i, w, m) PROVE taken' \in Histories
    BY <1>1, <2>1, HistoryType DEF Count
  <2>2. Admit(req[r], w, allowed) => admitted' \in Histories
    BY <1>1, HistoryType DEF Admit
  <2> QED
    BY <2>1, <2>2
<1> HIDE DEF i, n
<1>5. CASE MemoryCall(r)
  <2> DEFINE w == WindowStart(i, clock)
             count == CurrentCount(i, clock)
             consumed == Consumed(req[r].op, i, count, n)
             allowed == Allows(req[r].op, i, count, n)
  <2>1. w \in Times /\ w \in Nat /\ count \in Nat /\ consumed \in Nat
    BY <1>1, <1>2, CountType, ConsumedType
  <2>2. /\ store' = IF consumed > 0 THEN WriteEntry(i, w, count + consumed) ELSE store
        /\ Count(i, w, consumed) /\ Admit(req[r], w, allowed)
        /\ Returned(r, [allowed |-> allowed, remaining |-> Remaining(i, count + consumed)])
    BY <1>5 DEF MemoryCall, i, n
  <2> HIDE DEF w, count, consumed
  <2>3. Remaining(i, count + consumed) \in Nat /\ allowed \in BOOLEAN
    BY <1>1, <2>1, RemainingType DEF Allows
  <2> HIDE DEF allowed
  <2>4. req' \in [Reqs -> Request]
    BY <2>2, <2>3, ReturnedType DEF Answer
  <2>5. count + consumed \in Nat /\ w + PolicyDuration[i] + Grace \in Nat
    BY <1>3, <2>1
  <2>6. WriteEntry(i, w, count + consumed) \in Entries
    BY <1>1, <2>5 DEF WriteEntry, Entries, WindowEntry, Gone
  <2> QED
    BY <1>1, <1>4, <2>1, <2>2, <2>4, <2>6
<1>6. CASE RedisIncr(r)
  <2> DEFINE w == WindowStart(i, req[r].read)
             count == CurrentCount(i, req[r].read) + n
  <2>1. w \in Times /\ count \in Nat
    BY <1>1, <1>2, CountType
  <2>2. /\ Count(i, w, n) /\ Admit(req[r], w, RedisAllows(i, count))
        /\ store' = [store EXCEPT ![i][w] =
              [count |-> count,
               expiration |-> IF clock >= store[i][w].expiration THEN Never ELSE @.expiration]]
        /\ IF FirstInWindow(count, n) THEN req' = [req EXCEPT ![r].pc = "expire"]
           ELSE Returned(r, RedisResult(i, count))
    BY <1>6 DEF RedisIncr, i, n
  <2> HIDE DEF w, count
  <2>3. RedisResult(i, count) \in Answer
    BY <1>1, <2>1, RedisResultType
  <2>4. req' \in [Reqs -> Request]
    <3>1. CASE req' = [req EXCEPT ![r].pc = "expire"]
      BY <1>1, <3>1 DEF Request
    <3> QED
      BY <2>2, <2>3, <3>1, ReturnedType
  <2>5. store' \in Entries
    BY <1>1, <1>3, <2>1, <2>2 DEF Entries, WindowEntry
  <2> QED
    BY <1>1, <1>4, <2>1, <2>2, <2>4, <2>5
<1>7. ASSUME NEW jitter \in 0..(Jitter - 1), RedisExpire(r, jitter)
      PROVE  /\ req' \in [Reqs -> Request] /\ store' \in Entries
             /\ taken' \in Histories /\ admitted' \in Histories
  <2> DEFINE w == WindowStart(i, req[r].read)
             ttl == InSeconds(Ttl(i, req[r].read, clock, jitter))
  <2>1. w \in Times /\ ttl \in Int /\ (ttl > 0 => clock + ttl \in Nat)
    BY <1>1, <1>2, ExpireTtl
  <2>2. /\ taken' = taken /\ admitted' = admitted
        /\ store' = [store EXCEPT ![i][w] =
              IF clock >= @.expiration \/ ttl <= 0 THEN Gone
              ELSE [@ EXCEPT !.expiration = clock + ttl]]
        /\ Returned(r, RedisResult(i, n))
    BY <1>7 DEF RedisExpire, i, n
  <2> HIDE DEF w, ttl
  <2>3. RedisResult(i, n) \in Answer
    BY <1>1, RedisResultType
  <2>4. store' \in Entries
    <3> DEFINE old == store[i][w]
               new == IF clock >= old.expiration \/ ttl <= 0 THEN Gone
                      ELSE [old EXCEPT !.expiration = clock + ttl]
    <3>1. new \in WindowEntry
      BY <1>1, <2>1 DEF Entries, WindowEntry, Gone
    <3>2. store' = [store EXCEPT ![i][w] = new]
      BY <2>2
    <3> QED
      BY <1>1, <2>1, <3>1, <3>2 DEF Entries
  <2> QED
    BY <1>1, <2>2, <2>3, <2>4, ReturnedType
<1>8. ASSUME NEW jitter \in 0..(Jitter - 1), RedisScript(r, jitter)
      PROVE  /\ req' \in [Reqs -> Request] /\ store' \in Entries
             /\ taken' \in Histories /\ admitted' \in Histories
  <2> DEFINE w == WindowStart(i, req[r].read)
             count == CurrentCount(i, req[r].read)
             consumed == Consumed("clamp", i, count, n)
             ttl == WholeUnits(Ttl(i, req[r].read, req[r].read, jitter), ScriptUnit)
             end == clock + ttl
             left == Remaining(i, count + consumed)
  <2>1. w \in Times /\ count \in Nat /\ consumed \in Nat
    BY <1>1, <1>2, CountType, ConsumedType
  <2>2. end \in Nat
    <3>1. ttl \in Nat /\ clock \in Nat
      BY <1>1, ScriptTtl
    <3> QED
      BY <3>1
  <2>3. /\ store' = ScriptWrite(i, w, count, consumed, end)
        /\ Count(i, w, consumed) /\ admitted' = admitted
        /\ Returned(r, [allowed |-> consumed = n, remaining |-> left])
    BY <1>8 DEF RedisScript, i, n
  <2>4. left \in Nat
    BY <1>1, <2>1, RemainingType
  <2> HIDE DEF w, count, consumed, end, left
  <2>5. ScriptWrite(i, w, count, consumed, end) \in Entries
    BY <1>1, <2>1, <2>2 DEF ScriptWrite, Entries, WindowEntry
  <2>6. [allowed |-> consumed = n, remaining |-> left] \in Answer
    BY <2>4, AnswerType
  <2> QED
    BY <1>1, <1>4, <2>1, <2>3, <2>5, <2>6, ReturnedType
<1> QED
  BY <1>5, <1>6, <1>7, <1>8

\* Every step keeps the types.
LEMMA NextType ==
    ASSUME WindowTypeOK, [WindowNext]_windowVars
    PROVE  WindowTypeOK'
<1>1. CASE UNCHANGED windowVars
  <2> USE <1>1 DEF windowVars
  <2>1. Request' = Request /\ Limiters' = Limiters
    BY WindowsFixed
  <2> QED
    BY <2>1 DEF WindowTypeOK
<1>2. CASE WindowNext
  <2>1. conf' = conf
    BY <1>2, StepCases
  <2>2. Request' = Request /\ Limiters' = Limiters
    BY <2>1, WindowsFixed
  <2>3. SUFFICES /\ clock' \in Times /\ store' \in Entries /\ req' \in [Reqs -> Request]
                 /\ taken' \in Histories /\ admitted' \in Histories
    BY <2>1, <2>2 DEF WindowTypeOK, Entries, WindowEntry, Histories
  <2>4. /\ clock \in Times /\ store \in Entries /\ req \in [Reqs -> Request]
        /\ taken \in Histories /\ admitted \in Histories
    BY DEF WindowTypeOK, Entries, WindowEntry, Histories
  <2>5. CASE AdvanceClock
    BY <2>4, <2>5, FixedWindowAssumption DEF AdvanceClock, Times
  <2>6. CASE RemoveExpiredEntries
    BY <2>4, <2>6 DEF RemoveExpiredEntries, Entries, WindowEntry, Gone
  <2>7. ASSUME NEW r \in Reqs, Quiet(r)
        PROVE  /\ clock' = clock /\ store' = store /\ taken' = taken /\ admitted' = admitted
               /\ req' \in [Reqs -> Request]
    BY <2>7, QuietChanges, QuietType
  <2>8. ASSUME NEW r \in Reqs,
               \/ MemoryCall(r) \/ RedisIncr(r)
               \/ \E jitter \in 0..(Jitter - 1) : RedisExpire(r, jitter) \/ RedisScript(r, jitter)
        PROVE  clock' = clock
    BY <2>8 DEF MemoryCall, RedisIncr, RedisExpire, RedisScript
  <2> QED
    BY <1>2, <2>4, <2>5, <2>6, <2>7, <2>8, StepCases, CallType
<1> QED
  BY <1>1, <1>2

\* The initial state has the types.
LEMMA InitType == WindowInit => WindowTypeOK
<1> SUFFICES ASSUME WindowInit PROVE WindowTypeOK
  OBVIOUS
<1>1. /\ 0 \in Times /\ 0 \in 0..MaxTokens /\ 0 \in 0..MaxCalls
  BY FixedWindowAssumption DEF Times
<1>2. IsDeployment(conf)
  BY FixedWindowAssumption DEF WindowInit
<1>3. 1 \in Limiters
  BY <1>2 DEF IsDeployment, Limiters
<1>4. Idle \in Request
  BY <1>1, <1>3 DEF Idle, Request, Result, NoResult
<1> QED
  BY <1>1, <1>4 DEF WindowInit, WindowTypeOK, Gone

----------------------------------------------------------------------------
(* What requests carry along.                                               *)

\* The call of a limiter returned: the fields it sets.
LEMMA ReturnedFacts ==
    ASSUME WindowTypeOK, NEW r \in Reqs, NEW result \in Answer, Returned(r, result)
    PROVE  /\ \A s \in Reqs : s # r => req'[s] = req[s]
           /\ req'[r].pc \in {"done", "call"}
           /\ req'[r].op = req[r].op /\ req'[r].n = req[r].n /\ req'[r].read = req[r].read
           /\ req'[r].pc = "call" => /\ req'[r].i = req[r].i + 1 /\ req'[r].i \in Limiters
                                     /\ req[r].op = "allow" => result.allowed
           /\ req'[r].result = MostRestrictive(req[r].result, result)
           /\ req'[r].denied = (req[r].denied \/ ~result.allowed)
<1> DEFINE q == req[r]
           last == q.i + 1 \notin Limiters \/ (q.op = "allow" /\ ~result.allowed)
           new == [q EXCEPT !.pc = IF last THEN "done" ELSE "call",
                            !.i = IF last THEN q.i ELSE q.i + 1,
                            !.result = MostRestrictive(q.result, result),
                            !.denied = q.denied \/ ~result.allowed]
<1>1. req' = [req EXCEPT ![r] = new]
  BY DEF Returned
<1>2. req'[r] = new /\ \A s \in Reqs : s # r => req'[s] = req[s]
  BY <1>1 DEF WindowTypeOK
<1>3. q \in Request
  BY DEF WindowTypeOK
<1>4. /\ new.pc = (IF last THEN "done" ELSE "call")
      /\ new.i = (IF last THEN q.i ELSE q.i + 1)
      /\ new.op = q.op /\ new.n = q.n /\ new.read = q.read
      /\ new.result = MostRestrictive(q.result, result)
      /\ new.denied = (q.denied \/ ~result.allowed)
  BY <1>3 DEF Request
<1> HIDE DEF new
<1> QED
  BY <1>2, <1>4

\* A step of one request leaves the others alone.
LEMMA OthersUntouched ==
    ASSUME WindowTypeOK, NEW r \in Reqs,
           \/ Quiet(r) \/ MemoryCall(r) \/ RedisIncr(r)
           \/ \E jitter \in 0..(Jitter - 1) : RedisExpire(r, jitter) \/ RedisScript(r, jitter),
           NEW s \in Reqs, s # r
    PROVE  req'[s] = req[s]
<1>1. \A result : Returned(r, result) => req'[s] = req[s]
  BY DEF Returned, WindowTypeOK
<1>2. CASE Quiet(r)
  BY <1>2 DEF Quiet, Start, Finish, CheckAvailable, Respond, RedisReadClock, RedisError,
              RedisExpireFails, Failed, WindowTypeOK
<1>3. CASE MemoryCall(r)
  BY <1>1, <1>3 DEF MemoryCall
<1>4. CASE RedisIncr(r)
  BY <1>1, <1>4 DEF RedisIncr, WindowTypeOK
<1>5. CASE \E jitter \in 0..(Jitter - 1) : RedisExpire(r, jitter) \/ RedisScript(r, jitter)
  BY <1>1, <1>5 DEF RedisExpire, RedisScript
<1> QED
  BY <1>2, <1>3, <1>4, <1>5

\* What a call of a limiter for tokens answers; the request then goes on to the
\* next limiter, to the end, or, in Redis, first to the TTL of the counter.
LEMMA CallAnswers ==
    ASSUME WindowTypeOK, NEW r \in Reqs,
           \/ MemoryCall(r) \/ RedisIncr(r)
           \/ \E jitter \in 0..(Jitter - 1) : RedisExpire(r, jitter) \/ RedisScript(r, jitter)
    PROVE  \/ \E result \in Answer :
                 /\ Returned(r, result)
                 /\ ~result.allowed /\ req[r].op # "allow" => result.remaining = 0
           \/ req' = [req EXCEPT ![r].pc = "expire"] /\ req[r].pc = "incr"
<1> DEFINE i == req[r].i
           n == req[r].n
<1>1. /\ i \in Limiters /\ n \in Nat /\ req[r].read \in Times /\ clock \in Times
      /\ req[r].op \in {"allow", "clamp", "charge"} /\ PolicyLimit[i] \in Nat
  BY RequestFacts
<1>2. \A count \in Nat : /\ RedisResult(i, count) \in Answer
                         /\ ~RedisResult(i, count).allowed => RedisResult(i, count).remaining = 0
  <2> TAKE count \in Nat
  <2>1. RedisResult(i, count) \in Answer
    BY <1>1, RedisResultType
  <2>2. ~RedisAllows(i, count) => Remaining(i, count) = 0
    BY <1>1 DEF RedisAllows, Remaining, GreaterOf
  <2> QED
    BY <2>1, <2>2 DEF RedisResult
<1>3. CASE MemoryCall(r)
  <2> DEFINE count == CurrentCount(i, clock)
             consumed == Consumed(req[r].op, i, count, n)
             allowed == Allows(req[r].op, i, count, n)
             left == Remaining(i, count + consumed)
  <2>1. count \in Nat /\ consumed \in Nat
    BY <1>1, CountType, ConsumedType
  <2>2. left \in Nat
    BY <1>1, <2>1, RemainingType
  <2>5. allowed \in BOOLEAN
    BY DEF Allows
  <2>3. Returned(r, [allowed |-> allowed, remaining |-> left])
    BY <1>3 DEF MemoryCall
  <2>4. ~allowed /\ req[r].op # "allow" => left = 0
    <3> HIDE DEF i, n, count
    <3>1. CASE req[r].op = "clamp"
      BY <1>1, <2>1, <3>1 DEF Allows, Consumed, Remaining, GreaterOf, LesserOf
    <3>2. CASE req[r].op = "charge"
      BY <1>1, <2>1, <3>2 DEF Allows, Consumed, Remaining, GreaterOf
    <3> QED
      BY <1>1, <3>1, <3>2
  <2> HIDE DEF allowed, left
  <2> QED
    BY <2>2, <2>3, <2>4, <2>5, AnswerType
<1>4. CASE RedisIncr(r)
  <2> DEFINE count == CurrentCount(i, req[r].read) + n
  <2>1. count \in Nat
    BY <1>1, CountType
  <2>2. IF FirstInWindow(count, n) THEN req' = [req EXCEPT ![r].pc = "expire"]
        ELSE Returned(r, RedisResult(i, count))
    BY <1>4 DEF RedisIncr
  <2>3. req[r].pc = "incr"
    BY <1>4 DEF RedisIncr
  <2> HIDE DEF count, i
  <2> QED
    BY <1>2, <2>1, <2>2, <2>3
<1>5. ASSUME NEW jitter \in 0..(Jitter - 1), RedisExpire(r, jitter)
      PROVE  Returned(r, RedisResult(i, n))
  BY <1>5 DEF RedisExpire
<1>6. ASSUME NEW jitter \in 0..(Jitter - 1), RedisScript(r, jitter)
      PROVE  \E result \in Answer : Returned(r, result) /\ (~result.allowed => result.remaining = 0)
  <2> DEFINE count == CurrentCount(i, req[r].read)
             consumed == Consumed("clamp", i, count, n)
             left == Remaining(i, count + consumed)
  <2>1. count \in Nat /\ consumed \in Nat
    BY <1>1, CountType, ConsumedType
  <2>2. left \in Nat /\ (consumed = n) \in BOOLEAN
    BY <1>1, <2>1, RemainingType
  <2>3. Returned(r, [allowed |-> consumed = n, remaining |-> left])
    BY <1>6 DEF RedisScript
  <2>4. consumed # n => left = 0
    <3> HIDE DEF i, n, count
    <3> QED
      BY <1>1, <2>1 DEF Consumed, Remaining, GreaterOf, LesserOf
  <2> HIDE DEF left, consumed
  <2> QED
    BY <2>2, <2>3, <2>4, AnswerType
<1> QED
  BY <1>1, <1>2, <1>3, <1>4, <1>5, <1>6

\* Init has only idle requests.
LEMMA InitRequest ==
    ASSUME WindowInit, NEW r \in Reqs
    PROVE  req[r] = Idle
  BY DEF WindowInit

\* A step outside the calls keeps what is known of every request.
LEMMA QuietRequest ==
    ASSUME WindowTypeOK, NEW r \in Reqs, RequestOK(r), Quiet(r)
    PROVE  RequestOK(r)'
<1>1. /\ req \in [Reqs -> Request] /\ req[r] \in Request /\ clock \in Nat
      /\ conf' = conf /\ clock' = clock /\ PolicyBackend' = PolicyBackend
  BY RequestFacts, TimesNat, QuietChanges, WindowsFixed DEF WindowTypeOK
<1> USE <1>1
<1>2. ASSUME NEW op \in conf.ops, NEW n \in 1..MaxTokens, Start(r, op, n)
      PROVE  RequestOK(r)'
  BY <1>2 DEF Start, RequestOK, Idle, Resting
<1>3. CASE Finish(r)
  BY <1>3 DEF Finish, RequestOK, Idle, Resting
<1>4. CASE CheckAvailable(r)
  BY <1>4 DEF CheckAvailable, RequestOK, Request, Resting
<1>5. CASE Respond(r)
  BY <1>5 DEF Respond, RequestOK, Request, Resting
<1>6. CASE RedisReadClock(r)
  BY <1>6 DEF RedisReadClock, RequestOK, Request, Resting
<1>7. CASE RedisError(r) \/ RedisExpireFails(r)
  BY <1>7 DEF RedisError, RedisExpireFails, Failed, RequestOK, Request, Resting
<1> QED
  BY <1>2, <1>3, <1>4, <1>5, <1>6, <1>7 DEF Quiet

\* A call keeps what is known of its request.
LEMMA CallRequest ==
    ASSUME WindowTypeOK, NEW r \in Reqs, RequestOK(r), conf' = conf, clock' = clock,
           req[r].pc \notin Resting,
           \/ MemoryCall(r) \/ RedisIncr(r)
           \/ \E jitter \in 0..(Jitter - 1) : RedisExpire(r, jitter) \/ RedisScript(r, jitter)
    PROVE  RequestOK(r)'
<1>1. /\ req \in [Reqs -> Request] /\ req[r] \in Request
      /\ PolicyBackend' = PolicyBackend
  BY RequestFacts, WindowsFixed DEF WindowTypeOK
<1>2. ASSUME NEW result \in Answer, Returned(r, result)
      PROVE  RequestOK(r)'
  BY <1>1, <1>2, ReturnedFacts DEF RequestOK, Resting
<1>3. CASE req' = [req EXCEPT ![r].pc = "expire"] /\ req[r].pc = "incr"
  BY <1>1, <1>3 DEF RequestOK, Request, Resting
<1> QED
  BY <1>2, <1>3, CallAnswers

\* A call for tokens is made by a request on its way, and takes no time.
LEMMA CallFrame ==
    ASSUME NEW r \in Reqs,
           \/ MemoryCall(r) \/ RedisIncr(r)
           \/ \E jitter \in 0..(Jitter - 1) : RedisExpire(r, jitter) \/ RedisScript(r, jitter)
    PROVE  conf' = conf /\ clock' = clock /\ req[r].pc \in {"call", "incr", "expire", "script"}
<1>1. MemoryCall(r) => /\ conf' = conf /\ clock' = clock /\ req[r].pc = "call"
  BY DEF MemoryCall
<1>2. RedisIncr(r) => /\ conf' = conf /\ clock' = clock /\ req[r].pc = "incr"
  BY DEF RedisIncr
<1>3. ASSUME NEW jitter \in 0..(Jitter - 1)
      PROVE  /\ RedisExpire(r, jitter) => conf' = conf /\ clock' = clock /\ req[r].pc = "expire"
             /\ RedisScript(r, jitter) => conf' = conf /\ clock' = clock /\ req[r].pc = "script"
  BY DEF RedisExpire, RedisScript
<1> QED
  BY <1>1, <1>2, <1>3

\* Every step keeps what is known of the requests.
LEMMA NextRequest ==
    ASSUME WindowTypeOK, RequestInv, [WindowNext]_windowVars
    PROVE  RequestInv'
<1>1. SUFFICES ASSUME NEW s \in Reqs PROVE RequestOK(s)'
  BY DEF RequestInv
<1>2. RequestOK(s)
  BY DEF RequestInv
<1>3. clock \in Nat
  BY TimesNat DEF WindowTypeOK
<1>4. ASSUME conf' = conf, clock' \in Nat, clock' >= clock, req'[s] = req[s]
      PROVE  RequestOK(s)'
  <2>1. req[s].read \in Nat /\ PolicyBackend' = PolicyBackend
    BY <1>4, RequestFacts, TimesNat, WindowsFixed
  <2> QED
    BY <1>2, <1>3, <1>4, <2>1 DEF RequestOK
<1>5. CASE UNCHANGED windowVars
  BY <1>3, <1>4, <1>5 DEF windowVars
<1>6. CASE AdvanceClock \/ RemoveExpiredEntries
  BY <1>3, <1>4, <1>6 DEF AdvanceClock, RemoveExpiredEntries
<1>7. ASSUME NEW r \in Reqs,
             \/ Quiet(r) \/ MemoryCall(r) \/ RedisIncr(r)
             \/ \E jitter \in 0..(Jitter - 1) : RedisExpire(r, jitter) \/ RedisScript(r, jitter)
      PROVE  RequestOK(s)'
  <2>1. conf' = conf /\ clock' = clock
    BY <1>7, CallFrame, QuietChanges
  <2>2. CASE s # r
    BY <1>3, <1>4, <1>7, <2>1, <2>2, OthersUntouched
  <2>3. CASE s = r /\ Quiet(r)
    BY <1>2, <2>3, QuietRequest
  <2>4. CASE s = r /\ ~Quiet(r)
    BY <1>2, <1>7, <2>1, <2>4, CallFrame, CallRequest DEF Resting
  <2> QED
    BY <2>2, <2>3, <2>4
<1> QED
  BY <1>5, <1>6, <1>7, StepCases

----------------------------------------------------------------------------
(* Denials.                                                                 *)

\* Every step keeps the record of denials.
LEMMA NextDenial ==
    ASSUME WindowTypeOK, RequestInv, DenialInv, [WindowNext]_windowVars
    PROVE  DenialInv'
<1>1. SUFFICES ASSUME NEW s \in Reqs PROVE DenialOK(s)'
  BY DEF DenialInv
<1>2. DenialOK(s)
  BY DEF DenialInv
<1>3. CASE req' = req
  BY <1>2, <1>3 DEF DenialOK
<1>4. ASSUME NEW r \in Reqs,
             \/ Quiet(r) \/ MemoryCall(r) \/ RedisIncr(r)
             \/ \E jitter \in 0..(Jitter - 1) : RedisExpire(r, jitter) \/ RedisScript(r, jitter)
      PROVE  DenialOK(s)'
  <2>0. req \in [Reqs -> Request] /\ req[r] \in Request
    BY RequestFacts DEF WindowTypeOK
  <2>1. CASE s # r
    BY <1>2, <1>4, <2>1, OthersUntouched DEF DenialOK
  <2>2. CASE s = r /\ Quiet(r)
    <3> USE <2>0, <2>2
    <3>1. ASSUME NEW op \in conf.ops, NEW n \in 1..MaxTokens, Start(r, op, n)
          PROVE  DenialOK(s)'
      BY <3>1 DEF Start, Idle, NoResult, DenialOK
    <3>2. CASE Finish(r)
      BY <3>2 DEF Finish, Idle, NoResult, DenialOK
    <3>3. CASE CheckAvailable(r)
      BY <1>2, <3>3 DEF CheckAvailable, DenialOK, Request, Resting
    <3>4. CASE Respond(r)
      BY <1>2, <3>4 DEF Respond, DenialOK, Request, Resting
    <3>5. CASE RedisReadClock(r)
      BY <1>2, <3>5 DEF RedisReadClock, DenialOK, Request, Resting
    <3>6. CASE RedisError(r) \/ RedisExpireFails(r)
      BY <1>2, <3>6 DEF RedisError, RedisExpireFails, Failed, DenialOK, Request, Resting
    <3> QED
      BY <3>1, <3>2, <3>3, <3>4, <3>5, <3>6 DEF Quiet
  <2>3. ASSUME NEW result \in Answer, s = r, Returned(r, result), req[r].pc \notin Resting,
               ~result.allowed /\ req[r].op # "allow" => result.remaining = 0
        PROVE  DenialOK(s)'
    <3>1. /\ req'[r].pc \in {"done", "call"} /\ req'[r].op = req[r].op
          /\ req'[r].pc = "call" => (req[r].op = "allow" => result.allowed)
          /\ req'[r].result = MostRestrictive(req[r].result, result)
          /\ req'[r].denied = (req[r].denied \/ ~result.allowed)
      BY <2>3, ReturnedFacts
    <3>2. /\ result.allowed \in BOOLEAN /\ result.remaining \in Nat
          /\ req[r].denied \in BOOLEAN /\ req[r].result \in Result
      BY <2>0 DEF Answer, Request
    <3>3. /\ req[r].result.allowed <=> ~req[r].denied
          /\ req[r].denied => req[r].op # "allow" /\ req[r].result.remaining = 0
      BY <1>2, <2>3 DEF DenialOK
    <3>4. req'[r].result = IF req[r].result = NoResult \/ ~result.allowed
                              \/ result.remaining < req[r].result.remaining
                           THEN result ELSE req[r].result
      BY <3>1 DEF MostRestrictive
    <3>5. req[r].result = NoResult => req[r].result.allowed
      BY DEF NoResult
    <3>6. CASE result.allowed /\ ~req[r].denied
      BY <2>3, <3>1, <3>2, <3>3, <3>4, <3>6 DEF DenialOK
    <3>7. CASE ~result.allowed
      BY <2>3, <3>1, <3>2, <3>3, <3>4, <3>7 DEF DenialOK, Resting
    <3>8. CASE result.allowed /\ req[r].denied
      <4>1. req[r].result # NoResult /\ ~(result.remaining < req[r].result.remaining)
        BY <3>2, <3>3, <3>5, <3>8
      <4>2. req'[r].result = req[r].result
        BY <3>4, <3>8, <4>1
      <4> QED
        BY <2>3, <3>1, <3>3, <3>8, <4>2 DEF DenialOK
    <3> QED
      BY <3>6, <3>7, <3>8
  <2>4. CASE s = r /\ req' = [req EXCEPT ![r].pc = "expire"] /\ req[r].pc = "incr"
    BY <1>2, <2>0, <2>4 DEF DenialOK, Request, Resting
  <2>5. ~Quiet(r) => req[r].pc \notin Resting
    BY <1>4, CallFrame DEF Resting
  <2> QED
    BY <1>4, <2>1, <2>2, <2>3, <2>4, <2>5, CallAnswers
<1>5. AdvanceClock \/ RemoveExpiredEntries \/ UNCHANGED windowVars => req' = req
  BY DEF AdvanceClock, RemoveExpiredEntries, windowVars
<1> QED
  BY <1>3, <1>4, <1>5, StepCases

----------------------------------------------------------------------------
(* Counters.                                                                *)

\* The window a limiter is in, and its entry.
LEMMA RunningWindow ==
    ASSUME WindowTypeOK, NEW j \in Limiters, NEW v, v = WindowStart(j, clock)
    PROVE  /\ v \in Times /\ v \in Nat /\ clock \in Nat /\ v <= clock
           /\ clock < v + PolicyDuration[j] /\ PolicyDuration[j] \in Nat
           /\ PolicyLimit[j] \in Nat /\ PolicyLimit[j] > 0
           /\ store[j][v] \in WindowEntry /\ taken[j][v] \in Nat /\ admitted[j][v] \in Nat
           /\ Alive(j, v) \in Nat /\ PolicyBackend \in {"memory", "redis"}
<1>1. /\ v \in Times /\ v \in Nat /\ clock \in Nat /\ v <= clock
      /\ clock < v + PolicyDuration[j] /\ PolicyDuration[j] \in Nat /\ PolicyLimit[j] \in Nat
      /\ PolicyLimit[j] > 0 /\ PolicyBackend \in {"memory", "redis"}
  <2>1. clock \in Times /\ clock \in Nat
    BY TimesNat DEF WindowTypeOK
  <2>2. /\ PolicyDuration[j] \in Nat \ {0} /\ PolicyLimit[j] \in Nat \ {0}
        /\ PolicyBackend \in {"memory", "redis"}
    BY DeploymentFacts
  <2> QED
    BY <2>1, <2>2, WindowFacts
<1>2. store[j][v] \in WindowEntry /\ taken[j][v] \in Nat /\ admitted[j][v] \in Nat
  BY <1>1 DEF WindowTypeOK, WindowEntry
<1>3. Alive(j, v) \in Nat
  BY <1>2 DEF Alive, WindowEntry
<1> QED
  BY <1>1, <1>2, <1>3

\* A call finds the live counter of the running window; in memory, what was taken.
LEMMA CountsLive ==
    ASSUME WindowTypeOK, CounterInv, NEW i \in Limiters, NEW t \in Times,
           NEW w, w = WindowStart(i, clock), WindowStart(i, t) = w
    PROVE  /\ CurrentCount(i, t) = Alive(i, w)
           /\ PolicyBackend = "memory" => Alive(i, w) = taken[i][w]
           /\ Alive(i, w) <= taken[i][w]
<1>1. /\ clock \in Nat /\ w \in Times /\ w \in Nat /\ w <= clock /\ clock < w + PolicyDuration[i]
      /\ PolicyDuration[i] \in Nat /\ store[i][w] \in WindowEntry /\ taken[i][w] \in Nat
      /\ PolicyBackend \in {"memory", "redis"}
  BY RunningWindow
<1>2. CounterOK(i, w)
  BY <1>1 DEF CounterInv
<1>3. CurrentCount(i, t) = IF (IF PolicyBackend = "memory" THEN clock > store[i][w].expiration
                               ELSE clock >= store[i][w].expiration)
                           THEN 0 ELSE store[i][w].count
  BY DEF CurrentCount
<1>4. /\ PolicyBackend = "memory" =>
            /\ store[i][w].count = taken[i][w]
            /\ taken[i][w] > 0 => store[i][w].expiration >= w + PolicyDuration[i]
      /\ Alive(i, w) <= taken[i][w]
  BY <1>1, <1>2 DEF CounterOK
<1>5. CASE PolicyBackend = "memory"
  BY <1>1, <1>3, <1>4, <1>5 DEF Alive, WindowEntry
<1>6. CASE PolicyBackend = "redis"
  BY <1>3, <1>4, <1>6 DEF Alive
<1> QED
  BY <1>1, <1>5, <1>6

\* A counter restarts once for each of its units at most.
LEMMA RestartsType ==
    ASSUME WindowTypeOK, NEW i \in Limiters, NEW w \in Nat
    PROVE  \A t \in Nat : Restarts(i, w, t) \in 0..2
<1> SUFFICES ASSUME NEW t \in Nat PROVE Restarts(i, w, t) \in 0..2
  OBVIOUS
<1>1. /\ Restarts(i, w, t) = ByIncr(i, w, t) + ByScript(i, w, t)
      /\ ByIncr(i, w, t) \in {0, 1} /\ ByScript(i, w, t) \in {0, 1}
  BY RestartFacts
<1> QED
  BY <1>1

\* How the counters of a window restart, as numbers.
LEMMA PastFacts ==
    ASSUME WindowTypeOK, NEW i \in Limiters, NEW w \in Times
    PROVE  /\ w \in Nat /\ clock \in Nat /\ store[i][w].expiration \in Nat
           /\ Restarts(i, w, clock) \in 0..2
           /\ Restarts(i, w, store[i][w].expiration) \in 0..2
           /\ Past(i, w) \in -1..2
           /\ Dying(i, w) => Past(i, w) = Restarts(i, w, store[i][w].expiration) - 1
           /\ ~Dying(i, w) => Past(i, w) = Restarts(i, w, clock)
           /\ PolicyBackend = "memory" => ~Dying(i, w) /\ Restarts(i, w, clock) = 0
<1>1. w \in Nat /\ clock \in Nat /\ store[i][w] \in WindowEntry
  BY TimesNat DEF WindowTypeOK, WindowEntry
<1>2. store[i][w].expiration \in Nat
  BY <1>1 DEF WindowEntry
<1>3. \A t \in Nat : Restarts(i, w, t) \in 0..2
  BY <1>1, RestartsType
<1>4. PolicyBackend = "memory" => ~Dying(i, w) /\ Restarts(i, w, clock) = 0
  BY <1>1, RestartFacts DEF Dying
<1> QED
  BY <1>1, <1>2, <1>3, <1>4 DEF Past

\* So many restarts, so many times the limit.
LEMMA TimesLimit ==
    ASSUME NEW l \in Nat, NEW a \in Int, NEW b \in Int, a <= b
    PROVE  l * a <= l * b /\ l * a \in Int /\ l * b \in Int /\ l * (a + 1) = l * a + l
<1>1. l * a <= l * b
  BY Z3
<1> QED
  BY <1>1, Z3

\* A counter that a step does not touch stays right, also when the clock moves.
LEMMA CounterKept ==
    ASSUME WindowTypeOK, NEW i \in Limiters, NEW w \in Times, CounterOK(i, w), conf' = conf,
           clock' \in Nat, clock' >= clock, store'[i][w] = store[i][w],
           taken'[i][w] = taken[i][w], admitted'[i][w] = admitted[i][w]
    PROVE  CounterOK(i, w)'
<1>1. clock \in Nat /\ w \in Nat
  BY TimesNat DEF WindowTypeOK
<1>2. /\ WindowStart(i, clock) <= WindowStart(i, clock') /\ WindowStart(i, clock) \in Nat
      /\ WindowStart(i, clock') \in Nat /\ clock' < WindowStart(i, clock') + PolicyDuration[i]
  BY <1>1, WindowMonotone, WindowFacts
<1>3. /\ WindowStart(i, clock)' = WindowStart(i, clock') /\ PolicyDuration' = PolicyDuration
      /\ PolicyLimit' = PolicyLimit /\ PolicyBackend' = PolicyBackend
      /\ Restarts(i, w, clock)' = Restarts(i, w, clock')
      /\ Restarts(i, w, store[i][w].expiration)' = Restarts(i, w, store[i][w].expiration)
  BY WindowsFixed
<1>4. SUFFICES ASSUME w >= WindowStart(i, clock')
               PROVE  CounterOK(i, w)'
  BY <1>3 DEF CounterOK
<1> DEFINE e == store[i][w].expiration
           c == store[i][w].count
           end == w + PolicyDuration[i]
           l == PolicyLimit[i]
           sofar == Restarts(i, w, clock)
           then == Restarts(i, w, clock')
           out == Restarts(i, w, e)
<1>5. /\ e \in Nat /\ c \in Nat /\ PolicyDuration[i] \in Nat /\ taken[i][w] \in Nat
      /\ admitted[i][w] \in Nat /\ l \in Nat /\ l > 0 /\ PolicyBackend \in {"memory", "redis"}
  <2>1. e \in Nat /\ c \in Nat /\ taken[i][w] \in Nat /\ admitted[i][w] \in Nat
    BY DEF WindowTypeOK
  <2>2. /\ PolicyDuration[i] \in Nat \ {0} /\ l \in Nat \ {0}
        /\ PolicyBackend \in {"memory", "redis"}
    BY DeploymentFacts
  <2> QED
    BY <2>1, <2>2
<1>6. clock' < end
  BY <1>1, <1>2, <1>4, <1>5
<1>7. /\ sofar \in 0..2 /\ then \in 0..2 /\ out \in 0..2 /\ sofar <= then
      /\ e <= clock' => out <= then
      /\ PolicyBackend = "memory" => then = 0
  <2>1. /\ \A t \in Nat : Restarts(i, w, t) \in 0..2
        /\ \A t, u \in Nat : t <= u => Restarts(i, w, t) <= Restarts(i, w, u)
        /\ \A t \in Nat : PolicyBackend = "memory" => Restarts(i, w, t) = 0
    BY <1>1, RestartFacts
  <2> QED
    BY <1>1, <1>5, <2>1
<1>8. /\ taken[i][w] = 0 => store[i][w] = Gone
      /\ taken[i][w] > 0 => w = WindowStart(i, clock)
      /\ PolicyBackend = "memory" => c = taken[i][w] /\ (taken[i][w] > 0 => e >= end)
      /\ PolicyBackend = "redis" /\ clock < e => c > 0
      /\ Dying(i, w) => out > 0
      /\ Alive(i, w) <= taken[i][w]
      /\ admitted[i][w] <= taken[i][w]
      /\ sofar = 0 => Alive(i, w) = taken[i][w] /\ admitted[i][w] <= l
      /\ admitted[i][w] <= LesserOf(Alive(i, w), l) + l * Past(i, w)
  BY <1>1, <1>2, <1>4 DEF CounterOK
<1>9. /\ Alive(i, w) = IF PolicyBackend = "redis" /\ clock >= e THEN 0 ELSE c
      /\ Alive(i, w)' = IF PolicyBackend = "redis" /\ clock' >= e THEN 0 ELSE c
      /\ Dying(i, w) <=> PolicyBackend = "redis" /\ clock < e /\ e < end
      /\ Dying(i, w)' <=> PolicyBackend = "redis" /\ clock' < e /\ e < end
      /\ Past(i, w) = IF Dying(i, w) THEN out - 1 ELSE sofar
      /\ Past(i, w)' = IF Dying(i, w)' THEN out - 1 ELSE then
  BY <1>3 DEF Alive, Dying, Past
<1>10. w = WindowStart(i, clock) => w = WindowStart(i, clock')
  BY <1>2, <1>4
<1> HIDE DEF e, c, end, l, sofar, then, out
<1>11. ~(Dying(i, w) /\ clock' >= e) => Alive(i, w)' = Alive(i, w)
  <2>1. CASE PolicyBackend = "memory"
    BY <1>9, <2>1
  <2>2. CASE PolicyBackend = "redis" /\ clock >= e
    <3>1. clock' >= e
      BY <1>1, <1>5, <2>2
    <3> QED
      BY <1>9, <2>2, <3>1
  <2>3. CASE PolicyBackend = "redis" /\ ~(clock >= e) /\ e < end
    <3>1. Dying(i, w)
      BY <1>1, <1>5, <1>9, <2>3
    <3> QED
      BY <1>9, <2>3, <3>1
  <2>4. CASE PolicyBackend = "redis" /\ ~(clock >= e) /\ ~(e < end)
    <3>1. ~(clock' >= e)
      <4>1. end \in Nat
        BY <1>1, <1>5 DEF end
      <4> QED
        BY <1>1, <1>5, <1>6, <2>4, <4>1
    <3> QED
      BY <1>9, <2>4, <3>1
  <2> QED
    BY <1>5, <2>1, <2>2, <2>3, <2>4
<1>12. then = 0 => Alive(i, w)' = taken[i][w] /\ admitted[i][w] <= l
  <2> SUFFICES ASSUME then = 0
               PROVE  Alive(i, w)' = taken[i][w] /\ admitted[i][w] <= l
    OBVIOUS
  <2>1. sofar = 0
    BY <1>7
  <2>2. ~(Dying(i, w) /\ clock' >= e)
    BY <1>1, <1>5, <1>7, <1>8
  <2>3. Alive(i, w) = taken[i][w] /\ admitted[i][w] <= l
    BY <1>8, <2>1
  <2>4. Alive(i, w)' = Alive(i, w)
    BY <1>11, <2>2
  <2> QED
    BY <2>3, <2>4
<1>13. admitted[i][w] <= LesserOf(Alive(i, w)', l) + l * Past(i, w)'
  <2>1. CASE Dying(i, w) /\ ~Dying(i, w)'
    <3>1. out <= then /\ Past(i, w)' = then /\ Past(i, w) = out - 1 /\ Alive(i, w)' = 0
      BY <1>1, <1>5, <1>7, <1>9, <2>1
    <3>2. /\ l * ((out - 1) + 1) = l * (out - 1) + l /\ l * out <= l * then
          /\ l * (out - 1) \in Int /\ l * out \in Int /\ l * then \in Int
      <4>1. l \in Nat /\ out \in Int /\ then \in Int /\ out <= then
        BY <1>5, <1>7, <3>1
      <4>2. l * out <= l * then /\ l * out \in Int /\ l * then \in Int
        BY <4>1, TimesLimit
      <4>3. PICK earlier \in Int : earlier = out - 1 /\ earlier <= out
        BY <4>1
      <4>4. l * earlier \in Int /\ l * (earlier + 1) = l * earlier + l
        BY <4>1, <4>3, TimesLimit
      <4> QED
        BY <4>2, <4>3, <4>4
    <3>3. (out - 1) + 1 = out
      BY <1>7
    <3>4. LesserOf(Alive(i, w), l) <= l /\ LesserOf(Alive(i, w), l) \in Nat /\ LesserOf(0, l) = 0
      BY <1>5, <1>9 DEF LesserOf
    <3> QED
      BY <1>5, <1>8, <3>1, <3>2, <3>3, <3>4
  <2>2. CASE Dying(i, w) /\ Dying(i, w)'
    BY <1>1, <1>5, <1>8, <1>9, <2>2
  <2>3. CASE ~Dying(i, w)
    <3>1. ~Dying(i, w)' /\ Past(i, w)' = then /\ Past(i, w) = sofar
      BY <1>1, <1>5, <1>9, <2>3
    <3>2. Alive(i, w)' = Alive(i, w)
      BY <1>11, <2>3
    <3>3. l * sofar <= l * then /\ l * sofar \in Int /\ l * then \in Int
      BY <1>5, <1>7, TimesLimit
    <3>4. LesserOf(Alive(i, w), l) \in Nat
      BY <1>5, <1>9 DEF LesserOf
    <3> QED
      BY <1>5, <1>8, <3>1, <3>2, <3>3, <3>4
  <2> QED
    BY <2>1, <2>2, <2>3
<1>14. /\ PolicyBackend = "redis" /\ clock' < e => c > 0
       /\ Dying(i, w)' => out > 0
       /\ Alive(i, w)' <= taken[i][w]
  BY <1>1, <1>5, <1>8, <1>9
<1> QED
  BY <1>3, <1>4, <1>8, <1>10, <1>12, <1>13, <1>14 DEF CounterOK, e, c, end, l, sofar, then, out

\* A step that changes one window of limiter j, the running one or an ended one.
LEMMA CounterTouched ==
    ASSUME WindowTypeOK, CounterInv, conf' = conf, clock' = clock,
           NEW j \in Limiters, NEW v \in Times,
           v >= WindowStart(j, clock) => CounterOK(j, v)',
           \A i \in Limiters, w \in Times : (i # j \/ w # v) /\ w >= WindowStart(i, clock) =>
               /\ store'[i][w] = store[i][w] /\ taken'[i][w] = taken[i][w]
               /\ admitted'[i][w] = admitted[i][w]
    PROVE  CounterInv'
<1>1. Limiters' = Limiters /\ clock \in Nat /\ \A i, t : WindowStart(i, t)' = WindowStart(i, t)
  BY WindowsFixed, TimesNat DEF WindowTypeOK
<1>2. SUFFICES ASSUME NEW i \in Limiters, NEW w \in Times PROVE CounterOK(i, w)'
  BY <1>1 DEF CounterInv
<1>3. CASE i = j /\ w = v /\ w >= WindowStart(i, clock)
  BY <1>3
<1>4. CASE ~(i = j /\ w = v) /\ w >= WindowStart(i, clock)
  <2>1. CounterOK(i, w)
    BY DEF CounterInv
  <2> QED
    BY <1>1, <1>4, <2>1, CounterKept
<1>5. CASE ~(w >= WindowStart(i, clock))
  BY <1>1, <1>5 DEF CounterOK
<1> QED
  BY <1>3, <1>4, <1>5

\* An INCRBY or a script counts m tokens in the running window: in the entry that is
\* there, or in a new one, which dies before the window ends only in time for the
\* restart that comes with its unit.
LEMMA EntryCharged ==
    ASSUME WindowTypeOK, PolicyBackend = "redis", conf' = conf, clock' = clock,
           NEW j \in Limiters, NEW v, v = WindowStart(j, clock), CounterOK(j, v),
           NEW m \in Nat, m > 0, NEW e \in WindowEntry, store'[j][v] = e,
           e.count = Alive(j, v) + m,
           \/ clock < store[j][v].expiration /\ e.expiration = store[j][v].expiration
           \/ /\ clock >= store[j][v].expiration /\ e.expiration > clock
              /\ e.expiration < v + PolicyDuration[j] =>
                    Restarts(j, v, clock) + 1 <= Restarts(j, v, e.expiration),
           taken'[j][v] = taken[j][v] + m,
           \/ admitted'[j][v] = admitted[j][v]
           \/ admitted'[j][v] = admitted[j][v] + m /\ Alive(j, v) + m <= PolicyLimit[j]
    PROVE  CounterOK(j, v)'
<1>1. /\ v \in Times /\ v \in Nat /\ clock \in Nat /\ clock < v + PolicyDuration[j]
      /\ PolicyDuration[j] \in Nat /\ PolicyLimit[j] \in Nat /\ PolicyLimit[j] > 0
      /\ store[j][v] \in WindowEntry /\ taken[j][v] \in Nat /\ admitted[j][v] \in Nat
      /\ Alive(j, v) \in Nat
  BY RunningWindow
<1>2. /\ WindowStart(j, clock)' = v /\ PolicyDuration' = PolicyDuration
      /\ PolicyLimit' = PolicyLimit /\ PolicyBackend' = "redis"
      /\ \A t : Restarts(j, v, t)' = Restarts(j, v, t)
      /\ Restarts(j, v, clock)' = Restarts(j, v, clock)
      /\ Restarts(j, v, store[j][v].expiration)' = Restarts(j, v, e.expiration)
  BY WindowsFixed
<1> DEFINE old == store[j][v].expiration
           new == e.expiration
           end == v + PolicyDuration[j]
           l == PolicyLimit[j]
           sofar == Restarts(j, v, clock)
           out == Restarts(j, v, old)
           next == Restarts(j, v, new)
           c == Alive(j, v)
<1>3. old \in Nat /\ new \in Nat /\ e.count \in Nat
  BY <1>1 DEF WindowEntry
<1>4. sofar \in 0..2 /\ out \in 0..2 /\ next \in 0..2
  <2>1. \A t \in Nat : Restarts(j, v, t) \in 0..2
    BY <1>1, RestartsType
  <2> QED
    BY <1>1, <1>3, <2>1
<1>5. /\ Dying(j, v) => out > 0
      /\ c <= taken[j][v] /\ admitted[j][v] <= taken[j][v]
      /\ sofar = 0 => c = taken[j][v] /\ admitted[j][v] <= l
      /\ admitted[j][v] <= LesserOf(c, l) + l * Past(j, v)
  BY <1>1 DEF CounterOK
<1>6. /\ c = IF clock >= old THEN 0 ELSE store[j][v].count
      /\ Alive(j, v)' = IF clock >= new THEN 0 ELSE e.count
      /\ Dying(j, v) <=> clock < old /\ old < end
      /\ Dying(j, v)' <=> clock < new /\ new < end
      /\ Past(j, v) = IF Dying(j, v) THEN out - 1 ELSE sofar
      /\ Past(j, v)' = IF Dying(j, v)' THEN next - 1 ELSE sofar
  BY <1>2 DEF Alive, Dying, Past
<1>7. /\ new > clock /\ Alive(j, v)' = c + m
      /\ Dying(j, v)' => next > 0
      /\ Past(j, v) <= Past(j, v)' /\ Past(j, v) \in Int /\ Past(j, v)' \in Int
  <2>1. CASE clock < old /\ new = old
    BY <1>1, <1>3, <1>4, <1>5, <1>6, <2>1
  <2>2. CASE clock >= old /\ new > clock /\ (new < end => sofar + 1 <= next)
    <3> HIDE DEF old, new, end, l, sofar, out, next, c
    <3>1. ~Dying(j, v) /\ Past(j, v) = sofar
      BY <1>1, <1>3, <1>6, <2>2
    <3>2. Alive(j, v)' = c + m
      BY <1>1, <1>3, <1>6, <2>2 DEF c
    <3>3. CASE new < end
      BY <1>1, <1>3, <1>4, <1>6, <2>2, <3>1, <3>2, <3>3
    <3>4. CASE ~(new < end)
      BY <1>1, <1>3, <1>4, <1>6, <2>2, <3>1, <3>2, <3>4
    <3> QED
      BY <3>3, <3>4
  <2> QED
    BY <2>1, <2>2
<1> HIDE DEF old, new, end, l, sofar, out, next, c
<1>8. l * Past(j, v) <= l * Past(j, v)' /\ l * Past(j, v) \in Int /\ l * Past(j, v)' \in Int
  BY <1>1, <1>7, TimesLimit DEF l
<1>9. admitted'[j][v] <= LesserOf(c + m, l) + l * Past(j, v)'
  <2>1. CASE admitted'[j][v] = admitted[j][v]
    <3>1. /\ LesserOf(c, l) <= LesserOf(c + m, l)
          /\ LesserOf(c, l) \in Nat /\ LesserOf(c + m, l) \in Nat
      BY <1>1 DEF LesserOf, c, l
    <3> QED
      BY <1>1, <1>5, <1>8, <2>1, <3>1
  <2>2. CASE admitted'[j][v] = admitted[j][v] + m /\ c + m <= l
    <3>1. LesserOf(c, l) = c /\ LesserOf(c + m, l) = c + m
      BY <1>1, <2>2 DEF LesserOf, c, l
    <3> QED
      BY <1>1, <1>5, <1>8, <2>2, <3>1 DEF c
  <2> QED
    BY <2>1, <2>2 DEF c, l
<1>10. sofar = 0 => Alive(j, v)' = taken'[j][v] /\ admitted'[j][v] <= l
  BY <1>1, <1>5, <1>7 DEF c, l
<1>11. /\ taken'[j][v] # 0 /\ admitted'[j][v] <= taken'[j][v] /\ Alive(j, v)' <= taken'[j][v]
       /\ e.count > 0
  BY <1>1, <1>3, <1>5, <1>7 DEF c, l
<1> QED
  BY <1>2, <1>7, <1>9, <1>10, <1>11 DEF CounterOK, old, new, l, sofar, next

\* EXPIRE gives the counter of the running window its TTL, if it is still there.
LEMMA EntryTimed ==
    ASSUME WindowTypeOK, PolicyBackend = "redis", conf' = conf, clock' = clock,
           NEW j \in Limiters, NEW v, v = WindowStart(j, clock), CounterOK(j, v),
           NEW ttl \in Nat, ttl > 0,
           store'[j][v] = IF clock >= store[j][v].expiration THEN Gone
                          ELSE [store[j][v] EXCEPT !.expiration = clock + ttl],
           clock + ttl < v + PolicyDuration[j] =>
               Restarts(j, v, clock) = 0 /\ Restarts(j, v, clock + ttl) > 0,
           taken'[j][v] = taken[j][v], admitted'[j][v] = admitted[j][v]
    PROVE  CounterOK(j, v)'
<1>1. /\ v \in Times /\ v \in Nat /\ clock \in Nat /\ clock < v + PolicyDuration[j]
      /\ PolicyDuration[j] \in Nat /\ PolicyLimit[j] \in Nat /\ PolicyLimit[j] > 0
      /\ store[j][v] \in WindowEntry /\ taken[j][v] \in Nat /\ admitted[j][v] \in Nat
      /\ Alive(j, v) \in Nat
  BY RunningWindow
<1> DEFINE old == store[j][v].expiration
           new == store'[j][v].expiration
           end == v + PolicyDuration[j]
           l == PolicyLimit[j]
           sofar == Restarts(j, v, clock)
           out == Restarts(j, v, old)
           next == Restarts(j, v, new)
           c == Alive(j, v)
<1>2. /\ WindowStart(j, clock)' = v /\ PolicyDuration' = PolicyDuration
      /\ PolicyLimit' = PolicyLimit /\ PolicyBackend' = "redis"
      /\ Restarts(j, v, clock)' = sofar
      /\ Restarts(j, v, store[j][v].expiration)' = next
  BY WindowsFixed
<1>3. /\ clock >= old => store'[j][v] = Gone /\ new = 0
      /\ clock < old => new = clock + ttl /\ store'[j][v].count = store[j][v].count
  BY <1>1 DEF WindowEntry, Gone
<1>4. old \in Nat /\ new \in Nat
  BY <1>1, <1>3 DEF WindowEntry
<1>5. sofar \in 0..2 /\ out \in 0..2 /\ next \in 0..2
  <2>1. \A t \in Nat : Restarts(j, v, t) \in 0..2
    BY <1>1, RestartsType
  <2> QED
    BY <1>1, <1>4, <2>1
<1>6. /\ taken[j][v] = 0 => store[j][v] = Gone
      /\ clock < old => store[j][v].count > 0
      /\ Dying(j, v) => out > 0
      /\ c <= taken[j][v] /\ admitted[j][v] <= taken[j][v]
      /\ sofar = 0 => c = taken[j][v] /\ admitted[j][v] <= l
      /\ admitted[j][v] <= LesserOf(c, l) + l * Past(j, v)
  BY <1>1 DEF CounterOK
<1>7. /\ c = IF clock >= old THEN 0 ELSE store[j][v].count
      /\ Alive(j, v)' = IF clock >= new THEN 0 ELSE store'[j][v].count
      /\ Dying(j, v) <=> clock < old /\ old < end
      /\ Dying(j, v)' <=> clock < new /\ new < end
      /\ Past(j, v) = IF Dying(j, v) THEN out - 1 ELSE sofar
      /\ Past(j, v)' = IF Dying(j, v)' THEN next - 1 ELSE sofar
  BY <1>2 DEF Alive, Dying, Past
<1>8. /\ clock < old /\ new < end => sofar = 0 /\ next > 0
  BY <1>3
<1> HIDE DEF old, new, end, l, sofar, out, next, c
<1>9. /\ Alive(j, v)' = c /\ (Dying(j, v)' => sofar = 0 /\ next > 0)
      /\ Past(j, v)' \in Int /\ Past(j, v) \in Int /\ c \in Nat /\ l \in Nat
      /\ sofar # 0 => Past(j, v) <= Past(j, v)'
      /\ Past(j, v)' >= 0
  BY <1>1, <1>3, <1>4, <1>5, <1>6, <1>7, <1>8 DEF c, l
<1>10. admitted[j][v] <= LesserOf(c, l) + l * Past(j, v)'
  <2>1. CASE sofar = 0
    <3>1. l * 0 <= l * Past(j, v)' /\ l * Past(j, v)' \in Int
      BY <1>9, <2>1, TimesLimit
    <3> QED
      BY <1>1, <1>6, <1>9, <2>1, <3>1 DEF LesserOf
  <2>2. CASE sofar # 0
    <3>1. l * Past(j, v) <= l * Past(j, v)' /\ l * Past(j, v)' \in Int /\ l * Past(j, v) \in Int
      BY <1>9, <2>2, TimesLimit
    <3>2. LesserOf(c, l) \in Nat
      BY <1>9 DEF LesserOf
    <3> QED
      BY <1>1, <1>6, <3>1, <3>2
  <2> QED
    BY <2>1, <2>2
<1>11. /\ taken[j][v] = 0 => store'[j][v] = Gone
       /\ clock < new => store'[j][v].count > 0
  BY <1>1, <1>3, <1>4, <1>6 DEF Gone, old
<1> QED
  BY <1>1, <1>2, <1>6, <1>7, <1>9, <1>10, <1>11 DEF CounterOK, new, l, sofar, next, c

\* A call of the in-memory limiter counts what it records.
LEMMA MemoryCounter ==
    ASSUME WindowTypeOK, RequestInv, CounterInv, NEW r \in Reqs, NEW j, j = req[r].i,
           NEW v, v = WindowStart(j, clock), MemoryCall(r)
    PROVE  CounterInv'
<1> DEFINE n == req[r].n
           op == req[r].op
           count == CurrentCount(j, clock)
           m == Consumed(op, j, count, n)
           allowed == Allows(op, j, count, n)
           e == IF m > 0 THEN [count |-> count + m, expiration |-> v + PolicyDuration[j] + Grace]
                ELSE store[j][v]
<1>1. /\ conf' = conf /\ clock' = clock
      /\ store' = IF m > 0 THEN WriteEntry(j, v, count + m) ELSE store
      /\ Count(j, v, m) /\ Admit(req[r], v, allowed)
  BY DEF MemoryCall
<1>2. /\ j \in Limiters /\ n \in Nat /\ op \in {"allow", "clamp", "charge"} /\ Grace \in Nat
      /\ clock \in Times
  BY RequestFacts, FixedWindowAssumption
<1>3. count = taken[j][v] /\ PolicyBackend = "memory" /\ v \in Times
  <2>1. PolicyBackend = "memory"
    BY DEF MemoryCall
  <2> QED
    BY <1>2, <2>1, CountsLive, RunningWindow
<1>4. /\ v \in Times /\ v \in Nat /\ PolicyDuration[j] \in Nat /\ PolicyLimit[j] \in Nat
      /\ clock \in Nat
      /\ clock < v + PolicyDuration[j]
      /\ store[j][v] \in WindowEntry /\ taken[j][v] \in Nat /\ admitted[j][v] \in Nat
      /\ store[j][v].count = taken[j][v]
      /\ taken[j][v] = 0 => store[j][v] = Gone
      /\ taken[j][v] > 0 => store[j][v].expiration >= v + PolicyDuration[j]
      /\ admitted[j][v] <= taken[j][v] /\ admitted[j][v] <= PolicyLimit[j]
  <2>1. CounterOK(j, v) /\ Restarts(j, v, clock) = 0
    BY <1>2, <1>3, PastFacts DEF CounterInv
  <2> QED
    BY <1>2, <1>3, <2>1, RunningWindow DEF CounterOK
<1>5. m \in Nat
  BY <1>2, <1>3, <1>4, ConsumedType
<1>6. /\ op = "allow" /\ allowed => m = n /\ count + n <= PolicyLimit[j]
  BY <1>2, <1>3, <1>4 DEF Consumed, Allows
<1> HIDE DEF m, count, allowed
<1>7. /\ e \in WindowEntry /\ e.count = taken[j][v] + m
      /\ e.count = 0 => e = Gone
      /\ e.count > 0 => e.expiration >= v + PolicyDuration[j]
  <2>1. CASE m > 0
    <3>1. e = [count |-> count + m, expiration |-> v + PolicyDuration[j] + Grace]
      BY <2>1
    <3>2. count + m \in Nat /\ count + m = taken[j][v] + m /\ count + m > 0
      BY <1>3, <1>4, <1>5, <2>1
    <3>3. v + PolicyDuration[j] + Grace \in Nat /\ v + PolicyDuration[j] + Grace >= v + PolicyDuration[j]
      BY <1>2, <1>4
    <3> HIDE DEF e
    <3> QED
      BY <3>1, <3>2, <3>3 DEF WindowEntry
  <2>2. CASE m = 0
    <3>1. e = store[j][v] /\ taken[j][v] + m = taken[j][v]
      BY <1>4, <2>2
    <3> HIDE DEF e
    <3> QED
      BY <1>4, <3>1
  <2> QED
    BY <1>5, <2>1, <2>2
<1>8. taken'[j][v] = taken[j][v] + m /\ (\A i \in Limiters, w \in Times :
         i # j \/ w # v => taken'[i][w] = taken[i][w])
  BY <1>1, <1>2, <1>4 DEF Count, WindowTypeOK
<1>9. /\ admitted'[j][v] <= taken[j][v] + m /\ admitted'[j][v] <= PolicyLimit[j]
      /\ \A i \in Limiters, w \in Times : i # j \/ w # v => admitted'[i][w] = admitted[i][w]
  <2>1. CASE op = "allow" /\ allowed
    <3>1. admitted' = [admitted EXCEPT ![j][v] = @ + n]
      BY <1>1, <2>1 DEF Admit
    <3>2. admitted'[j][v] = admitted[j][v] + n
      BY <1>2, <1>4, <3>1 DEF WindowTypeOK
    <3> QED
      BY <1>2, <1>3, <1>4, <1>6, <2>1, <3>1, <3>2 DEF WindowTypeOK
  <2>2. CASE ~(op = "allow" /\ allowed)
    <3>1. admitted' = admitted
      BY <1>1, <2>2 DEF Admit
    <3> QED
      BY <1>4, <1>5, <3>1
  <2> QED
    BY <2>1, <2>2
<1>10. /\ store'[j][v] = e
       /\ \A i \in Limiters, w \in Times :
             (i # j \/ w # v) /\ w >= WindowStart(i, clock) => store'[i][w] = store[i][w]
  <2>1. CASE m > 0
    <3>1. store' = WriteEntry(j, v, count + m)
      BY <1>1, <2>1
    <3>2. store'[j][v] = e
      BY <1>2, <1>4, <2>1, <3>1 DEF WriteEntry, WindowTypeOK
    <3>3. ASSUME NEW w \in Times, w # v, w >= v PROVE store'[j][w] = store[j][w]
      <4>1. store[j][w] = Gone
        <5>1. CounterOK(j, w) /\ taken[j][w] \in Nat
          BY <1>2 DEF CounterInv, WindowTypeOK
        <5> QED
          BY <3>3, <5>1 DEF CounterOK
      <4> QED
        BY <1>2, <3>1, <3>3, <4>1 DEF WriteEntry, WindowTypeOK
    <3>4. ASSUME NEW i \in Limiters, i # j PROVE store'[i] = store[i]
      BY <1>2, <3>1, <3>4 DEF WriteEntry, WindowTypeOK
    <3> QED
      BY <3>2, <3>3, <3>4
  <2>2. CASE ~(m > 0)
    BY <1>1, <2>2
  <2> QED
    BY <2>1, <2>2
<1>11. CounterOK(j, v)'
  <2>1. /\ WindowStart(j, clock)' = v /\ PolicyDuration' = PolicyDuration
        /\ PolicyLimit' = PolicyLimit /\ PolicyBackend' = "memory"
        /\ Restarts(j, v, clock)' = 0
    <3>1. Restarts(j, v, clock) = 0
      BY <1>2, <1>3, PastFacts
    <3> QED
      BY <1>1, <1>3, <3>1, WindowsFixed
  <2>2. Alive(j, v)' = e.count /\ ~Dying(j, v)' /\ Past(j, v)' = 0
    BY <1>10, <2>1 DEF Alive, Dying, Past
  <2>3. LesserOf(e.count, PolicyLimit[j]) + PolicyLimit[j] * 0 = LesserOf(e.count, PolicyLimit[j])
    BY <1>4, <1>7 DEF LesserOf, WindowEntry
  <2>4. e.count \in Nat /\ e.expiration \in Nat
    BY <1>7 DEF WindowEntry
  <2> HIDE DEF e
  <2>5. admitted'[j][v] <= LesserOf(e.count, PolicyLimit[j])
    BY <1>7, <1>9 DEF LesserOf
  <2>6. taken'[j][v] = 0 => e = Gone
    BY <1>4, <1>5, <1>7, <1>8
  <2>7. taken'[j][v] > 0 => e.expiration >= v + PolicyDuration[j]
    BY <1>4, <1>5, <1>7, <1>8
  <2>8. taken'[j][v] = e.count /\ admitted'[j][v] <= taken'[j][v]
    BY <1>7, <1>8, <1>9
  <2> QED
    BY <1>9, <1>10, <2>1, <2>2, <2>3, <2>4, <2>5, <2>6, <2>7, <2>8 DEF CounterOK
<1> HIDE DEF e
<1> QED
  BY <1>1, <1>2, <1>3, <1>8, <1>9, <1>10, <1>11, CounterTouched

\* The window of an earlier clock reading is the running one or is over.
LEMMA ReadWindow ==
    ASSUME WindowTypeOK, RequestInv, NEW r \in Reqs, NEW i \in Limiters
    PROVE  /\ req[r].read \in Nat /\ req[r].read <= clock /\ clock \in Nat
           /\ WindowStart(i, req[r].read) \in Times
           /\ WindowStart(i, req[r].read) \in Nat /\ WindowStart(i, clock) \in Nat
           /\ WindowStart(i, req[r].read) <= WindowStart(i, clock)
<1>1. req[r].read \in Times /\ clock \in Times /\ req[r].read <= clock
  BY RequestFacts DEF RequestInv, RequestOK
<1>2. req[r].read \in Nat /\ clock \in Nat
  BY <1>1, TimesNat
<1> QED
  BY <1>1, <1>2, WindowFacts, WindowMonotone

\* INCRBY counts what it records.
LEMMA IncrCounter ==
    ASSUME WindowTypeOK, RequestInv, CounterInv, NEW r \in Reqs, NEW j, j = req[r].i,
           NEW v, v = WindowStart(j, req[r].read), RedisIncr(r)
    PROVE  CounterInv'
<1> DEFINE n == req[r].n
           count == CurrentCount(j, req[r].read) + n
           e == [count |-> count,
                 expiration |-> IF clock >= store[j][v].expiration THEN Never
                                ELSE store[j][v].expiration]
<1>1. /\ conf' = conf /\ clock' = clock
      /\ store' = [store EXCEPT ![j][v] =
                     [count |-> count, expiration |-> IF clock >= store[j][v].expiration THEN Never
                                                      ELSE @.expiration]]
      /\ Count(j, v, n) /\ Admit(req[r], v, RedisAllows(j, count))
  BY DEF RedisIncr
<1>2. j \in Limiters /\ n \in Nat /\ req[r].read \in Times /\ Never \in Nat /\ n > 0
  BY RequestFacts, FixedWindowAssumption DEF RequestInv, RequestOK, RedisIncr, Resting
<1>3. /\ v \in Times /\ v \in Nat /\ v <= WindowStart(j, clock) /\ clock \in Nat
      /\ WindowStart(j, clock) \in Nat
  BY <1>2, ReadWindow
<1>4. count \in Nat
  BY <1>2, CountType
<1>5. \A i \in Limiters, w \in Times : i # j \/ w # v =>
         /\ store'[i][w] = store[i][w] /\ taken'[i][w] = taken[i][w]
         /\ admitted'[i][w] = admitted[i][w]
  <2>1. \A i \in Limiters, w \in Times : i # j \/ w # v =>
           store'[i][w] = store[i][w] /\ taken'[i][w] = taken[i][w]
    <3> HIDE DEF count
    <3> QED
      BY <1>1, <1>2, <1>3 DEF Count, WindowTypeOK
  <2>2. \A i \in Limiters, w \in Times : i # j \/ w # v => admitted'[i][w] = admitted[i][w]
    <3> HIDE DEF count
    <3> QED
      BY <1>1, <1>2, <1>3 DEF Admit, WindowTypeOK
  <2> QED
    BY <2>1, <2>2
<1>6. /\ store'[j][v] = e /\ taken'[j][v] = taken[j][v] + n
      /\ \/ admitted'[j][v] = admitted[j][v]
         \/ admitted'[j][v] = admitted[j][v] + n /\ count <= PolicyLimit[j]
  <2>1. store'[j][v] = e /\ taken'[j][v] = taken[j][v] + n
    <3> HIDE DEF count, n
    <3> QED
      BY <1>1, <1>2, <1>3 DEF Count, WindowTypeOK
  <2>2. CASE req[r].op = "allow" /\ RedisAllows(j, count)
    <3>1. admitted'[j][v] = admitted[j][v] + n
      <4> HIDE DEF count
      <4> QED
        BY <1>1, <1>2, <1>3, <2>2 DEF Admit, WindowTypeOK
    <3> QED
      BY <2>1, <2>2, <3>1 DEF RedisAllows
  <2>3. CASE ~(req[r].op = "allow" /\ RedisAllows(j, count))
    BY <1>1, <2>1, <2>3 DEF Admit
  <2> QED
    BY <2>2, <2>3
<1>7. ASSUME v = WindowStart(j, clock) PROVE CounterOK(j, v)'
  <2>1. /\ clock < v + PolicyDuration[j] /\ PolicyDuration[j] \in Nat
        /\ store[j][v] \in WindowEntry /\ Alive(j, v) \in Nat
    BY <1>2, <1>7, RunningWindow
  <2>2. count = Alive(j, v) + n /\ PolicyBackend = "redis" /\ CounterOK(j, v)
    <3>1. CurrentCount(j, req[r].read) = Alive(j, v)
      BY <1>2, <1>7, CountsLive
    <3> QED
      BY <1>2, <1>3, <3>1 DEF CounterInv, RequestInv, RequestOK, RedisIncr
  <2>3. v + PolicyDuration[j] <= Never
    BY <1>2, <1>3, TtlBounds
  <2> HIDE DEF count, n
  <2>4. e \in WindowEntry /\ e.count = Alive(j, v) + n
    BY <1>2, <1>4, <2>1, <2>2 DEF WindowEntry
  <2>5. \/ clock < store[j][v].expiration /\ e.expiration = store[j][v].expiration
        \/ /\ clock >= store[j][v].expiration /\ e.expiration > clock
           /\ ~(e.expiration < v + PolicyDuration[j])
    <3>1. clock < Never /\ store[j][v].expiration \in Nat /\ v + PolicyDuration[j] \in Nat
      BY <1>2, <1>3, <2>1, <2>3 DEF WindowEntry
    <3> QED
      BY <1>2, <1>3, <2>3, <3>1
  <2>6. \/ admitted'[j][v] = admitted[j][v]
        \/ admitted'[j][v] = admitted[j][v] + n /\ Alive(j, v) + n <= PolicyLimit[j]
    BY <1>6, <2>2
  <2> HIDE DEF e
  <2> QED
    BY <1>1, <1>2, <1>6, <1>7, <2>2, <2>4, <2>5, <2>6, EntryCharged
<1>8. v >= WindowStart(j, clock) => v = WindowStart(j, clock)
  BY <1>3
<1> HIDE DEF e, n, count
<1> QED
  BY <1>1, <1>2, <1>3, <1>5, <1>7, <1>8, CounterTouched

\* EXPIRE leaves a counter of a running window alone, but for its TTL.
LEMMA ExpireCounter ==
    ASSUME WindowTypeOK, RequestInv, CounterInv, NEW r \in Reqs, NEW j, j = req[r].i,
           NEW v, v = WindowStart(j, req[r].read),
           NEW jitter \in 0..(Jitter - 1), RedisExpire(r, jitter)
    PROVE  CounterInv'
<1> DEFINE ttl == InSeconds(Ttl(j, req[r].read, clock, jitter))
           end == v + PolicyDuration[j]
           e == IF clock >= store[j][v].expiration \/ ttl <= 0 THEN Gone
                ELSE [store[j][v] EXCEPT !.expiration = clock + ttl]
<1>1. /\ conf' = conf /\ clock' = clock /\ taken' = taken /\ admitted' = admitted
      /\ store' = [store EXCEPT ![j][v] = e]
  BY DEF RedisExpire
<1>2. j \in Limiters /\ req[r].read \in Times
  BY RequestFacts
<1>3. /\ v \in Times /\ v \in Nat /\ v <= WindowStart(j, clock) /\ clock \in Nat
      /\ WindowStart(j, clock) \in Nat
  BY <1>2, ReadWindow
<1>4. /\ ttl \in Int /\ (clock < end => ttl > 0) /\ end \in Nat
      /\ ttl > 0 /\ clock + ttl < end /\ v <= clock =>
            /\ ExpireUnit < PolicyDuration[j] /\ end - (clock + ttl) < ExpireUnit
            /\ clock + ExpireUnit <= end
  BY <1>2, ExpireTtl
<1>5. PolicyBackend = "redis" /\ conf.ops \cap {"allow", "charge"} # {}
  <2>1. req[r].pc = "expire" /\ RequestOK(r) /\ req[r].op \in {"allow", "clamp", "charge"}
    BY RequestFacts DEF RedisExpire, RequestInv
  <2>2. PolicyBackend = "redis" /\ req[r].op # "clamp" /\ req[r].op \in conf.ops
    BY <2>1 DEF RequestOK, Resting
  <2> QED
    BY <2>1, <2>2
<1> HIDE DEF ttl, end
<1>6. /\ store'[j][v] = e
      /\ \A i \in Limiters, w \in Times : i # j \/ w # v => store'[i][w] = store[i][w]
  <2> HIDE DEF e
  <2> QED
    BY <1>1, <1>2, <1>3 DEF WindowTypeOK
<1>7. ASSUME v = WindowStart(j, clock) PROVE CounterOK(j, v)'
  <2>1. clock < v + PolicyDuration[j] /\ v <= clock /\ CounterOK(j, v)
        /\ PolicyDuration[j] \in Nat
    BY <1>2, <1>3, <1>7, RunningWindow DEF CounterInv
  <2>2. ttl \in Nat /\ ttl > 0
    BY <1>4, <2>1 DEF end
  <2>3. store'[j][v] = IF clock >= store[j][v].expiration THEN Gone
                       ELSE [store[j][v] EXCEPT !.expiration = clock + ttl]
    BY <1>4, <1>6, <2>2
  <2>4. ASSUME clock + ttl < v + PolicyDuration[j]
        PROVE  Restarts(j, v, clock) = 0 /\ Restarts(j, v, clock + ttl) > 0
    <3>1. /\ ExpireUnit < PolicyDuration[j] /\ end - (clock + ttl) < ExpireUnit
          /\ clock + ExpireUnit <= end
      BY <1>4, <2>1, <2>2, <2>4 DEF end
    <3>2. Restarts(j, v, clock) = 0
      BY <1>2, <1>3, <3>1, RestartFacts DEF end
    <3>3. ByIncr(j, v, clock + ttl) = 1
      BY <1>3, <1>4, <1>5, <2>1, <2>2, <3>1 DEF ByIncr, end
    <3>4. clock + ttl \in Nat
      BY <1>3, <2>2
    <3> QED
      BY <1>2, <1>3, <3>2, <3>3, <3>4, RestartFacts
  <2> HIDE DEF e
  <2> QED
    BY <1>1, <1>2, <1>5, <1>7, <2>1, <2>2, <2>3, <2>4, EntryTimed
<1>8. v >= WindowStart(j, clock) => v = WindowStart(j, clock)
  BY <1>3
<1> HIDE DEF e
<1> QED
  BY <1>1, <1>2, <1>3, <1>6, <1>7, <1>8, CounterTouched

\* The script counts what it records.
LEMMA ScriptCounter ==
    ASSUME WindowTypeOK, RequestInv, CounterInv, NEW r \in Reqs, NEW j, j = req[r].i,
           NEW v, v = WindowStart(j, req[r].read),
           NEW jitter \in 0..(Jitter - 1), RedisScript(r, jitter)
    PROVE  CounterInv'
<1> DEFINE n == req[r].n
           count == CurrentCount(j, req[r].read)
           m == Consumed("clamp", j, count, n)
           ttl == WholeUnits(Ttl(j, req[r].read, req[r].read, jitter), ScriptUnit)
           end == v + PolicyDuration[j]
           old == store[j][v]
           e == IF m = 0 THEN old
                ELSE [count |-> count + m,
                      expiration |-> IF count = 0 THEN clock + ttl ELSE old.expiration]
<1>1. /\ conf' = conf /\ clock' = clock /\ admitted' = admitted
      /\ store' = ScriptWrite(j, v, count, m, clock + ttl) /\ Count(j, v, m)
      /\ count = 0 /\ m > 0 => ttl > 0
  BY DEF RedisScript
<1>2. /\ j \in Limiters /\ n \in Nat /\ req[r].read \in Times /\ PolicyBackend = "redis"
      /\ "clamp" \in conf.ops
  <2>1. req[r].pc = "script" /\ RequestOK(r)
    BY DEF RedisScript, RequestInv
  <2> QED
    BY <2>1, RequestFacts DEF RequestOK, Resting
<1>3. /\ v \in Times /\ v \in Nat /\ v <= WindowStart(j, clock) /\ clock \in Nat
      /\ WindowStart(j, clock) \in Nat /\ req[r].read \in Nat /\ req[r].read <= clock
  BY <1>2, ReadWindow
<1>4. /\ ttl \in Nat /\ end \in Nat
      /\ ttl > 0 /\ clock + ttl < end =>
            /\ ScriptUnit < PolicyDuration[j] /\ end - (clock + ttl) < ScriptUnit
            /\ clock + ScriptUnit <= end
  BY <1>2, <1>3, ScriptTtl
<1>5. count \in Nat /\ m \in Nat
  BY <1>2, CountType, ConsumedType
<1>6. store \in [Limiters -> [Times -> WindowEntry]]
  BY DEF WindowTypeOK, WindowEntry
<1> HIDE DEF n, count, m, ttl, end
<1>7. /\ store'[j][v] = e /\ taken'[j][v] = taken[j][v] + m
      /\ \A i \in Limiters, w \in Times : i # j \/ w # v =>
            /\ store'[i][w] = store[i][w] /\ taken'[i][w] = taken[i][w]
            /\ admitted'[i][w] = admitted[i][w]
  <2>1. taken'[j][v] = taken[j][v] + m /\ \A i \in Limiters, w \in Times : i # j \/ w # v =>
            taken'[i][w] = taken[i][w]
    BY <1>1, <1>2, <1>3 DEF Count, WindowTypeOK
  <2>2. store'[j][v] = e /\ \A i \in Limiters, w \in Times : i # j \/ w # v =>
            store'[i][w] = store[i][w]
    BY <1>1, <1>2, <1>3, <1>6 DEF ScriptWrite
  <2> QED
    BY <1>1, <2>1, <2>2
<1>8. ASSUME v = WindowStart(j, clock) PROVE CounterOK(j, v)'
  <2>1. /\ clock < end /\ old \in WindowEntry /\ taken[j][v] \in Nat /\ Alive(j, v) \in Nat
        /\ PolicyDuration[j] \in Nat /\ CounterOK(j, v)
    BY <1>2, <1>3, <1>8, RunningWindow DEF end, CounterInv
  <2>2. count = Alive(j, v)
    BY <1>2, <1>8, CountsLive DEF count
  <2>3. CASE m = 0
    <3>1. taken'[j][v] = taken[j][v] /\ store'[j][v] = store[j][v] /\ clock' >= clock
          /\ clock' \in Nat
      BY <1>1, <1>3, <1>7, <2>1, <2>3
    <3> QED
      BY <1>1, <1>2, <1>3, <2>1, <3>1, CounterKept
  <2>4. CASE m > 0
    <3>1. old.expiration \in Nat /\ old.count \in Nat
      BY <2>1 DEF WindowEntry
    <3>2. count = 0 <=> clock >= old.expiration
      <4>1. clock < old.expiration => old.count > 0
        BY <1>2, <1>8, <1>3, <2>1 DEF CounterOK
      <4>2. Alive(j, v) = IF clock >= old.expiration THEN 0 ELSE old.count
        BY <1>2 DEF Alive
      <4> HIDE DEF old
      <4> QED
        BY <1>3, <2>2, <3>1, <4>1, <4>2
    <3>3. e \in WindowEntry /\ e.count = Alive(j, v) + m
          /\ e.expiration = IF count = 0 THEN clock + ttl ELSE old.expiration
      BY <1>3, <1>4, <1>5, <2>2, <2>4, <3>1 DEF WindowEntry
    <3>4. ASSUME count = 0, clock + ttl < v + PolicyDuration[j]
          PROVE  Restarts(j, v, clock) + 1 <= Restarts(j, v, clock + ttl)
      <4>1. /\ ScriptUnit < PolicyDuration[j] /\ end - (clock + ttl) < ScriptUnit
            /\ clock + ScriptUnit <= end /\ ttl > 0
        BY <1>1, <1>4, <2>4, <3>4 DEF end
      <4>2. ByScript(j, v, clock + ttl) = 1
        BY <1>2, <1>3, <1>4, <2>1, <4>1 DEF ByScript, end
      <4>3. clock + ttl \in Nat /\ clock <= clock + ttl
        BY <1>3, <1>4
      <4>4. /\ ByScript(j, v, clock) = 0 /\ ByIncr(j, v, clock) <= ByIncr(j, v, clock + ttl)
            /\ Restarts(j, v, clock) = ByIncr(j, v, clock) + ByScript(j, v, clock)
            /\ ByIncr(j, v, clock) \in {0, 1}
        BY <1>2, <1>3, <4>1, <4>3, RestartFacts DEF end
      <4>5. /\ Restarts(j, v, clock + ttl)
                  = ByIncr(j, v, clock + ttl) + ByScript(j, v, clock + ttl)
            /\ ByIncr(j, v, clock + ttl) \in {0, 1}
        BY <1>2, <1>3, <4>3, RestartFacts
      <4> QED
        BY <4>2, <4>4, <4>5
    <3>5. \/ clock < store[j][v].expiration /\ e.expiration = store[j][v].expiration
          \/ /\ clock >= store[j][v].expiration /\ e.expiration > clock
             /\ e.expiration < v + PolicyDuration[j] =>
                   Restarts(j, v, clock) + 1 <= Restarts(j, v, e.expiration)
      <4>1. CASE count = 0
        <5>1. e.expiration = clock + ttl /\ clock + ttl > clock /\ clock >= old.expiration
          BY <1>1, <1>3, <1>4, <2>4, <3>2, <3>3, <4>1
        <5> HIDE DEF e
        <5> QED
          BY <3>4, <4>1, <5>1
      <4>2. CASE count # 0
        BY <1>3, <3>1, <3>2, <3>3, <4>2
      <4> QED
        BY <4>1, <4>2
    <3> HIDE DEF e
    <3> QED
      BY <1>1, <1>2, <1>5, <1>7, <1>8, <2>1, <2>4, <3>3, <3>5, EntryCharged
  <2> QED
    BY <1>5, <2>3, <2>4
<1>9. v >= WindowStart(j, clock) => v = WindowStart(j, clock)
  BY <1>3
<1> HIDE DEF e, old
<1> QED
  BY <1>1, <1>2, <1>3, <1>7, <1>8, <1>9, CounterTouched

\* The cleanup removes only entries of ended windows.
LEMMA CleanupCounter ==
    ASSUME WindowTypeOK, CounterInv, RemoveExpiredEntries
    PROVE  CounterInv'
<1>1. /\ conf' = conf /\ clock' = clock /\ taken' = taken /\ admitted' = admitted
      /\ Limiters' = Limiters /\ clock \in Nat
  BY WindowsFixed, TimesNat DEF RemoveExpiredEntries, WindowTypeOK
<1>2. SUFFICES ASSUME NEW i \in Limiters, NEW w \in Times PROVE CounterOK(i, w)'
  BY <1>1 DEF CounterInv
<1>3. store'[i][w] = IF clock > store[i][w].expiration THEN Gone ELSE store[i][w]
  BY DEF RemoveExpiredEntries
<1>4. CASE ~(w >= WindowStart(i, clock))
  BY <1>1, <1>4, WindowsFixed DEF CounterOK
<1>5. CASE w >= WindowStart(i, clock)
  <2>1. CounterOK(i, w) /\ w \in Nat
    BY TimesNat DEF CounterInv
  <2>2. /\ WindowStart(i, clock) \in Nat /\ clock < WindowStart(i, clock) + PolicyDuration[i]
        /\ PolicyDuration[i] \in Nat /\ PolicyBackend = "memory"
    BY <1>1, WindowFacts, DeploymentFacts DEF RemoveExpiredEntries
  <2>3. store[i][w] \in WindowEntry /\ taken[i][w] \in Nat
    BY DEF WindowTypeOK, WindowEntry
  <2>4. taken[i][w] > 0 => ~(clock > store[i][w].expiration)
    BY <1>1, <1>5, <2>1, <2>2, <2>3 DEF CounterOK, WindowEntry
  <2>5. taken[i][w] = 0 => store[i][w] = Gone
    BY <1>5, <2>1 DEF CounterOK
  <2>6. store'[i][w] = store[i][w]
    BY <1>3, <2>3, <2>4, <2>5
  <2> QED
    BY <1>1, <2>1, <2>6, CounterKept
<1> QED
  BY <1>4, <1>5

\* Every step keeps the counters exact.
LEMMA NextCounter ==
    ASSUME WindowTypeOK, RequestInv, CounterInv, [WindowNext]_windowVars
    PROVE  CounterInv'
<1>1. ASSUME conf' = conf, clock' \in Nat, clock' >= clock,
             UNCHANGED <<store, taken, admitted>>
      PROVE  CounterInv'
  <2>1. Limiters' = Limiters
    BY <1>1, WindowsFixed
  <2>2. SUFFICES ASSUME NEW i \in Limiters, NEW w \in Times PROVE CounterOK(i, w)'
    BY <2>1 DEF CounterInv
  <2>3. CounterOK(i, w)
    BY DEF CounterInv
  <2> QED
    BY <1>1, <2>3, CounterKept
<1>2. clock \in Nat
  BY TimesNat DEF WindowTypeOK
<1>3. CASE UNCHANGED windowVars
  BY <1>1, <1>2, <1>3 DEF windowVars
<1>4. CASE AdvanceClock
  BY <1>1, <1>2, <1>4 DEF AdvanceClock
<1>5. ASSUME NEW r \in Reqs, Quiet(r) PROVE CounterInv'
  BY <1>1, <1>2, <1>5, QuietChanges
<1>6. ASSUME NEW r \in Reqs, MemoryCall(r) PROVE CounterInv'
  <2>1. PICK j : j = req[r].i
    OBVIOUS
  <2>2. PICK v : v = WindowStart(j, clock)
    OBVIOUS
  <2> QED
    BY <1>6, <2>1, <2>2, MemoryCounter
<1>7. ASSUME NEW r \in Reqs,
             RedisIncr(r) \/ \E jitter \in 0..(Jitter - 1) : RedisExpire(r, jitter) \/ RedisScript(r, jitter)
      PROVE  CounterInv'
  <2>1. PICK j : j = req[r].i
    OBVIOUS
  <2>2. PICK v : v = WindowStart(j, req[r].read)
    OBVIOUS
  <2> QED
    BY <1>7, <2>1, <2>2, IncrCounter, ExpireCounter, ScriptCounter
<1> QED
  BY <1>3, <1>4, <1>5, <1>6, <1>7, StepCases, CleanupCounter

----------------------------------------------------------------------------
(* The TTL of Redis counters.                                               *)

\* Request s is about to set the TTL of the counter of window w.
SetsTtl(s, i, w) == req[s].pc = "expire" /\ req[s].i = i /\ WindowStart(i, req[s].read) = w

\* Every step keeps the lifetimes of the counters.
LEMMA NextKeys ==
    ASSUME WindowTypeOK, RequestInv, KeysExpire, [WindowNext]_windowVars
    PROVE  KeysExpire'
<1>1. conf' = conf
  BY StepCases DEF windowVars
<1>2. /\ Limiters' = Limiters /\ \A i, t : WindowStart(i, t)' = WindowStart(i, t)
  BY <1>1, WindowsFixed
<1>3. SUFFICES ASSUME ~conf.expireFails, NEW i \in Limiters, NEW w \in Times,
                      store'[i][w].expiration = Never
               PROVE  \E s \in Reqs : SetsTtl(s, i, w)'
  BY <1>1, <1>2 DEF KeysExpire, SetsTtl
<1>4. ASSUME store[i][w].expiration = Never
      PROVE  \E s \in Reqs : SetsTtl(s, i, w)
  BY <1>3, <1>4 DEF KeysExpire, SetsTtl
<1>5. ASSUME NEW s \in Reqs, SetsTtl(s, i, w), req'[s] = req[s]
      PROVE  SetsTtl(s, i, w)'
  BY <1>2, <1>5 DEF SetsTtl
<1>6. Never # 0 /\ w + PolicyDuration[i] + Grace # Never
  BY TtlBounds
<1>7. store \in [Limiters -> [Times -> WindowEntry]]
  BY DEF WindowTypeOK, WindowEntry
<1>8. CASE UNCHANGED windowVars \/ AdvanceClock
  BY <1>3, <1>4, <1>5, <1>8 DEF windowVars, AdvanceClock
<1>9. CASE RemoveExpiredEntries
  <2>1. store'[i][w] = Gone \/ store'[i][w] = store[i][w]
    BY <1>9 DEF RemoveExpiredEntries
  <2>2. store[i][w].expiration = Never
    BY <1>3, <1>6, <2>1 DEF Gone
  <2> QED
    BY <1>4, <1>5, <1>9, <2>2 DEF RemoveExpiredEntries
<1>10. ASSUME NEW r \in Reqs, Quiet(r)
       PROVE  \E s \in Reqs : SetsTtl(s, i, w)'
  <2>1. PICK s \in Reqs : SetsTtl(s, i, w)
    BY <1>3, <1>4, <1>10, QuietChanges
  <2>2. req[r].pc # "expire"
    BY <1>3, <1>10 DEF Quiet, Start, Finish, CheckAvailable, Respond, RedisReadClock,
                       RedisError, RedisExpireFails
  <2>3. s # r
    BY <2>1, <2>2 DEF SetsTtl
  <2> QED
    BY <1>5, <1>10, <2>1, <2>3, OthersUntouched
<1>11. ASSUME NEW r \in Reqs, MemoryCall(r)
       PROVE  \E s \in Reqs : SetsTtl(s, i, w)'
  <2>1. store[i][w].expiration = Never
    <3>1. ASSUME NEW j \in Limiters, NEW v, NEW count, store' = WriteEntry(j, v, count)
          PROVE  store'[i][w] = store[i][w] \/ store'[i][w] = Gone
                 \/ store'[i][w].expiration = w + PolicyDuration[i] + Grace
      BY <1>7, <3>1 DEF WriteEntry
    <3>2. store' = store \/ \E v, count : store' = WriteEntry(req[r].i, v, count)
      BY <1>11 DEF MemoryCall
    <3>3. req[r].i \in Limiters
      BY RequestFacts
    <3> QED
      BY <1>3, <1>6, <3>1, <3>2, <3>3 DEF Gone
  <2>2. PICK s \in Reqs : SetsTtl(s, i, w)
    BY <1>4, <2>1
  <2>3. s # r
    BY <1>11, <2>2 DEF MemoryCall, SetsTtl
  <2> QED
    BY <1>5, <1>11, <2>2, <2>3, OthersUntouched
<1>12. ASSUME NEW r \in Reqs, RedisIncr(r)
       PROVE  \E s \in Reqs : SetsTtl(s, i, w)'
  <2> DEFINE j == req[r].i
             n == req[r].n
             v == WindowStart(j, req[r].read)
             count == CurrentCount(j, req[r].read) + n
             fresh == clock >= store[j][v].expiration
  <2>1. /\ store' = [store EXCEPT ![j][v] = [count |-> count,
                       expiration |-> IF fresh THEN Never ELSE @.expiration]]
        /\ FirstInWindow(count, n) => req' = [req EXCEPT ![r].pc = "expire"]
        /\ req[r].pc = "incr"
    BY <1>12 DEF RedisIncr
  <2>2. j \in Limiters /\ v \in Times /\ n \in Nat
    BY RequestFacts, ReadWindow
  <2>3. CASE store[i][w].expiration = Never
    <3>1. PICK s \in Reqs : SetsTtl(s, i, w)
      BY <1>4, <2>3
    <3>2. s # r
      BY <2>1, <3>1 DEF SetsTtl
    <3> QED
      BY <1>5, <1>12, <3>1, <3>2, OthersUntouched
  <2>4. CASE store[i][w].expiration # Never
    <3>1. i = j /\ w = v /\ fresh
      <4> HIDE DEF j, v, count, fresh
      <4> QED
        BY <1>3, <1>7, <2>1, <2>2, <2>4
    <3>2. FirstInWindow(count, n)
      <4>1. store[j][v].expiration \in Nat /\ clock \in Nat
        BY <1>7, <2>2, TimesNat DEF WindowEntry, WindowTypeOK
      <4>2. PolicyBackend = "redis"
        BY <2>1 DEF RequestInv, RequestOK
      <4>3. CurrentCount(j, req[r].read) = 0
        BY <3>1, <4>2 DEF CurrentCount
      <4> QED
        BY <2>2, <4>3 DEF FirstInWindow
    <3>3. req'[r] = [req[r] EXCEPT !.pc = "expire"] /\ req[r] \in Request
      BY <2>1, <3>2, RequestFacts DEF WindowTypeOK
    <3>4. req'[r].pc = "expire" /\ req'[r].i = req[r].i /\ req'[r].read = req[r].read
      BY <3>3 DEF Request
    <3>5. SetsTtl(r, i, w)'
      BY <1>2, <3>1, <3>4 DEF SetsTtl
    <3> QED
      BY <3>5
  <2> QED
    BY <2>3, <2>4
<1>13. ASSUME NEW r \in Reqs, NEW jitter \in 0..(Jitter - 1), RedisExpire(r, jitter)
       PROVE  \E s \in Reqs : SetsTtl(s, i, w)'
  <2> DEFINE j == req[r].i
             v == WindowStart(j, req[r].read)
             ttl == InSeconds(Ttl(j, req[r].read, clock, jitter))
  <2>1. store' = [store EXCEPT ![j][v] = IF clock >= @.expiration \/ ttl <= 0 THEN Gone
                                         ELSE [@ EXCEPT !.expiration = clock + ttl]]
    BY <1>13 DEF RedisExpire
  <2>2. j \in Limiters /\ v \in Times /\ req[r].read \in Times
    BY RequestFacts, ReadWindow
  <2>3. /\ clock \in Nat /\ ttl \in Int /\ Never \in Nat
        /\ ttl > 0 => clock + ttl \in Nat /\ clock + ttl < Never
    BY <2>2, ExpireTtl, FixedWindowAssumption
  <2>4. ~(i = j /\ w = v) /\ store[i][w].expiration = Never
    <3> HIDE DEF j, v, ttl
    <3>1. CASE i = j /\ w = v
      <4>1. store'[i][w] = Gone \/ (~(ttl <= 0) /\ store'[i][w].expiration = clock + ttl)
        BY <1>7, <2>1, <2>2, <3>1 DEF WindowEntry
      <4>2. store'[i][w] # Gone
        BY <1>3, <1>6 DEF Gone
      <4> QED
        BY <1>3, <2>3, <4>1, <4>2
    <3>2. CASE ~(i = j /\ w = v)
      BY <1>3, <1>7, <2>1, <2>2, <3>2
    <3> QED
      BY <3>1, <3>2
  <2>5. PICK s \in Reqs : SetsTtl(s, i, w)
    BY <1>4, <2>4
  <2>6. s # r
    BY <2>4, <2>5 DEF SetsTtl
  <2> QED
    BY <1>5, <1>13, <2>5, <2>6, OthersUntouched
<1>14. ASSUME NEW r \in Reqs, NEW jitter \in 0..(Jitter - 1), RedisScript(r, jitter)
       PROVE  \E s \in Reqs : SetsTtl(s, i, w)'
  <2> DEFINE j == req[r].i
             v == WindowStart(j, req[r].read)
             count == CurrentCount(j, req[r].read)
             m == Consumed("clamp", j, count, req[r].n)
             ttl == WholeUnits(Ttl(j, req[r].read, req[r].read, jitter), ScriptUnit)
  <2>1. store' = ScriptWrite(j, v, count, m, clock + ttl) /\ req[r].pc = "script"
    BY <1>14 DEF RedisScript
  <2>2. j \in Limiters /\ v \in Times /\ req[r].read \in Times
    BY RequestFacts, ReadWindow
  <2>3. clock + ttl # Never
    <3>1. clock \in Nat /\ ttl \in Nat /\ clock + ttl < Never /\ Never \in Nat
      BY <2>2, ScriptTtl, FixedWindowAssumption
    <3> HIDE DEF ttl
    <3> QED
      BY <3>1
  <2>4. store[i][w].expiration = Never
    <3> HIDE DEF j, v, ttl, m, count
    <3> QED
      BY <1>3, <1>7, <2>1, <2>2, <2>3 DEF ScriptWrite, WindowEntry
  <2>5. PICK s \in Reqs : SetsTtl(s, i, w)
    BY <1>4, <2>4
  <2>6. s # r
    BY <2>1, <2>5 DEF SetsTtl
  <2> QED
    BY <1>5, <1>14, <2>5, <2>6, OthersUntouched
<1> QED
  BY <1>8, <1>9, <1>10, <1>11, <1>12, <1>13, <1>14, StepCases

----------------------------------------------------------------------------
(* The overshoot of quotas charged after the response.                      *)

\* One factor less is one cost less.
LEMMA MultipleLess ==
    ASSUME NEW k \in Nat, NEW a \in Nat, NEW b \in Nat, a + 1 <= b
    PROVE  k + k * a <= k * b /\ k * a \in Nat /\ k * b \in Nat
<1>1. k * (a + 1) <= k * b /\ k * b \in Nat
  BY MultipleMonotone
<1>2. k * (a + 1) = k + k * a /\ k * a \in Nat
  OBVIOUS
<1> QED
  BY <1>1, <1>2

\* Sets of requests, and how many they are.
LEMMA RequestCard ==
    ASSUME NEW S, S \subseteq Reqs
    PROVE  /\ IsFiniteSet(S) /\ Cardinality(S) \in Nat /\ Cardinality(Reqs) \in Nat
           /\ Cardinality(S) <= Cardinality(Reqs)
           /\ \A T \in SUBSET S : Cardinality(T) <= Cardinality(S)
           /\ \A r \in S : \A T \in SUBSET (S \ {r}) : Cardinality(T) + 1 <= Cardinality(S)
<1>1. IsFiniteSet(Reqs)
  BY FixedWindowAssumption
<1>2. IsFiniteSet(S) /\ Cardinality(S) <= Cardinality(Reqs)
  BY <1>1, FS_Subset
<1>3. Cardinality(S) \in Nat /\ Cardinality(Reqs) \in Nat
  BY <1>1, <1>2, FS_CardinalityType
<1>4. ASSUME NEW T \in SUBSET S PROVE Cardinality(T) <= Cardinality(S)
  BY <1>2, FS_Subset
<1>5. ASSUME NEW r \in S, NEW T \in SUBSET (S \ {r})
      PROVE  Cardinality(T) + 1 <= Cardinality(S)
  <2>1. IsFiniteSet(S \ {r}) /\ Cardinality(S \ {r}) = Cardinality(S) - 1
    BY <1>2, FS_RemoveElement
  <2>2. Cardinality(T) <= Cardinality(S \ {r}) /\ IsFiniteSet(T)
    BY <2>1, FS_Subset
  <2>3. Cardinality(T) \in Nat
    BY <2>2, FS_CardinalityType
  <2> QED
    BY <1>3, <2>1, <2>2, <2>3
<1> QED
  BY <1>2, <1>3, <1>4, <1>5

\* Costs that are charged after the response use one TTL, so that a counter restarts
\* once at most, and never becomes unlost again.
LEMMA ChargeRestarts ==
    ASSUME WindowTypeOK, conf.ops = {"charge"}, NEW i \in Limiters, NEW w \in Nat
    PROVE  \A t \in Nat : /\ Restarts(i, w, t) \in {0, 1}
                          /\ \A u \in Nat : t <= u => Restarts(i, w, t) <= Restarts(i, w, u)
<1> SUFFICES ASSUME NEW t \in Nat
             PROVE  /\ Restarts(i, w, t) \in {0, 1}
                    /\ \A u \in Nat : t <= u => Restarts(i, w, t) <= Restarts(i, w, u)
  OBVIOUS
<1>1. /\ Restarts(i, w, t) = ByIncr(i, w, t) + ByScript(i, w, t) /\ ByIncr(i, w, t) \in {0, 1}
      /\ \A u \in Nat : t <= u => Restarts(i, w, t) <= Restarts(i, w, u)
  BY RestartFacts
<1>2. ByScript(i, w, t) = 0
  BY DEF ByScript
<1> QED
  BY <1>1, <1>2

\* A step counts m tokens in window w, all of them in its live counter, unless it is
\* the end of a counter that dies too soon.
Moves(i, w, m) ==
    /\ taken'[i][w] = taken[i][w] + m
    /\ Dying(i, w)' => Dying(i, w) \/ Restarts(i, w, clock) = 0
    /\ (w >= WindowStart(i, clock))' =>
          \/ Alive(i, w)' = Alive(i, w) + m
          \/ /\ m = 0 /\ Dying(i, w) /\ ~Dying(i, w)'
             /\ Restarts(i, w, clock') > 0 /\ Alive(i, w)' \in Nat

\* Such a step makes no lost counter undone.
LEMMA LostGrows ==
    ASSUME WindowTypeOK, WindowTypeOK', conf.ops = {"charge"}, NEW i \in Limiters, NEW w \in Times,
           CounterOK(i, w), CounterOK(i, w)', conf' = conf, clock' >= clock, NEW m, Moves(i, w, m)
    PROVE  /\ Lost(i, w) \in {0, 1} /\ Lost(i, w)' \in {0, 1} /\ Lost(i, w) <= Lost(i, w)'
           /\ w >= WindowStart(i, clock) =>
                 Lost(i, w) = Past(i, w) /\ (Dying(i, w) => Lost(i, w) = 0)
           /\ (w >= WindowStart(i, clock))' =>
                 /\ w >= WindowStart(i, clock) /\ Lost(i, w)' = Past(i, w)'
                 /\ ~Dying(i, w)' => Lost(i, w)' = Restarts(i, w, clock')
<1> DEFINE old == store[i][w].expiration
           new == store'[i][w].expiration
           s == WindowStart(i, clock)
           t == WindowStart(i, clock')
<1>1. clock \in Nat /\ clock' \in Nat /\ w \in Nat
  BY TimesNat DEF WindowTypeOK
<1>2. /\ WindowStart(i, clock)' = t /\ Limiters' = Limiters
      /\ Restarts(i, w, clock)' = Restarts(i, w, clock')
      /\ Restarts(i, w, store[i][w].expiration)' = Restarts(i, w, new)
  BY WindowsFixed
<1>3. old \in Nat /\ new \in Nat
  <2>1. store[i][w] \in WindowEntry
    BY DEF WindowTypeOK, WindowEntry
  <2>2. store'[i][w] \in WindowEntry
    BY <1>2 DEF WindowTypeOK, WindowEntry
  <2> QED
    BY <2>1, <2>2 DEF WindowEntry
<1>4. s \in Nat /\ t \in Nat /\ s <= t
  BY <1>1, WindowFacts, WindowMonotone
<1> DEFINE sofar == Restarts(i, w, clock)
           then == Restarts(i, w, clock')
           out == Restarts(i, w, old)
           next == Restarts(i, w, new)
<1>5. sofar \in {0, 1} /\ then \in {0, 1} /\ sofar <= then /\ out \in {0, 1} /\ next \in {0, 1}
  BY <1>1, <1>3, ChargeRestarts
<1>6. w >= s /\ Dying(i, w) => out > 0
  BY DEF CounterOK
<1>7. w >= t /\ Dying(i, w)' => next > 0
  BY <1>2 DEF CounterOK
<1>8. /\ Lost(i, w) = IF w >= s THEN Past(i, w) ELSE sofar
      /\ Past(i, w) = IF Dying(i, w) THEN out - 1 ELSE sofar
      /\ Lost(i, w)' = IF w >= t THEN Past(i, w)' ELSE then
      /\ Past(i, w)' = IF Dying(i, w)' THEN next - 1 ELSE then
  BY <1>2 DEF Lost, Past
<1>9. (w >= WindowStart(i, clock))' <=> w >= t
  BY <1>2
<1>10. Dying(i, w)' => Dying(i, w) \/ sofar = 0
  BY DEF Moves
<1> HIDE DEF sofar, then, out, next, s, t
<1>11. /\ Lost(i, w) \in {0, 1} /\ Lost(i, w)' \in {0, 1} /\ Lost(i, w) <= Lost(i, w)'
       /\ w >= s => Lost(i, w) = Past(i, w) /\ (Dying(i, w) => Lost(i, w) = 0)
       /\ w >= t => w >= s /\ Lost(i, w)' = Past(i, w)' /\ (~Dying(i, w)' => Lost(i, w)' = then)
  <2>1. w >= s => Lost(i, w) = Past(i, w) /\ (Dying(i, w) => Lost(i, w) = 0)
    BY <1>5, <1>6, <1>8
  <2>2. w >= t => w >= s /\ Lost(i, w)' = Past(i, w)' /\ (~Dying(i, w)' => Lost(i, w)' = then)
    BY <1>1, <1>4, <1>8
  <2>3. Lost(i, w) \in {0, 1}
    BY <1>5, <1>6, <1>8
  <2>4. Lost(i, w)' \in {0, 1}
    BY <1>5, <1>7, <1>8
  <2>5. Lost(i, w) <= Lost(i, w)'
    <3>1. CASE w >= t /\ Dying(i, w)'
      BY <1>1, <1>4, <1>5, <1>7, <1>8, <1>10, <2>1, <2>4, <3>1
    <3>2. CASE ~(w >= t /\ Dying(i, w)')
      <4>1. Lost(i, w)' = then
        BY <1>8, <3>2
      <4>2. Lost(i, w) <= sofar
        BY <1>5, <1>8, <2>1
      <4> QED
        BY <1>5, <2>3, <4>1, <4>2
    <3> QED
      BY <3>1, <3>2
  <2> QED
    BY <2>1, <2>2, <2>3, <2>4, <2>5
<1> QED
  BY <1>9, <1>11 DEF s, then

\* What one counter lets through is a number, and so are its multiples.
LEMMA MostFacts ==
    ASSUME WindowTypeOK, NEW i \in Limiters, NEW w \in Times
    PROVE  /\ Most(i) \in Nat /\ Most(i) * 0 = 0 /\ Most(i) * 1 = Most(i)
           /\ Most(i) * (1 + 0) = Most(i) /\ Most(i) * (1 + 1) = Most(i) + Most(i)
           /\ MaxTokens \in Nat /\ Cardinality(Reqs) \in Nat
           /\ MaxTokens * Cardinality(Reqs) \in Nat
           /\ Most(i) = PolicyLimit[i] - 1 + MaxTokens * Cardinality(Reqs)
           /\ PolicyLimit[i] \in Nat /\ PolicyLimit[i] > 0
           /\ taken[i][w] \in Nat /\ Alive(i, w) \in Nat
           /\ \A S \in SUBSET Reqs : /\ Cardinality(S) \in Nat /\ MaxTokens * Cardinality(S) \in Nat
                                     /\ MaxTokens * Cardinality(S) <= MaxTokens * Cardinality(Reqs)
<1>1. /\ PolicyLimit[i] \in Nat /\ PolicyLimit[i] > 0 /\ MaxTokens \in Nat
      /\ taken[i][w] \in Nat
  <2>1. PolicyLimit[i] \in Nat \ {0}
    BY DeploymentFacts
  <2>2. MaxTokens \in Nat /\ taken[i][w] \in Nat
    BY FixedWindowAssumption DEF WindowTypeOK
  <2> QED
    BY <2>1, <2>2
<1>2. Alive(i, w) \in Nat
  <2>1. store[i][w] \in WindowEntry
    BY DEF WindowTypeOK, WindowEntry
  <2> QED
    BY <2>1 DEF Alive, WindowEntry
<1>3. Cardinality(Reqs) \in Nat
  BY RequestCard
<1>4. ASSUME NEW S \in SUBSET Reqs
      PROVE  /\ Cardinality(S) \in Nat /\ MaxTokens * Cardinality(S) \in Nat
             /\ MaxTokens * Cardinality(S) <= MaxTokens * Cardinality(Reqs)
  <2>1. Cardinality(S) \in Nat /\ Cardinality(S) <= Cardinality(Reqs)
    BY RequestCard
  <2> QED
    BY <1>1, <1>3, <2>1, MultipleMonotone
<1>5. MaxTokens * Cardinality(Reqs) \in Nat
  BY <1>4
<1>6. Most(i) = PolicyLimit[i] - 1 + MaxTokens * Cardinality(Reqs)
  BY DEF Most
<1>7. Most(i) \in Nat
  <2> DEFINE z == MaxTokens * Cardinality(Reqs)
  <2> HIDE DEF z
  <2>1. Most(i) = PolicyLimit[i] - 1 + z /\ z \in Nat
    BY <1>5, <1>6 DEF z
  <2> QED
    BY <1>1, <2>1
<1>8. /\ Most(i) * 0 = 0 /\ Most(i) * 1 = Most(i)
      /\ Most(i) * (1 + 0) = Most(i) /\ Most(i) * (1 + 1) = Most(i) + Most(i)
  BY <1>7
<1> QED
  BY <1>1, <1>2, <1>3, <1>4, <1>5, <1>6, <1>7, <1>8

\* What a step counts goes to the live counter, and what that loses is accounted for.
LEMMA CountedOn ==
    ASSUME WindowTypeOK, WindowTypeOK', conf.ops = {"charge"}, NEW i \in Limiters, NEW w \in Times,
           CounterOK(i, w), CounterOK(i, w)', conf' = conf, clock' >= clock, OvershootOK(i, w),
           NEW m \in Nat, Moves(i, w, m)
    PROVE  Counted(i, w)'
<1> SUFFICES ASSUME (w >= WindowStart(i, clock))'
             PROVE  taken'[i][w] <= Alive(i, w)' + (Most(i) * Past(i, w))'
  BY DEF Counted
<1>1. /\ Lost(i, w) \in {0, 1} /\ Lost(i, w)' \in {0, 1} /\ Lost(i, w) <= Lost(i, w)'
      /\ w >= WindowStart(i, clock) /\ Lost(i, w) = Past(i, w) /\ Lost(i, w)' = Past(i, w)'
      /\ Dying(i, w) => Lost(i, w) = 0
      /\ ~Dying(i, w)' => Lost(i, w)' = Restarts(i, w, clock')
  BY LostGrows
<1>2. PolicyLimit' = PolicyLimit
  BY WindowsFixed
<1>3. Most(i)' = Most(i)
  BY <1>2 DEF Most
<1>4. /\ Most(i) \in Nat /\ Most(i) * 0 = 0 /\ Most(i) * 1 = Most(i)
      /\ Most(i) * (1 + 0) = Most(i) /\ taken[i][w] \in Nat /\ Alive(i, w) \in Nat
      /\ MaxTokens * Cardinality(Chargers(i, w)) \in Nat
  <2>1. Chargers(i, w) \in SUBSET Reqs
    BY DEF Chargers
  <2> QED
    BY <2>1, MostFacts
<1>5. /\ taken[i][w] <= Alive(i, w) + Most(i) * Lost(i, w)
      /\ taken[i][w] + MaxTokens * Cardinality(Chargers(i, w)) <= Most(i) * (1 + Lost(i, w))
  BY <1>1 DEF OvershootOK, Counted
<1>6. taken'[i][w] = taken[i][w] + m
  BY DEF Moves
<1>7. taken'[i][w] <= Alive(i, w)' + Most(i) * Lost(i, w)'
  <2> DEFINE x == MaxTokens * Cardinality(Chargers(i, w))
  <2> HIDE DEF x
  <2>1. CASE Alive(i, w)' = Alive(i, w) + m
    <3>1. Most(i) * Lost(i, w) <= Most(i) * Lost(i, w)'
      BY <1>1, <1>4
    <3>2. Most(i) * Lost(i, w) \in Nat /\ Most(i) * Lost(i, w)' \in Nat
      BY <1>1, <1>4
    <3> DEFINE a == Most(i) * Lost(i, w)
               b == Most(i) * Lost(i, w)'
    <3> HIDE DEF a, b
    <3>3. a \in Nat /\ b \in Nat /\ a <= b /\ taken[i][w] <= Alive(i, w) + a
      BY <1>5, <3>1, <3>2 DEF a, b
    <3>4. taken'[i][w] <= Alive(i, w)' + b
      BY <1>4, <1>6, <2>1, <3>3
    <3> QED
      BY <3>4 DEF b
  <2>2. CASE /\ m = 0 /\ Dying(i, w) /\ ~Dying(i, w)' /\ Restarts(i, w, clock') > 0
             /\ Alive(i, w)' \in Nat
    <3>1. Lost(i, w) = 0 /\ Lost(i, w)' = 1
      BY <1>1, <2>2
    <3>2. taken[i][w] + x <= Most(i) /\ x \in Nat
      BY <1>4, <1>5, <3>1 DEF x
    <3>3. taken'[i][w] <= Most(i)
      BY <1>4, <1>6, <2>2, <3>2
    <3>4. Most(i) * Lost(i, w)' = Most(i)
      BY <1>4, <3>1
    <3>5. taken'[i][w] <= Alive(i, w)' + Most(i)
      BY <1>4, <1>6, <2>2, <3>3
    <3> QED
      BY <3>4, <3>5
  <2> QED
    BY <2>1, <2>2 DEF Moves
<1> QED
  BY <1>1, <1>3, <1>7

\* A step that charges nothing to a window and lets nobody past its check, or finds
\* room in its counter.
LEMMA OvershootKept ==
    ASSUME WindowTypeOK, WindowTypeOK', conf.ops = {"charge"}, NEW i \in Limiters, NEW w \in Times,
           CounterOK(i, w), CounterOK(i, w)', conf' = conf, clock' >= clock, OvershootOK(i, w),
           Moves(i, w, 0),
           \/ \A s \in Reqs : MayCharge(s, i, w)' => MayCharge(s, i, w)
           \/ w >= WindowStart(i, clock) /\ Alive(i, w) < PolicyLimit[i]
    PROVE  OvershootOK(i, w)'
<1> DEFINE C == Chargers(i, w)
           D == Chargers(i, w)'
<1>1. Counted(i, w)'
  BY CountedOn
<1>2. /\ Lost(i, w) \in {0, 1} /\ Lost(i, w)' \in {0, 1} /\ Lost(i, w) <= Lost(i, w)'
      /\ w >= WindowStart(i, clock) => Lost(i, w) = Past(i, w)
  BY LostGrows
<1>3. PolicyLimit' = PolicyLimit
  BY WindowsFixed
<1>4. Most(i)' = Most(i)
  BY <1>3 DEF Most
<1>5. C \in SUBSET Reqs /\ D \in SUBSET Reqs
  BY DEF Chargers
<1> DEFINE x == MaxTokens * Cardinality(C)
           y == MaxTokens * Cardinality(D)
           z == MaxTokens * Cardinality(Reqs)
<1>6. /\ Most(i) \in Nat /\ Most(i) * 0 = 0 /\ Most(i) * 1 = Most(i)
      /\ Most(i) * (1 + 0) = Most(i) /\ Most(i) * (1 + 1) = Most(i) + Most(i)
      /\ Most(i) = PolicyLimit[i] - 1 + z /\ PolicyLimit[i] \in Nat
      /\ taken[i][w] \in Nat /\ Alive(i, w) \in Nat
      /\ x \in Nat /\ y \in Nat /\ z \in Nat /\ y <= z
  BY <1>5, MostFacts
<1>7. taken[i][w] + x <= Most(i) * (1 + Lost(i, w)) /\ Counted(i, w)
  BY DEF OvershootOK
<1>8. taken'[i][w] = taken[i][w]
  BY <1>6 DEF Moves
<1>9. CASE \A s \in Reqs : MayCharge(s, i, w)' => MayCharge(s, i, w)
  <2>1. D \subseteq C
    BY <1>9 DEF Chargers
  <2>2. Cardinality(D) <= Cardinality(C) /\ Cardinality(C) \in Nat /\ Cardinality(D) \in Nat
    BY <1>5, <2>1, RequestCard
  <2>3. y <= x
    BY <2>2, MultipleMonotone, FixedWindowAssumption
  <2> HIDE DEF x, y, z, C, D
  <2>4. taken'[i][w] + y <= Most(i) * (1 + Lost(i, w)')
    BY <1>2, <1>6, <1>7, <1>8, <2>3
  <2> QED
    BY <1>1, <1>4, <2>4 DEF OvershootOK, y, D
<1>10. CASE w >= WindowStart(i, clock) /\ Alive(i, w) < PolicyLimit[i]
  <2>1. taken[i][w] <= Alive(i, w) + Most(i) * Lost(i, w)
    BY <1>2, <1>7, <1>10 DEF Counted
  <2> HIDE DEF x, y, z, C, D
  <2>2. taken'[i][w] + y <= Most(i) * (1 + Lost(i, w)')
    BY <1>2, <1>6, <1>8, <1>10, <2>1
  <2> QED
    BY <1>1, <1>4, <2>2 DEF OvershootOK, y, D
<1> QED
  BY <1>9, <1>10

\* A step in which request r charges the window it was entitled to.
LEMMA OvershootCharged ==
    ASSUME WindowTypeOK, WindowTypeOK', conf.ops = {"charge"}, NEW i \in Limiters, NEW w \in Times,
           CounterOK(i, w), CounterOK(i, w)', conf' = conf, clock' >= clock, OvershootOK(i, w),
           NEW r \in Reqs, NEW m \in Nat, m <= MaxTokens, Moves(i, w, m),
           MayCharge(r, i, w), ~MayCharge(r, i, w)',
           \A s \in Reqs : s # r /\ MayCharge(s, i, w)' => MayCharge(s, i, w)
    PROVE  OvershootOK(i, w)'
<1> DEFINE C == Chargers(i, w)
           D == Chargers(i, w)'
<1>1. Counted(i, w)'
  BY CountedOn
<1>2. Lost(i, w) \in {0, 1} /\ Lost(i, w)' \in {0, 1} /\ Lost(i, w) <= Lost(i, w)'
  BY LostGrows
<1>3. PolicyLimit' = PolicyLimit
  BY WindowsFixed
<1>4. Most(i)' = Most(i)
  BY <1>3 DEF Most
<1>5. C \subseteq Reqs /\ r \in C /\ D \subseteq C \ {r} /\ D \subseteq Reqs
  BY DEF Chargers
<1> DEFINE x == MaxTokens * Cardinality(C)
           y == MaxTokens * Cardinality(D)
<1>6. /\ Most(i) \in Nat /\ Most(i) * (1 + 0) = Most(i) /\ Most(i) * (1 + 1) = Most(i) + Most(i)
      /\ taken[i][w] \in Nat /\ MaxTokens \in Nat
      /\ Cardinality(C) \in Nat /\ Cardinality(D) \in Nat
  BY <1>5, MostFacts
<1>7. Cardinality(D) + 1 <= Cardinality(C)
  BY <1>5, RequestCard
<1>8. MaxTokens + y <= x /\ x \in Nat /\ y \in Nat
  BY <1>6, <1>7, MultipleLess
<1>9. taken[i][w] + x <= Most(i) * (1 + Lost(i, w))
  BY DEF OvershootOK
<1>10. taken'[i][w] = taken[i][w] + m
  BY DEF Moves
<1> HIDE DEF x, y, C, D
<1>11. taken'[i][w] + y <= Most(i) * (1 + Lost(i, w)')
  BY <1>2, <1>6, <1>8, <1>9, <1>10
<1> QED
  BY <1>1, <1>4, <1>11 DEF OvershootOK, y, D

\* A counter that is left alone, also when the clock moves.
LEMMA KeptMoves ==
    ASSUME WindowTypeOK, WindowTypeOK', conf.ops = {"charge"}, NEW i \in Limiters, NEW w \in Times,
           CounterOK(i, w), conf' = conf, clock' >= clock, store'[i][w] = store[i][w],
           taken'[i][w] = taken[i][w]
    PROVE  Moves(i, w, 0)
<1> DEFINE e == store[i][w].expiration
           end == w + PolicyDuration[i]
           t == WindowStart(i, clock')
<1>1. clock \in Nat /\ clock' \in Nat /\ w \in Nat /\ taken[i][w] \in Nat
  BY TimesNat DEF WindowTypeOK
<1>2. store[i][w] \in WindowEntry
  BY DEF WindowTypeOK, WindowEntry
<1>3. e \in Nat /\ PolicyDuration[i] \in Nat
  BY <1>2, DeploymentFacts DEF WindowEntry
<1>4. /\ WindowStart(i, clock)' = t /\ PolicyDuration' = PolicyDuration
      /\ PolicyBackend' = PolicyBackend
  BY WindowsFixed
<1>5. t \in Nat /\ clock' < t + PolicyDuration[i] /\ WindowStart(i, clock) <= t
      /\ WindowStart(i, clock) \in Nat
  BY <1>1, WindowFacts, WindowMonotone
<1>6. /\ Dying(i, w) <=> PolicyBackend = "redis" /\ clock < e /\ e < end
      /\ Dying(i, w)' <=> PolicyBackend = "redis" /\ clock' < e /\ e < end
  BY <1>4 DEF Dying
<1>7. /\ Alive(i, w) = IF PolicyBackend = "redis" /\ clock >= e THEN 0 ELSE store[i][w].count
      /\ Alive(i, w)' = IF PolicyBackend = "redis" /\ clock' >= e THEN 0 ELSE store[i][w].count
  BY <1>4 DEF Alive
<1>8. store[i][w].count \in Nat
  BY <1>2 DEF WindowEntry
<1>9. WindowStart(i, clock) <= w /\ Dying(i, w) => Restarts(i, w, e) > 0
  BY <1>1, <1>5 DEF CounterOK
<1>10. /\ Restarts(i, w, e) \in {0, 1} /\ Restarts(i, w, clock') \in {0, 1}
       /\ e <= clock' => Restarts(i, w, e) <= Restarts(i, w, clock')
  BY <1>1, <1>3, ChargeRestarts
<1>11. w >= t => WindowStart(i, clock) <= w /\ clock' < end
  BY <1>1, <1>3, <1>5
<1> HIDE DEF e, end, t
<1>12. Dying(i, w)' => Dying(i, w)
  BY <1>1, <1>3, <1>6
<1>13. ASSUME w >= t
       PROVE  \/ Alive(i, w)' = Alive(i, w) + 0
              \/ /\ Dying(i, w) /\ ~Dying(i, w)'
                 /\ Restarts(i, w, clock') > 0 /\ Alive(i, w)' \in Nat
  <2>1. CASE PolicyBackend = "redis" /\ clock < e /\ ~(clock' < e)
    <3>1. e < end
      BY <1>1, <1>3, <1>11, <1>13, <2>1 DEF end
    <3>2. Dying(i, w) /\ ~Dying(i, w)'
      BY <1>6, <2>1, <3>1
    <3>3. Restarts(i, w, clock') > 0
      BY <1>1, <1>3, <1>9, <1>10, <1>11, <1>13, <2>1, <3>2
    <3>4. Alive(i, w)' \in Nat
      BY <1>7, <1>8
    <3> QED
      BY <3>2, <3>3, <3>4
  <2>2. CASE ~(PolicyBackend = "redis" /\ clock < e /\ ~(clock' < e))
    BY <1>1, <1>3, <1>7, <1>8, <2>2
  <2> QED
    BY <2>1, <2>2
<1>14. taken'[i][w] = taken[i][w] + 0
  BY <1>1
<1> QED
  BY <1>4, <1>12, <1>13, <1>14 DEF Moves, t

\* Memory counts what it takes.
LEMMA MemoryMoves ==
    ASSUME WindowTypeOK, WindowTypeOK', NEW i \in Limiters, NEW w \in Times, CounterOK(i, w),
           CounterOK(i, w)', conf' = conf, clock' = clock, PolicyBackend = "memory",
           NEW m \in Nat, taken'[i][w] = taken[i][w] + m
    PROVE  Moves(i, w, m)
<1>1. /\ WindowStart(i, clock)' = WindowStart(i, clock) /\ PolicyBackend' = "memory"
  BY WindowsFixed
<1>2. ~Dying(i, w)'
  BY <1>1 DEF Dying
<1>3. ASSUME w >= WindowStart(i, clock) PROVE Alive(i, w)' = Alive(i, w) + m
  <2>1. store[i][w].count = taken[i][w] /\ store'[i][w].count = taken'[i][w]
    BY <1>1, <1>3 DEF CounterOK
  <2>2. Alive(i, w) = taken[i][w] /\ Alive(i, w)' = taken'[i][w]
    BY <1>1, <2>1 DEF Alive
  <2> QED
    BY <2>2
<1> QED
  BY <1>1, <1>2, <1>3 DEF Moves

\* INCRBY counts what it takes, in a counter that lasts until it has a TTL.
LEMMA IncrMoves ==
    ASSUME WindowTypeOK, RequestInv, NEW r \in Reqs, RedisIncr(r),
           NEW j, j = req[r].i, NEW v, v = WindowStart(j, req[r].read)
    PROVE  Moves(j, v, req[r].n)
<1> DEFINE n == req[r].n
           old == store[j][v]
           count == CurrentCount(j, req[r].read) + n
           new == [count |-> count, expiration |-> IF clock >= old.expiration THEN Never
                                                   ELSE old.expiration]
<1>1. /\ conf' = conf /\ clock' = clock /\ PolicyBackend = "redis"
      /\ store' = [store EXCEPT ![j][v] =
                     [count |-> count, expiration |-> IF clock >= store[j][v].expiration THEN Never
                                                      ELSE @.expiration]]
      /\ Count(j, v, n)
  BY DEF RedisIncr, RequestInv, RequestOK
<1>2. j \in Limiters /\ n \in Nat /\ Never \in Nat
  BY RequestFacts, FixedWindowAssumption
<1>3. v \in Times /\ clock \in Nat /\ v \in Nat
  BY <1>2, ReadWindow
<1>4. store'[j][v] = new /\ taken'[j][v] = taken[j][v] + n
  <2> HIDE DEF count, n
  <2> QED
    BY <1>1, <1>2, <1>3 DEF Count, WindowTypeOK
<1>5. old \in WindowEntry
  BY <1>2, <1>3 DEF WindowTypeOK, WindowEntry
<1>6. v + PolicyDuration[j] < Never /\ clock < Never /\ PolicyDuration[j] \in Nat
  <2>1. /\ \A jitter \in 0..(Jitter - 1), t \in Times : t + PolicyDuration[j] + jitter < Never
        /\ PolicyDuration[j] \in Nat /\ v + PolicyDuration[j] + Grace < Never
    BY <1>2, <1>3, TtlBounds
  <2>3. 0 \in 0..(Jitter - 1) /\ Grace \in Nat
    BY FixedWindowAssumption
  <2>2. clock \in Times
    BY DEF WindowTypeOK
  <2>4. clock + PolicyDuration[j] + 0 < Never
    BY <2>1, <2>2, <2>3
  <2> QED
    BY <1>2, <1>3, <2>1, <2>3, <2>4
<1>7. CurrentCount(j, req[r].read) = IF clock >= old.expiration THEN 0 ELSE old.count
  BY <1>1 DEF CurrentCount
<1>8. Alive(j, v) = IF clock >= old.expiration THEN 0 ELSE old.count
  BY <1>1 DEF Alive
<1>9. PolicyBackend' = "redis" /\ PolicyDuration' = PolicyDuration
  BY <1>1, WindowsFixed
<1>10. Alive(j, v)' = IF clock >= new.expiration THEN 0 ELSE new.count
  BY <1>1, <1>4, <1>9 DEF Alive
<1>11. /\ Dying(j, v) <=> clock < old.expiration /\ old.expiration < v + PolicyDuration[j]
       /\ Dying(j, v)' <=> clock < new.expiration /\ new.expiration < v + PolicyDuration[j]
  BY <1>1, <1>4, <1>9 DEF Dying
<1>12. old.expiration \in Nat
  BY <1>5 DEF WindowEntry
<1>13. ~(clock >= new.expiration)
  BY <1>2, <1>3, <1>6, <1>12
<1>14. Alive(j, v)' = Alive(j, v) + n
  BY <1>7, <1>8, <1>10, <1>13
<1>15. Dying(j, v)' => Dying(j, v)
  BY <1>2, <1>3, <1>6, <1>11, <1>12
<1> QED
  BY <1>4, <1>14, <1>15 DEF Moves

\* EXPIRE counts nothing, and shortens no life within the last unit of a window.
LEMMA ExpireMoves ==
    ASSUME WindowTypeOK, WindowTypeOK', RequestInv, NEW r \in Reqs, NEW jitter \in 0..(Jitter - 1),
           RedisExpire(r, jitter), NEW j, j = req[r].i, NEW v, v = WindowStart(j, req[r].read)
    PROVE  Moves(j, v, 0)
<1> DEFINE old == store[j][v]
           ttl == InSeconds(Ttl(j, req[r].read, clock, jitter))
           new == IF clock >= old.expiration \/ ttl <= 0 THEN Gone
                  ELSE [old EXCEPT !.expiration = clock + ttl]
           end == v + PolicyDuration[j]
<1>1. /\ conf' = conf /\ clock' = clock /\ taken' = taken /\ PolicyBackend = "redis"
      /\ store' = [store EXCEPT ![j][v] = new]
  BY DEF RedisExpire, RequestInv, RequestOK
<1>2. j \in Limiters /\ req[r].read \in Times
  BY RequestFacts
<1>3. /\ v \in Times /\ v \in Nat /\ clock \in Nat /\ v <= WindowStart(j, clock)
      /\ WindowStart(j, clock) <= clock /\ clock < WindowStart(j, clock) + PolicyDuration[j]
      /\ WindowStart(j, clock) \in Nat /\ PolicyDuration[j] \in Nat
  BY <1>2, ReadWindow, WindowFacts, DeploymentFacts
<1>4. /\ ttl \in Int /\ (clock < end => ttl > 0)
      /\ ttl > 0 /\ clock + ttl < end /\ v <= clock => clock + ExpireUnit <= end
  BY <1>2, ExpireTtl
<1>5. store'[j][v] = new /\ taken[j][v] \in Nat
  <2> HIDE DEF new
  <2> QED
    BY <1>1, <1>2, <1>3 DEF WindowTypeOK
<1>6. old \in WindowEntry
  BY <1>2, <1>3 DEF WindowTypeOK, WindowEntry
<1>7. PolicyBackend' = "redis" /\ PolicyDuration' = PolicyDuration
      /\ WindowStart(j, clock)' = WindowStart(j, clock)
  BY <1>1, WindowsFixed
<1>8. /\ Alive(j, v) = IF clock >= old.expiration THEN 0 ELSE old.count
      /\ Alive(j, v)' = IF clock >= new.expiration THEN 0 ELSE new.count
      /\ Dying(j, v)' <=> clock < new.expiration /\ new.expiration < end
  <2>1. Alive(j, v) = IF clock >= old.expiration THEN 0 ELSE old.count
    BY <1>1 DEF Alive
  <2> HIDE DEF new
  <2>2. Alive(j, v)' = IF clock >= new.expiration THEN 0 ELSE new.count
    BY <1>1, <1>5, <1>7 DEF Alive
  <2>3. Dying(j, v)' <=> clock < new.expiration /\ new.expiration < end
    BY <1>1, <1>5, <1>7 DEF Dying
  <2> QED
    BY <2>1, <2>2, <2>3
<1>9. Dying(j, v)' => Restarts(j, v, clock) = 0
  <2> SUFFICES ASSUME clock < new.expiration, new.expiration < end
               PROVE  Restarts(j, v, clock) = 0
    BY <1>8
  <2>1. new # Gone
    BY <1>3 DEF Gone
  <2>2. new.expiration = clock + ttl /\ ~(ttl <= 0)
    BY <1>6, <2>1 DEF WindowEntry
  <2> HIDE DEF ttl, end
  <2>3. clock + ExpireUnit <= end
    BY <1>3, <1>4, <2>2
  <2> QED
    BY <1>2, <1>3, <2>3, RestartFacts DEF end
<1>10. ASSUME v >= WindowStart(j, clock) PROVE Alive(j, v)' = Alive(j, v) + 0
  <2>1. ttl > 0
    BY <1>3, <1>4, <1>10
  <2>2. CASE clock >= old.expiration
    <3>1. new = Gone
      BY <2>2
    <3> QED
      BY <1>3, <1>8, <2>2, <3>1 DEF Gone
  <2>3. CASE ~(clock >= old.expiration)
    <3>1. new.expiration = clock + ttl /\ new.count = old.count /\ old.count \in Nat
      BY <1>4, <1>6, <2>1, <2>3 DEF WindowEntry
    <3> HIDE DEF new, ttl
    <3> QED
      BY <1>3, <1>4, <1>8, <2>1, <2>3, <3>1
  <2> QED
    BY <2>2, <2>3
<1>11. taken'[j][v] = taken[j][v] + 0
  BY <1>1, <1>5
<1> QED
  BY <1>7, <1>9, <1>10, <1>11 DEF Moves

\* Nobody passes the check of a window whose live counter is full.
LEMMA FullWindowDenies ==
    ASSUME WindowTypeOK, RequestInv, CounterInv, NEW r \in Reqs,
           NEW i, i = req[r].i, NEW w, w = WindowStart(i, clock),
           WindowStart(i, req[r].read) = w, Alive(i, w) >= PolicyLimit[i]
    PROVE  ~CheckPasses(i, AskedAt(req[r]))
<1>1. i \in Limiters /\ req[r].read \in Times /\ clock \in Times /\ PolicyLimit[i] \in Nat
  BY RequestFacts
<1>2. AskedAt(req[r]) \in Times /\ WindowStart(i, AskedAt(req[r])) = w
  BY <1>1 DEF AskedAt
<1>3. CurrentCount(i, AskedAt(req[r])) = Alive(i, w)
  BY <1>1, <1>2, CountsLive
<1>4. Alive(i, w) \in Nat
  BY <1>1, RunningWindow
<1>5. Remaining(i, Alive(i, w)) = 0
  BY <1>1, <1>4 DEF Remaining, GreaterOf
<1> QED
  BY <1>3, <1>5 DEF CheckPasses

\* A quiet step lets no request past the check of a full window.
LEMMA QuietOvershoot ==
    ASSUME WindowTypeOK, RequestInv, CounterInv, conf.ops = {"charge"},
           NEW i \in Limiters, NEW w \in Times,
           w >= WindowStart(i, clock) => Alive(i, w) >= PolicyLimit[i],
           NEW r \in Reqs, Quiet(r), MayCharge(r, i, w)'
    PROVE  MayCharge(r, i, w)
<1> DEFINE q == req[r]
           cur == WindowStart(i, clock)
<1>1. /\ conf' = conf /\ clock' = clock /\ \A k, t : WindowStart(k, t)' = WindowStart(k, t)
  BY QuietChanges, WindowsFixed
<1>2. /\ q \in Request /\ q.i \in Limiters /\ req \in [Reqs -> Request]
  BY RequestFacts DEF WindowTypeOK
<1>3. /\ clock \in Nat /\ cur \in Nat /\ w \in Nat /\ q.read \in Nat
      /\ WindowStart(i, q.read) \in Nat /\ WindowStart(i, q.read) <= cur
  BY ReadWindow, TimesNat
<1>4. i \in Nat /\ i >= 1 /\ q.i \in Nat /\ \A k \in Limiters : k + 1 \notin Limiters => k >= i
  BY <1>2, DeploymentFacts
<1>5. w <= cur
  <2>1. /\ taken[i][w] \in Nat /\ PolicyLimit[i] \in Nat /\ PolicyLimit[i] > 0
        /\ Alive(i, w) \in Nat
    BY MostFacts
  <2>2. CounterOK(i, w)
    BY DEF CounterInv
  <2> QED
    BY <1>3, <2>1, <2>2 DEF CounterOK, cur
<1>6. q.pc \notin Resting => q.op = "charge"
  BY DEF RequestInv, RequestOK
<1> DEFINE new == req'[r]
<1>7. \/ new.pc = "incr" /\ new.i = i /\ WindowStart(i, new.read) = w
      \/ /\ w >= cur
         /\ \/ new.pc = "upstream"
            \/ new.pc = "check" /\ (new.i > i \/ (new.i = i /\ WindowStart(i, new.read) < w))
            \/ new.pc = "call" /\ new.i <= i
            \/ new.pc \in {"incr", "expire"} /\ new.i < i
  BY <1>1 DEF MayCharge
<1> HIDE DEF cur
<1>8. ASSUME NEW op \in conf.ops, NEW n \in 1..MaxTokens, Start(r, op, n) PROVE FALSE
  <2>1. new.pc = "check" /\ new.i = 1 /\ new.read = clock
    BY <1>2, <1>8 DEF Start, Idle
  <2> QED
    BY <1>3, <1>4, <1>5, <1>7, <2>1 DEF cur
<1>9. CASE Finish(r)
  <2>1. new.pc = "idle"
    BY <1>2, <1>9 DEF Finish, Idle
  <2> QED
    BY <1>7, <2>1
<1>10. CASE RedisError(r) \/ RedisExpireFails(r)
  <2>1. new.pc = "error"
    BY <1>2, <1>10 DEF RedisError, RedisExpireFails, Failed, Request
  <2> QED
    BY <1>7, <2>1
<1>11. CASE CheckAvailable(r)
  <2>1. q.pc = "check"
    BY <1>11 DEF CheckAvailable
  <2>2. \/ new.pc = "done"
        \/ /\ CheckPasses(q.i, AskedAt(q))
           /\ \/ q.i + 1 \in Limiters /\ new.pc = "check" /\ new.i = q.i + 1 /\ new.read = clock
              \/ q.i + 1 \notin Limiters /\ new.pc = "upstream"
    BY <1>2, <1>11 DEF CheckAvailable, Request
  <2>3. CheckPasses(q.i, AskedAt(q)) /\ w >= cur /\ q.i >= i
    BY <1>2, <1>3, <1>4, <1>5, <1>7, <2>2 DEF cur
  <2>4. CASE q.i > i
    BY <2>1, <2>3, <2>4 DEF MayCharge, cur
  <2>5. CASE q.i = i
    <3>1. WindowStart(i, q.read) # cur
      <4>1. w = cur /\ Alive(i, w) >= PolicyLimit[i]
        BY <1>3, <1>5, <2>3 DEF cur
      <4> QED
        BY <1>3, <2>3, <2>5, <4>1, FullWindowDenies DEF cur
    <3>2. WindowStart(i, q.read) < w
      BY <1>3, <1>5, <2>3, <3>1
    <3> QED
      BY <2>1, <2>3, <2>5, <3>2 DEF MayCharge, cur
  <2> QED
    BY <1>4, <2>3, <2>4, <2>5
<1>12. CASE Respond(r)
  <2>1. q.pc = "upstream" /\ new.pc = "call"
    BY <1>2, <1>12 DEF Respond, Request
  <2> QED
    BY <1>7, <2>1 DEF MayCharge, cur
<1>13. CASE RedisReadClock(r)
  <2>1. q.pc = "call"
    BY <1>13 DEF RedisReadClock
  <2>2. new.pc = "incr" /\ new.i = q.i /\ new.read = clock
    BY <1>2, <1>6, <1>13 DEF RedisReadClock, Request, Resting
  <2> QED
    BY <1>3, <1>4, <1>7, <2>1, <2>2 DEF MayCharge, cur
<1> QED
  BY <1>8, <1>9, <1>10, <1>11, <1>12, <1>13 DEF Quiet

\* A request that calls a limiter for tokens charges that limiter and goes on.
LEMMA CallOvershoot ==
    ASSUME WindowTypeOK, WindowTypeOK', RequestInv, CounterInv, CounterInv', OvershootInv,
           conf.ops = {"charge"}, NEW r \in Reqs,
           \/ MemoryCall(r) \/ RedisIncr(r)
           \/ \E jitter \in 0..(Jitter - 1) : RedisExpire(r, jitter) \/ RedisScript(r, jitter),
           NEW i \in Limiters, NEW w \in Times
    PROVE  OvershootOK(i, w)'
<1> DEFINE q == req[r]
           new == req'[r]
<1>1. /\ conf' = conf /\ clock' = clock /\ Limiters' = Limiters
      /\ \A k, t : WindowStart(k, t)' = WindowStart(k, t)
  BY CallFrame, WindowsFixed
<1>2. /\ q \in Request /\ q.i \in Limiters /\ q.n \in Nat /\ q.n <= MaxTokens
      /\ req \in [Reqs -> Request] /\ clock \in Times
  BY RequestFacts DEF WindowTypeOK
<1>3. q.i \in Nat /\ i \in Nat /\ w \in Nat /\ WindowStart(i, clock) \in Nat
  <2>1. clock \in Nat /\ w \in Nat
    BY <1>2, TimesNat
  <2>2. q.i \in Nat /\ i \in Nat
    BY <1>2, DeploymentFacts
  <2> QED
    BY <2>1, <2>2, WindowFacts
<1>4. q.op = "charge" /\ q.pc # "script"
  BY CallFrame DEF RequestInv, RequestOK, Resting
<1>5. \/ new.pc = "done"
      \/ new.pc = "call" /\ new.i = q.i + 1
      \/ q.pc = "incr" /\ new.pc = "expire" /\ new.i = q.i
  <2>1. ASSUME NEW result \in Answer, Returned(r, result)
        PROVE  new.pc = "done" \/ (new.pc = "call" /\ new.i = q.i + 1)
    BY <2>1, ReturnedFacts
  <2>2. ASSUME req' = [req EXCEPT ![r].pc = "expire"]
        PROVE  new.pc = "expire" /\ new.i = q.i
    BY <1>2, <2>2 DEF Request
  <2> QED
    BY <2>1, <2>2, CallAnswers
<1>6. ASSUME NEW s \in Reqs, s # r, MayCharge(s, i, w)' PROVE MayCharge(s, i, w)
  <2>1. req'[s] = req[s]
    BY <1>6, OthersUntouched
  <2> QED
    BY <1>1, <1>6, <2>1 DEF MayCharge
<1>7. OvershootOK(i, w) /\ CounterOK(i, w) /\ CounterOK(i, w)' /\ clock' >= clock
  <2>1. OvershootOK(i, w) /\ CounterOK(i, w)
    BY DEF OvershootInv, CounterInv
  <2>2. CounterOK(i, w)'
    BY <1>1 DEF CounterInv
  <2>3. clock' >= clock
    BY <1>1, <1>2, TimesNat
  <2> QED
    BY <2>1, <2>2, <2>3
<1>8. MayCharge(r, i, w)' =>
         /\ w >= WindowStart(i, clock)
         /\ \/ new.pc = "call" /\ new.i <= i
            \/ new.pc = "expire" /\ new.i < i
  BY <1>1, <1>5 DEF MayCharge
<1>9. ASSUME NEW v \in Times, q.pc \in {"call", "incr"},
             q.pc = "call" => v = WindowStart(q.i, clock),
             q.pc = "incr" => v = WindowStart(q.i, q.read),
             Moves(i, w, IF i = q.i /\ w = v THEN q.n ELSE 0)
      PROVE  OvershootOK(i, w)'
  <2>1. CASE i = q.i /\ w = v
    <3>1. Moves(i, w, q.n)
      BY <1>9, <2>1
    <3>2. MayCharge(r, i, w)
      BY <1>3, <1>9, <2>1 DEF MayCharge
    <3>3. ~MayCharge(r, i, w)'
      BY <1>3, <1>5, <1>8, <2>1
    <3> QED
      BY <1>1, <1>2, <1>6, <1>7, <3>1, <3>2, <3>3, OvershootCharged
  <2>2. CASE ~(i = q.i /\ w = v)
    <3>1. Moves(i, w, 0)
      BY <1>9, <2>2
    <3>2. MayCharge(r, i, w)' => MayCharge(r, i, w)
      BY <1>3, <1>5, <1>8, <1>9 DEF MayCharge
    <3> QED
      BY <1>1, <1>6, <1>7, <3>1, <3>2, OvershootKept
  <2> QED
    BY <2>1, <2>2
<1>10. CASE MemoryCall(r)
  <2> DEFINE v == WindowStart(q.i, clock)
             m == IF i = q.i /\ w = v THEN q.n ELSE 0
  <2>1. q.pc = "call" /\ v \in Times /\ PolicyBackend = "memory"
    BY <1>2, <1>10, WindowFacts, TimesNat DEF MemoryCall
  <2>2. taken' = [taken EXCEPT ![q.i][v] = @ + q.n]
    BY <1>4, <1>10 DEF MemoryCall, Count, Consumed
  <2>3. taken'[i][w] = taken[i][w] + m /\ m \in Nat
    <3> HIDE DEF v
    <3> QED
      BY <1>2, <2>1, <2>2 DEF WindowTypeOK
  <2> HIDE DEF m
  <2>4. Moves(i, w, m)
    BY <1>1, <1>7, <2>1, <2>3, MemoryMoves
  <2> QED
    BY <1>9, <2>1, <2>4 DEF m
<1>11. CASE RedisIncr(r)
  <2>1. PICK v : v = WindowStart(q.i, q.read)
    OBVIOUS
  <2>2. q.pc = "incr" /\ v \in Times
    BY <1>2, <1>11, <2>1, ReadWindow DEF RedisIncr
  <2>3. Moves(q.i, v, q.n)
    BY <1>11, <2>1, IncrMoves
  <2>4. ASSUME ~(i = q.i /\ w = v) PROVE Moves(i, w, 0)
    <3>1. store'[i][w] = store[i][w] /\ taken'[i][w] = taken[i][w]
      BY <1>2, <1>11, <2>1, <2>2, <2>4 DEF RedisIncr, Count, WindowTypeOK
    <3> QED
      BY <1>1, <1>7, <3>1, KeptMoves
  <2> QED
    BY <1>9, <2>1, <2>2, <2>3, <2>4
<1>12. ASSUME NEW jitter \in 0..(Jitter - 1), RedisExpire(r, jitter)
       PROVE  OvershootOK(i, w)'
  <2>1. PICK v : v = WindowStart(q.i, q.read)
    OBVIOUS
  <2>2. q.pc = "expire" /\ taken' = taken /\ v \in Times
    BY <1>2, <1>12, <2>1, ReadWindow DEF RedisExpire
  <2>3. MayCharge(r, i, w)' => MayCharge(r, i, w)
    BY <1>3, <1>5, <1>8, <2>2 DEF MayCharge
  <2>4. Moves(i, w, 0)
    <3>1. CASE i = q.i /\ w = v
      BY <1>12, <2>1, <3>1, ExpireMoves
    <3>2. CASE ~(i = q.i /\ w = v)
      <4>1. store'[i][w] = store[i][w]
        BY <1>2, <1>12, <2>1, <2>2, <3>2 DEF RedisExpire, WindowTypeOK
      <4> QED
        BY <1>1, <1>7, <2>2, <4>1, KeptMoves
    <3> QED
      BY <3>1, <3>2
  <2> QED
    BY <1>1, <1>6, <1>7, <2>3, <2>4, OvershootKept
<1>13. \A jitter \in 0..(Jitter - 1) : ~RedisScript(r, jitter)
  BY <1>4 DEF RedisScript
<1> QED
  BY <1>10, <1>11, <1>12, <1>13

\* Every step keeps the bound on the overshoot.
LEMMA NextOvershoot ==
    ASSUME WindowTypeOK, WindowTypeOK', RequestInv, CounterInv, CounterInv', OvershootInv,
           [WindowNext]_windowVars
    PROVE  OvershootInv'
<1>1. conf' = conf /\ Limiters' = Limiters /\ \A k, t : WindowStart(k, t)' = WindowStart(k, t)
  <2>1. conf' = conf
    BY StepCases DEF windowVars
  <2> QED
    BY <2>1, WindowsFixed
<1>2. SUFFICES ASSUME conf.ops = {"charge"}, NEW i \in Limiters, NEW w \in Times
               PROVE  OvershootOK(i, w)'
  BY <1>1 DEF OvershootInv
<1>3. OvershootOK(i, w) /\ CounterOK(i, w) /\ CounterOK(i, w)' /\ clock \in Nat
  BY <1>1, <1>2, TimesNat DEF OvershootInv, CounterInv, WindowTypeOK
<1>4. CASE UNCHANGED windowVars \/ RemoveExpiredEntries
  <2>1. req' = req /\ clock' = clock /\ taken' = taken
    BY <1>4 DEF windowVars, RemoveExpiredEntries
  <2>2. \A s \in Reqs : MayCharge(s, i, w)' => MayCharge(s, i, w)
    BY <1>1, <2>1 DEF MayCharge
  <2>3. Moves(i, w, 0)
    <3>1. CASE UNCHANGED windowVars
      BY <1>1, <1>2, <1>3, <3>1, KeptMoves DEF windowVars
    <3>2. CASE RemoveExpiredEntries
      <4>1. taken'[i][w] = taken[i][w] + 0 /\ PolicyBackend = "memory"
        BY <2>1, <3>2 DEF WindowTypeOK, RemoveExpiredEntries
      <4> QED
        BY <1>1, <1>3, <2>1, <4>1, MemoryMoves
    <3> QED
      BY <1>4, <3>1, <3>2
  <2> QED
    BY <1>1, <1>2, <1>3, <2>1, <2>2, <2>3, OvershootKept
<1>5. CASE AdvanceClock
  <2>1. /\ req' = req /\ taken' = taken /\ store' = store
        /\ clock' = clock + 1 /\ w \in Nat /\ clock' >= clock
    BY <1>3, <1>5, TimesNat DEF AdvanceClock
  <2>2. /\ WindowStart(i, clock) \in Nat /\ WindowStart(i, clock') \in Nat
        /\ WindowStart(i, clock) <= WindowStart(i, clock')
    BY <1>3, <2>1, WindowFacts, WindowMonotone
  <2>3. \A s \in Reqs : MayCharge(s, i, w)' => MayCharge(s, i, w)
    BY <1>1, <2>1, <2>2 DEF MayCharge
  <2>4. Moves(i, w, 0)
    BY <1>1, <1>2, <1>3, <2>1, KeptMoves
  <2> QED
    BY <1>1, <1>2, <1>3, <2>1, <2>3, <2>4, OvershootKept
<1>6. ASSUME NEW r \in Reqs, Quiet(r) PROVE OvershootOK(i, w)'
  <2>1. taken' = taken /\ clock' = clock /\ store' = store /\ clock' >= clock
    BY <1>3, <1>6, QuietChanges
  <2>2. Moves(i, w, 0)
    BY <1>1, <1>2, <1>3, <2>1, KeptMoves
  <2>3. CASE w >= WindowStart(i, clock) /\ Alive(i, w) < PolicyLimit[i]
    BY <1>1, <1>2, <1>3, <2>1, <2>2, <2>3, OvershootKept
  <2>4. CASE ~(w >= WindowStart(i, clock) /\ Alive(i, w) < PolicyLimit[i])
    <3>1. w >= WindowStart(i, clock) => Alive(i, w) >= PolicyLimit[i]
      BY <2>4, MostFacts
    <3>2. ASSUME NEW s \in Reqs, MayCharge(s, i, w)' PROVE MayCharge(s, i, w)
      <4>1. CASE s = r
        BY <1>2, <1>6, <3>1, <3>2, <4>1, QuietOvershoot
      <4>2. CASE s # r
        <5>1. req'[s] = req[s]
          BY <1>6, <4>2, OthersUntouched
        <5> QED
          BY <1>1, <2>1, <3>2, <5>1 DEF MayCharge
      <4> QED
        BY <4>1, <4>2
    <3> QED
      BY <1>1, <1>2, <1>3, <2>1, <2>2, <3>2, OvershootKept
  <2> QED
    BY <2>3, <2>4
<1> QED
  BY <1>2, <1>4, <1>5, <1>6, CallOvershoot, StepCases

----------------------------------------------------------------------------
(* The theorems.                                                            *)

WindowInv ==
    /\ WindowTypeOK /\ RequestInv /\ CounterInv /\ DenialInv /\ OvershootInv /\ KeysExpire

\* The invariant holds initially.
LEMMA InitInv == WindowInit => WindowInv
<1> SUFFICES ASSUME WindowInit PROVE WindowInv
  OBVIOUS
<1>1. WindowTypeOK
  BY InitType
<1>2. RequestInv /\ DenialInv
  <2>1. clock = 0
    BY DEF WindowInit
  <2> QED
    BY <2>1, InitRequest DEF RequestInv, RequestOK, DenialInv, DenialOK, Idle, NoResult, Resting
<1>3. CounterInv
  <2> SUFFICES ASSUME NEW i \in Limiters, NEW w \in Times PROVE CounterOK(i, w)
    BY DEF CounterInv
  <2>1. taken[i][w] = 0 /\ admitted[i][w] = 0 /\ store[i][w] = Gone
    BY DEF WindowInit
  <2>2. PolicyLimit[i] \in Nat
    BY <1>1, DeploymentFacts
  <2>3. ~(clock < store[i][w].expiration) /\ Alive(i, w) = 0 /\ ~Dying(i, w)
    BY <2>1 DEF Alive, Dying, Gone, WindowInit
  <2>4. Restarts(i, w, clock) \in 0..2 /\ Past(i, w) = Restarts(i, w, clock)
    BY <1>1, <2>3, PastFacts
  <2>5. LesserOf(0, PolicyLimit[i]) = 0 /\ PolicyLimit[i] * Past(i, w) >= 0
    BY <2>2, <2>4 DEF LesserOf
  <2> QED
    BY <2>1, <2>2, <2>3, <2>4, <2>5 DEF CounterOK, Gone
<1>4. OvershootInv
  <2> SUFFICES ASSUME conf.ops = {"charge"}, NEW i \in Limiters, NEW w \in Times
               PROVE  OvershootOK(i, w)
    BY DEF OvershootInv
  <2>1. taken[i][w] = 0 /\ store[i][w] = Gone /\ clock = 0 /\ w \in Nat
    BY TimesNat DEF WindowInit
  <2>2. ~Dying(i, w) /\ Restarts(i, w, clock) \in {0, 1}
    BY <1>1, <2>1, ChargeRestarts DEF Dying, Gone
  <2>3. Lost(i, w) \in {0, 1} /\ Past(i, w) \in {0, 1}
    BY <2>2 DEF Lost, Past
  <2>4. /\ Most(i) \in Nat /\ Most(i) * 0 = 0 /\ Most(i) * 1 = Most(i)
        /\ Most(i) * (1 + 0) = Most(i) /\ Most(i) * (1 + 1) = Most(i) + Most(i)
        /\ Alive(i, w) \in Nat /\ MaxTokens \in Nat
    BY <1>1, MostFacts
  <2>5. Chargers(i, w) = {}
    <3>1. \A r \in Reqs : req[r].pc = "idle"
      BY DEF WindowInit, Idle
    <3> QED
      BY <3>1 DEF Chargers, MayCharge
  <2>6. MaxTokens * Cardinality(Chargers(i, w)) = 0
    BY <2>4, <2>5, FS_EmptySet
  <2> QED
    BY <2>1, <2>3, <2>4, <2>6 DEF OvershootOK, Counted
<1>5. KeysExpire
  <2> SUFFICES ASSUME NEW i \in Limiters, NEW w \in Times PROVE store[i][w].expiration # Never
    BY DEF KeysExpire
  <2>1. store[i][w] = Gone
    BY DEF WindowInit
  <2> QED
    BY <1>1, <2>1, TtlBounds DEF Gone
<1> QED
  BY <1>1, <1>2, <1>3, <1>4, <1>5 DEF WindowInv

\* The invariant holds throughout.
LEMMA WindowInvAlways == WindowSpec => []WindowInv
<1>1. ASSUME WindowInv, [WindowNext]_windowVars PROVE WindowInv'
  <2>1. WindowTypeOK' /\ RequestInv' /\ CounterInv' /\ DenialInv' /\ KeysExpire'
    BY <1>1, NextType, NextRequest, NextCounter, NextDenial, NextKeys DEF WindowInv
  <2> QED
    BY <1>1, <2>1, NextOvershoot DEF WindowInv
<1> QED
  BY <1>1, InitInv, PTL DEF WindowSpec

\* The limiters and their requests keep their types, for any deployment.
THEOREM WindowTypes == WindowSpec => []WindowTypeOK
<1>1. WindowInv => WindowTypeOK
  BY DEF WindowInv
<1> QED
  BY <1>1, WindowInvAlways, PTL

\* AllowN, ConsumeN and ConsumeOrClampN of memory.go and redis.go: whatever requests of
\* ended windows, the cleanup, EXPIRE and its failures do, the counter of the running
\* window is what was counted in it, but for the last unit of its TTL.
THEOREM CountsAreExact == WindowSpec => []CountExact
<1>1. ASSUME WindowInv PROVE CountExact
  <2> SUFFICES ASSUME NEW i \in Limiters
               PROVE  LET w == WindowStart(i, clock) IN
                        /\ CurrentCount(i, clock) <= taken[i][w]
                        /\ Restarts(i, w, clock) = 0 => CurrentCount(i, clock) = taken[i][w]
    BY DEF CountExact
  <2>1. WindowTypeOK /\ CounterInv /\ clock \in Times
    BY <1>1 DEF WindowInv, WindowTypeOK
  <2>2. PICK w : w = WindowStart(i, clock)
    OBVIOUS
  <2>3. CurrentCount(i, clock) = Alive(i, w) /\ Alive(i, w) <= taken[i][w]
    BY <2>1, <2>2, CountsLive
  <2>4. w \in Times /\ w \in Nat
    BY <2>1, <2>2, RunningWindow
  <2>5. Restarts(i, w, clock) = 0 => Alive(i, w) = taken[i][w]
    BY <2>1, <2>2, <2>4 DEF CounterInv, CounterOK
  <2> QED
    BY <2>2, <2>3, <2>5
<1> QED
  BY <1>1, WindowInvAlways, PTL

\* AllowN of memory.go and redis.go: no more than the limit is let into the running
\* window, and once more for each counter that its end may have cost.
THEOREM LimitKept == WindowSpec => []AllowWithinLimit
<1>1. ASSUME WindowInv PROVE AllowWithinLimit
  <2>1. WindowTypeOK /\ CounterInv
    BY <1>1 DEF WindowInv
  <2> SUFFICES ASSUME NEW i \in Limiters, NEW w, w = WindowStart(i, clock)
               PROVE  admitted[i][w] <= PolicyLimit[i] * (1 + Restarts(i, w, clock))
    BY DEF AllowWithinLimit
  <2>2. /\ w \in Times /\ w \in Nat /\ PolicyLimit[i] \in Nat /\ admitted[i][w] \in Nat
        /\ Alive(i, w) \in Nat
    BY <2>1, RunningWindow
  <2>3. /\ Restarts(i, w, clock) \in 0..2 /\ Past(i, w) \in -1..2
        /\ Restarts(i, w, store[i][w].expiration) \in 0..2
        /\ Dying(i, w) => Past(i, w) = Restarts(i, w, store[i][w].expiration) - 1
        /\ ~Dying(i, w) => Past(i, w) = Restarts(i, w, clock)
    BY <2>1, <2>2, PastFacts
  <2>4. /\ Restarts(i, w, clock) = 0 => admitted[i][w] <= PolicyLimit[i]
        /\ admitted[i][w] <= LesserOf(Alive(i, w), PolicyLimit[i]) + PolicyLimit[i] * Past(i, w)
    BY <2>1, <2>2 DEF CounterInv, CounterOK
  <2> DEFINE l == PolicyLimit[i]
             n == Restarts(i, w, clock)
             p == Past(i, w)
  <2>5. LesserOf(Alive(i, w), l) <= l /\ LesserOf(Alive(i, w), l) \in Nat
    BY <2>2 DEF LesserOf
  <2>6. n = 0 \/ p <= n
    BY <2>3
  <2> HIDE DEF l, n, p
  <2>7. l \in Nat /\ n \in 0..2 /\ p \in -1..2
    BY <2>2, <2>3 DEF l, n, p
  <2>8. CASE n = 0
    <3>1. l * (1 + n) = l
      BY <2>7, <2>8
    <3> QED
      BY <2>4, <2>8, <3>1 DEF l, n
  <2>9. CASE p <= n
    <3>1. l * p <= l * n /\ l * p \in Int /\ l * n \in Int /\ l * (n + 1) = l * n + l
      BY <2>7, <2>9, TimesLimit
    <3>2. admitted[i][w] <= LesserOf(Alive(i, w), l) + l * p
      BY <2>4 DEF l, p
    <3> DEFINE x == l * p
               y == l * n
               z == l * (n + 1)
    <3> HIDE DEF x, y, z
    <3>3. x \in Int /\ y \in Int /\ x <= y /\ z = y + l
          /\ admitted[i][w] <= LesserOf(Alive(i, w), l) + x
      BY <3>1, <3>2 DEF x, y, z
    <3>4. admitted[i][w] <= z
      BY <2>2, <2>5, <2>7, <3>3
    <3>5. n + 1 = 1 + n
      BY <2>7
    <3> QED
      BY <3>4, <3>5 DEF z, l, n
  <2> QED
    BY <2>6, <2>8, <2>9
<1> QED
  BY <1>1, WindowInvAlways, PTL

\* MultiLimiter: what it answers is a denial exactly if a limiter denied.
THEOREM DenialsReported == WindowSpec => []DenialReported
<1>1. WindowInv => DenialReported
  BY DEF WindowInv, DenialInv, DenialOK, DenialReported
<1> QED
  BY <1>1, WindowInvAlways, PTL

\* GetAvailable before and ConsumeN after the response: a window is overshot by no
\* more than one cost for each concurrent request, once for each of its counters.
THEOREM OvershootIsBounded == WindowSpec => []OvershootBounded
<1>1. ASSUME WindowInv PROVE OvershootBounded
  <2>1. WindowTypeOK /\ OvershootInv /\ CounterInv
    BY <1>1 DEF WindowInv
  <2> SUFFICES ASSUME conf.ops = {"charge"}, NEW i \in Limiters, NEW w \in Times
               PROVE  taken[i][w] <= (PolicyLimit[i] - 1 + Cardinality(Reqs) * MaxTokens)
                                       * (1 + Restarts(i, w, clock))
    BY DEF OvershootBounded
  <2> DEFINE c == MaxTokens * Cardinality(Chargers(i, w))
             n == Restarts(i, w, clock)
  <2>2. /\ Most(i) \in Nat /\ taken[i][w] \in Nat /\ c \in Nat
        /\ Most(i) * (1 + 0) = Most(i) /\ Most(i) * (1 + 1) = Most(i) + Most(i)
        /\ MaxTokens \in Nat /\ Cardinality(Reqs) \in Nat
    <3>1. Chargers(i, w) \in SUBSET Reqs
      BY DEF Chargers
    <3> QED
      BY <2>1, <3>1, MostFacts
  <2>3. taken[i][w] + c <= Most(i) * (1 + Lost(i, w))
    BY <2>1 DEF OvershootInv, OvershootOK
  <2>4. n \in {0, 1} /\ (Lost(i, w) = n \/ Lost(i, w) = 0)
    <3>1. w \in Nat /\ clock \in Nat
      BY <2>1, TimesNat DEF WindowTypeOK
    <3>2. store[i][w].expiration \in Nat
      BY <2>1, PastFacts
    <3>3. n \in {0, 1} /\ Restarts(i, w, store[i][w].expiration) \in {0, 1}
      BY <2>1, <3>1, <3>2, ChargeRestarts
    <3>4. w >= WindowStart(i, clock) /\ Dying(i, w) => Restarts(i, w, store[i][w].expiration) > 0
      BY <2>1 DEF CounterInv, CounterOK
    <3> HIDE DEF n
    <3>5. Lost(i, w) = n \/ Lost(i, w) = 0
      BY <3>3, <3>4 DEF Lost, Past, n
    <3> QED
      BY <3>3, <3>5
  <2>5. Most(i) = PolicyLimit[i] - 1 + Cardinality(Reqs) * MaxTokens
    <3>1. MaxTokens * Cardinality(Reqs) = Cardinality(Reqs) * MaxTokens
      BY <2>2
    <3> QED
      BY <3>1 DEF Most
  <2> HIDE DEF c, n
  <2>6. taken[i][w] <= Most(i) * (1 + n)
    BY <2>2, <2>3, <2>4
  <2> QED
    BY <2>5, <2>6 DEF n
<1> QED
  BY <1>1, WindowInvAlways, PTL

\* AllowN of redis.go: as long as EXPIRE succeeds, no counter stays without a TTL.
THEOREM CountersExpire == WindowSpec => []KeysExpire
<1>1. WindowInv => KeysExpire
  BY DEF WindowInv
<1> QED
  BY <1>1, WindowInvAlways, PTL

(***************************************************************************)
(* LimiterCache and DelegateCache                                          *)
(***************************************************************************)
\* What the comment on reconcileKeyFor asks of the gateway: a route has at most one
\* instance of the policy at each level.
OneInstancePerLevel ==
    \A a, b \in Attachments : RouteOf[a] = RouteOf[b] /\ LevelOf[a] = LevelOf[b] => a = b

\* A cached limiter is the last one created for its key, and was not closed.
GenOK(k) ==
    /\ Cached(k) => byQuotaKey[k].gen = created[k]
    /\ \A l \in closed : l.key = k =>
          l.gen <= created[k] /\ (Cached(k) => l.gen < created[k])

GenInv == \A k \in CacheKeys : GenOK(k)

RefOK(k) ==
    /\ IsFiniteSet(Users(k))
    /\ Users(k) # {} => Cached(k) /\ byQuotaKey[k].refCount >= Cardinality(Users(k))

RefInv == \A k \in CacheKeys : RefOK(k)

\* A running policy has the limiters that are cached under the keys of its bucket.
HeldOK(a) ==
    \A l \in policy[a].limiters :
        /\ policy[a].params \in Params /\ l.quota \in Quotas
        /\ l.key = QuotaCacheKey(a, policy[a].params, l.quota)
        /\ l.key \in quotaKeysByBaseKey[ReconcileKeyFor(a, policy[a].params)]
        /\ l.gen = byQuotaKey[l.key].gen

HeldInv == \A a \in Attachments : HeldOK(a)

----------------------------------------------------------------------------
(* Keys and entries.                                                        *)

\* Cache keys have their type.
LEMMA KeyType ==
    ASSUME NEW a \in Attachments, NEW p \in Params, NEW q \in Quotas
    PROVE  QuotaCacheKey(a, p, q) \in CacheKeys /\ ReconcileKeyFor(a, p) \in ReconcileKeys
  BY DEF QuotaCacheKey, ReconcileKeyFor, CacheKeys, ReconcileKeys, Routes, Levels

\* What is cached under a key.
LEMMA EntryFacts ==
    ASSUME CacheTypeOK, NEW k \in CacheKeys
    PROVE  /\ created[k] \in Nat /\ created[k] <= MaxGen /\ byQuotaKey[k].refCount \in Nat
           /\ Cached(k) => /\ byQuotaKey[k] \in [gen : 1..MaxGen, params : Params, refCount : Nat \ {0}]
                           /\ byQuotaKey[k].gen \in Nat /\ byQuotaKey[k].refCount > 0
                           /\ byQuotaKey[k].gen > 0
           /\ ~Cached(k) => byQuotaKey[k] = Absent
<1>1. byQuotaKey[k] \in {Absent} \cup [gen : 1..MaxGen, params : Params, refCount : Nat \ {0}]
      /\ created[k] \in 0..MaxGen
  BY DEF CacheTypeOK
<1>2. MaxGen \in Nat
  BY CacheAssumption
<1> QED
  BY <1>1, <1>2 DEF Cached, Absent

\* What GetPolicy makes of the entry of a key it wants.
LEMMA ObtainFacts ==
    ASSUME CacheTypeOK, NEW k \in CacheKeys, NEW p \in Params, NEW old,
           Cached(k) \/ created[k] < MaxGen
    PROVE  LET e == Obtain(k, p, old) IN
           /\ e \in [gen : 1..MaxGen, params : Params, refCount : Nat \ {0}]
           /\ e # Absent
           /\ Cached(k) => /\ e.gen = byQuotaKey[k].gen
                           /\ e.refCount = (IF k \in old THEN byQuotaKey[k].refCount
                                            ELSE byQuotaKey[k].refCount + 1)
           /\ ~Cached(k) => e.gen = created[k] + 1 /\ e.refCount = 1
<1> DEFINE e == Obtain(k, p, old)
<1>1. MaxGen \in Nat /\ created[k] \in Nat /\ created[k] <= MaxGen
  BY CacheAssumption, EntryFacts
<1>2. CASE Cached(k)
  <2>1. byQuotaKey[k] \in [gen : 1..MaxGen, params : Params, refCount : Nat \ {0}]
    BY <1>2, EntryFacts
  <2>2. e = IF k \in old THEN byQuotaKey[k] ELSE [byQuotaKey[k] EXCEPT !.refCount = @ + 1]
    BY <1>2 DEF Obtain, Reuse
  <2>3. e \in [gen : 1..MaxGen, params : Params, refCount : Nat \ {0}]
    BY <2>1, <2>2
  <2>4. e.gen # 0
    BY <2>3, <1>1
  <2> QED
    BY <1>2, <2>1, <2>2, <2>3, <2>4 DEF Absent
<1>3. CASE ~Cached(k)
  BY <1>1, <1>3 DEF Obtain, Absent
<1> QED
  BY <1>2, <1>3

\* What GetPolicy makes of the entry of a key its bucket no longer wants.
LEMMA ReleaseFacts ==
    ASSUME CacheTypeOK, NEW k \in CacheKeys
    PROVE  LET e == Release(k) IN
           /\ e \in {Absent} \cup [gen : 1..MaxGen, params : Params, refCount : Nat \ {0}]
           /\ e # Absent => Cached(k)
           /\ Cached(k) /\ byQuotaKey[k].refCount > 1 =>
                 e # Absent /\ e.gen = byQuotaKey[k].gen /\ e.refCount = byQuotaKey[k].refCount - 1
           /\ Cached(k) /\ byQuotaKey[k].refCount <= 1 => e = Absent
<1>1. CASE ~Cached(k)
  BY <1>1 DEF Release
<1>2. CASE Cached(k)
  <2>1. /\ byQuotaKey[k] \in [gen : 1..MaxGen, params : Params, refCount : Nat \ {0}]
        /\ MaxGen \in Nat
    BY <1>2, EntryFacts, CacheAssumption
  <2>2. CASE byQuotaKey[k].refCount <= 1
    BY <1>2, <2>1, <2>2 DEF Release
  <2>3. CASE byQuotaKey[k].refCount > 1
    <3> DEFINE e == [byQuotaKey[k] EXCEPT !.refCount = @ - 1]
    <3>1. /\ e \in [gen : 1..MaxGen, params : Params, refCount : Nat \ {0}]
          /\ e.gen = byQuotaKey[k].gen /\ e.refCount = byQuotaKey[k].refCount - 1
      BY <2>1, <2>3
    <3>2. e.gen # 0
      BY <2>1, <3>1
    <3>3. Release(k) = e
      BY <1>2, <2>1, <2>3 DEF Release
    <3>4. e # Absent
      BY <3>2 DEF Absent
    <3> QED
      BY <1>2, <2>1, <2>3, <3>1, <3>3, <3>4
  <2> QED
    BY <2>1, <2>2, <2>3
<1> QED
  BY <1>1, <1>2

----------------------------------------------------------------------------
(* One reload, key by key.                                                  *)

Wanted(a, p, qs) == {QuotaCacheKey(a, p, q) : q \in qs}

Held(a, p) == quotaKeysByBaseKey[ReconcileKeyFor(a, p)]

\* What a successful reload does to the entry of a key, and to the limiters of it.
LEMMA ReloadedKey ==
    ASSUME CacheTypeOK, NEW a \in Attachments, NEW p \in Params, NEW qs \in SUBSET Quotas,
           GetPolicy(a, p, qs), NEW k \in CacheKeys
    PROVE  /\ k \in Wanted(a, p, qs) =>
                 /\ byQuotaKey'[k] = Obtain(k, p, Held(a, p))
                 /\ created'[k] = IF Cached(k) THEN created[k] ELSE created[k] + 1
                 /\ Cached(k) \/ created[k] < MaxGen
           /\ k \notin Wanted(a, p, qs) =>
                 /\ byQuotaKey'[k] = IF k \in Held(a, p) THEN Release(k) ELSE byQuotaKey[k]
                 /\ created'[k] = created[k]
           /\ \A l \in closed' : l \in closed \/
                 \E m \in Held(a, p) : /\ m \notin Wanted(a, p, qs) /\ Cached(m)
                                       /\ byQuotaKey[m].refCount <= 1
                                       /\ l = [key |-> m, gen |-> byQuotaKey[m].gen]
<1>1. /\ byQuotaKey' = [j \in CacheKeys |->
            IF j \in Wanted(a, p, qs) THEN Obtain(j, p, Held(a, p))
            ELSE IF j \in Held(a, p) \ Wanted(a, p, qs) THEN Release(j) ELSE byQuotaKey[j]]
      /\ created' = Generations(Wanted(a, p, qs))
      /\ WithinBound(Wanted(a, p, qs))
      /\ closed' = closed \cup {[key |-> j, gen |-> byQuotaKey[j].gen] :
                                  j \in Dropped(Held(a, p) \ Wanted(a, p, qs))}
  BY DEF GetPolicy, Wanted, Held
<1> QED
  BY <1>1 DEF Generations, WithinBound, Dropped

\* What a failed reload does to the entry of a key.
LEMMA FailedKey ==
    ASSUME CacheTypeOK, NEW a \in Attachments, NEW p \in Params, NEW qs \in SUBSET Quotas,
           NEW done \in SUBSET qs, GetPolicyFails(a, p, qs, done), NEW k \in CacheKeys
    PROVE  /\ k \in Wanted(a, p, done) =>
                 /\ byQuotaKey'[k] = Obtain(k, p, Held(a, p))
                 /\ created'[k] = IF Cached(k) THEN created[k] ELSE created[k] + 1
                 /\ Cached(k) \/ created[k] < MaxGen
           /\ k \notin Wanted(a, p, done) =>
                 byQuotaKey'[k] = byQuotaKey[k] /\ created'[k] = created[k]
<1>1. /\ byQuotaKey' = [j \in CacheKeys |->
            IF j \in Wanted(a, p, done) THEN Obtain(j, p, Held(a, p)) ELSE byQuotaKey[j]]
      /\ created' = Generations(Wanted(a, p, done))
      /\ WithinBound(Wanted(a, p, done))
  BY DEF GetPolicyFails, Wanted, Held
<1> QED
  BY <1>1 DEF Generations, WithinBound

\* The keys of a policy are cache keys.
LEMMA WantedType ==
    ASSUME NEW a \in Attachments, NEW p \in Params, NEW qs \in SUBSET Quotas
    PROVE  Wanted(a, p, qs) \subseteq CacheKeys
  BY KeyType DEF Wanted

----------------------------------------------------------------------------
(* Types.                                                                   *)

EntryType == {Absent} \cup [gen : 1..MaxGen, params : Params, refCount : Nat \ {0}]

\* The limiters a reloaded policy runs on.
LEMMA ReloadedLimiters ==
    ASSUME CacheTypeOK, NEW a \in Attachments, NEW p \in Params, NEW qs \in SUBSET Quotas,
           GetPolicy(a, p, qs), NEW q \in qs
    PROVE  LET k == QuotaCacheKey(a, p, q) IN
           /\ k \in CacheKeys /\ k \in Wanted(a, p, qs)
           /\ Obtain(k, p, Held(a, p)).gen \in 1..MaxGen
           /\ byQuotaKey'[k].gen = Obtain(k, p, Held(a, p)).gen
<1> DEFINE k == QuotaCacheKey(a, p, q)
<1>1. k \in CacheKeys /\ k \in Wanted(a, p, qs)
  BY KeyType DEF Wanted
<1>2. byQuotaKey'[k] = Obtain(k, p, Held(a, p)) /\ (Cached(k) \/ created[k] < MaxGen)
  BY <1>1, ReloadedKey
<1>3. Obtain(k, p, Held(a, p)) \in [gen : 1..MaxGen, params : Params, refCount : Nat \ {0}]
  BY <1>1, <1>2, ObtainFacts
<1> QED
  BY <1>1, <1>2, <1>3

\* A reload keeps the types.
LEMMA ReloadType ==
    ASSUME CacheTypeOK, NEW a \in Attachments, NEW p \in Params, NEW qs \in SUBSET Quotas,
           GetPolicy(a, p, qs)
    PROVE  CacheTypeOK'
<1>1. /\ byQuotaKey' = [k \in CacheKeys |-> byQuotaKey'[k]]
      /\ created' = [k \in CacheKeys |-> created'[k]]
  BY DEF GetPolicy, Generations
<1>2. ASSUME NEW k \in CacheKeys PROVE byQuotaKey'[k] \in EntryType /\ created'[k] \in 0..MaxGen
  <2>1. byQuotaKey[k] \in EntryType /\ created[k] \in 0..MaxGen /\ MaxGen \in Nat
    BY CacheAssumption DEF CacheTypeOK, EntryType
  <2>2. CASE k \in Wanted(a, p, qs)
    <3>1. /\ byQuotaKey'[k] = Obtain(k, p, Held(a, p))
          /\ created'[k] = IF Cached(k) THEN created[k] ELSE created[k] + 1
          /\ Cached(k) \/ created[k] < MaxGen
      BY <2>2, ReloadedKey
    <3>2. Obtain(k, p, Held(a, p)) \in EntryType
      BY <3>1, ObtainFacts DEF EntryType
    <3> QED
      BY <2>1, <3>1, <3>2
  <2>3. CASE k \notin Wanted(a, p, qs)
    BY <2>1, <2>3, ReloadedKey, ReleaseFacts DEF EntryType
  <2> QED
    BY <2>2, <2>3
<1>3. byQuotaKey' \in [CacheKeys -> EntryType] /\ created' \in [CacheKeys -> 0..MaxGen]
  BY <1>1, <1>2
<1>4. quotaKeysByBaseKey' \in [ReconcileKeys -> SUBSET CacheKeys]
  <2>1. quotaKeysByBaseKey' = [quotaKeysByBaseKey EXCEPT ![ReconcileKeyFor(a, p)] = Wanted(a, p, qs)]
    BY DEF GetPolicy, Wanted
  <2> QED
    BY <2>1, WantedType DEF CacheTypeOK
<1>5. closed' \subseteq Limiter
  <2> SUFFICES ASSUME NEW l \in closed' PROVE l \in Limiter
    OBVIOUS
  <2>1. CASE l \in closed
    BY <2>1 DEF CacheTypeOK
  <2>2. CASE l \notin closed
    <3>1. ReconcileKeyFor(a, p) \in ReconcileKeys
      BY DEF ReconcileKeyFor, ReconcileKeys, Routes, Levels
    <3>2. Held(a, p) \subseteq CacheKeys
      BY <3>1 DEF Held, CacheTypeOK
    <3>3. PICK k0 \in CacheKeys : TRUE
      <4>1. CASE CacheKeys = {}
        BY <2>2, <3>2, <4>1 DEF GetPolicy, Dropped, Held, Wanted
      <4> QED
        BY <4>1
    <3>4. PICK m \in Held(a, p) : Cached(m) /\ l = [key |-> m, gen |-> byQuotaKey[m].gen]
      BY <2>2, <3>3, ReloadedKey
    <3>5. byQuotaKey[m].gen \in 1..MaxGen
      BY <3>2, <3>4, EntryFacts
    <3> QED
      BY <3>2, <3>4, <3>5 DEF Limiter
  <2> QED
    BY <2>1, <2>2
<1>6. policy' \in [Attachments -> [params : Params \cup {Shared},
                      limiters : SUBSET [quota : Quotas, key : CacheKeys, gen : 1..MaxGen]]]
  <2> DEFINE ls == {[quota |-> q, key |-> QuotaCacheKey(a, p, q),
                     gen |-> Obtain(QuotaCacheKey(a, p, q), p, Held(a, p)).gen] : q \in qs}
  <2>1. policy' = [policy EXCEPT ![a] = [params |-> p, limiters |-> ls]]
    BY DEF GetPolicy, Held
  <2>2. ls \subseteq [quota : Quotas, key : CacheKeys, gen : 1..MaxGen]
    BY ReloadedLimiters
  <2> HIDE DEF ls
  <2> QED
    BY <2>1, <2>2 DEF CacheTypeOK
<1> QED
  BY <1>3, <1>4, <1>5, <1>6 DEF CacheTypeOK, EntryType

\* A failed reload keeps the types.
LEMMA FailType ==
    ASSUME CacheTypeOK, NEW a \in Attachments, NEW p \in Params, NEW qs \in SUBSET Quotas,
           NEW done \in SUBSET qs, GetPolicyFails(a, p, qs, done)
    PROVE  CacheTypeOK'
<1>1. /\ byQuotaKey' = [k \in CacheKeys |-> byQuotaKey'[k]]
      /\ created' = [k \in CacheKeys |-> created'[k]]
      /\ UNCHANGED <<quotaKeysByBaseKey, closed, policy>>
  BY DEF GetPolicyFails, Generations
<1>2. ASSUME NEW k \in CacheKeys PROVE byQuotaKey'[k] \in EntryType /\ created'[k] \in 0..MaxGen
  <2>1. byQuotaKey[k] \in EntryType /\ created[k] \in 0..MaxGen /\ MaxGen \in Nat
    BY CacheAssumption DEF CacheTypeOK, EntryType
  <2>2. CASE k \in Wanted(a, p, done)
    <3>1. /\ byQuotaKey'[k] = Obtain(k, p, Held(a, p))
          /\ created'[k] = IF Cached(k) THEN created[k] ELSE created[k] + 1
          /\ Cached(k) \/ created[k] < MaxGen
      BY <2>2, FailedKey
    <3>2. Obtain(k, p, Held(a, p)) \in EntryType
      BY <3>1, ObtainFacts DEF EntryType
    <3> QED
      BY <2>1, <3>1, <3>2
  <2>3. CASE k \notin Wanted(a, p, done)
    BY <2>1, <2>3, FailedKey
  <2> QED
    BY <2>2, <2>3
<1>3. byQuotaKey' \in [CacheKeys -> EntryType] /\ created' \in [CacheKeys -> 0..MaxGen]
  BY <1>1, <1>2
<1> QED
  BY <1>1, <1>3 DEF CacheTypeOK, EntryType

----------------------------------------------------------------------------
(* Generations.                                                             *)

\* A reload that wants the key keeps its limiter or creates the next one.
LEMMA ObtainedGen ==
    ASSUME CacheTypeOK, NEW k \in CacheKeys, GenOK(k), NEW p \in Params, NEW old,
           Cached(k) \/ created[k] < MaxGen,
           byQuotaKey'[k] = Obtain(k, p, old),
           created'[k] = IF Cached(k) THEN created[k] ELSE created[k] + 1,
           \A l \in closed' : l.key = k => l \in closed
    PROVE  GenOK(k)'
<1>1. created[k] \in Nat /\ closed \subseteq Limiter /\ MaxGen \in Nat
  BY EntryFacts, CacheAssumption DEF CacheTypeOK
<1>2. byQuotaKey'[k].gen = created'[k]
  BY ObtainFacts DEF GenOK
<1>3. \A l \in closed : l.gen \in Nat
  BY <1>1 DEF Limiter
<1>4. ASSUME NEW l \in closed', l.key = k PROVE l.gen <= created'[k] /\ l.gen < created'[k]
  <2>1. l \in closed /\ l.gen \in Nat
    BY <1>3, <1>4
  <2>2. l.gen <= created[k] /\ (Cached(k) => l.gen < created[k])
    BY <1>4, <2>1 DEF GenOK
  <2> QED
    BY <1>1, <2>1, <2>2
<1> QED
  BY <1>2, <1>4 DEF GenOK

\* A reload makes only fresh generations.
LEMMA ReloadGen ==
    ASSUME CacheTypeOK, GenInv, NEW a \in Attachments, NEW p \in Params, NEW qs \in SUBSET Quotas,
           GetPolicy(a, p, qs)
    PROVE  GenInv'
<1> SUFFICES ASSUME NEW k \in CacheKeys PROVE GenOK(k)'
  BY DEF GenInv
<1>1. GenOK(k) /\ closed \subseteq Limiter /\ created[k] \in Nat
  BY EntryFacts DEF GenInv, CacheTypeOK
<1>2. CASE k \in Wanted(a, p, qs)
  <2>1. \A l \in closed' : l.key = k => l \in closed
    BY <1>2, ReloadedKey
  <2>2. /\ byQuotaKey'[k] = Obtain(k, p, Held(a, p))
        /\ created'[k] = IF Cached(k) THEN created[k] ELSE created[k] + 1
        /\ Cached(k) \/ created[k] < MaxGen
    BY <1>2, ReloadedKey
  <2> QED
    BY <1>1, <2>1, <2>2, ObtainedGen
<1>3. CASE k \notin Wanted(a, p, qs)
  <2>1. /\ byQuotaKey'[k] = IF k \in Held(a, p) THEN Release(k) ELSE byQuotaKey[k]
        /\ created'[k] = created[k]
    BY <1>3, ReloadedKey
  <2>2. Cached(k)' => Cached(k) /\ byQuotaKey'[k].gen = byQuotaKey[k].gen
    <3>1. CASE k \notin Held(a, p)
      BY <2>1, <3>1 DEF Cached
    <3>2. CASE k \in Held(a, p)
      BY <2>1, <3>2, ReleaseFacts, EntryFacts DEF Cached
    <3> QED
      BY <3>1, <3>2
  <2>3. ASSUME NEW l \in closed', l.key = k
        PROVE  l.gen <= created'[k] /\ (Cached(k)' => l.gen < created'[k])
    <3>1. CASE l \in closed
      BY <1>1, <2>1, <2>2, <2>3, <3>1 DEF GenOK
    <3>2. CASE l \notin closed
      <4>1. /\ k \in Held(a, p) /\ Cached(k) /\ byQuotaKey[k].refCount <= 1
            /\ l = [key |-> k, gen |-> byQuotaKey[k].gen]
        BY <2>3, <3>2, ReloadedKey
      <4>2. ~Cached(k)'
        BY <2>1, <4>1, ReleaseFacts DEF Cached
      <4>3. l.gen = created[k]
        BY <1>1, <4>1 DEF GenOK
      <4> QED
        BY <1>1, <2>1, <4>2, <4>3
    <3> QED
      BY <3>1, <3>2
  <2> QED
    BY <1>1, <2>1, <2>2, <2>3 DEF GenOK
<1> QED
  BY <1>2, <1>3

\* A failed reload makes only fresh generations.
LEMMA FailGen ==
    ASSUME CacheTypeOK, GenInv, NEW a \in Attachments, NEW p \in Params, NEW qs \in SUBSET Quotas,
           NEW done \in SUBSET qs, GetPolicyFails(a, p, qs, done)
    PROVE  GenInv'
<1> SUFFICES ASSUME NEW k \in CacheKeys PROVE GenOK(k)'
  BY DEF GenInv
<1>1. GenOK(k) /\ closed' = closed
  BY DEF GenInv, GetPolicyFails
<1>2. CASE k \in Wanted(a, p, done)
  <2>1. /\ byQuotaKey'[k] = Obtain(k, p, Held(a, p))
        /\ created'[k] = IF Cached(k) THEN created[k] ELSE created[k] + 1
        /\ Cached(k) \/ created[k] < MaxGen
    BY <1>2, FailedKey
  <2> QED
    BY <1>1, <2>1, ObtainedGen
<1>3. CASE k \notin Wanted(a, p, done)
  BY <1>1, <1>3, FailedKey DEF GenOK, Cached
<1> QED
  BY <1>2, <1>3

----------------------------------------------------------------------------
(* References.                                                              *)

\* A reload counts the references it takes and gives up.
LEMMA ReloadRef ==
    ASSUME CacheTypeOK, RefInv, NEW a \in Attachments, NEW p \in Params, NEW qs \in SUBSET Quotas,
           GetPolicy(a, p, qs)
    PROVE  RefInv'
<1> SUFFICES ASSUME NEW k \in CacheKeys PROVE RefOK(k)'
  BY DEF RefInv
<1> DEFINE b == ReconcileKeyFor(a, p)
           U == Users(k)
           V == Users(k)'
<1>1. b \in ReconcileKeys
  BY DEF ReconcileKeyFor, ReconcileKeys, Routes, Levels
<1>2. quotaKeysByBaseKey' = [quotaKeysByBaseKey EXCEPT ![b] = Wanted(a, p, qs)]
      /\ quotaKeysByBaseKey \in [ReconcileKeys -> SUBSET CacheKeys]
  BY DEF GetPolicy, Wanted, CacheTypeOK
<1>3. /\ IsFiniteSet(U) /\ Cardinality(U) \in Nat
      /\ U # {} => Cached(k) /\ byQuotaKey[k].refCount >= Cardinality(U)
      /\ (b \in U) = (k \in Held(a, p))
  <2>1. RefOK(k)
    BY DEF RefInv
  <2> QED
    BY <1>1, <2>1, FS_CardinalityType DEF RefOK, Users, Held
<1>4. byQuotaKey[k].refCount \in Nat /\ (Cached(k) => byQuotaKey[k].refCount > 0)
  BY EntryFacts
<1>5. CASE k \in Wanted(a, p, qs)
  <2>1. V = U \cup {b}
    BY <1>1, <1>2, <1>5 DEF Users
  <2>2. IsFiniteSet(V) /\ Cardinality(V) = IF b \in U THEN Cardinality(U) ELSE Cardinality(U) + 1
    BY <1>3, <2>1, FS_AddElement
  <2>3. /\ byQuotaKey'[k] = Obtain(k, p, Held(a, p))
        /\ Cached(k) \/ created[k] < MaxGen
    BY <1>5, ReloadedKey
  <2>4. /\ byQuotaKey'[k] # Absent
        /\ Cached(k) => byQuotaKey'[k].refCount = IF k \in Held(a, p) THEN byQuotaKey[k].refCount
                                                   ELSE byQuotaKey[k].refCount + 1
        /\ ~Cached(k) => byQuotaKey'[k].refCount = 1
    BY <2>3, ObtainFacts
  <2>5. byQuotaKey'[k].refCount >= Cardinality(V)
    <3>1. CASE Cached(k)
      <4>1. byQuotaKey[k].refCount >= Cardinality(U)
        <5>1. CASE U = {}
          BY <5>1, <1>4, FS_EmptySet
        <5> QED
          BY <1>3, <5>1
      <4> QED
        BY <3>1, <4>1, <1>3, <1>4, <2>2, <2>4
    <3>2. CASE ~Cached(k)
      <4>1. U = {} /\ Cardinality(U) = 0
        BY <1>3, <3>2, FS_EmptySet
      <4> QED
        BY <3>2, <4>1, <2>2, <2>4
    <3> QED
      BY <3>1, <3>2
  <2> QED
    BY <2>2, <2>4, <2>5 DEF RefOK, Cached
<1>6. CASE k \notin Wanted(a, p, qs)
  <2>1. V = U \ {b}
    BY <1>1, <1>2, <1>6 DEF Users
  <2>2. byQuotaKey'[k] = IF k \in Held(a, p) THEN Release(k) ELSE byQuotaKey[k]
    BY <1>6, ReloadedKey
  <2>3. IsFiniteSet(V) /\ Cardinality(V) \in Nat
        /\ Cardinality(V) = IF b \in U THEN Cardinality(U) - 1 ELSE Cardinality(U)
    BY <1>3, <2>1, FS_RemoveElement, FS_CardinalityType
  <2>4. CASE k \notin Held(a, p)
    <3>1. V = U /\ byQuotaKey'[k] = byQuotaKey[k]
      BY <1>3, <2>1, <2>2, <2>4
    <3> QED
      BY <1>3, <3>1 DEF RefOK, Cached
  <2>5. CASE k \in Held(a, p)
    <3> SUFFICES ASSUME V # {}
                 PROVE  byQuotaKey'[k] # Absent /\ byQuotaKey'[k].refCount >= Cardinality(V)
      BY <2>3 DEF RefOK, Cached
    <3>1. Cardinality(V) >= 1
      BY <2>3, FS_EmptySet
    <3>2. Cached(k) /\ byQuotaKey[k].refCount >= Cardinality(V) + 1
      BY <1>3, <2>3, <2>5
    <3>3. byQuotaKey[k].refCount > 1
      BY <1>4, <2>3, <3>1, <3>2
    <3>4. Release(k) # Absent /\ Release(k).refCount = byQuotaKey[k].refCount - 1
      BY <3>2, <3>3, ReleaseFacts
    <3> QED
      BY <1>4, <2>2, <2>3, <2>5, <3>2, <3>4
  <2> QED
    BY <2>4, <2>5
<1> QED
  BY <1>5, <1>6

\* A failed reload counts the references it took.
LEMMA FailRef ==
    ASSUME CacheTypeOK, RefInv, NEW a \in Attachments, NEW p \in Params, NEW qs \in SUBSET Quotas,
           NEW done \in SUBSET qs, GetPolicyFails(a, p, qs, done)
    PROVE  RefInv'
<1> SUFFICES ASSUME NEW k \in CacheKeys PROVE RefOK(k)'
  BY DEF RefInv
<1>1. Users(k)' = Users(k)
  BY DEF GetPolicyFails, Users
<1>2. RefOK(k) /\ Cardinality(Users(k)) \in Nat /\ byQuotaKey[k].refCount \in Nat
  BY EntryFacts, FS_CardinalityType DEF RefInv, RefOK
<1>3. CASE k \in Wanted(a, p, done)
  <2>1. /\ byQuotaKey'[k] = Obtain(k, p, Held(a, p))
        /\ Cached(k) \/ created[k] < MaxGen
    BY <1>3, FailedKey
  <2>2. /\ byQuotaKey'[k] # Absent
        /\ Cached(k) => byQuotaKey'[k].refCount = IF k \in Held(a, p) THEN byQuotaKey[k].refCount
                                                   ELSE byQuotaKey[k].refCount + 1
    BY <2>1, ObtainFacts
  <2> QED
    BY <1>1, <1>2, <2>2 DEF RefOK, Cached
<1>4. CASE k \notin Wanted(a, p, done)
  BY <1>1, <1>2, <1>4, FailedKey DEF RefOK, Cached
<1> QED
  BY <1>3, <1>4

----------------------------------------------------------------------------
(* The limiters of running policies.                                        *)

\* A key two buckets want keeps its limiter when one of them lets it go.
LEMMA SharedKeyKept ==
    ASSUME CacheTypeOK, RefInv, NEW a \in Attachments, NEW p \in Params, NEW qs \in SUBSET Quotas,
           GetPolicy(a, p, qs), NEW k \in CacheKeys,
           NEW c \in ReconcileKeys, c # ReconcileKeyFor(a, p), k \in quotaKeysByBaseKey[c]
    PROVE  byQuotaKey'[k].gen = byQuotaKey[k].gen
<1> DEFINE b == ReconcileKeyFor(a, p)
<1>1. b \in ReconcileKeys /\ c \in Users(k)
  BY DEF ReconcileKeyFor, ReconcileKeys, Routes, Levels, Users
<1>2. /\ IsFiniteSet(Users(k)) /\ Cached(k)
      /\ byQuotaKey[k].refCount >= Cardinality(Users(k))
      /\ Cardinality(Users(k)) \in Nat /\ byQuotaKey[k].refCount \in Nat
  BY <1>1, FS_CardinalityType, EntryFacts DEF RefInv, RefOK
<1>3. CASE k \in Wanted(a, p, qs)
  <2>1. byQuotaKey'[k] = Obtain(k, p, Held(a, p))
    BY <1>3, ReloadedKey
  <2> QED
    BY <1>2, <2>1, ObtainFacts
<1>4. CASE k \notin Wanted(a, p, qs) /\ k \notin Held(a, p)
  BY <1>4, ReloadedKey
<1>5. CASE k \notin Wanted(a, p, qs) /\ k \in Held(a, p)
  <2>1. {b, c} \subseteq Users(k)
    BY <1>1, <1>5 DEF Users, Held
  <2>2. IsFiniteSet({c}) /\ Cardinality({c}) = 1
    BY FS_Singleton
  <2>3. {c} \cup {b} = {b, c} /\ b \notin {c}
    OBVIOUS
  <2>4. IsFiniteSet({b, c}) /\ Cardinality({b, c}) = 2
    <3> HIDE DEF b
    <3>1. IsFiniteSet({c} \cup {b}) /\ Cardinality({c} \cup {b}) = Cardinality({c}) + 1
      BY <2>2, <2>3, FS_AddElement
    <3> QED
      BY <2>2, <2>3, <3>1
  <2>5. Cardinality({b, c}) <= Cardinality(Users(k))
    BY <1>2, <2>1, FS_Subset
  <2>6. byQuotaKey[k].refCount > 1
    BY <1>2, <2>4, <2>5
  <2>7. byQuotaKey'[k] = Release(k)
    BY <1>5, ReloadedKey
  <2> QED
    BY <1>2, <2>6, <2>7, ReleaseFacts
<1> QED
  BY <1>3, <1>4, <1>5

\* A reload leaves the limiters of the other policies in the cache.
LEMMA ReloadHeld ==
    ASSUME OneInstancePerLevel, CacheTypeOK, RefInv, HeldInv,
           NEW a \in Attachments, NEW p \in Params, NEW qs \in SUBSET Quotas,
           GetPolicy(a, p, qs)
    PROVE  HeldInv'
<1> SUFFICES ASSUME NEW c \in Attachments, NEW l \in policy'[c].limiters
             PROVE  /\ policy'[c].params \in Params /\ l.quota \in Quotas
                    /\ l.key = QuotaCacheKey(c, policy'[c].params, l.quota)
                    /\ l.key \in quotaKeysByBaseKey'[ReconcileKeyFor(c, policy'[c].params)]
                    /\ l.gen = byQuotaKey'[l.key].gen
  BY DEF HeldInv, HeldOK, QuotaCacheKey, ReconcileKeyFor
<1> DEFINE ls == {[quota |-> q, key |-> QuotaCacheKey(a, p, q),
                   gen |-> Obtain(QuotaCacheKey(a, p, q), p, Held(a, p)).gen] : q \in qs}
<1>1. /\ policy' = [policy EXCEPT ![a] = [params |-> p, limiters |-> ls]]
      /\ quotaKeysByBaseKey' = [quotaKeysByBaseKey EXCEPT ![ReconcileKeyFor(a, p)] = Wanted(a, p, qs)]
  BY DEF GetPolicy, Held, Wanted
<1>2. /\ policy \in [Attachments -> [params : Params \cup {Shared},
                        limiters : SUBSET [quota : Quotas, key : CacheKeys, gen : 1..MaxGen]]]
      /\ quotaKeysByBaseKey \in [ReconcileKeys -> SUBSET CacheKeys]
  BY DEF CacheTypeOK
<1>3. CASE c = a
  <2>1. policy'[a] = [params |-> p, limiters |-> ls]
    BY <1>1, <1>2
  <2>2. l \in ls
    BY <1>3, <2>1
  <2>3. PICK q \in qs : /\ l.quota = q /\ l.key = QuotaCacheKey(a, p, q)
                        /\ l.gen = Obtain(QuotaCacheKey(a, p, q), p, Held(a, p)).gen
    BY <2>2
  <2>4. /\ l.key \in Wanted(a, p, qs)
        /\ byQuotaKey'[l.key].gen = l.gen
    BY <2>3, ReloadedLimiters
  <2>5. quotaKeysByBaseKey'[ReconcileKeyFor(a, p)] = Wanted(a, p, qs)
    BY <1>1, <1>2, KeyType DEF ReconcileKeyFor, ReconcileKeys, Routes, Levels
  <2>6. policy'[c].params = p
    BY <1>3, <2>1
  <2> QED
    BY <1>3, <2>3, <2>4, <2>5, <2>6
<1>4. CASE c # a
  <2>1. policy'[c] = policy[c]
    BY <1>1, <1>2, <1>4
  <2> DEFINE pc == policy[c].params
             d == ReconcileKeyFor(c, pc)
  <2>2. /\ pc \in Params /\ l.quota \in Quotas /\ l.key = QuotaCacheKey(c, pc, l.quota)
        /\ l.key \in quotaKeysByBaseKey[d] /\ l.gen = byQuotaKey[l.key].gen
    BY <2>1 DEF HeldInv, HeldOK
  <2>3. d # ReconcileKeyFor(a, p) /\ d \in ReconcileKeys /\ l.key \in CacheKeys
    BY <1>4, <2>2, KeyType DEF ReconcileKeyFor, OneInstancePerLevel
  <2>4. quotaKeysByBaseKey'[d] = quotaKeysByBaseKey[d]
    BY <1>1, <1>2, <2>3
  <2>5. byQuotaKey'[l.key].gen = byQuotaKey[l.key].gen
    BY <2>2, <2>3, SharedKeyKept
  <2> QED
    BY <2>1, <2>2, <2>4, <2>5
<1> QED
  BY <1>3, <1>4

\* A policy that keeps running through a step finds its limiters where they were.
LEMMA FailHeld ==
    ASSUME CacheTypeOK, RefInv, HeldInv,
           NEW a \in Attachments, NEW p \in Params, NEW qs \in SUBSET Quotas,
           NEW done \in SUBSET qs, GetPolicyFails(a, p, qs, done)
    PROVE  HeldInv'
<1> SUFFICES ASSUME NEW c \in Attachments, NEW l \in policy[c].limiters
             PROVE  /\ policy[c].params \in Params /\ l.quota \in Quotas
                    /\ l.key = QuotaCacheKey(c, policy[c].params, l.quota)
                    /\ l.key \in quotaKeysByBaseKey[ReconcileKeyFor(c, policy[c].params)]
                    /\ l.gen = byQuotaKey'[l.key].gen
  <2>1. policy' = policy /\ quotaKeysByBaseKey' = quotaKeysByBaseKey
    BY DEF GetPolicyFails
  <2> QED
    BY <2>1 DEF HeldInv, HeldOK, QuotaCacheKey, ReconcileKeyFor
<1> DEFINE d == ReconcileKeyFor(c, policy[c].params)
<1>1. /\ policy[c].params \in Params /\ l.quota \in Quotas
      /\ l.key = QuotaCacheKey(c, policy[c].params, l.quota)
      /\ l.key \in quotaKeysByBaseKey[d] /\ l.gen = byQuotaKey[l.key].gen
  BY DEF HeldInv, HeldOK
<1>2. l.key \in CacheKeys /\ d \in ReconcileKeys
  BY <1>1, KeyType
<1>3. Cached(l.key)
  BY <1>1, <1>2 DEF RefInv, RefOK, Users
<1>4. byQuotaKey'[l.key].gen = byQuotaKey[l.key].gen
  <2>1. CASE l.key \in Wanted(a, p, done)
    <3>1. byQuotaKey'[l.key] = Obtain(l.key, p, Held(a, p))
      BY <1>2, <2>1, FailedKey
    <3>2. \A k \in CacheKeys : Cached(k) => Obtain(k, p, Held(a, p)).gen = byQuotaKey[k].gen
      BY ObtainFacts
    <3> QED
      BY <1>2, <1>3, <3>1, <3>2
  <2>2. CASE l.key \notin Wanted(a, p, done)
    BY <1>2, <2>2, FailedKey
  <2> QED
    BY <2>1, <2>2
<1> QED
  BY <1>1, <1>4

\* Dropping a policy changes no limiter.
LEMMA UndeployHeld ==
    ASSUME CacheTypeOK, HeldInv, NEW a \in Attachments, Undeploy(a)
    PROVE  HeldInv'
<1>1. ASSUME NEW c \in Attachments PROVE policy'[c].limiters = {} \/ policy'[c] = policy[c]
  BY DEF Undeploy, CacheTypeOK, NoPolicy
<1> QED
  BY <1>1 DEF HeldInv, HeldOK, Undeploy, QuotaCacheKey, ReconcileKeyFor

----------------------------------------------------------------------------
(* The invariants of the cache.                                             *)

CountedInv == CacheTypeOK /\ GenInv /\ RefInv

\* The invariants hold of the empty cache.
LEMMA InitCounted == CacheInit => CountedInv /\ HeldInv
<1> SUFFICES ASSUME CacheInit PROVE CountedInv /\ HeldInv
  OBVIOUS
<1>1. MaxGen \in Nat
  BY CacheAssumption
<1>2. CacheTypeOK
  BY <1>1 DEF CacheInit, CacheTypeOK, NoPolicy
<1>3. GenInv
  BY DEF CacheInit, GenInv, GenOK, Cached
<1>4. RefInv
  <2>1. \A k \in CacheKeys : Users(k) = {}
    BY DEF CacheInit, Users
  <2> QED
    BY <2>1, FS_EmptySet DEF RefInv, RefOK
<1>5. HeldInv
  BY DEF CacheInit, HeldInv, HeldOK, NoPolicy
<1> QED
  BY <1>2, <1>3, <1>4, <1>5 DEF CountedInv

\* Every step keeps the reference counts.
LEMMA NextCounted == CountedInv /\ [CacheNext]_cacheVars => CountedInv'
<1> SUFFICES ASSUME CountedInv, [CacheNext]_cacheVars PROVE CountedInv'
  OBVIOUS
<1> USE DEF CountedInv
<1>1. ASSUME NEW a \in Attachments, NEW p \in Params, NEW qs \in SUBSET Quotas, GetPolicy(a, p, qs)
      PROVE  CountedInv'
  BY <1>1, ReloadType, ReloadGen, ReloadRef
<1>2. ASSUME NEW a \in Attachments, NEW p \in Params, NEW qs \in SUBSET Quotas,
             NEW done \in SUBSET qs, GetPolicyFails(a, p, qs, done)
      PROVE  CountedInv'
  BY <1>2, FailType, FailGen, FailRef
<1>3. ASSUME UNCHANGED <<byQuotaKey, quotaKeysByBaseKey, closed, created>>
      PROVE  GenInv' /\ RefInv'
  BY <1>3 DEF GenInv, GenOK, RefInv, RefOK, Users, Cached
<1>4. ASSUME NEW a \in Attachments, Undeploy(a) PROVE CountedInv'
  <2>1. UNCHANGED <<byQuotaKey, quotaKeysByBaseKey, closed, created>>
    BY <1>4 DEF Undeploy
  <2>2. CacheTypeOK'
    BY <1>4, <2>1 DEF Undeploy, CacheTypeOK, NoPolicy
  <2> QED
    BY <1>3, <2>1, <2>2
<1>5. CASE UNCHANGED cacheVars
  BY <1>3, <1>5 DEF cacheVars, CacheTypeOK
<1> QED
  BY <1>1, <1>2, <1>4, <1>5 DEF CacheNext

\* Every step keeps the limiters of the deployed policies.
LEMMA NextHeld ==
    ASSUME OneInstancePerLevel
    PROVE  CountedInv /\ HeldInv /\ [CacheNext]_cacheVars => HeldInv'
<1> SUFFICES ASSUME CountedInv, HeldInv, [CacheNext]_cacheVars PROVE HeldInv'
  OBVIOUS
<1> USE DEF CountedInv
<1>1. ASSUME NEW a \in Attachments, NEW p \in Params, NEW qs \in SUBSET Quotas, GetPolicy(a, p, qs)
      PROVE  HeldInv'
  BY <1>1, ReloadHeld
<1>2. ASSUME NEW a \in Attachments, NEW p \in Params, NEW qs \in SUBSET Quotas,
             NEW done \in SUBSET qs, GetPolicyFails(a, p, qs, done)
      PROVE  HeldInv'
  BY <1>2, FailHeld
<1>3. ASSUME NEW a \in Attachments, Undeploy(a) PROVE HeldInv'
  BY <1>3, UndeployHeld
<1>4. CASE UNCHANGED cacheVars
  BY <1>4 DEF cacheVars, HeldInv, HeldOK, QuotaCacheKey, ReconcileKeyFor
<1> QED
  BY <1>1, <1>2, <1>3, <1>4 DEF CacheNext

\* A policy that runs on the limiters its bucket holds runs on open ones.
LEMMA HeldIsOpen == CountedInv /\ HeldInv => NoClosedInUse
<1> SUFFICES ASSUME CountedInv, HeldInv,
                    NEW a \in Attachments, NEW l \in policy[a].limiters,
                    [key |-> l.key, gen |-> l.gen] \in closed
             PROVE  FALSE
  BY DEF NoClosedInUse
<1>1. /\ l.key \in quotaKeysByBaseKey[ReconcileKeyFor(a, policy[a].params)]
      /\ l.key \in CacheKeys /\ ReconcileKeyFor(a, policy[a].params) \in ReconcileKeys
      /\ l.gen = byQuotaKey[l.key].gen
  BY KeyType DEF HeldInv, HeldOK
<1>2. Cached(l.key)
  BY <1>1 DEF CountedInv, RefInv, RefOK, Users
<1>3. l.gen = created[l.key] /\ l.gen < created[l.key] /\ created[l.key] \in Nat
  BY <1>1, <1>2, EntryFacts DEF CountedInv, GenInv, GenOK
<1> QED
  BY <1>3

\* ... and two policies that hold the same key run on the same limiter.
LEMMA HeldIsShared == CountedInv /\ HeldInv => ApiScopeShared
<1> SUFFICES ASSUME CountedInv, HeldInv, NEW a \in Attachments, NEW b \in Attachments,
                    NEW l \in policy[a].limiters, NEW m \in policy[b].limiters,
                    l.quota = m.quota, l.quota \in ApiScoped
             PROVE  l.key = m.key /\ l.gen = m.gen
  BY DEF ApiScopeShared
<1>1. /\ l.key = QuotaCacheKey(a, policy[a].params, l.quota)
      /\ m.key = QuotaCacheKey(b, policy[b].params, m.quota)
      /\ l.gen = byQuotaKey[l.key].gen /\ m.gen = byQuotaKey[m.key].gen
  BY DEF HeldInv, HeldOK
<1> QED
  BY <1>1 DEF QuotaCacheKey

\* The cache keeps its types through reloads, failed reloads and undeployments.
THEOREM CacheTypes == CacheSpec => []CacheTypeOK
<1>1. CountedInv => CacheTypeOK
  BY DEF CountedInv
<1> QED
  BY <1>1, InitCounted, NextCounted, PTL DEF CacheSpec

\* In the cache of ratelimit.go, a reconciliation bucket never counts on a limiter
\* that has fewer references than buckets, a failed GetPolicy included.
THEOREM ReferencesCover == CacheSpec => []RefCountCovers
<1>1. CountedInv => RefCountCovers
  BY DEF CountedInv, RefInv, RefOK, RefCountCovers
<1> QED
  BY <1>1, InitCounted, NextCounted, PTL DEF CacheSpec

\* The cleanup of a reload never closes the limiter of a policy that still serves
\* requests, if a route has one instance of the policy per level.
THEOREM RunningStaysOpen ==
    ASSUME OneInstancePerLevel PROVE CacheSpec => []NoClosedInUse
  BY InitCounted, NextCounted, NextHeld, HeldIsOpen, PTL DEF CacheSpec

\* Under the same condition, all routes of an API count an API-scoped quota in one
\* limiter, whatever is reloaded in between.
THEOREM ApiQuotaShared ==
    ASSUME OneInstancePerLevel PROVE CacheSpec => []ApiScopeShared
  BY InitCounted, NextCounted, NextHeld, HeldIsShared, PTL DEF CacheSpec

-----------------------------------------------------------------------------
(* The front ends and their delegates.                                      *)

Refs == Clients \union {Nil}

Building == {"recheck", "rekey", "create", "storeKey"}

Stages == {"idle", "load", "key", "join", "wait", "storeOnce", "served", "done"} \union Building

\* A request builds its delegate at most once.
Unbuilt == {"idle", "load", "key", "join", "wait", "recheck", "rekey", "create"}

UserFields == {"pc", "config", "loaded", "delegate", "response"}

\* The records of the requests; what they refer to has been built.
UserOK(r) ==
  /\ user[r] \in [pc : Stages, config : Configs \union {NoConfig}, loaded : Refs, delegate : Refs, response : Refs]
  /\ user[r].pc \notin {"idle", "served", "done"} => user[r].config \in Configs
  /\ user[r].pc \notin {"served", "done"} => user[r].delegate = Nil
  /\ user[r].pc \in Unbuilt => built[r] = NoConfig
  /\ user[r].pc \in {"key", "rekey", "storeKey", "storeOnce"} => user[r].loaded # Nil
  /\ user[r].loaded # Nil => built[user[r].loaded] # NoConfig
  /\ user[r].delegate # Nil => built[user[r].delegate] # NoConfig

DelegateTypes ==
  /\ kind \in {"token", "cost", "mcp"} /\ changes \in Nat
  /\ kind = "mcp" => changes = 0
  /\ config \in Configs \union {NoConfig} /\ cacheKeys \in Configs \union {NoConfig}
  /\ changes = 0 => config \in Configs
  /\ built \in [Clients -> Configs \union {NoConfig}]
  /\ delegates \in Refs /\ (delegates # Nil => built[delegates] # NoConfig)
  /\ flight \in [Configs -> Refs]
  /\ DOMAIN user = Clients /\ \A r \in Clients : UserOK(r)

\* While the configuration does not change all requests read it, and what is
\* built is built from it.
Unchanged ==
  changes = 0 =>
    /\ \A d \in Clients : built[d] \in {NoConfig, config}
    /\ \A r \in Clients : /\ user[r].pc # "idle" => user[r].config = config
                          /\ user[r].delegate # Nil => user[r].config = config

\* llm-cost-based-ratelimit: the entry holds the configuration of its delegate.
CostInv ==
  kind = "cost" =>
    /\ delegates # Nil => built[delegates] = cacheKeys
    /\ \A r \in Clients :
         /\ user[r].pc \in {"idle", "load", "create", "served", "done"}
         /\ user[r].delegate # Nil => /\ built[user[r].delegate] = user[r].config
                                      /\ user[r].pc = "done" => user[r].response = user[r].delegate

\* mcp-ratelimit: what was stored first stays and serves all requests.
McpInv ==
  kind = "mcp" =>
    \A r \in Clients :
      /\ user[r].pc \in {"idle", "load", "create", "storeOnce", "served", "done"}
      /\ user[r].delegate # Nil => user[r].delegate = delegates
      /\ user[r].pc = "done" /\ user[r].delegate # Nil => user[r].response = delegates

\* token-based-ratelimit, while the template does not change: one request at a
\* time builds, the first delegate that is stored stays, and its key follows
\* before the next request can build.
TokenInv ==
  kind = "token" /\ changes = 0 =>
    /\ cacheKeys \in {NoConfig, config} /\ (cacheKeys # NoConfig => delegates # Nil)
    /\ delegates # Nil /\ cacheKeys = NoConfig =>
         \E r \in Clients : user[r].pc = "storeKey" /\ flight[config] = r
    /\ \A r \in Clients :
         /\ user[r].pc # "storeOnce"
         /\ user[r].pc \in Building => flight[config] = r
         /\ user[r].pc = "create" => delegates = Nil
         /\ user[r].loaded # Nil => user[r].loaded = delegates
         /\ user[r].delegate # Nil => user[r].delegate = delegates
         /\ user[r].pc = "done" /\ user[r].delegate # Nil => user[r].response = delegates

DelegateInv == DelegateTypes /\ Unchanged /\ CostInv /\ McpInv /\ TokenInv

\* The leader and those who joined it are served with its delegate.
LEMMA ReturnMoves ==
  ASSUME DelegateInv, NEW r \in Clients, user[r].pc \in Building, Return(r, user[r].loaded), NEW q \in Clients
  PROVE  /\ DOMAIN user' = Clients
         /\ \/ /\ q = r \/ (user[q].pc = "wait" /\ user[q].config = user[r].config)
               /\ user'[q] = [user[q] EXCEPT !.pc = "served", !.delegate = user[r].loaded]
               /\ user'[q].pc = "served" /\ user'[q].delegate = user[r].loaded
               /\ user'[q].config = user[q].config /\ user'[q].loaded = user[q].loaded
               /\ user'[q].response = user[q].response
            \/ q # r /\ user'[q] = user[q]
BY DEF DelegateInv, DelegateTypes, UserOK, Return

\* What a return leaves of the types.
LEMMA ReturnTypes ==
  ASSUME DelegateInv, NEW r \in Clients, user[r].pc \in Building, user[r].loaded # Nil,
         Return(r, user[r].loaded), UNCHANGED <<kind, config, changes, built, delegates>>,
         cacheKeys' \in {cacheKeys, user[r].config}
  PROVE  DelegateTypes'
<1>1. user[r].config \in Configs /\ user[r].loaded \in Clients /\ built[user[r].loaded] # NoConfig
  BY DEF DelegateInv, DelegateTypes, UserOK, Building, Refs
<1>2. flight' \in [Configs -> Refs]
  BY <1>1 DEF DelegateInv, DelegateTypes, Return, Refs
<1>3. ASSUME NEW q \in Clients PROVE UserOK(q)'
  <2>1. UserOK(q)
    BY DEF DelegateInv, DelegateTypes
  <2>2. CASE user'[q] = user[q]
    BY <2>1, <2>2 DEF UserOK
  <2>4. user'[q] = user[q] \/ user'[q] = [user[q] EXCEPT !.pc = "served", !.delegate = user[r].loaded]
    BY ReturnMoves
  <2>3. CASE user'[q] = [user[q] EXCEPT !.pc = "served", !.delegate = user[r].loaded]
    BY <1>1, <2>1, <2>3 DEF UserOK, Stages, Refs, Unbuilt
  <2> QED
    BY <2>2, <2>3, <2>4
<1>4. DOMAIN user' = Clients
  BY ReturnMoves
<1> QED
  BY <1>1, <1>2, <1>3, <1>4 DEF DelegateInv, DelegateTypes

\* A return changes no configuration a request has read.
LEMMA ReturnReads ==
  ASSUME DelegateInv, NEW r \in Clients, user[r].pc \in Building,
         Return(r, user[r].loaded), UNCHANGED <<config, changes, built>>
  PROVE  Unchanged'
<1>1. ASSUME NEW q \in Clients, changes = 0
      PROVE  /\ user'[q].pc # "idle" => user'[q].config = config
             /\ user'[q].delegate # Nil => user'[q].config = config
  <2>1. Unchanged
    BY DEF DelegateInv
  <2>2. CASE user'[q] = user[q]
    BY <1>1, <2>1, <2>2 DEF Unchanged
  <2>3. CASE user'[q] # user[q]
    <3>1. q = r \/ user[q].pc = "wait"
      BY <2>3, ReturnMoves
    <3>2. user'[q].config = user[q].config /\ user[q].pc # "idle"
      BY <2>3, <3>1, ReturnMoves DEF Building
    <3> QED
      BY <1>1, <2>1, <3>2 DEF Unchanged
  <2> QED
    BY <2>2, <2>3
<1> QED
  BY <1>1 DEF DelegateInv, Unchanged

\* A return leaves no request that builds, and one delegate.
LEMMA ReturnSettles ==
  ASSUME DelegateInv, NEW r \in Clients, user[r].pc \in Building, user[r].loaded # Nil, kind = "token",
         Return(r, user[r].loaded), UNCHANGED <<kind, config, changes, built, delegates>>,
         cacheKeys' = user[r].config
  PROVE  TokenInv'
<1> SUFFICES ASSUME changes = 0 PROVE TokenInv'
  BY DEF TokenInv
<1>1. user[r].config = config /\ flight[config] = r /\ user[r].loaded = delegates /\ config # NoConfig
  BY DelegateAssumption DEF DelegateInv, DelegateTypes, Unchanged, TokenInv, Building
<1>2. ASSUME NEW q \in Clients, q # r PROVE user[q].pc \notin Building
  BY <1>1, <1>2 DEF DelegateInv, TokenInv
<1>3. ASSUME NEW q \in Clients
      PROVE  /\ user'[q].pc # "storeOnce" /\ user'[q].pc \notin Building
             /\ user'[q].loaded # Nil => user'[q].loaded = delegates
             /\ user'[q].delegate # Nil => user'[q].delegate = delegates
             /\ user'[q].pc = "done" /\ user'[q].delegate # Nil => user'[q].response = delegates
  <2>1. CASE q # r /\ user'[q] = user[q]
    BY <1>1, <1>2, <2>1 DEF DelegateInv, TokenInv
  <2>2. CASE ~(q # r /\ user'[q] = user[q])
    <3>1. /\ user'[q].pc = "served" /\ user'[q].delegate = user[r].loaded /\ user'[q].loaded = user[q].loaded
      BY <2>2, ReturnMoves
    <3> QED
      BY <1>1, <3>1 DEF DelegateInv, TokenInv, Building
  <2> QED
    BY <2>1, <2>2
<1> QED
  BY <1>1, <1>3 DEF TokenInv, Building

\* The configuration changes under the requests.
LEMMA ChangeKeeps ==
  ASSUME DelegateInv, Change
  PROVE  DelegateInv'
<1>1. DelegateTypes'
  BY DelegateAssumption DEF DelegateInv, DelegateTypes, UserOK, Change
<1>2. Unchanged'
  BY DelegateAssumption DEF DelegateInv, DelegateTypes, UserOK, Unchanged, Change
<1>3. CostInv'
  BY DelegateAssumption DEF DelegateInv, DelegateTypes, UserOK, CostInv, Change
<1>4. McpInv'
  BY DelegateAssumption DEF DelegateInv, DelegateTypes, UserOK, McpInv, Change
<1>5. TokenInv'
  BY DelegateAssumption DEF DelegateInv, DelegateTypes, TokenInv, Change
<1> QED
  BY <1>1, <1>2, <1>3, <1>4, <1>5 DEF DelegateInv

\* A request reads the configuration.
LEMMA ReadKeeps ==
  ASSUME DelegateInv, NEW r \in Clients, Read(r)
  PROVE  DelegateInv'
<1>1. DelegateTypes'
  BY DelegateAssumption DEF DelegateInv, DelegateTypes, UserOK, Refs, Stages, Building, Unbuilt, Read, At
<1>2. Unchanged'
  BY DelegateAssumption DEF DelegateInv, DelegateTypes, UserOK, Unchanged, Read, At
<1>3. CostInv'
  BY DelegateAssumption DEF DelegateInv, DelegateTypes, UserOK, CostInv, Read, At
<1>4. McpInv'
  BY DelegateAssumption DEF DelegateInv, DelegateTypes, UserOK, McpInv, Read, At
<1>5. TokenInv'
  BY DelegateAssumption DEF DelegateInv, DelegateTypes, TokenInv, Building, Read, At
<1> QED
  BY <1>1, <1>2, <1>3, <1>4, <1>5 DEF DelegateInv

\* token-based-ratelimit, outside the flight.
LEMMA LoadKeeps ==
  ASSUME DelegateInv, NEW r \in Clients, LoadDelegate(r, "load", "key", "join")
  PROVE  DelegateInv'
<1>1. DelegateTypes'
  BY DelegateAssumption DEF DelegateInv, DelegateTypes, UserOK, Refs, Stages, Building, Unbuilt, LoadDelegate, At
<1>2. Unchanged'
  BY DelegateAssumption DEF DelegateInv, DelegateTypes, UserOK, Unchanged, LoadDelegate, At
<1>3. CostInv'
  BY DelegateAssumption DEF DelegateInv, DelegateTypes, UserOK, CostInv, LoadDelegate, At
<1>4. McpInv'
  BY DelegateAssumption DEF DelegateInv, DelegateTypes, UserOK, McpInv, LoadDelegate, At
<1>5. TokenInv'
  BY DelegateAssumption DEF DelegateInv, DelegateTypes, TokenInv, Building, LoadDelegate, At
<1> QED
  BY <1>1, <1>2, <1>3, <1>4, <1>5 DEF DelegateInv

LEMMA FastKeeps ==
  ASSUME DelegateInv, NEW r \in Clients, FastPath(r)
  PROVE  DelegateInv'
<1>1. DelegateTypes'
  BY DelegateAssumption DEF DelegateInv, DelegateTypes, UserOK, Refs, Stages, Building, Unbuilt, FastPath, At, Goto, Serve
<1>2. Unchanged'
  BY DelegateAssumption DEF DelegateInv, DelegateTypes, UserOK, Unchanged, FastPath, At, Goto, Serve
<1>3. CostInv'
  BY DelegateAssumption DEF DelegateInv, DelegateTypes, UserOK, CostInv, FastPath, At, Goto, Serve
<1>4. McpInv'
  BY DelegateAssumption DEF DelegateInv, DelegateTypes, UserOK, McpInv, FastPath, At, Goto, Serve
<1>5. TokenInv'
  BY DelegateAssumption DEF DelegateInv, DelegateTypes, UserOK, TokenInv, Building, FastPath, At, Goto, Serve
<1> QED
  BY <1>1, <1>2, <1>3, <1>4, <1>5 DEF DelegateInv

\* The flight: one request leads, the others wait.
LEMMA LeadKeeps ==
  ASSUME DelegateInv, NEW r \in Clients, Lead(r)
  PROVE  DelegateInv'
<1>1. DelegateTypes'
  BY DelegateAssumption DEF DelegateInv, DelegateTypes, UserOK, Refs, Stages, Building, Unbuilt, Lead, At, Goto
<1>2. Unchanged'
  BY DelegateAssumption DEF DelegateInv, DelegateTypes, UserOK, Unchanged, Lead, At, Goto
<1>3. CostInv'
  BY DelegateAssumption DEF DelegateInv, DelegateTypes, UserOK, CostInv, Lead, At, Goto
<1>4. McpInv'
  BY DelegateAssumption DEF DelegateInv, DelegateTypes, UserOK, McpInv, Lead, At, Goto
<1>5. TokenInv'
  BY DelegateAssumption DEF DelegateInv, DelegateTypes, Unchanged, TokenInv, Lead, At, Goto
<1> QED
  BY <1>1, <1>2, <1>3, <1>4, <1>5 DEF DelegateInv

LEMMA JoinKeeps ==
  ASSUME DelegateInv, NEW r \in Clients, Join(r)
  PROVE  DelegateInv'
<1>1. DelegateTypes'
  BY DelegateAssumption DEF DelegateInv, DelegateTypes, UserOK, Refs, Stages, Building, Unbuilt, Join, At, Goto
<1>2. Unchanged'
  BY DelegateAssumption DEF DelegateInv, DelegateTypes, UserOK, Unchanged, Join, At, Goto
<1>3. CostInv'
  BY DelegateAssumption DEF DelegateInv, DelegateTypes, UserOK, CostInv, Join, At, Goto
<1>4. McpInv'
  BY DelegateAssumption DEF DelegateInv, DelegateTypes, UserOK, McpInv, Join, At, Goto
<1>5. TokenInv'
  BY DelegateAssumption DEF DelegateInv, TokenInv, Building, Join, At, Goto
<1> QED
  BY <1>1, <1>2, <1>3, <1>4, <1>5 DEF DelegateInv

\* The leader looks again.
LEMMA ReloadKeeps ==
  ASSUME DelegateInv, NEW r \in Clients, LoadDelegate(r, "recheck", "rekey", "create")
  PROVE  DelegateInv'
<1>1. DelegateTypes'
  BY DelegateAssumption DEF DelegateInv, DelegateTypes, UserOK, Refs, Stages, Building, Unbuilt, LoadDelegate, At
<1>2. Unchanged'
  BY DelegateAssumption DEF DelegateInv, DelegateTypes, UserOK, Unchanged, LoadDelegate, At
<1>3. CostInv'
  BY DelegateAssumption DEF DelegateInv, DelegateTypes, UserOK, CostInv, LoadDelegate, At
<1>4. McpInv'
  BY DelegateAssumption DEF DelegateInv, DelegateTypes, UserOK, McpInv, LoadDelegate, At
<1>5. TokenInv'
  BY DelegateAssumption DEF DelegateInv, DelegateTypes, TokenInv, Building, LoadDelegate, At
<1> QED
  BY <1>1, <1>2, <1>3, <1>4, <1>5 DEF DelegateInv

\* Its second look finds the key of the delegate, or it builds one.
LEMMA RecheckKeeps ==
  ASSUME DelegateInv, NEW r \in Clients, RecheckKey(r)
  PROVE  DelegateInv'
<1>1. /\ user[r].pc = "rekey" /\ user[r].pc \in Building /\ kind = "token"
      /\ UNCHANGED <<kind, config, changes, built, delegates, cacheKeys>>
  BY DEF RecheckKey, At, Building
<1>2. UserOK(r) /\ user[r].loaded # Nil
  BY <1>1 DEF DelegateInv, DelegateTypes, UserOK
<1>3. CostInv' /\ McpInv'
  BY <1>1 DEF CostInv, McpInv
<1>4. CASE cacheKeys = user[r].config
  <2>1. Return(r, user[r].loaded)
    BY <1>4 DEF RecheckKey
  <2>2. DelegateTypes'
    BY <1>1, <1>2, <2>1, ReturnTypes
  <2>3. Unchanged'
    BY <1>1, <2>1, ReturnReads
  <2>4. TokenInv'
    BY <1>1, <1>2, <1>4, <2>1, ReturnSettles
  <2> QED
    BY <1>3, <2>2, <2>3, <2>4 DEF DelegateInv
<1>5. CASE cacheKeys # user[r].config
  <2>1. Goto(r, "create") /\ UNCHANGED flight
    BY <1>5 DEF RecheckKey
  <2>2. DelegateTypes'
    BY <1>1, <2>1 DEF DelegateInv, DelegateTypes, UserOK, Goto, Stages, Building, Unbuilt
  <2>3. Unchanged'
    BY <1>1, <2>1 DEF DelegateInv, DelegateTypes, Unchanged, Goto
  <2>4. changes # 0
    BY <1>1, <1>2, <1>5, DelegateAssumption DEF DelegateInv, DelegateTypes, Unchanged, TokenInv, Building
  <2>5. TokenInv'
    BY <1>1, <2>4 DEF TokenInv
  <2> QED
    BY <1>3, <2>2, <2>3, <2>5 DEF DelegateInv
<1> QED
  BY <1>4, <1>5

\* The leader builds and stores.
LEMMA TokenKeeps ==
  ASSUME DelegateInv, NEW r \in Clients, CreateToken(r)
  PROVE  DelegateInv'
<1>1. DelegateTypes'
  BY DelegateAssumption DEF DelegateInv, DelegateTypes, UserOK, Refs, Stages, Building, Unbuilt, CreateToken, At
<1>2. Unchanged'
  BY DelegateAssumption DEF DelegateInv, DelegateTypes, UserOK, Unchanged, CreateToken, At
<1>3. CostInv'
  BY DelegateAssumption DEF DelegateInv, DelegateTypes, UserOK, CostInv, CreateToken, At
<1>4. McpInv'
  BY DelegateAssumption DEF DelegateInv, DelegateTypes, UserOK, McpInv, CreateToken, At
<1>5. TokenInv'
  BY DelegateAssumption DEF DelegateInv, DelegateTypes, TokenInv, Building, CreateToken, At
<1> QED
  BY <1>1, <1>2, <1>3, <1>4, <1>5 DEF DelegateInv

\* The key follows, and the flight ends.
LEMMA KeyKeeps ==
  ASSUME DelegateInv, NEW r \in Clients, StoreKey(r)
  PROVE  DelegateInv'
<1>1. /\ user[r].pc = "storeKey" /\ user[r].pc \in Building /\ cacheKeys' = user[r].config
      /\ Return(r, user[r].loaded) /\ UNCHANGED <<kind, config, changes, built, delegates>>
  BY DEF StoreKey, At, Building
<1>2. UserOK(r) /\ user[r].loaded # Nil /\ kind = "token"
  BY <1>1 DEF DelegateInv, DelegateTypes, CostInv, McpInv, UserOK
<1>3. DelegateTypes'
  BY <1>1, <1>2, ReturnTypes
<1>4. Unchanged'
  BY <1>1, ReturnReads
<1>5. CostInv' /\ McpInv'
  BY <1>1, <1>2 DEF CostInv, McpInv
<1>6. TokenInv'
  BY <1>1, <1>2, ReturnSettles
<1> QED
  BY <1>3, <1>4, <1>5, <1>6 DEF DelegateInv

\* llm-cost-based-ratelimit: one entry.
LEMMA EntryKeeps ==
  ASSUME DelegateInv, NEW r \in Clients, LoadEntry(r)
  PROVE  DelegateInv'
<1>1. DelegateTypes'
  BY DelegateAssumption DEF DelegateInv, DelegateTypes, UserOK, Refs, Stages, Building, Unbuilt, LoadEntry, At, Goto, Serve
<1>2. Unchanged'
  BY DelegateAssumption DEF DelegateInv, DelegateTypes, UserOK, Unchanged, LoadEntry, At, Goto, Serve
<1>3. CostInv'
  BY DelegateAssumption DEF DelegateInv, DelegateTypes, UserOK, CostInv, LoadEntry, At, Goto, Serve
<1>4. McpInv'
  BY DelegateAssumption DEF DelegateInv, DelegateTypes, UserOK, McpInv, LoadEntry, At, Goto, Serve
<1>5. TokenInv'
  BY DelegateAssumption DEF TokenInv, LoadEntry, At, Goto, Serve
<1> QED
  BY <1>1, <1>2, <1>3, <1>4, <1>5 DEF DelegateInv

LEMMA CostKeeps ==
  ASSUME DelegateInv, NEW r \in Clients, CreateCost(r)
  PROVE  DelegateInv'
<1>1. DelegateTypes'
  BY DelegateAssumption DEF DelegateInv, DelegateTypes, UserOK, Refs, Stages, Building, Unbuilt, CreateCost, At, Serve
<1>2. Unchanged'
  BY DelegateAssumption DEF DelegateInv, DelegateTypes, UserOK, Unchanged, CreateCost, At, Serve
<1>3. CostInv'
  BY DelegateAssumption DEF DelegateInv, DelegateTypes, UserOK, CostInv, CreateCost, At, Serve
<1>4. McpInv'
  BY DelegateAssumption DEF DelegateInv, DelegateTypes, UserOK, McpInv, CreateCost, At, Serve
<1>5. TokenInv'
  BY DelegateAssumption DEF TokenInv, CreateCost, At, Serve
<1> QED
  BY <1>1, <1>2, <1>3, <1>4, <1>5 DEF DelegateInv

\* mcp-ratelimit: LoadOrStore.
LEMMA McpKeeps ==
  ASSUME DelegateInv, NEW r \in Clients, LoadMcp(r)
  PROVE  DelegateInv'
<1>1. DelegateTypes'
  BY DelegateAssumption DEF DelegateInv, DelegateTypes, UserOK, Refs, Stages, Building, Unbuilt, LoadMcp, At, Goto, Serve
<1>2. Unchanged'
  BY DelegateAssumption DEF DelegateInv, DelegateTypes, UserOK, Unchanged, LoadMcp, At, Goto, Serve
<1>3. CostInv'
  BY DelegateAssumption DEF DelegateInv, DelegateTypes, UserOK, CostInv, LoadMcp, At, Goto, Serve
<1>4. McpInv'
  BY DelegateAssumption DEF DelegateInv, DelegateTypes, UserOK, McpInv, LoadMcp, At, Goto, Serve
<1>5. TokenInv'
  BY DelegateAssumption DEF TokenInv, LoadMcp, At, Goto, Serve
<1> QED
  BY <1>1, <1>2, <1>3, <1>4, <1>5 DEF DelegateInv

LEMMA NewKeeps ==
  ASSUME DelegateInv, NEW r \in Clients, CreateMcp(r)
  PROVE  DelegateInv'
<1>1. DelegateTypes'
  BY DelegateAssumption DEF DelegateInv, DelegateTypes, UserOK, Refs, Stages, Building, Unbuilt, CreateMcp, At
<1>2. Unchanged'
  BY DelegateAssumption DEF DelegateInv, DelegateTypes, UserOK, Unchanged, CreateMcp, At
<1>3. CostInv'
  BY DelegateAssumption DEF DelegateInv, DelegateTypes, UserOK, CostInv, CreateMcp, At
<1>4. McpInv'
  BY DelegateAssumption DEF DelegateInv, DelegateTypes, UserOK, McpInv, CreateMcp, At
<1>5. TokenInv'
  BY DelegateAssumption DEF TokenInv, CreateMcp, At
<1> QED
  BY <1>1, <1>2, <1>3, <1>4, <1>5 DEF DelegateInv

LEMMA OnceKeeps ==
  ASSUME DelegateInv, NEW r \in Clients, StoreOnce(r)
  PROVE  DelegateInv'
<1>1. DelegateTypes'
  BY DelegateAssumption DEF DelegateInv, DelegateTypes, UserOK, Refs, Stages, Building, Unbuilt, StoreOnce, LoadOrStore, At, Serve
<1>2. Unchanged'
  BY DelegateAssumption DEF DelegateInv, DelegateTypes, UserOK, Unchanged, StoreOnce, LoadOrStore, At, Serve
<1>3. CostInv'
  BY DelegateAssumption DEF DelegateInv, DelegateTypes, UserOK, CostInv, StoreOnce, LoadOrStore, At, Serve
<1>4. McpInv'
  BY DelegateAssumption DEF DelegateInv, DelegateTypes, UserOK, McpInv, StoreOnce, LoadOrStore, At, Serve
<1>5. TokenInv'
  BY DelegateAssumption DEF TokenInv, StoreOnce, LoadOrStore, At, Serve
<1> QED
  BY <1>1, <1>2, <1>3, <1>4, <1>5 DEF DelegateInv

\* The response phase finds its delegate.
LEMMA RespondKeeps ==
  ASSUME DelegateInv, NEW r \in Clients, RespondWith(r)
  PROVE  DelegateInv'
<1>1. DelegateTypes'
  <2>1. PICK d \in Refs : d = DelegateOfResponse(r)
    BY DEF DelegateInv, DelegateTypes, UserOK, DelegateOfResponse, Refs
  <2>2. /\ user' = [user EXCEPT ![r].pc = "done", ![r].response = d] /\ user[r].pc = "served"
        /\ UNCHANGED <<kind, config, changes, built, delegates, cacheKeys, flight>>
    BY <2>1 DEF RespondWith, At
  <2>3. ASSUME NEW q \in Clients PROVE UserOK(q)'
    <3>1. UserOK(q)
      BY DEF DelegateInv, DelegateTypes
    <3>2. CASE q # r
      BY <2>2, <3>1, <3>2 DEF DelegateInv, DelegateTypes, UserOK
    <3>3. CASE q = r
      <4>1. user'[r] = [user[r] EXCEPT !.pc = "done", !.response = d]
        BY <2>2 DEF DelegateInv, DelegateTypes
      <4>2. user'[r] \in [pc : Stages, config : Configs \union {NoConfig}, loaded : Refs, delegate : Refs, response : Refs]
        BY <3>1, <3>3, <4>1 DEF UserOK, Stages
      <4>3. /\ user'[r].pc = "done" /\ user'[r].config = user[r].config /\ user'[r].loaded = user[r].loaded
            /\ user'[r].delegate = user[r].delegate
        BY <3>1, <3>3, <4>1 DEF UserOK
      <4> QED
        BY <2>2, <3>1, <3>3, <4>2, <4>3 DEF UserOK, Unbuilt, Building
    <3> QED
      BY <3>2, <3>3
  <2> QED
    BY <2>2, <2>3 DEF DelegateInv, DelegateTypes
<1>2. Unchanged'
  BY DelegateAssumption DEF DelegateInv, DelegateTypes, UserOK, Unchanged, RespondWith, DelegateOfResponse, At
<1>3. CostInv'
  BY DelegateAssumption DEF DelegateInv, DelegateTypes, UserOK, CostInv, RespondWith, DelegateOfResponse, At
<1>4. McpInv'
  BY DelegateAssumption DEF DelegateInv, DelegateTypes, UserOK, McpInv, RespondWith, DelegateOfResponse, At
<1>5. TokenInv'
  BY DelegateAssumption DEF DelegateInv, DelegateTypes, TokenInv, Building, RespondWith, DelegateOfResponse, At
<1> QED
  BY <1>1, <1>2, <1>3, <1>4, <1>5 DEF DelegateInv

\* Nothing has been built.
LEMMA SettledInit == DelegateInit => DelegateInv
<1> SUFFICES ASSUME DelegateInit PROVE DelegateInv
  OBVIOUS
<1>1. DelegateTypes
  BY DelegateAssumption DEF DelegateInit, DelegateTypes, UserOK, Unresolved, Refs, Stages
<1>2. Unchanged /\ CostInv /\ McpInv /\ TokenInv
  BY DelegateAssumption DEF DelegateInit, Unchanged, CostInv, McpInv, TokenInv, Unresolved, Building
<1> QED
  BY <1>1, <1>2 DEF DelegateInv

\* Every step keeps the invariant.
LEMMA SettledNext == DelegateInv /\ [DelegateNext]_delegateVars => DelegateInv'
<1> SUFFICES ASSUME DelegateInv, [DelegateNext]_delegateVars PROVE DelegateInv'
  OBVIOUS
<1>1. CASE UNCHANGED delegateVars
  BY <1>1 DEF delegateVars, DelegateInv, DelegateTypes, UserOK, Unchanged, CostInv, McpInv, TokenInv
<1>2. CASE Change
  BY <1>2, ChangeKeeps
<1>3. ASSUME NEW r \in Clients, Read(r) \/ LoadDelegate(r, "load", "key", "join") \/ FastPath(r) \/ Lead(r) \/ Join(r)
      PROVE  DelegateInv'
  BY <1>3, ReadKeeps, LoadKeeps, FastKeeps, LeadKeeps, JoinKeeps
<1>4. ASSUME NEW r \in Clients,
             \/ LoadDelegate(r, "recheck", "rekey", "create") \/ RecheckKey(r) \/ CreateToken(r) \/ StoreKey(r)
             \/ LoadEntry(r) \/ CreateCost(r)
      PROVE  DelegateInv'
  BY <1>4, ReloadKeeps, RecheckKeeps, TokenKeeps, KeyKeeps, EntryKeeps, CostKeeps
<1>5. ASSUME NEW r \in Clients, LoadMcp(r) \/ CreateMcp(r) \/ StoreOnce(r) \/ RespondWith(r)
      PROVE  DelegateInv'
  BY <1>5, McpKeeps, NewKeeps, OnceKeeps, RespondKeeps
<1> QED
  BY <1>1, <1>2, <1>3, <1>4, <1>5 DEF DelegateNext

\* resolveDelegate, for any number of requests and changes: the delegate of a
\* request is of the configuration it read and stays with it, and without a
\* change token-based-ratelimit and mcp-ratelimit build one for all.
THEOREM DelegatesSettle == DelegateSpec => []DelegateSettled
<1>1. DelegateInv => DelegateSettled
  <2> SUFFICES ASSUME DelegateInv PROVE DelegateSettled
    OBVIOUS
  <2>1. ASSUME NEW r \in Clients, user[r].delegate # Nil, kind # "token" \/ changes = 0
        PROVE  built[user[r].delegate] = user[r].config
    BY <2>1 DEF DelegateInv, DelegateTypes, UserOK, Unchanged, CostInv, Refs
  <2>2. ASSUME NEW r \in Clients, user[r].delegate # Nil, user[r].pc = "done", kind # "token" \/ changes = 0
        PROVE  user[r].response = user[r].delegate
    BY <2>2 DEF DelegateInv, DelegateTypes, CostInv, McpInv, TokenInv
  <2>3. ASSUME NEW r \in Clients, user[r].delegate # Nil, kind # "cost", changes = 0
        PROVE  user[r].delegate = delegates
    BY <2>3 DEF DelegateInv, DelegateTypes, McpInv, TokenInv
  <2> QED
    BY <2>1, <2>2, <2>3 DEF DelegateSettled
<1> QED
  BY <1>1, SettledInit, SettledNext, PTL DEF DelegateSpec
=============================================================================
