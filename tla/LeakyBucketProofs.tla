------------------------- MODULE LeakyBucketProofs -------------------------
(***************************************************************************)
(* The rate contract of the leaky bucket, for every emission interval,     *)
(* burst, set of keys and length of the run.                               *)
(***************************************************************************)
EXTENDS LeakyBucket, TLAPS

BucketTypeOK ==
    /\ now \in 0..MaxTime
    /\ backlog \in [Keys -> Nat]
    /\ total \in [Keys -> Nat]
    /\ before \in [Keys -> [0..MaxTime -> Nat]]

\* What was granted since t is still in the backlog, or has drained since t.
Covered ==
    \A k \in Keys : \A t \in 0..now :
        EI * (total[k] - before[k][t]) <= (now - t) + backlog[k]

BucketInv == BucketTypeOK /\ Covered /\ Conforms

\* Rounding up never loses part of the backlog.
LEMMA CeilCovers ==
    ASSUME NEW u \in Nat, NEW b \in Nat \ {0}
    PROVE  /\ Ceil(u, b) \in Nat
           /\ u <= b * Ceil(u, b)
  <1> DEFINE a == u + b - 1
  <1>1. a \in Nat
    OBVIOUS
  <1> HIDE DEF a
  <1>2. /\ a \div b \in Nat
        /\ b * (a \div b) <= a
        /\ a < b * (a \div b) + b
    BY <1>1
  <1>3. a = u + b - 1
    BY DEF a
  <1> QED
    BY <1>1, <1>2, <1>3 DEF Ceil, a

\* Tokens that fit keep the backlog within the burst.
LEMMA RoomFits ==
    ASSUME BucketAssumption, NEW u \in Nat, NEW n \in Nat, n > 0, n <= Room(u)
    PROVE  u + EI * n <= EI * Burst
  <1>1. EI \in Nat \ {0} /\ Burst \in Nat \ {0}
    BY DEF BucketAssumption
  <1> DEFINE c == Ceil(u, EI)
  <1>2. c \in Nat /\ u <= EI * c
    BY <1>1, CeilCovers
  <1>3. n <= Burst - c
    BY <1>1, <1>2 DEF Room, AtLeast
  <1> HIDE DEF c
  <1>4. PICK d \in Nat : Burst = n + c + d
    <2>1. Burst - n - c \in Nat
      BY <1>1, <1>2, <1>3
    <2> QED
      BY <2>1, <1>1, <1>2
  <1>5. EI * Burst = EI * n + EI * c + EI * d
    BY <1>1, <1>2, <1>4
  <1>6. EI * d \in Nat /\ EI * n \in Nat /\ EI * c \in Nat
    BY <1>1, <1>2, <1>4
  <1> QED
    BY <1>2, <1>5, <1>6

\* The bucket starts empty.
LEMMA BucketInit == BucketAssumption /\ Init => BucketInv
  BY DEF BucketAssumption, Init, BucketInv, BucketTypeOK, Covered, Conforms

\* Draining keeps the contract.
LEMMA BucketTick ==
    ASSUME BucketAssumption, BucketInv, Tick
    PROVE  BucketInv'
  <1>1. EI \in Nat \ {0} /\ Burst \in Nat \ {0} /\ MaxTime \in Nat /\ EI * Burst \in Nat
    BY DEF BucketAssumption
  <1>2. BucketTypeOK'
    BY <1>1 DEF BucketInv, BucketTypeOK, Tick, AtLeast
  <1>3. ASSUME NEW k \in Keys, NEW t \in 0..now'
        PROVE  /\ EI * (total'[k] - before'[k][t]) <= (now' - t) + backlog'[k]
               /\ EI * (total'[k] - before'[k][t]) <= (now' - t) + EI * Burst
    <2>1. /\ now \in Nat /\ now' = now + 1 /\ now' \in 0..MaxTime
          /\ total' = total /\ total[k] \in Nat
          /\ backlog[k] \in Nat /\ backlog'[k] \in Nat /\ backlog'[k] >= backlog[k] - 1
      BY <1>1 DEF BucketInv, BucketTypeOK, Tick, AtLeast
    <2>2. CASE t = now + 1
      <3>1. before'[k][t] = total[k]
        BY <2>1, <2>2 DEF BucketInv, BucketTypeOK, Tick
      <3>2. EI * (total'[k] - before'[k][t]) = 0
        BY <1>1, <2>1, <3>1
      <3> QED
        BY <1>1, <2>1, <2>2, <3>2
    <2>3. CASE t \in 0..now
      <3>1. before'[k][t] = before[k][t]
        BY <2>1, <2>3 DEF BucketInv, BucketTypeOK, Tick
      <3>2. before[k][t] \in Nat
        <4>1. t \in 0..MaxTime
          BY <1>1, <2>1, <2>3
        <4> QED
          BY <4>1 DEF BucketInv, BucketTypeOK
      <3> DEFINE g == EI * (total[k] - before[k][t])
      <3>3. g \in Int
        BY <1>1, <2>1, <3>2
      <3>4. g <= (now - t) + backlog[k] /\ g <= (now - t) + EI * Burst
        BY <2>3 DEF BucketInv, Covered, Conforms
      <3>5. EI * (total'[k] - before'[k][t]) = g
        BY <2>1, <3>1
      <3> HIDE DEF g
      <3> QED
        BY <1>1, <2>1, <2>3, <3>3, <3>4, <3>5
    <2> QED
      BY <2>1, <2>2, <2>3
  <1> QED
    BY <1>2, <1>3 DEF BucketInv, Covered, Conforms

\* A grant keeps the contract.
LEMMA BucketGrant ==
    ASSUME BucketAssumption, BucketInv, NEW k \in Keys, NEW n \in Amounts, Grant(k, n)
    PROVE  BucketInv'
  <1>1. /\ EI \in Nat \ {0} /\ Burst \in Nat \ {0} /\ MaxTime \in Nat
        /\ n \in Nat /\ EI * n \in Nat /\ EI * Burst \in Nat
    BY DEF BucketAssumption
  <1>2. BucketTypeOK'
    <2> DEFINE m == EI * n
    <2>1. m \in Nat /\ backlog' = [backlog EXCEPT ![k] = @ + m]
      BY <1>1 DEF Grant
    <2> HIDE DEF m
    <2>2. backlog' \in [Keys -> Nat]
      BY <2>1 DEF BucketInv, BucketTypeOK
    <2>3. total' \in [Keys -> Nat]
      BY <1>1 DEF BucketInv, BucketTypeOK, Grant
    <2> QED
      BY <2>2, <2>3 DEF BucketInv, BucketTypeOK, Grant
  <1>3. ASSUME NEW q \in Keys, NEW t \in 0..now'
        PROVE  /\ EI * (total'[q] - before'[q][t]) <= (now' - t) + backlog'[q]
               /\ EI * (total'[q] - before'[q][t]) <= (now' - t) + EI * Burst
    <2>1. /\ now \in Nat /\ now' = now /\ before' = before
          /\ total[q] \in Nat /\ backlog[q] \in Nat /\ before[q][t] \in Nat
          /\ now <= MaxTime /\ t \in 0..now
      BY <1>1 DEF BucketInv, BucketTypeOK, Grant
    <2> DEFINE g == EI * (total[q] - before[q][t])
    <2>2. g \in Int
      BY <1>1, <2>1
    <2>3. g <= (now - t) + backlog[q] /\ g <= (now - t) + EI * Burst
      BY <2>1 DEF BucketInv, Covered, Conforms
    <2>4. CASE q # k
      <3>1. total'[q] = total[q] /\ backlog'[q] = backlog[q]
        BY <2>4 DEF BucketInv, BucketTypeOK, Grant
      <3> QED
        BY <2>1, <2>3, <3>1
    <2>5. CASE q = k
      <3>1. total'[q] = total[q] + n /\ backlog'[q] = backlog[q] + EI * n
        BY <2>5 DEF BucketInv, BucketTypeOK, Grant
      <3>2. EI * (total'[q] - before'[q][t]) = g + EI * n
        BY <1>1, <2>1, <3>1
      <3>3. n > 0 => backlog[q] + EI * n <= EI * Burst
        BY <1>1, <2>1, <2>5, RoomFits DEF Grant
      <3>4. n = 0 => EI * n = 0
        BY <1>1
      <3> HIDE DEF g
      <3> QED
        BY <1>1, <2>1, <2>2, <2>3, <3>1, <3>2, <3>3, <3>4
    <2> QED
      BY <2>4, <2>5
  <1> QED
    BY <1>2, <1>3 DEF BucketInv, Covered, Conforms

\* A charge keeps the contract.
LEMMA BucketCharge ==
    ASSUME BucketAssumption, BucketInv, NEW k \in Keys, NEW n \in Amounts, Charge(k, n)
    PROVE  BucketInv'
  <1>1. /\ EI \in Nat \ {0} /\ Burst \in Nat \ {0} /\ MaxTime \in Nat
        /\ n \in Nat /\ EI * n \in Nat
    BY DEF BucketAssumption
  <1>2. BucketTypeOK'
    BY <1>1 DEF BucketInv, BucketTypeOK, Charge
  <1>3. ASSUME NEW q \in Keys, NEW t \in 0..now'
        PROVE  EI * (total'[q] - before'[q][t]) <= (now' - t) + backlog'[q]
    <2>1. /\ now \in Nat /\ now' = now /\ before' = before /\ total' = total
          /\ total[q] \in Nat /\ backlog[q] \in Nat /\ before[q][t] \in Nat
          /\ now <= MaxTime /\ t \in 0..now /\ backlog'[q] \in Nat
          /\ backlog'[q] >= backlog[q]
      BY <1>1 DEF BucketInv, BucketTypeOK, Charge
    <2> DEFINE g == EI * (total[q] - before[q][t])
    <2>2. g \in Int
      BY <1>1, <2>1
    <2>3. g <= (now - t) + backlog[q]
      BY <2>1 DEF BucketInv, Covered
    <2>4. g = EI * (total'[q] - before'[q][t])
      BY <2>1
    <2> HIDE DEF g
    <2> QED
      BY <2>1, <2>2, <2>3, <2>4
  <1>4. Conforms'
    BY DEF BucketInv, Conforms, Charge
  <1> QED
    BY <1>2, <1>3, <1>4 DEF BucketInv, Covered

\* The contract calculateRemaining and the TAT update are there for: whatever is
\* granted and charged, over any interval a key gets no more than the burst and
\* one token per emission interval.
THEOREM RateContract ==
    ASSUME BucketAssumption
    PROVE  Spec => []Conforms
  <1>1. Init => BucketInv
    BY BucketInit
  <1>2. BucketInv /\ [Next]_bucketVars => BucketInv'
    <2> SUFFICES ASSUME BucketInv, [Next]_bucketVars PROVE BucketInv'
      OBVIOUS
    <2>1. CASE Tick
      BY <2>1, BucketTick
    <2>2. CASE \E k \in Keys, n \in Amounts : Grant(k, n) \/ Charge(k, n)
      BY <2>2, BucketGrant, BucketCharge
    <2>3. CASE UNCHANGED bucketVars
      BY <2>3 DEF bucketVars, BucketInv, BucketTypeOK, Covered, Conforms
    <2> QED
      BY <2>1, <2>2, <2>3 DEF Next
  <1>3. BucketInv => Conforms
    BY DEF BucketInv
  <1> QED
    BY <1>1, <1>2, <1>3, PTL DEF Spec

=============================================================================
