---------------------------- MODULE LeakyBucket ----------------------------
(***************************************************************************)
(* What a GCRA limiter promises for a key, without storage: a backlog that *)
(* drains one unit per clock unit, to which a granted token adds EI units. *)
(***************************************************************************)
EXTENDS Integers

CONSTANTS
    Keys,     \* rate-limit keys
    EI,       \* emission interval
    Burst,    \* burst capacity, in tokens
    Amounts,  \* the numbers of tokens a call may take
    MaxTime   \* bound: last clock value

\* What the parameters are, for the theorems about the bucket.
BucketAssumption ==
    /\ EI \in Nat \ {0} /\ Burst \in Nat \ {0}
    /\ Amounts \subseteq Nat /\ MaxTime \in Nat

VARIABLES
    now,      \* the clock
    backlog,  \* time until the key's bucket is empty
    total,    \* history: tokens granted so far
    before    \* history: before[k][t], tokens granted before time t was reached

bucketVars == <<now, backlog, total, before>>

Ceil(a, b) == (a + b - 1) \div b
AtLeast(a, b) == IF a < b THEN b ELSE a

\* Tokens that fit: none once the backlog is over Burst - 1 intervals.
Room(u) == IF u > EI * (Burst - 1) THEN 0 ELSE AtLeast(Burst - Ceil(u, EI), 0)

Init ==
    /\ now = 0
    /\ backlog = [k \in Keys |-> 0]
    /\ total = [k \in Keys |-> 0]
    /\ before = [k \in Keys |-> [t \in 0..MaxTime |-> 0]]

Tick ==
    /\ now < MaxTime
    /\ now' = now + 1
    /\ backlog' = [k \in Keys |-> AtLeast(backlog[k] - 1, 0)]
    /\ before' = [k \in Keys |-> [before[k] EXCEPT ![now + 1] = total[k]]]
    /\ UNCHANGED total

\* A call that was decided: n tokens fit and are granted.
Grant(k, n) ==
    /\ n <= Room(backlog[k])
    /\ backlog' = [backlog EXCEPT ![k] = @ + EI * n]
    /\ total' = [total EXCEPT ![k] = @ + n]
    /\ UNCHANGED <<now, before>>

\* A cost recorded after the fact, whether it fits or not.
Charge(k, n) ==
    /\ backlog' = [backlog EXCEPT ![k] = @ + EI * n]
    /\ UNCHANGED <<now, total, before>>

Next ==
    \/ Tick
    \/ \E k \in Keys, n \in Amounts : Grant(k, n) \/ Charge(k, n)

Spec == Init /\ [][Next]_bucketVars

\* The rate contract: over any interval a key is granted at most the burst and
\* one token per emission interval.
Conforms ==
    \A k \in Keys : \A t \in 0..now :
        EI * (total[k] - before[k][t]) <= (now - t) + EI * Burst

=============================================================================
