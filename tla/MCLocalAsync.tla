---------------------------- MODULE MCLocalAsync ----------------------------
(* TLC instances of LocalAsyncLimiter and its accounting properties.        *)
EXTENDS LocalAsyncLimiter, TLC

CONSTANTS k1, k2

ReqSymmetry == Permutations(Reqs)

\* One stripe, or one stripe per key.
OneStripe  == [k \in Keys |-> 0]
TwoStripes == [k \in Keys |-> IF k = k1 THEN 0 ELSE 1]

=============================================================================
