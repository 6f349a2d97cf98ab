------------------------------ MODULE MCLimits ------------------------------
(***************************************************************************)
(* The limiters of advanced-ratelimit, the cache that owns them and the    *)
(* front ends that find them, for TLC.  A behaviour runs one of the parts  *)
(* in Parts: the GCRA limiter, the fixed-window limiters, the limiter      *)
(* cache or the delegates of the front ends.  The variables of the other   *)
(* parts keep their initial value.                                         *)
(***************************************************************************)
EXTENDS Gcra, FixedWindow, LimiterCache, DelegateCache, TLC

CONSTANT Parts

VARIABLE part

-----------------------------------------------------------------------------
(* Deployments of fixed-window limiters.                                    *)

\* A short window next to a longer one, in memory.
InMemory == [backend |-> "memory", limit |-> <<1, 2>>, duration |-> <<1, 2>>,
             ops |-> {"allow", "clamp"}, expireFails |-> FALSE]

\* One limiter in memory, for requests and for costs charged after the response.
InMemoryCharged == [InMemory EXCEPT !.limit = <<2>>, !.duration = <<1>>, !.ops = {"allow", "charge"}]

\* One Redis limiter that decides requests.
InRedis == [backend |-> "redis", limit |-> <<2>>, duration |-> <<3>>,
            ops |-> {"allow", "clamp"}, expireFails |-> FALSE]

\* One Redis limiter whose quota is charged after the response.
ChargedLater == [InRedis EXCEPT !.ops = {"charge"}, !.expireFails = TRUE]

AllDeployments == {InMemory, InMemoryCharged, InRedis, ChargedLater}

ReqSymmetry == Permutations(Reqs)

-----------------------------------------------------------------------------
(* Policies of an API: one on each of two routes, another on the first.     *)

Routing == [a1 |-> "r1", a2 |-> "r2", a3 |-> "r1"]
LevelsApart == [a1 |-> "api", a2 |-> "api", a3 |-> "op"]
SameLevel == [a1 |-> "api", a2 |-> "api", a3 |-> "api"]

-----------------------------------------------------------------------------

suiteVars == <<part, vars, windowVars, cacheVars, delegateVars>>

SuiteInit ==
  /\ part \in Parts
  /\ Init /\ WindowInit /\ CacheInit /\ DelegateInit
  /\ part # "window" => conf = InMemory
  /\ part # "delegates" => kind = "token" /\ config = "c1"

SuiteNext ==
  /\ UNCHANGED part
  /\ \/ part = "gcra" /\ Next /\ UNCHANGED <<windowVars, cacheVars, delegateVars>>
     \/ part = "window" /\ WindowNext /\ UNCHANGED <<vars, cacheVars, delegateVars>>
     \/ part = "cache" /\ CacheNext /\ UNCHANGED <<vars, windowVars, delegateVars>>
     \/ part = "delegates" /\ DelegateNext /\ UNCHANGED <<vars, windowVars, cacheVars>>

SuiteSpec == SuiteInit /\ [][SuiteNext]_suiteVars

=============================================================================
