-------------------------- MODULE TokenCacheProofs --------------------------
(***************************************************************************)
(* Proofs about TokenCache, for any number of goroutines, purges, retries  *)
(* and tokens, with or without Redis: types, the shared fetch, the fence   *)
(* a purge puts between a fetch and the cache tiers, and the tokens a      *)
(* source asks for.                                                        *)
(***************************************************************************)
EXTENDS TokenCache, FiniteSetTheorems, TLAPS

\* Purges that have cleared the local entry but not replaced the source yet.
Pending == {q \in Procs : pc[q] = "purge"}

\* The purges begun stay within their bound, and every purge makes a new source.
PurgeInv ==
    /\ inner = purgeGen
    /\ IsFiniteSet(issued)
    /\ purgeGen + Cardinality(Pending) <= MaxPurges

\* inFlight of a source is its one owner, in both directions.
FlightInv ==
    /\ \A s \in Gens : flight[s] # Nobody =>
          pc[flight[s]] \in OwnerPcs /\ snap[flight[s]].src = s
    /\ \A p \in Procs : pc[p] \in OwnerPcs => flight[snap[p].src] = p

FetchPcs == {"call", "join", "close", "fetched"} \cup OwnerPcs

\* The generation a fetch remembers is that of the source it asks.
SnapInv == \A p \in Procs : pc[p] \in FetchPcs => snap[p].gen = snap[p].src

EmptyHanded == {"idle", "redis", "snapshot", "call", "join", "attempt", "fetch",
                "backoff", "purge", "purgeredis"}

\* A source keeps its own tokens, and a fetch ends with a token of its source.
SourceInv ==
    /\ \A g \in Gens : sourceTok[g] = NoToken \/ sourceTok[g].src = g
    /\ \A p \in Procs : pc[p] \in EmptyHanded => tok[p] = NoToken
    /\ \A p \in Procs : pc[p] \in {"clear", "close", "fetched"} =>
          tok[p] = NoToken \/ tok[p].src = snap[p].src

\* An owner asks the endpoint while the token of its source is used up, and so
\* are all tokens that source was issued before it.
ThriftInv ==
    /\ \A p \in Procs : pc[p] = "fetch" => ~Fresh(sourceTok[snap[p].src])
    /\ \A t \in issued : t.own => t = sourceTok[t.src] \/ ~Fresh(t)

\* Whatever is on its way to a tier has an expiry.
ExpiryInv ==
    /\ local = NoToken \/ local.exp # 0
    /\ redis = NoToken \/ redis.exp # 0
    /\ \A p \in Procs : pc[p] \in {"adopt", "setlocal", "save"} =>
          tok[p] # NoToken /\ tok[p].exp # 0

----------------------------------------------------------------------------
\* Where a purge is between its steps, there is room for its generation.
LEMMA PurgeRoom ==
  ASSUME TypeOK, PurgeInv, NEW p \in Procs, PurgeSource(p)
  PROVE  /\ purgeGen + 1 \in Gens /\ inner + 1 \in Gens
         /\ purgeGen + 1 + Cardinality(Pending') <= MaxPurges
<1>1. Pending = Pending' \cup {p} /\ p \notin Pending'
  BY DEF PurgeSource, Goto, Pending, TypeOK
<1>2. IsFiniteSet(Pending) /\ IsFiniteSet(Pending')
  BY TokenAssumption, FS_Subset DEF Pending, TokenAssumption
<1>3. Cardinality(Pending) = Cardinality(Pending') + 1 /\ Cardinality(Pending') \in Nat
  BY <1>1, <1>2, FS_AddElement, FS_CardinalityType
<1> QED
  BY <1>3, TokenAssumption DEF TypeOK, PurgeInv, Gens, TokenAssumption

\* The endpoint's next token is a token.
LEMMA NextId ==
  ASSUME TypeOK, PurgeInv, Cardinality(issued) < MaxIssued
  PROVE  Cardinality(issued) + 1 \in 1..MaxIssued
<1>1. Cardinality(issued) \in Nat
  BY FS_CardinalityType DEF PurgeInv
<1> QED  BY <1>1, TokenAssumption DEF TokenAssumption

\* A token stored in a tier is a token that expires.
LEMMA BoundedType ==
  ASSUME TypeOK, NEW t \in Tokens
  PROVE  Bounded(t) \in Tokens /\ Bounded(t) # NoToken /\ Bounded(t).exp # 0
  BY TokenAssumption DEF TypeOK, Bounded, Tokens, NoToken, TokenAssumption

\* What Return leaves behind has its type.
LEMMA ReturnType ==
  ASSUME TypeOK, NEW p \in Procs, Return(p)
  PROVE  /\ pc' \in [Procs -> Pcs]
         /\ snap' \in [Procs -> [src : Gens, gen : Gens]]
         /\ tok' \in [Procs -> Tokens \cup {NoToken}]
         /\ owner' \in [Procs -> Procs \cup {Nobody}]
         /\ tries' \in [Procs -> 0..MaxRetries]
<1>1. 0 \in Gens /\ 0 \in 0..MaxRetries /\ "idle" \in Pcs
  BY TokenAssumption DEF Gens, TokenAssumption, Pcs
<1> QED  BY <1>1 DEF Return, Goto, TypeOK

\* Every step keeps the types.
LEMMA NextType ==
  ASSUME TypeOK, PurgeInv, [Next]_vars
  PROVE  TypeOK'
<1> USE TokenAssumption
<1>1. ASSUME NEW p \in Procs, LocalMiss(p)  PROVE TypeOK'
  BY <1>1 DEF LocalMiss, Goto, TypeOK, Pcs, OwnerPcs, vars, tiers, sources, calls
<1>2. ASSUME NEW p \in Procs, RedisHit(p)  PROVE TypeOK'
  BY <1>2 DEF RedisHit, Goto, TypeOK, Pcs, OwnerPcs, vars, tiers, sources, calls
<1>3. ASSUME NEW p \in Procs, RedisMiss(p)  PROVE TypeOK'
  BY <1>3 DEF RedisMiss, Goto, TypeOK, Pcs, OwnerPcs, vars, tiers, sources, calls
<1>4. ASSUME NEW p \in Procs, RedisDown(p)  PROVE TypeOK'
  BY <1>4, ReturnType DEF RedisDown, Goto, TypeOK, Pcs, OwnerPcs, vars, tiers, sources,
     calls
<1>5. ASSUME NEW p \in Procs, Adopt(p)  PROVE TypeOK'
  BY <1>5, ReturnType DEF Adopt, Goto, TypeOK, Pcs, OwnerPcs, vars, tiers, sources, calls
<1>6. ASSUME NEW p \in Procs, Snapshot(p)  PROVE TypeOK'
  BY <1>6 DEF Snapshot, Goto, TypeOK, Pcs, OwnerPcs, vars, tiers, sources, calls
<1>7. ASSUME NEW p \in Procs, Own(p)  PROVE TypeOK'
  BY <1>7 DEF Own, Goto, TypeOK, Pcs, OwnerPcs, vars, tiers, sources, calls
<1>8. ASSUME NEW p \in Procs, Join(p)  PROVE TypeOK'
  BY <1>8 DEF Join, Goto, TypeOK, Pcs, OwnerPcs, vars, tiers, sources, calls
<1>9. ASSUME NEW p \in Procs, JoinCancelled(p)  PROVE TypeOK'
  BY <1>9, ReturnType DEF JoinCancelled, Goto, TypeOK, Pcs, OwnerPcs, vars, tiers,
     sources, calls
<1>10. ASSUME NEW p \in Procs, Reuse(p)  PROVE TypeOK'
  BY <1>10 DEF Reuse, Goto, TypeOK, Pcs, OwnerPcs, vars, tiers, sources, calls
<1>11. ASSUME NEW p \in Procs, Ask(p)  PROVE TypeOK'
  BY <1>11 DEF Ask, Goto, TypeOK, Pcs, OwnerPcs, vars, tiers, sources, calls
<1>12. ASSUME NEW p \in Procs, Issue(p)  PROVE TypeOK'
  <2>1. Cardinality(issued) + 1 \in 1..MaxIssued
    BY <1>12, NextId DEF Issue
  <2>2. PICK life \in Lifetimes :
          LET t == [id |-> Cardinality(issued) + 1, src |-> snap[p].src, own |-> TRUE,
                    exp |-> IF life = 0 THEN 0 ELSE now + life]
          IN  /\ tok' = [tok EXCEPT ![p] = t]
              /\ sourceTok' = [sourceTok EXCEPT ![snap[p].src] = t]
              /\ issued' = issued \cup {t}
    BY <1>12 DEF Issue
  <2> DEFINE new == [id |-> Cardinality(issued) + 1, src |-> snap[p].src, own |-> TRUE,
                     exp |-> IF life = 0 THEN 0 ELSE now + life]
  <2>3. new \in Tokens
    BY <2>1 DEF Tokens, TypeOK, TokenAssumption
  <2>4. /\ tok' = [tok EXCEPT ![p] = new]
        /\ sourceTok' = [sourceTok EXCEPT ![snap[p].src] = new]
        /\ issued' = issued \cup {new}
    BY <2>2
  <2> HIDE DEF new
  <2> QED  BY <1>12, <2>3, <2>4 DEF Issue, Goto, TypeOK, Pcs, OwnerPcs, vars, tiers,
     sources, calls
<1>13. ASSUME NEW p \in Procs, FetchFails(p)  PROVE TypeOK'
  <2>1. tries' \in [Procs -> 0..MaxRetries]
    <3>1. CASE tries[p] < MaxRetries
      <4>1. tries[p] + 1 \in 0..MaxRetries
        BY <3>1 DEF TypeOK, TokenAssumption
      <4> QED  BY <1>13, <3>1, <4>1 DEF FetchFails, TypeOK
    <3>2. CASE ~(tries[p] < MaxRetries)
      BY <1>13, <3>2 DEF FetchFails, TypeOK
    <3> QED  BY <3>1, <3>2
  <2> QED  BY <1>13, <2>1 DEF FetchFails, Goto, TypeOK, Pcs, OwnerPcs, vars, tiers,
     sources, calls
<1>14. ASSUME NEW p \in Procs, FetchRefused(p)  PROVE TypeOK'
  BY <1>14 DEF FetchRefused, Goto, TypeOK, Pcs, OwnerPcs, vars, tiers, sources, calls
<1>15. ASSUME NEW p \in Procs, Backoff(p)  PROVE TypeOK'
  BY <1>15 DEF Backoff, Goto, TypeOK, Pcs, OwnerPcs, vars, tiers, sources, calls
<1>16. ASSUME NEW p \in Procs, Clear(p)  PROVE TypeOK'
  BY <1>16 DEF Clear, Goto, TypeOK, Pcs, OwnerPcs, vars, tiers, sources, calls
<1>17. ASSUME NEW p \in Procs, Close(p)  PROVE TypeOK'
  BY <1>17 DEF Close, Goto, TypeOK, Pcs, OwnerPcs, vars, tiers, sources, calls
<1>18. ASSUME NEW p \in Procs, FetchError(p)  PROVE TypeOK'
  BY <1>18, ReturnType DEF FetchError, Goto, TypeOK, Pcs, OwnerPcs, vars, tiers, sources,
     calls
<1>19. ASSUME NEW p \in Procs, Stale(p)  PROVE TypeOK'
  BY <1>19, ReturnType DEF Stale, Goto, TypeOK, Pcs, OwnerPcs, vars, tiers, sources, calls
<1>20. ASSUME NEW p \in Procs, NotStale(p)  PROVE TypeOK'
  <2>1. tok[p] \in Tokens
    BY <1>20 DEF NotStale, TypeOK
  <2>2. Bounded(tok[p]) \in Tokens
    BY <2>1, BoundedType
  <2> QED  BY <1>20, <2>2 DEF NotStale, Goto, TypeOK, Pcs, OwnerPcs, vars, tiers,
     sources, calls
<1>21. ASSUME NEW p \in Procs, SetLocal(p)  PROVE TypeOK'
  BY <1>21, ReturnType DEF SetLocal, Goto, TypeOK, Pcs, OwnerPcs, vars, tiers, sources,
     calls
<1>22. ASSUME NEW p \in Procs, Save(p)  PROVE TypeOK'
  BY <1>22, ReturnType DEF Save, Goto, TypeOK, Pcs, OwnerPcs, vars, tiers, sources, calls
<1>23. ASSUME NEW p \in Procs, PurgeLocal(p)  PROVE TypeOK'
  BY <1>23 DEF PurgeLocal, Goto, TypeOK, Pcs, OwnerPcs, vars, tiers, sources, calls
<1>24. ASSUME NEW p \in Procs, PurgeSource(p)  PROVE TypeOK'
  BY <1>24, PurgeRoom DEF PurgeSource, Goto, TypeOK, Pcs, OwnerPcs, vars, tiers, sources,
     calls
<1>25. ASSUME NEW p \in Procs, PurgeRedis(p)  PROVE TypeOK'
  BY <1>25 DEF PurgeRedis, Goto, TypeOK, Pcs, OwnerPcs, vars, tiers, sources, calls
<1>26. CASE LocalHit
  BY <1>26 DEF LocalHit, TypeOK, Pcs, OwnerPcs, vars, tiers, sources, calls
<1>27. CASE OtherReplicaSaves
  <2>1. Cardinality(issued) + 1 \in 1..MaxIssued
    BY <1>27, NextId DEF OtherReplicaSaves
  <2>2. PICK life \in Lifetimes \ {0} :
          LET t == [id |-> Cardinality(issued) + 1, src |-> inner, own |-> FALSE,
                    exp |-> now + life]
          IN  redis' = t /\ issued' = issued \cup {t}
    BY <1>27 DEF OtherReplicaSaves
  <2> DEFINE new == [id |-> Cardinality(issued) + 1, src |-> inner, own |-> FALSE,
                     exp |-> now + life]
  <2>3. new \in Tokens
    BY <2>1 DEF Tokens, TypeOK, TokenAssumption
  <2>4. redis' = new /\ issued' = issued \cup {new}
    BY <2>2
  <2> HIDE DEF new
  <2> QED  BY <1>27, <2>3, <2>4 DEF OtherReplicaSaves, TypeOK, Pcs, OwnerPcs, vars,
     tiers, sources, calls
<1>28. CASE Tick
  BY <1>28 DEF Tick, TokenAssumption, TypeOK, Pcs, OwnerPcs, vars, tiers, sources, calls
<1>29. CASE UNCHANGED vars
  BY <1>29 DEF TypeOK, Pcs, OwnerPcs, vars, tiers, sources, calls
<1> QED
  BY <1>1, <1>2, <1>3, <1>4, <1>5, <1>6, <1>7, <1>8, <1>9, <1>10, <1>11, <1>12, <1>13,
     <1>14, <1>15, <1>16, <1>17, <1>18, <1>19, <1>20, <1>21, <1>22, <1>23, <1>24, <1>25,
     <1>26, <1>27, <1>28, <1>29
  DEF Next, Reading, Fetching, Purging

\* Every step keeps the purges within their bound.
LEMMA NextPurge ==
  ASSUME TypeOK, PurgeInv, [Next]_vars
  PROVE  PurgeInv'
<1> USE TokenAssumption
<1>1. ASSUME NEW p \in Procs, LocalMiss(p)  PROVE PurgeInv'
  <2>1. Pending' = Pending
    BY <1>1 DEF LocalMiss, Goto, Pending, TypeOK
  <2> QED  BY <1>1, <2>1 DEF LocalMiss, Goto, PurgeInv, tiers, sources, calls
<1>2. ASSUME NEW p \in Procs, RedisHit(p)  PROVE PurgeInv'
  <2>1. Pending' = Pending
    BY <1>2 DEF RedisHit, Goto, Pending, TypeOK
  <2> QED  BY <1>2, <2>1 DEF RedisHit, Goto, PurgeInv, tiers, sources, calls
<1>3. ASSUME NEW p \in Procs, RedisMiss(p)  PROVE PurgeInv'
  <2>1. Pending' = Pending
    BY <1>3 DEF RedisMiss, Goto, Pending, TypeOK
  <2> QED  BY <1>3, <2>1 DEF RedisMiss, Goto, PurgeInv, tiers, sources, calls
<1>4. ASSUME NEW p \in Procs, RedisDown(p)  PROVE PurgeInv'
  <2>1. Pending' = Pending
    BY <1>4 DEF RedisDown, Goto, Return, Pending, TypeOK
  <2> QED  BY <1>4, <2>1 DEF RedisDown, Goto, Return, PurgeInv, tiers, sources, calls
<1>5. ASSUME NEW p \in Procs, Adopt(p)  PROVE PurgeInv'
  <2>1. Pending' = Pending
    BY <1>5 DEF Adopt, Goto, Return, Pending, TypeOK
  <2> QED  BY <1>5, <2>1 DEF Adopt, Goto, Return, PurgeInv, tiers, sources, calls
<1>6. ASSUME NEW p \in Procs, Snapshot(p)  PROVE PurgeInv'
  <2>1. Pending' = Pending
    BY <1>6 DEF Snapshot, Goto, Pending, TypeOK
  <2> QED  BY <1>6, <2>1 DEF Snapshot, Goto, PurgeInv, tiers, sources, calls
<1>7. ASSUME NEW p \in Procs, Own(p)  PROVE PurgeInv'
  <2>1. Pending' = Pending
    BY <1>7 DEF Own, Goto, Pending, TypeOK
  <2> QED  BY <1>7, <2>1 DEF Own, Goto, PurgeInv, tiers, sources, calls
<1>8. ASSUME NEW p \in Procs, Join(p)  PROVE PurgeInv'
  <2>1. Pending' = Pending
    BY <1>8 DEF Join, Goto, Pending, TypeOK
  <2> QED  BY <1>8, <2>1 DEF Join, Goto, PurgeInv, tiers, sources, calls
<1>9. ASSUME NEW p \in Procs, JoinCancelled(p)  PROVE PurgeInv'
  <2>1. Pending' = Pending
    BY <1>9 DEF JoinCancelled, Goto, Return, Pending, TypeOK
  <2> QED  BY <1>9, <2>1 DEF JoinCancelled, Goto, Return, PurgeInv, tiers, sources, calls
<1>10. ASSUME NEW p \in Procs, Reuse(p)  PROVE PurgeInv'
  <2>1. Pending' = Pending
    BY <1>10 DEF Reuse, Goto, Pending, TypeOK
  <2> QED  BY <1>10, <2>1 DEF Reuse, Goto, PurgeInv, tiers, sources, calls
<1>11. ASSUME NEW p \in Procs, Ask(p)  PROVE PurgeInv'
  <2>1. Pending' = Pending
    BY <1>11 DEF Ask, Goto, Pending, TypeOK
  <2> QED  BY <1>11, <2>1 DEF Ask, Goto, PurgeInv, tiers, sources, calls
<1>12. ASSUME NEW p \in Procs, Issue(p)  PROVE PurgeInv'
  <2>1. Pending' = Pending
    BY <1>12 DEF Issue, Goto, Pending, TypeOK
  <2>2. PICK t : issued' = issued \cup {t}
    BY <1>12 DEF Issue
  <2>3. IsFiniteSet(issued')
    BY <2>2, FS_AddElement DEF PurgeInv
  <2> QED  BY <1>12, <2>1, <2>3 DEF Issue, PurgeInv, tiers
<1>13. ASSUME NEW p \in Procs, FetchFails(p)  PROVE PurgeInv'
  <2>1. Pending' = Pending
    BY <1>13 DEF FetchFails, Goto, Pending, TypeOK
  <2> QED  BY <1>13, <2>1 DEF FetchFails, Goto, PurgeInv, tiers, sources, calls
<1>14. ASSUME NEW p \in Procs, FetchRefused(p)  PROVE PurgeInv'
  <2>1. Pending' = Pending
    BY <1>14 DEF FetchRefused, Goto, Pending, TypeOK
  <2> QED  BY <1>14, <2>1 DEF FetchRefused, Goto, PurgeInv, tiers, sources, calls
<1>15. ASSUME NEW p \in Procs, Backoff(p)  PROVE PurgeInv'
  <2>1. Pending' = Pending
    BY <1>15 DEF Backoff, Goto, Pending, TypeOK
  <2> QED  BY <1>15, <2>1 DEF Backoff, PurgeInv, tiers, sources, calls
<1>16. ASSUME NEW p \in Procs, Clear(p)  PROVE PurgeInv'
  <2>1. Pending' = Pending
    BY <1>16 DEF Clear, Goto, Pending, TypeOK
  <2> QED  BY <1>16, <2>1 DEF Clear, Goto, PurgeInv, tiers, sources, calls
<1>17. ASSUME NEW p \in Procs, Close(p)  PROVE PurgeInv'
  <2>1. Pending' = Pending
    BY <1>17 DEF Close, Waiting, Pending, TypeOK
  <2> QED  BY <1>17, <2>1 DEF Close, PurgeInv, tiers, sources
<1>18. ASSUME NEW p \in Procs, FetchError(p)  PROVE PurgeInv'
  <2>1. Pending' = Pending
    BY <1>18 DEF FetchError, Goto, Return, Pending, TypeOK
  <2> QED  BY <1>18, <2>1 DEF FetchError, Goto, Return, PurgeInv, tiers, sources, calls
<1>19. ASSUME NEW p \in Procs, Stale(p)  PROVE PurgeInv'
  <2>1. Pending' = Pending
    BY <1>19 DEF Stale, Goto, Return, Pending, TypeOK
  <2> QED  BY <1>19, <2>1 DEF Stale, Goto, Return, PurgeInv, tiers, sources, calls
<1>20. ASSUME NEW p \in Procs, NotStale(p)  PROVE PurgeInv'
  <2>1. Pending' = Pending
    BY <1>20 DEF NotStale, Goto, Pending, TypeOK
  <2> QED  BY <1>20, <2>1 DEF NotStale, Goto, PurgeInv, tiers, sources, calls
<1>21. ASSUME NEW p \in Procs, SetLocal(p)  PROVE PurgeInv'
  <2>1. Pending' = Pending
    BY <1>21 DEF SetLocal, Goto, Return, Pending, TypeOK
  <2> QED  BY <1>21, <2>1 DEF SetLocal, Goto, Return, PurgeInv, tiers, sources, calls
<1>22. ASSUME NEW p \in Procs, Save(p)  PROVE PurgeInv'
  <2>1. Pending' = Pending
    BY <1>22 DEF Save, Goto, Return, Pending, TypeOK
  <2> QED  BY <1>22, <2>1 DEF Save, Goto, Return, PurgeInv, tiers, sources, calls
<1>23. ASSUME NEW p \in Procs, PurgeLocal(p)  PROVE PurgeInv'
  <2>1. Pending' = Pending \cup {p} /\ p \notin Pending
    BY <1>23 DEF PurgeLocal, Goto, Pending, TypeOK
  <2>2. IsFiniteSet(Pending)
    BY FS_Subset DEF Pending, TokenAssumption
  <2>3. Cardinality(Pending') = Cardinality(Pending) + 1 /\ Cardinality(Pending) \in Nat
    BY <2>1, <2>2, FS_AddElement, FS_CardinalityType
  <2>4. purgeGen + Cardinality(Pending) < MaxPurges
    BY <1>23 DEF PurgeLocal, Pending
  <2> QED  BY <1>23, <2>3, <2>4 DEF PurgeLocal, PurgeInv, TypeOK, Gens, TokenAssumption,
     sources
<1>24. ASSUME NEW p \in Procs, PurgeSource(p)  PROVE PurgeInv'
  BY <1>24, PurgeRoom DEF PurgeSource, PurgeInv, TypeOK, Gens
<1>25. ASSUME NEW p \in Procs, PurgeRedis(p)  PROVE PurgeInv'
  <2>1. Pending' = Pending
    BY <1>25 DEF PurgeRedis, Goto, Pending, TypeOK
  <2> QED  BY <1>25, <2>1 DEF PurgeRedis, Goto, PurgeInv, tiers, sources, calls
<1>26. CASE LocalHit
  <2>1. Pending' = Pending
    BY <1>26 DEF LocalHit, Pending, vars
  <2> QED  BY <1>26, <2>1 DEF LocalHit, PurgeInv, vars
<1>27. CASE OtherReplicaSaves
  <2>1. Pending' = Pending
    BY <1>27 DEF OtherReplicaSaves, Pending
  <2>2. PICK t : issued' = issued \cup {t}
    BY <1>27 DEF OtherReplicaSaves
  <2>3. IsFiniteSet(issued')
    BY <2>2, FS_AddElement DEF PurgeInv
  <2> QED  BY <1>27, <2>1, <2>3 DEF OtherReplicaSaves, PurgeInv, sources
<1>28. CASE Tick
  <2>1. Pending' = Pending
    BY <1>28 DEF Tick, Pending
  <2> QED  BY <1>28, <2>1 DEF Tick, PurgeInv, sources
<1>29. CASE UNCHANGED vars
  BY <1>29 DEF PurgeInv, Pending, vars, tiers, sources, calls
<1> QED
  BY <1>1, <1>2, <1>3, <1>4, <1>5, <1>6, <1>7, <1>8, <1>9, <1>10, <1>11, <1>12, <1>13,
     <1>14, <1>15, <1>16, <1>17, <1>18, <1>19, <1>20, <1>21, <1>22, <1>23, <1>24, <1>25,
     <1>26, <1>27, <1>28, <1>29
  DEF Next, Reading, Fetching, Purging

\* Only the owner of a call puts it in flight and takes it out.
LEMMA NextFlight ==
  ASSUME TypeOK, FlightInv, [Next]_vars
  PROVE  FlightInv'
<1> USE TokenAssumption
<1>1. ASSUME NEW p \in Procs, LocalMiss(p)  PROVE FlightInv'
  BY <1>1 DEF LocalMiss, Goto, FlightInv, OwnerPcs, TypeOK, TokenAssumption, vars, tiers,
     sources, calls
<1>2. ASSUME NEW p \in Procs, RedisHit(p)  PROVE FlightInv'
  BY <1>2 DEF RedisHit, Goto, FlightInv, OwnerPcs, TypeOK, TokenAssumption, vars, tiers,
     sources, calls
<1>3. ASSUME NEW p \in Procs, RedisMiss(p)  PROVE FlightInv'
  BY <1>3 DEF RedisMiss, Goto, FlightInv, OwnerPcs, TypeOK, TokenAssumption, vars, tiers,
     sources, calls
<1>4. ASSUME NEW p \in Procs, RedisDown(p)  PROVE FlightInv'
  <2>1. CASE FailOpen
    BY <1>4, <2>1 DEF RedisDown, Goto, Return, FlightInv, OwnerPcs, TypeOK,
       TokenAssumption, vars, tiers, sources, calls
  <2>2. CASE ~(FailOpen)
    BY <1>4, <2>2 DEF RedisDown, Goto, Return, FlightInv, OwnerPcs, TypeOK,
       TokenAssumption, vars, tiers, sources, calls
  <2> QED  BY <2>1, <2>2
<1>5. ASSUME NEW p \in Procs, Adopt(p)  PROVE FlightInv'
  BY <1>5 DEF Adopt, Goto, Return, FlightInv, OwnerPcs, TypeOK, TokenAssumption, vars,
     tiers, sources, calls
<1>6. ASSUME NEW p \in Procs, Snapshot(p)  PROVE FlightInv'
  BY <1>6 DEF Snapshot, Goto, FlightInv, OwnerPcs, TypeOK, TokenAssumption, vars, tiers,
     sources, calls
<1>7. ASSUME NEW p \in Procs, Own(p)  PROVE FlightInv'
  BY <1>7 DEF Own, Goto, FlightInv, OwnerPcs, TypeOK, TokenAssumption, vars, tiers,
     sources, calls
<1>8. ASSUME NEW p \in Procs, Join(p)  PROVE FlightInv'
  BY <1>8 DEF Join, Goto, FlightInv, OwnerPcs, TypeOK, TokenAssumption, vars, tiers,
     sources, calls
<1>9. ASSUME NEW p \in Procs, JoinCancelled(p)  PROVE FlightInv'
  BY <1>9 DEF JoinCancelled, Goto, Return, FlightInv, OwnerPcs, TypeOK, TokenAssumption,
     vars, tiers, sources, calls
<1>10. ASSUME NEW p \in Procs, Reuse(p)  PROVE FlightInv'
  BY <1>10 DEF Reuse, Goto, FlightInv, OwnerPcs, TypeOK, TokenAssumption, vars, tiers,
     sources, calls
<1>11. ASSUME NEW p \in Procs, Ask(p)  PROVE FlightInv'
  BY <1>11 DEF Ask, Goto, FlightInv, OwnerPcs, TypeOK, TokenAssumption, vars, tiers,
     sources, calls
<1>12. ASSUME NEW p \in Procs, Issue(p)  PROVE FlightInv'
  BY <1>12 DEF Issue, Goto, FlightInv, OwnerPcs, TypeOK, TokenAssumption, vars, tiers,
     sources, calls
<1>13. ASSUME NEW p \in Procs, FetchFails(p)  PROVE FlightInv'
  <2>1. /\ pc[p] = "fetch" /\ flight' = flight /\ snap' = snap
        /\ pc' = [pc EXCEPT ![p] = "backoff"] \/ pc' = [pc EXCEPT ![p] = "clear"]
    BY <1>13 DEF FetchFails, Goto, sources
  <2>2. /\ pc'[p] \in OwnerPcs /\ pc[p] \in OwnerPcs
        /\ \A q \in Procs : q # p => pc'[q] = pc[q]
    BY <2>1 DEF TypeOK, OwnerPcs
  <2>3. \A q \in Procs : pc'[q] \in OwnerPcs <=> pc[q] \in OwnerPcs
    BY <2>2
  <2>4. \A s \in Gens : flight[s] # Nobody => flight[s] \in Procs
    BY DEF TypeOK
  <2> QED  BY <2>1, <2>3, <2>4 DEF FlightInv
<1>14. ASSUME NEW p \in Procs, FetchRefused(p)  PROVE FlightInv'
  BY <1>14 DEF FetchRefused, Goto, FlightInv, OwnerPcs, TypeOK, TokenAssumption, vars,
     tiers, sources, calls
<1>15. ASSUME NEW p \in Procs, Backoff(p)  PROVE FlightInv'
  BY <1>15 DEF Backoff, Goto, FlightInv, OwnerPcs, TypeOK, TokenAssumption, vars, tiers,
     sources, calls
<1>16. ASSUME NEW p \in Procs, Clear(p)  PROVE FlightInv'
  BY <1>16 DEF Clear, Goto, FlightInv, OwnerPcs, TypeOK, TokenAssumption, vars, tiers,
     sources, calls
<1>17. ASSUME NEW p \in Procs, Close(p)  PROVE FlightInv'
  BY <1>17 DEF Close, Waiting, FlightInv, OwnerPcs, TypeOK, TokenAssumption, vars, tiers,
     sources, calls
<1>18. ASSUME NEW p \in Procs, FetchError(p)  PROVE FlightInv'
  BY <1>18 DEF FetchError, Goto, Return, FlightInv, OwnerPcs, TypeOK, TokenAssumption,
     vars, tiers, sources, calls
<1>19. ASSUME NEW p \in Procs, Stale(p)  PROVE FlightInv'
  BY <1>19 DEF Stale, Goto, Return, FlightInv, OwnerPcs, TypeOK, TokenAssumption, vars,
     tiers, sources, calls
<1>20. ASSUME NEW p \in Procs, NotStale(p)  PROVE FlightInv'
  BY <1>20 DEF NotStale, Goto, FlightInv, OwnerPcs, TypeOK, TokenAssumption, vars, tiers,
     sources, calls
<1>21. ASSUME NEW p \in Procs, SetLocal(p)  PROVE FlightInv'
  <2>1. CASE WithRedis
    BY <1>21, <2>1 DEF SetLocal, Goto, Return, FlightInv, OwnerPcs, TypeOK,
       TokenAssumption, vars, tiers, sources, calls
  <2>2. CASE ~(WithRedis)
    BY <1>21, <2>2 DEF SetLocal, Goto, Return, FlightInv, OwnerPcs, TypeOK,
       TokenAssumption, vars, tiers, sources, calls
  <2> QED  BY <2>1, <2>2
<1>22. ASSUME NEW p \in Procs, Save(p)  PROVE FlightInv'
  BY <1>22 DEF Save, Goto, Return, FlightInv, OwnerPcs, TypeOK, TokenAssumption, vars,
     tiers, sources, calls
<1>23. ASSUME NEW p \in Procs, PurgeLocal(p)  PROVE FlightInv'
  BY <1>23 DEF PurgeLocal, Goto, FlightInv, OwnerPcs, TypeOK, TokenAssumption, vars,
     tiers, sources, calls
<1>24. ASSUME NEW p \in Procs, PurgeSource(p)  PROVE FlightInv'
  BY <1>24 DEF PurgeSource, Goto, FlightInv, OwnerPcs, TypeOK, TokenAssumption, vars,
     tiers, sources, calls
<1>25. ASSUME NEW p \in Procs, PurgeRedis(p)  PROVE FlightInv'
  BY <1>25 DEF PurgeRedis, Goto, FlightInv, OwnerPcs, TypeOK, TokenAssumption, vars,
     tiers, sources, calls
<1>26. CASE LocalHit
  BY <1>26 DEF LocalHit, FlightInv, OwnerPcs, TypeOK, TokenAssumption, vars, tiers,
     sources, calls
<1>27. CASE OtherReplicaSaves
  BY <1>27 DEF OtherReplicaSaves, FlightInv, OwnerPcs, TypeOK, TokenAssumption, vars,
     tiers, sources, calls
<1>28. CASE Tick
  BY <1>28 DEF Tick, FlightInv, OwnerPcs, TypeOK, TokenAssumption, vars, tiers, sources,
     calls
<1>29. CASE UNCHANGED vars
  BY <1>29 DEF FlightInv, OwnerPcs, TypeOK, TokenAssumption, vars, tiers, sources, calls
<1> QED
  BY <1>1, <1>2, <1>3, <1>4, <1>5, <1>6, <1>7, <1>8, <1>9, <1>10, <1>11, <1>12, <1>13,
     <1>14, <1>15, <1>16, <1>17, <1>18, <1>19, <1>20, <1>21, <1>22, <1>23, <1>24, <1>25,
     <1>26, <1>27, <1>28, <1>29
  DEF Next, Reading, Fetching, Purging

\* The snapshot pairs a source with its generation.
LEMMA NextSnap ==
  ASSUME TypeOK, PurgeInv, SnapInv, [Next]_vars
  PROVE  SnapInv'
<1> USE TokenAssumption
<1>1. ASSUME NEW p \in Procs, LocalMiss(p)  PROVE SnapInv'
  BY <1>1 DEF LocalMiss, Goto, SnapInv, FetchPcs, OwnerPcs, TypeOK, vars, tiers, sources,
     calls
<1>2. ASSUME NEW p \in Procs, RedisHit(p)  PROVE SnapInv'
  BY <1>2 DEF RedisHit, Goto, SnapInv, FetchPcs, OwnerPcs, TypeOK, vars, tiers, sources,
     calls
<1>3. ASSUME NEW p \in Procs, RedisMiss(p)  PROVE SnapInv'
  BY <1>3 DEF RedisMiss, Goto, SnapInv, FetchPcs, OwnerPcs, TypeOK, vars, tiers, sources,
     calls
<1>4. ASSUME NEW p \in Procs, RedisDown(p)  PROVE SnapInv'
  BY <1>4 DEF RedisDown, Goto, Return, SnapInv, FetchPcs, OwnerPcs, TypeOK, vars, tiers,
     sources, calls
<1>5. ASSUME NEW p \in Procs, Adopt(p)  PROVE SnapInv'
  BY <1>5 DEF Adopt, Goto, Return, SnapInv, FetchPcs, OwnerPcs, TypeOK, vars, tiers,
     sources, calls
<1>6. ASSUME NEW p \in Procs, Snapshot(p)  PROVE SnapInv'
  BY <1>6 DEF Snapshot, Goto, PurgeInv, SnapInv, FetchPcs, OwnerPcs, TypeOK, vars, tiers,
     sources, calls
<1>7. ASSUME NEW p \in Procs, Own(p)  PROVE SnapInv'
  BY <1>7 DEF Own, Goto, SnapInv, FetchPcs, OwnerPcs, TypeOK, vars, tiers, sources, calls
<1>8. ASSUME NEW p \in Procs, Join(p)  PROVE SnapInv'
  BY <1>8 DEF Join, Goto, SnapInv, FetchPcs, OwnerPcs, TypeOK, vars, tiers, sources, calls
<1>9. ASSUME NEW p \in Procs, JoinCancelled(p)  PROVE SnapInv'
  BY <1>9 DEF JoinCancelled, Goto, Return, SnapInv, FetchPcs, OwnerPcs, TypeOK, vars,
     tiers, sources, calls
<1>10. ASSUME NEW p \in Procs, Reuse(p)  PROVE SnapInv'
  BY <1>10 DEF Reuse, Goto, SnapInv, FetchPcs, OwnerPcs, TypeOK, vars, tiers, sources, calls
<1>11. ASSUME NEW p \in Procs, Ask(p)  PROVE SnapInv'
  BY <1>11 DEF Ask, Goto, SnapInv, FetchPcs, OwnerPcs, TypeOK, vars, tiers, sources, calls
<1>12. ASSUME NEW p \in Procs, Issue(p)  PROVE SnapInv'
  BY <1>12 DEF Issue, Goto, SnapInv, FetchPcs, OwnerPcs, TypeOK, vars, tiers, sources, calls
<1>13. ASSUME NEW p \in Procs, FetchFails(p)  PROVE SnapInv'
  BY <1>13 DEF FetchFails, Goto, SnapInv, FetchPcs, OwnerPcs, TypeOK, vars, tiers,
     sources, calls
<1>14. ASSUME NEW p \in Procs, FetchRefused(p)  PROVE SnapInv'
  BY <1>14 DEF FetchRefused, Goto, SnapInv, FetchPcs, OwnerPcs, TypeOK, vars, tiers,
     sources, calls
<1>15. ASSUME NEW p \in Procs, Backoff(p)  PROVE SnapInv'
  BY <1>15 DEF Backoff, Goto, SnapInv, FetchPcs, OwnerPcs, TypeOK, vars, tiers, sources,
     calls
<1>16. ASSUME NEW p \in Procs, Clear(p)  PROVE SnapInv'
  BY <1>16 DEF Clear, Goto, SnapInv, FetchPcs, OwnerPcs, TypeOK, vars, tiers, sources, calls
<1>17. ASSUME NEW p \in Procs, Close(p)  PROVE SnapInv'
  BY <1>17 DEF Close, Waiting, SnapInv, FetchPcs, OwnerPcs, TypeOK, vars, tiers, sources,
     calls
<1>18. ASSUME NEW p \in Procs, FetchError(p)  PROVE SnapInv'
  BY <1>18 DEF FetchError, Goto, Return, SnapInv, FetchPcs, OwnerPcs, TypeOK, vars,
     tiers, sources, calls
<1>19. ASSUME NEW p \in Procs, Stale(p)  PROVE SnapInv'
  BY <1>19 DEF Stale, Goto, Return, SnapInv, FetchPcs, OwnerPcs, TypeOK, vars, tiers,
     sources, calls
<1>20. ASSUME NEW p \in Procs, NotStale(p)  PROVE SnapInv'
  BY <1>20 DEF NotStale, Goto, SnapInv, FetchPcs, OwnerPcs, TypeOK, vars, tiers, sources,
     calls
<1>21. ASSUME NEW p \in Procs, SetLocal(p)  PROVE SnapInv'
  BY <1>21 DEF SetLocal, Goto, Return, SnapInv, FetchPcs, OwnerPcs, TypeOK, vars, tiers,
     sources, calls
<1>22. ASSUME NEW p \in Procs, Save(p)  PROVE SnapInv'
  BY <1>22 DEF Save, Goto, Return, SnapInv, FetchPcs, OwnerPcs, TypeOK, vars, tiers,
     sources, calls
<1>23. ASSUME NEW p \in Procs, PurgeLocal(p)  PROVE SnapInv'
  BY <1>23 DEF PurgeLocal, Goto, SnapInv, FetchPcs, OwnerPcs, TypeOK, vars, tiers,
     sources, calls
<1>24. ASSUME NEW p \in Procs, PurgeSource(p)  PROVE SnapInv'
  BY <1>24 DEF PurgeSource, Goto, SnapInv, FetchPcs, OwnerPcs, TypeOK, vars, tiers,
     sources, calls
<1>25. ASSUME NEW p \in Procs, PurgeRedis(p)  PROVE SnapInv'
  BY <1>25 DEF PurgeRedis, Goto, SnapInv, FetchPcs, OwnerPcs, TypeOK, vars, tiers,
     sources, calls
<1>26. CASE LocalHit
  BY <1>26 DEF LocalHit, SnapInv, FetchPcs, OwnerPcs, TypeOK, vars, tiers, sources, calls
<1>27. CASE OtherReplicaSaves
  BY <1>27 DEF OtherReplicaSaves, SnapInv, FetchPcs, OwnerPcs, TypeOK, vars, tiers,
     sources, calls
<1>28. CASE Tick
  BY <1>28 DEF Tick, SnapInv, FetchPcs, OwnerPcs, TypeOK, vars, tiers, sources, calls
<1>29. CASE UNCHANGED vars
  BY <1>29 DEF SnapInv, FetchPcs, OwnerPcs, TypeOK, vars, tiers, sources, calls
<1> QED
  BY <1>1, <1>2, <1>3, <1>4, <1>5, <1>6, <1>7, <1>8, <1>9, <1>10, <1>11, <1>12, <1>13,
     <1>14, <1>15, <1>16, <1>17, <1>18, <1>19, <1>20, <1>21, <1>22, <1>23, <1>24, <1>25,
     <1>26, <1>27, <1>28, <1>29
  DEF Next, Reading, Fetching, Purging

\* Nobody is left waiting for a call that has no owner.
LEMMA NextJoiner ==
  ASSUME TypeOK, FlightInv, JoinerHasOwner, [Next]_vars
  PROVE  JoinerHasOwner'
<1> USE TokenAssumption
<1>1. ASSUME NEW p \in Procs, LocalMiss(p)  PROVE JoinerHasOwner'
  BY <1>1 DEF LocalMiss, Goto, JoinerHasOwner, OwnerPcs, TypeOK, TokenAssumption, vars,
     tiers, sources, calls
<1>2. ASSUME NEW p \in Procs, RedisHit(p)  PROVE JoinerHasOwner'
  BY <1>2 DEF RedisHit, Goto, JoinerHasOwner, OwnerPcs, TypeOK, TokenAssumption, vars,
     tiers, sources, calls
<1>3. ASSUME NEW p \in Procs, RedisMiss(p)  PROVE JoinerHasOwner'
  BY <1>3 DEF RedisMiss, Goto, JoinerHasOwner, OwnerPcs, TypeOK, TokenAssumption, vars,
     tiers, sources, calls
<1>4. ASSUME NEW p \in Procs, RedisDown(p)  PROVE JoinerHasOwner'
  <2>1. CASE FailOpen
    BY <1>4, <2>1 DEF RedisDown, Goto, JoinerHasOwner, OwnerPcs, TypeOK, TokenAssumption,
       vars, tiers, sources, calls
  <2>2. CASE ~FailOpen
    <3>1. pc[p] = "redis" /\ Return(p)
      BY <1>4, <2>2 DEF RedisDown
    <3> QED  BY <3>1 DEF Return, Goto, JoinerHasOwner, OwnerPcs, TypeOK
  <2> QED  BY <2>1, <2>2
<1>5. ASSUME NEW p \in Procs, Adopt(p)  PROVE JoinerHasOwner'
  BY <1>5 DEF Adopt, Goto, Return, JoinerHasOwner, OwnerPcs, TypeOK, TokenAssumption,
     vars, tiers, sources, calls
<1>6. ASSUME NEW p \in Procs, Snapshot(p)  PROVE JoinerHasOwner'
  BY <1>6 DEF Snapshot, Goto, JoinerHasOwner, OwnerPcs, TypeOK, TokenAssumption, vars,
     tiers, sources, calls
<1>7. ASSUME NEW p \in Procs, Own(p)  PROVE JoinerHasOwner'
  BY <1>7 DEF Own, Goto, JoinerHasOwner, OwnerPcs, TypeOK, TokenAssumption, vars, tiers,
     sources, calls
<1>8. ASSUME NEW p \in Procs, Join(p)  PROVE JoinerHasOwner'
  BY <1>8 DEF Join, Goto, FlightInv, JoinerHasOwner, OwnerPcs, TypeOK, TokenAssumption,
     vars, tiers, sources, calls
<1>9. ASSUME NEW p \in Procs, JoinCancelled(p)  PROVE JoinerHasOwner'
  BY <1>9 DEF JoinCancelled, Goto, Return, JoinerHasOwner, OwnerPcs, TypeOK,
     TokenAssumption, vars, tiers, sources, calls
<1>10. ASSUME NEW p \in Procs, Reuse(p)  PROVE JoinerHasOwner'
  BY <1>10 DEF Reuse, Goto, JoinerHasOwner, OwnerPcs, TypeOK, TokenAssumption, vars,
     tiers, sources, calls
<1>11. ASSUME NEW p \in Procs, Ask(p)  PROVE JoinerHasOwner'
  BY <1>11 DEF Ask, Goto, JoinerHasOwner, OwnerPcs, TypeOK, TokenAssumption, vars, tiers,
     sources, calls
<1>12. ASSUME NEW p \in Procs, Issue(p)  PROVE JoinerHasOwner'
  BY <1>12 DEF Issue, Goto, JoinerHasOwner, OwnerPcs, TypeOK, TokenAssumption, vars,
     tiers, sources, calls
<1>13. ASSUME NEW p \in Procs, FetchFails(p)  PROVE JoinerHasOwner'
  <2>1. CASE tries[p] < MaxRetries
    BY <1>13, <2>1 DEF FetchFails, Goto, JoinerHasOwner, OwnerPcs, TypeOK,
       TokenAssumption, vars, tiers, sources, calls
  <2>2. CASE ~(tries[p] < MaxRetries)
    BY <1>13, <2>2 DEF FetchFails, Goto, JoinerHasOwner, OwnerPcs, TypeOK,
       TokenAssumption, vars, tiers, sources, calls
  <2> QED  BY <2>1, <2>2
<1>14. ASSUME NEW p \in Procs, FetchRefused(p)  PROVE JoinerHasOwner'
  BY <1>14 DEF FetchRefused, Goto, JoinerHasOwner, OwnerPcs, TypeOK, TokenAssumption,
     vars, tiers, sources, calls
<1>15. ASSUME NEW p \in Procs, Backoff(p)  PROVE JoinerHasOwner'
  BY <1>15 DEF Backoff, Goto, JoinerHasOwner, OwnerPcs, TypeOK, TokenAssumption, vars,
     tiers, sources, calls
<1>16. ASSUME NEW p \in Procs, Clear(p)  PROVE JoinerHasOwner'
  BY <1>16 DEF Clear, Goto, JoinerHasOwner, OwnerPcs, TypeOK, TokenAssumption, vars,
     tiers, sources, calls
<1>17. ASSUME NEW p \in Procs, Close(p)  PROVE JoinerHasOwner'
  BY <1>17 DEF Close, Waiting, JoinerHasOwner, OwnerPcs, TypeOK, TokenAssumption, vars,
     tiers, sources, calls
<1>18. ASSUME NEW p \in Procs, FetchError(p)  PROVE JoinerHasOwner'
  BY <1>18 DEF FetchError, Goto, Return, JoinerHasOwner, OwnerPcs, TypeOK,
     TokenAssumption, vars, tiers, sources, calls
<1>19. ASSUME NEW p \in Procs, Stale(p)  PROVE JoinerHasOwner'
  BY <1>19 DEF Stale, Goto, Return, JoinerHasOwner, OwnerPcs, TypeOK, TokenAssumption,
     vars, tiers, sources, calls
<1>20. ASSUME NEW p \in Procs, NotStale(p)  PROVE JoinerHasOwner'
  BY <1>20 DEF NotStale, Goto, JoinerHasOwner, OwnerPcs, TypeOK, TokenAssumption, vars,
     tiers, sources, calls
<1>21. ASSUME NEW p \in Procs, SetLocal(p)  PROVE JoinerHasOwner'
  <2>1. CASE WithRedis
    BY <1>21, <2>1 DEF SetLocal, Goto, JoinerHasOwner, OwnerPcs, TypeOK, TokenAssumption,
       vars, tiers, sources, calls
  <2>2. CASE ~WithRedis
    <3>1. pc[p] = "setlocal" /\ Return(p)
      BY <1>21, <2>2 DEF SetLocal
    <3> QED  BY <3>1 DEF Return, Goto, JoinerHasOwner, OwnerPcs, TypeOK
  <2> QED  BY <2>1, <2>2
<1>22. ASSUME NEW p \in Procs, Save(p)  PROVE JoinerHasOwner'
  BY <1>22 DEF Save, Goto, Return, JoinerHasOwner, OwnerPcs, TypeOK, TokenAssumption,
     vars, tiers, sources, calls
<1>23. ASSUME NEW p \in Procs, PurgeLocal(p)  PROVE JoinerHasOwner'
  BY <1>23 DEF PurgeLocal, Goto, JoinerHasOwner, OwnerPcs, TypeOK, TokenAssumption, vars,
     tiers, sources, calls
<1>24. ASSUME NEW p \in Procs, PurgeSource(p)  PROVE JoinerHasOwner'
  BY <1>24 DEF PurgeSource, Goto, JoinerHasOwner, OwnerPcs, TypeOK, TokenAssumption,
     vars, tiers, sources, calls
<1>25. ASSUME NEW p \in Procs, PurgeRedis(p)  PROVE JoinerHasOwner'
  BY <1>25 DEF PurgeRedis, Goto, JoinerHasOwner, OwnerPcs, TypeOK, TokenAssumption, vars,
     tiers, sources, calls
<1>26. CASE LocalHit
  BY <1>26 DEF LocalHit, JoinerHasOwner, OwnerPcs, TypeOK, TokenAssumption, vars, tiers,
     sources, calls
<1>27. CASE OtherReplicaSaves
  BY <1>27 DEF OtherReplicaSaves, JoinerHasOwner, OwnerPcs, TypeOK, TokenAssumption,
     vars, tiers, sources, calls
<1>28. CASE Tick
  BY <1>28 DEF Tick, JoinerHasOwner, OwnerPcs, TypeOK, TokenAssumption, vars, tiers,
     sources, calls
<1>29. CASE UNCHANGED vars
  BY <1>29 DEF JoinerHasOwner, OwnerPcs, TypeOK, TokenAssumption, vars, tiers, sources,
     calls
<1> QED
  BY <1>1, <1>2, <1>3, <1>4, <1>5, <1>6, <1>7, <1>8, <1>9, <1>10, <1>11, <1>12, <1>13,
     <1>14, <1>15, <1>16, <1>17, <1>18, <1>19, <1>20, <1>21, <1>22, <1>23, <1>24, <1>25,
     <1>26, <1>27, <1>28, <1>29
  DEF Next, Reading, Fetching, Purging

\* A token keeps the number of the source it came from.
LEMMA NextSource ==
  ASSUME TypeOK, JoinerHasOwner, SourceInv, [Next]_vars
  PROVE  SourceInv'
<1> USE TokenAssumption
<1>1. ASSUME NEW p \in Procs, LocalMiss(p)  PROVE SourceInv'
  BY <1>1 DEF LocalMiss, Goto, SourceInv, EmptyHanded, TypeOK, vars, tiers, sources, calls
<1>2. ASSUME NEW p \in Procs, RedisHit(p)  PROVE SourceInv'
  BY <1>2 DEF RedisHit, Goto, SourceInv, EmptyHanded, TypeOK, vars, tiers, sources, calls
<1>3. ASSUME NEW p \in Procs, RedisMiss(p)  PROVE SourceInv'
  BY <1>3 DEF RedisMiss, Goto, SourceInv, EmptyHanded, TypeOK, vars, tiers, sources, calls
<1>4. ASSUME NEW p \in Procs, RedisDown(p)  PROVE SourceInv'
  BY <1>4 DEF RedisDown, Goto, Return, SourceInv, EmptyHanded, TypeOK, vars, tiers,
     sources, calls
<1>5. ASSUME NEW p \in Procs, Adopt(p)  PROVE SourceInv'
  BY <1>5 DEF Adopt, Goto, Return, SourceInv, EmptyHanded, TypeOK, vars, tiers, sources,
     calls
<1>6. ASSUME NEW p \in Procs, Snapshot(p)  PROVE SourceInv'
  BY <1>6 DEF Snapshot, Goto, SourceInv, EmptyHanded, TypeOK, vars, tiers, sources, calls
<1>7. ASSUME NEW p \in Procs, Own(p)  PROVE SourceInv'
  BY <1>7 DEF Own, Goto, SourceInv, EmptyHanded, TypeOK, vars, tiers, sources, calls
<1>8. ASSUME NEW p \in Procs, Join(p)  PROVE SourceInv'
  BY <1>8 DEF Join, Goto, SourceInv, EmptyHanded, TypeOK, vars, tiers, sources, calls
<1>9. ASSUME NEW p \in Procs, JoinCancelled(p)  PROVE SourceInv'
  BY <1>9 DEF JoinCancelled, Goto, Return, SourceInv, EmptyHanded, TypeOK, vars, tiers,
     sources, calls
<1>10. ASSUME NEW p \in Procs, Reuse(p)  PROVE SourceInv'
  BY <1>10 DEF Reuse, Goto, SourceInv, EmptyHanded, TypeOK, vars, tiers, sources, calls
<1>11. ASSUME NEW p \in Procs, Ask(p)  PROVE SourceInv'
  BY <1>11 DEF Ask, Goto, SourceInv, EmptyHanded, TypeOK, vars, tiers, sources, calls
<1>12. ASSUME NEW p \in Procs, Issue(p)  PROVE SourceInv'
  <2>2. PICK t : /\ t.src = snap[p].src
                 /\ tok' = [tok EXCEPT ![p] = t]
                 /\ sourceTok' = [sourceTok EXCEPT ![snap[p].src] = t]
    BY <1>12 DEF Issue
  <2> QED  BY <1>12, <2>2 DEF Issue, Goto, SourceInv, EmptyHanded, TypeOK, vars, tiers,
     sources, calls
<1>13. ASSUME NEW p \in Procs, FetchFails(p)  PROVE SourceInv'
  BY <1>13 DEF FetchFails, Goto, SourceInv, EmptyHanded, TypeOK, vars, tiers, sources, calls
<1>14. ASSUME NEW p \in Procs, FetchRefused(p)  PROVE SourceInv'
  BY <1>14 DEF FetchRefused, Goto, SourceInv, EmptyHanded, TypeOK, vars, tiers, sources,
     calls
<1>15. ASSUME NEW p \in Procs, Backoff(p)  PROVE SourceInv'
  BY <1>15 DEF Backoff, Goto, SourceInv, EmptyHanded, TypeOK, vars, tiers, sources, calls
<1>16. ASSUME NEW p \in Procs, Clear(p)  PROVE SourceInv'
  BY <1>16 DEF Clear, Goto, SourceInv, EmptyHanded, TypeOK, vars, tiers, sources, calls
<1>17. ASSUME NEW p \in Procs, Close(p)  PROVE SourceInv'
  BY <1>17 DEF Close, Waiting, JoinerHasOwner, SourceInv, EmptyHanded, TypeOK, vars,
     tiers, sources, calls
<1>18. ASSUME NEW p \in Procs, FetchError(p)  PROVE SourceInv'
  BY <1>18 DEF FetchError, Goto, Return, SourceInv, EmptyHanded, TypeOK, vars, tiers,
     sources, calls
<1>19. ASSUME NEW p \in Procs, Stale(p)  PROVE SourceInv'
  BY <1>19 DEF Stale, Goto, Return, SourceInv, EmptyHanded, TypeOK, vars, tiers, sources,
     calls
<1>20. ASSUME NEW p \in Procs, NotStale(p)  PROVE SourceInv'
  BY <1>20 DEF NotStale, Goto, SourceInv, EmptyHanded, TypeOK, vars, tiers, sources, calls
<1>21. ASSUME NEW p \in Procs, SetLocal(p)  PROVE SourceInv'
  BY <1>21 DEF SetLocal, Goto, Return, SourceInv, EmptyHanded, TypeOK, vars, tiers,
     sources, calls
<1>22. ASSUME NEW p \in Procs, Save(p)  PROVE SourceInv'
  BY <1>22 DEF Save, Goto, Return, SourceInv, EmptyHanded, TypeOK, vars, tiers, sources,
     calls
<1>23. ASSUME NEW p \in Procs, PurgeLocal(p)  PROVE SourceInv'
  BY <1>23 DEF PurgeLocal, Goto, SourceInv, EmptyHanded, TypeOK, vars, tiers, sources, calls
<1>24. ASSUME NEW p \in Procs, PurgeSource(p)  PROVE SourceInv'
  BY <1>24 DEF PurgeSource, Goto, SourceInv, EmptyHanded, TypeOK, vars, tiers, sources,
     calls
<1>25. ASSUME NEW p \in Procs, PurgeRedis(p)  PROVE SourceInv'
  BY <1>25 DEF PurgeRedis, Goto, SourceInv, EmptyHanded, TypeOK, vars, tiers, sources, calls
<1>26. CASE LocalHit
  BY <1>26 DEF LocalHit, SourceInv, EmptyHanded, TypeOK, vars, tiers, sources, calls
<1>27. CASE OtherReplicaSaves
  BY <1>27 DEF OtherReplicaSaves, SourceInv, EmptyHanded, TypeOK, vars, tiers, sources,
     calls
<1>28. CASE Tick
  BY <1>28 DEF Tick, SourceInv, EmptyHanded, TypeOK, vars, tiers, sources, calls
<1>29. CASE UNCHANGED vars
  BY <1>29 DEF SourceInv, EmptyHanded, TypeOK, vars, tiers, sources, calls
<1> QED
  BY <1>1, <1>2, <1>3, <1>4, <1>5, <1>6, <1>7, <1>8, <1>9, <1>10, <1>11, <1>12, <1>13,
     <1>14, <1>15, <1>16, <1>17, <1>18, <1>19, <1>20, <1>21, <1>22, <1>23, <1>24, <1>25,
     <1>26, <1>27, <1>28, <1>29
  DEF Next, Reading, Fetching, Purging

\* Freshness is lost for good, and only its owner gives a source a new token.
LEMMA NextThrift ==
  ASSUME TypeOK, FlightInv, ThriftInv, [Next]_vars
  PROVE  ThriftInv'
<1> USE TokenAssumption
<1>1. ASSUME NEW p \in Procs, LocalMiss(p)  PROVE ThriftInv'
  BY <1>1 DEF LocalMiss, Goto, ThriftInv, Fresh, TypeOK, vars, tiers, sources, calls
<1>2. ASSUME NEW p \in Procs, RedisHit(p)  PROVE ThriftInv'
  BY <1>2 DEF RedisHit, Goto, ThriftInv, Fresh, TypeOK, vars, tiers, sources, calls
<1>3. ASSUME NEW p \in Procs, RedisMiss(p)  PROVE ThriftInv'
  BY <1>3 DEF RedisMiss, Goto, ThriftInv, Fresh, TypeOK, vars, tiers, sources, calls
<1>4. ASSUME NEW p \in Procs, RedisDown(p)  PROVE ThriftInv'
  <2>1. CASE FailOpen
    BY <1>4, <2>1 DEF RedisDown, Goto, Return, ThriftInv, Fresh, TypeOK, vars, tiers,
       sources, calls
  <2>2. CASE ~(FailOpen)
    BY <1>4, <2>2 DEF RedisDown, Goto, Return, ThriftInv, Fresh, TypeOK, vars, tiers,
       sources, calls
  <2> QED  BY <2>1, <2>2
<1>5. ASSUME NEW p \in Procs, Adopt(p)  PROVE ThriftInv'
  BY <1>5 DEF Adopt, Goto, Return, ThriftInv, Fresh, TypeOK, vars, tiers, sources, calls
<1>6. ASSUME NEW p \in Procs, Snapshot(p)  PROVE ThriftInv'
  BY <1>6 DEF Snapshot, Goto, ThriftInv, Fresh, TypeOK, vars, tiers, sources, calls
<1>7. ASSUME NEW p \in Procs, Own(p)  PROVE ThriftInv'
  BY <1>7 DEF Own, Goto, ThriftInv, Fresh, TypeOK, vars, tiers, sources, calls
<1>8. ASSUME NEW p \in Procs, Join(p)  PROVE ThriftInv'
  BY <1>8 DEF Join, Goto, ThriftInv, Fresh, TypeOK, vars, tiers, sources, calls
<1>9. ASSUME NEW p \in Procs, JoinCancelled(p)  PROVE ThriftInv'
  BY <1>9 DEF JoinCancelled, Goto, Return, ThriftInv, Fresh, TypeOK, vars, tiers,
     sources, calls
<1>10. ASSUME NEW p \in Procs, Reuse(p)  PROVE ThriftInv'
  BY <1>10 DEF Reuse, Goto, ThriftInv, Fresh, TypeOK, vars, tiers, sources, calls
<1>11. ASSUME NEW p \in Procs, Ask(p)  PROVE ThriftInv'
  BY <1>11 DEF Ask, Goto, ThriftInv, Fresh, TypeOK, vars, tiers, sources, calls
<1>12. ASSUME NEW p \in Procs, Issue(p)  PROVE ThriftInv'
  <2>1. PICK t : /\ t.src = snap[p].src
                 /\ sourceTok' = [sourceTok EXCEPT ![snap[p].src] = t]
                 /\ issued' = issued \cup {t}
    BY <1>12 DEF Issue
  <2>2. \A u : Fresh(u)' <=> Fresh(u)
    BY <1>12 DEF Issue, Fresh
  <2>3. pc[p] = "fetch" /\ pc' = [pc EXCEPT ![p] = "clear"] /\ snap' = snap
    BY <1>12 DEF Issue, Goto
  <2>4. ASSUME NEW q \in Procs, pc'[q] = "fetch"  PROVE ~Fresh(sourceTok[snap[q].src])'
    <3>1. q # p /\ pc[q] = "fetch"
      BY <2>3, <2>4 DEF TypeOK
    <3>2. snap[q].src # snap[p].src
      BY <2>3, <3>1 DEF FlightInv, OwnerPcs
    <3>3. sourceTok'[snap[q].src] = sourceTok[snap[q].src]
      BY <2>1, <3>2 DEF TypeOK
    <3> QED  BY <2>2, <2>3, <3>1, <3>3 DEF ThriftInv
  <2>5. ASSUME NEW u \in issued', u.own  PROVE u = sourceTok'[u.src] \/ ~Fresh(u)'
    <3>1. CASE u = t
      BY <2>1, <3>1 DEF TypeOK
    <3>2. CASE u \in issued /\ u.src # snap[p].src
      <4>1. u \in Tokens
        BY <3>2 DEF TypeOK
      <4>2. sourceTok'[u.src] = sourceTok[u.src]
        BY <2>1, <3>2, <4>1 DEF TypeOK, Tokens
      <4> QED  BY <2>2, <2>5, <3>2, <4>2 DEF ThriftInv
    <3>3. CASE u \in issued /\ u.src = snap[p].src
      BY <2>2, <2>3, <2>5, <3>3 DEF ThriftInv
    <3> QED  BY <2>1, <3>1, <3>2, <3>3
  <2> QED  BY <2>4, <2>5 DEF ThriftInv
<1>13. ASSUME NEW p \in Procs, FetchFails(p)  PROVE ThriftInv'
  <2>1. CASE tries[p] < MaxRetries
    BY <1>13, <2>1 DEF FetchFails, Goto, ThriftInv, Fresh, TypeOK, vars, tiers, sources,
       calls
  <2>2. CASE ~(tries[p] < MaxRetries)
    BY <1>13, <2>2 DEF FetchFails, Goto, ThriftInv, Fresh, TypeOK, vars, tiers, sources,
       calls
  <2> QED  BY <2>1, <2>2
<1>14. ASSUME NEW p \in Procs, FetchRefused(p)  PROVE ThriftInv'
  BY <1>14 DEF FetchRefused, Goto, ThriftInv, Fresh, TypeOK, vars, tiers, sources, calls
<1>15. ASSUME NEW p \in Procs, Backoff(p)  PROVE ThriftInv'
  BY <1>15 DEF Backoff, Goto, ThriftInv, Fresh, TypeOK, vars, tiers, sources, calls
<1>16. ASSUME NEW p \in Procs, Clear(p)  PROVE ThriftInv'
  BY <1>16 DEF Clear, Goto, ThriftInv, Fresh, TypeOK, vars, tiers, sources, calls
<1>17. ASSUME NEW p \in Procs, Close(p)  PROVE ThriftInv'
  BY <1>17 DEF Close, Waiting, ThriftInv, Fresh, TypeOK, vars, tiers, sources, calls
<1>18. ASSUME NEW p \in Procs, FetchError(p)  PROVE ThriftInv'
  BY <1>18 DEF FetchError, Goto, Return, ThriftInv, Fresh, TypeOK, vars, tiers, sources,
     calls
<1>19. ASSUME NEW p \in Procs, Stale(p)  PROVE ThriftInv'
  BY <1>19 DEF Stale, Goto, Return, ThriftInv, Fresh, TypeOK, vars, tiers, sources, calls
<1>20. ASSUME NEW p \in Procs, NotStale(p)  PROVE ThriftInv'
  BY <1>20 DEF NotStale, Goto, ThriftInv, Fresh, TypeOK, vars, tiers, sources, calls
<1>21. ASSUME NEW p \in Procs, SetLocal(p)  PROVE ThriftInv'
  <2>1. CASE WithRedis
    BY <1>21, <2>1 DEF SetLocal, Goto, Return, ThriftInv, Fresh, TypeOK, vars, tiers,
       sources, calls
  <2>2. CASE ~(WithRedis)
    BY <1>21, <2>2 DEF SetLocal, Goto, Return, ThriftInv, Fresh, TypeOK, vars, tiers,
       sources, calls
  <2> QED  BY <2>1, <2>2
<1>22. ASSUME NEW p \in Procs, Save(p)  PROVE ThriftInv'
  BY <1>22 DEF Save, Goto, Return, ThriftInv, Fresh, TypeOK, vars, tiers, sources, calls
<1>23. ASSUME NEW p \in Procs, PurgeLocal(p)  PROVE ThriftInv'
  BY <1>23 DEF PurgeLocal, Goto, ThriftInv, Fresh, TypeOK, vars, tiers, sources, calls
<1>24. ASSUME NEW p \in Procs, PurgeSource(p)  PROVE ThriftInv'
  BY <1>24 DEF PurgeSource, Goto, ThriftInv, Fresh, TypeOK, vars, tiers, sources, calls
<1>25. ASSUME NEW p \in Procs, PurgeRedis(p)  PROVE ThriftInv'
  BY <1>25 DEF PurgeRedis, Goto, ThriftInv, Fresh, TypeOK, vars, tiers, sources, calls
<1>26. CASE LocalHit
  BY <1>26 DEF LocalHit, ThriftInv, Fresh, TypeOK, vars, tiers, sources, calls
<1>27. CASE OtherReplicaSaves
  <2>1. PICK life \in Lifetimes \ {0} :
          issued' = issued \cup {[id |-> Cardinality(issued) + 1, src |-> inner,
                                  own |-> FALSE, exp |-> now + life]}
    BY <1>27 DEF OtherReplicaSaves
  <2> QED  BY <1>27, <2>1 DEF OtherReplicaSaves, ThriftInv, Fresh, TypeOK, vars, tiers,
     sources, calls
<1>28. CASE Tick
  <2>1. \A t \in Tokens \cup {NoToken} : ~Fresh(t) => ~Fresh(t)'
    BY <1>28 DEF Tick, Fresh, Tokens, TypeOK, TokenAssumption
  <2> QED  BY <1>28, <2>1 DEF Tick, ThriftInv, TypeOK, sources, calls
<1>29. CASE UNCHANGED vars
  BY <1>29 DEF ThriftInv, Fresh, TypeOK, vars, tiers, sources, calls
<1> QED
  BY <1>1, <1>2, <1>3, <1>4, <1>5, <1>6, <1>7, <1>8, <1>9, <1>10, <1>11, <1>12, <1>13,
     <1>14, <1>15, <1>16, <1>17, <1>18, <1>19, <1>20, <1>21, <1>22, <1>23, <1>24, <1>25,
     <1>26, <1>27, <1>28, <1>29
  DEF Next, Reading, Fetching, Purging

\* A token gets its expiry before it can be cached.
LEMMA NextExpiry ==
  ASSUME TypeOK, ExpiryInv, [Next]_vars
  PROVE  ExpiryInv'
<1> USE TokenAssumption
<1>1. ASSUME NEW p \in Procs, LocalMiss(p)  PROVE ExpiryInv'
  BY <1>1 DEF LocalMiss, Goto, ExpiryInv, TypeOK, vars, tiers, sources, calls
<1>2. ASSUME NEW p \in Procs, RedisHit(p)  PROVE ExpiryInv'
  BY <1>2 DEF RedisHit, Goto, Fresh, ExpiryInv, TypeOK, vars, tiers, sources, calls
<1>3. ASSUME NEW p \in Procs, RedisMiss(p)  PROVE ExpiryInv'
  BY <1>3 DEF RedisMiss, Goto, ExpiryInv, TypeOK, vars, tiers, sources, calls
<1>4. ASSUME NEW p \in Procs, RedisDown(p)  PROVE ExpiryInv'
  <2>1. CASE FailOpen
    BY <1>4, <2>1 DEF RedisDown, Goto, Return, ExpiryInv, TypeOK, vars, tiers, sources,
       calls
  <2>2. CASE ~(FailOpen)
    BY <1>4, <2>2 DEF RedisDown, Goto, Return, ExpiryInv, TypeOK, vars, tiers, sources,
       calls
  <2> QED  BY <2>1, <2>2
<1>5. ASSUME NEW p \in Procs, Adopt(p)  PROVE ExpiryInv'
  BY <1>5 DEF Adopt, Goto, Return, ExpiryInv, TypeOK, vars, tiers, sources, calls
<1>6. ASSUME NEW p \in Procs, Snapshot(p)  PROVE ExpiryInv'
  BY <1>6 DEF Snapshot, Goto, ExpiryInv, TypeOK, vars, tiers, sources, calls
<1>7. ASSUME NEW p \in Procs, Own(p)  PROVE ExpiryInv'
  BY <1>7 DEF Own, Goto, ExpiryInv, TypeOK, vars, tiers, sources, calls
<1>8. ASSUME NEW p \in Procs, Join(p)  PROVE ExpiryInv'
  BY <1>8 DEF Join, Goto, ExpiryInv, TypeOK, vars, tiers, sources, calls
<1>9. ASSUME NEW p \in Procs, JoinCancelled(p)  PROVE ExpiryInv'
  BY <1>9 DEF JoinCancelled, Goto, Return, ExpiryInv, TypeOK, vars, tiers, sources, calls
<1>10. ASSUME NEW p \in Procs, Reuse(p)  PROVE ExpiryInv'
  BY <1>10 DEF Reuse, Goto, ExpiryInv, TypeOK, vars, tiers, sources, calls
<1>11. ASSUME NEW p \in Procs, Ask(p)  PROVE ExpiryInv'
  BY <1>11 DEF Ask, Goto, ExpiryInv, TypeOK, vars, tiers, sources, calls
<1>12. ASSUME NEW p \in Procs, Issue(p)  PROVE ExpiryInv'
  BY <1>12 DEF Issue, Goto, ExpiryInv, TypeOK, vars, tiers, sources, calls
<1>13. ASSUME NEW p \in Procs, FetchFails(p)  PROVE ExpiryInv'
  <2>1. CASE tries[p] < MaxRetries
    BY <1>13, <2>1 DEF FetchFails, Goto, ExpiryInv, TypeOK, vars, tiers, sources, calls
  <2>2. CASE ~(tries[p] < MaxRetries)
    BY <1>13, <2>2 DEF FetchFails, Goto, ExpiryInv, TypeOK, vars, tiers, sources, calls
  <2> QED  BY <2>1, <2>2
<1>14. ASSUME NEW p \in Procs, FetchRefused(p)  PROVE ExpiryInv'
  BY <1>14 DEF FetchRefused, Goto, ExpiryInv, TypeOK, vars, tiers, sources, calls
<1>15. ASSUME NEW p \in Procs, Backoff(p)  PROVE ExpiryInv'
  BY <1>15 DEF Backoff, Goto, ExpiryInv, TypeOK, vars, tiers, sources, calls
<1>16. ASSUME NEW p \in Procs, Clear(p)  PROVE ExpiryInv'
  BY <1>16 DEF Clear, Goto, ExpiryInv, TypeOK, vars, tiers, sources, calls
<1>17. ASSUME NEW p \in Procs, Close(p)  PROVE ExpiryInv'
  BY <1>17 DEF Close, Waiting, ExpiryInv, TypeOK, vars, tiers, sources, calls
<1>18. ASSUME NEW p \in Procs, FetchError(p)  PROVE ExpiryInv'
  BY <1>18 DEF FetchError, Goto, Return, ExpiryInv, TypeOK, vars, tiers, sources, calls
<1>19. ASSUME NEW p \in Procs, Stale(p)  PROVE ExpiryInv'
  BY <1>19 DEF Stale, Goto, Return, ExpiryInv, TypeOK, vars, tiers, sources, calls
<1>20. ASSUME NEW p \in Procs, NotStale(p)  PROVE ExpiryInv'
  <2>1. tok[p] \in Tokens
    BY <1>20 DEF NotStale, TypeOK
  <2>2. Bounded(tok[p]) # NoToken /\ Bounded(tok[p]).exp # 0
    BY <2>1, BoundedType
  <2> QED  BY <1>20, <2>2 DEF NotStale, Goto, ExpiryInv, TypeOK, vars, tiers, sources, calls
<1>21. ASSUME NEW p \in Procs, SetLocal(p)  PROVE ExpiryInv'
  <2>1. CASE WithRedis
    BY <1>21, <2>1 DEF SetLocal, Goto, Return, ExpiryInv, TypeOK, vars, tiers, sources,
       calls
  <2>2. CASE ~(WithRedis)
    BY <1>21, <2>2 DEF SetLocal, Goto, Return, ExpiryInv, TypeOK, vars, tiers, sources,
       calls
  <2> QED  BY <2>1, <2>2
<1>22. ASSUME NEW p \in Procs, Save(p)  PROVE ExpiryInv'
  BY <1>22 DEF Save, Goto, Return, ExpiryInv, TypeOK, vars, tiers, sources, calls
<1>23. ASSUME NEW p \in Procs, PurgeLocal(p)  PROVE ExpiryInv'
  BY <1>23 DEF PurgeLocal, Goto, ExpiryInv, TypeOK, vars, tiers, sources, calls
<1>24. ASSUME NEW p \in Procs, PurgeSource(p)  PROVE ExpiryInv'
  BY <1>24 DEF PurgeSource, Goto, ExpiryInv, TypeOK, vars, tiers, sources, calls
<1>25. ASSUME NEW p \in Procs, PurgeRedis(p)  PROVE ExpiryInv'
  BY <1>25 DEF PurgeRedis, Goto, ExpiryInv, TypeOK, vars, tiers, sources, calls
<1>26. CASE LocalHit
  BY <1>26 DEF LocalHit, ExpiryInv, TypeOK, vars, tiers, sources, calls
<1>27. CASE OtherReplicaSaves
  <2>1. PICK life \in Lifetimes \ {0} : redis'.exp = now + life
    BY <1>27 DEF OtherReplicaSaves
  <2>2. redis'.exp # 0
    BY <2>1 DEF TypeOK, TokenAssumption
  <2> QED  BY <1>27, <2>2 DEF OtherReplicaSaves, ExpiryInv, TypeOK, vars, tiers, sources,
     calls
<1>28. CASE Tick
  BY <1>28 DEF Tick, ExpiryInv, TypeOK, vars, tiers, sources, calls
<1>29. CASE UNCHANGED vars
  BY <1>29 DEF ExpiryInv, TypeOK, vars, tiers, sources, calls
<1> QED
  BY <1>1, <1>2, <1>3, <1>4, <1>5, <1>6, <1>7, <1>8, <1>9, <1>10, <1>11, <1>12, <1>13,
     <1>14, <1>15, <1>16, <1>17, <1>18, <1>19, <1>20, <1>21, <1>22, <1>23, <1>24, <1>25,
     <1>26, <1>27, <1>28, <1>29
  DEF Next, Reading, Fetching, Purging
----------------------------------------------------------------------------

TokenInv ==
    /\ TypeOK /\ PurgeInv /\ FlightInv /\ SnapInv /\ JoinerHasOwner
    /\ SourceInv /\ ThriftInv /\ ExpiryInv

\* The invariant holds initially.
LEMMA InitInv == Init => TokenInv
<1> SUFFICES ASSUME Init  PROVE TokenInv
  OBVIOUS
<1> USE TokenAssumption
<1>1. TypeOK
  BY DEF Init, TypeOK, Gens, Pcs, OwnerPcs, TokenAssumption
<1>2. PurgeInv
  <2>1. Pending = {}
    BY DEF Init, Pending
  <2> QED  BY <2>1, FS_EmptySet DEF Init, PurgeInv, TokenAssumption
<1>3. FlightInv /\ SnapInv /\ JoinerHasOwner
  BY DEF Init, FlightInv, SnapInv, JoinerHasOwner, FetchPcs, OwnerPcs
<1>4. SourceInv /\ ThriftInv /\ ExpiryInv
  BY DEF Init, SourceInv, ThriftInv, ExpiryInv, EmptyHanded
<1> QED  BY <1>1, <1>2, <1>3, <1>4 DEF TokenInv

\* Every step keeps the invariant.
LEMMA NextInv == TokenInv /\ [Next]_vars => TokenInv'
  BY NextType, NextPurge, NextFlight, NextSnap, NextJoiner, NextSource, NextThrift,
     NextExpiry
  DEF TokenInv

\* The invariant holds throughout.
LEMMA InvAlways == Spec => []TokenInv
  BY InitInv, NextInv, PTL DEF Spec

\* Every variable of the provider keeps its type, whatever the number of goroutines,
\* purges, retries and tokens.
THEOREM TokenTypes == Spec => []TypeOK
<1>1. TokenInv => TypeOK
  BY DEF TokenInv
<1> QED  BY <1>1, InvAlways, PTL

\* resilientTokenSource.Token: a source is fetched from by one goroutine at a time,
\* and everyone who waits, waits for a goroutine that will still close done.
THEOREM FetchShared == Spec => [](SingleFlight /\ JoinerHasOwner)
<1>1. TokenInv => SingleFlight
  BY TokenAssumption DEF TokenInv, TypeOK, FlightInv, SingleFlight, TokenAssumption
<1>2. TokenInv => JoinerHasOwner
  BY DEF TokenInv
<1> QED  BY <1>1, <1>2, InvAlways, PTL

\* The staleness check of Token lets no token through that a source from before
\* the last purge fetched, also when the fetch was joined or its token reused.
THEOREM PurgeFence == Spec => StaleRecognised
<1> DEFINE Fence == \A p \in Procs : (pc[p] = "fetched" /\ pc'[p] = "setlocal") => tok[p].src = inner
<1>1. TokenInv /\ [Next]_vars => Fence
  <2> SUFFICES ASSUME TokenInv, [Next]_vars, NEW q \in Procs,
                      pc[q] = "fetched", pc'[q] = "setlocal"
               PROVE  tok[q].src = inner
    OBVIOUS
  <2>1. NotStale(q)
    <3>1. ASSUME NEW p \in Procs, LocalMiss(p)  PROVE NotStale(q)
      BY <3>1 DEF LocalMiss, Goto, TokenInv, TypeOK
    <3>2. ASSUME NEW p \in Procs, RedisHit(p)  PROVE NotStale(q)
      BY <3>2 DEF RedisHit, Goto, TokenInv, TypeOK
    <3>3. ASSUME NEW p \in Procs, RedisMiss(p)  PROVE NotStale(q)
      BY <3>3 DEF RedisMiss, Goto, TokenInv, TypeOK
    <3>4. ASSUME NEW p \in Procs, RedisDown(p)  PROVE NotStale(q)
      BY <3>4 DEF RedisDown, Goto, Return, TokenInv, TypeOK
    <3>5. ASSUME NEW p \in Procs, Adopt(p)  PROVE NotStale(q)
      BY <3>5 DEF Adopt, Goto, Return, TokenInv, TypeOK
    <3>6. ASSUME NEW p \in Procs, Snapshot(p)  PROVE NotStale(q)
      BY <3>6 DEF Snapshot, Goto, TokenInv, TypeOK
    <3>7. ASSUME NEW p \in Procs, Own(p)  PROVE NotStale(q)
      BY <3>7 DEF Own, Goto, TokenInv, TypeOK
    <3>8. ASSUME NEW p \in Procs, Join(p)  PROVE NotStale(q)
      BY <3>8 DEF Join, Goto, TokenInv, TypeOK
    <3>9. ASSUME NEW p \in Procs, JoinCancelled(p)  PROVE NotStale(q)
      BY <3>9 DEF JoinCancelled, Goto, Return, TokenInv, TypeOK
    <3>10. ASSUME NEW p \in Procs, Reuse(p)  PROVE NotStale(q)
      BY <3>10 DEF Reuse, Goto, TokenInv, TypeOK
    <3>11. ASSUME NEW p \in Procs, Ask(p)  PROVE NotStale(q)
      BY <3>11 DEF Ask, Goto, TokenInv, TypeOK
    <3>12. ASSUME NEW p \in Procs, Issue(p)  PROVE NotStale(q)
      BY <3>12 DEF Issue, Goto, TokenInv, TypeOK
    <3>13. ASSUME NEW p \in Procs, FetchFails(p)  PROVE NotStale(q)
      BY <3>13 DEF FetchFails, Goto, TokenInv, TypeOK
    <3>14. ASSUME NEW p \in Procs, FetchRefused(p)  PROVE NotStale(q)
      BY <3>14 DEF FetchRefused, Goto, TokenInv, TypeOK
    <3>15. ASSUME NEW p \in Procs, Backoff(p)  PROVE NotStale(q)
      BY <3>15 DEF Backoff, Goto, TokenInv, TypeOK
    <3>16. ASSUME NEW p \in Procs, Clear(p)  PROVE NotStale(q)
      BY <3>16 DEF Clear, Goto, TokenInv, TypeOK
    <3>17. ASSUME NEW p \in Procs, Close(p)  PROVE NotStale(q)
      BY <3>17 DEF Close, Waiting, TokenInv, TypeOK
    <3>18. ASSUME NEW p \in Procs, FetchError(p)  PROVE NotStale(q)
      BY <3>18 DEF FetchError, Goto, Return, TokenInv, TypeOK
    <3>19. ASSUME NEW p \in Procs, Stale(p)  PROVE NotStale(q)
      BY <3>19 DEF Stale, Goto, Return, TokenInv, TypeOK
    <3>20. ASSUME NEW p \in Procs, NotStale(p)  PROVE NotStale(q)
      BY <3>20 DEF NotStale, Goto, TokenInv, TypeOK
    <3>21. ASSUME NEW p \in Procs, SetLocal(p)  PROVE NotStale(q)
      BY <3>21 DEF SetLocal, Goto, Return, TokenInv, TypeOK
    <3>22. ASSUME NEW p \in Procs, Save(p)  PROVE NotStale(q)
      BY <3>22 DEF Save, Goto, Return, TokenInv, TypeOK
    <3>23. ASSUME NEW p \in Procs, PurgeLocal(p)  PROVE NotStale(q)
      BY <3>23 DEF PurgeLocal, Goto, TokenInv, TypeOK
    <3>24. ASSUME NEW p \in Procs, PurgeSource(p)  PROVE NotStale(q)
      BY <3>24 DEF PurgeSource, Goto, TokenInv, TypeOK
    <3>25. ASSUME NEW p \in Procs, PurgeRedis(p)  PROVE NotStale(q)
      BY <3>25 DEF PurgeRedis, Goto, TokenInv, TypeOK
    <3>26. CASE LocalHit
      BY <3>26 DEF LocalHit, vars
    <3>27. CASE OtherReplicaSaves
      BY <3>27 DEF OtherReplicaSaves, vars
    <3>28. CASE Tick
      BY <3>28 DEF Tick, vars
    <3>29. CASE UNCHANGED vars
      BY <3>29 DEF vars
    <3> QED
      BY <3>1, <3>2, <3>3, <3>4, <3>5, <3>6, <3>7, <3>8, <3>9, <3>10, <3>11, <3>12,
         <3>13, <3>14, <3>15, <3>16, <3>17, <3>18, <3>19, <3>20, <3>21, <3>22, <3>23,
         <3>24, <3>25, <3>26, <3>27, <3>28, <3>29
      DEF Next, Reading, Fetching, Purging
  <2> QED
    BY <2>1 DEF NotStale, Current, TokenInv, PurgeInv, SnapInv, FetchPcs, SourceInv
<1> QED  BY <1>1, InvAlways, PTL DEF Spec, StaleRecognised

\* A source asks the endpoint for a token only when all it was issued are used up,
\* so requests that missed the cache together cost one token request.
THEOREM TokensThrifty == Spec => OneTokenPerSource
<1>1. TokenInv /\ [Next]_vars =>
        \A p \in Procs : (pc[p] = "fetch" /\ issued' # issued /\ pc'[p] = "clear") =>
          \A t \in issued : t.own /\ t.src = snap[p].src => ~Fresh(t)
  BY DEF TokenInv, ThriftInv
<1> QED  BY <1>1, InvAlways, PTL DEF Spec, OneTokenPerSource

\* No tier ever holds a token without an expiry.
THEOREM TiersExpire == Spec => []NoEternalEntry
<1>1. TokenInv => NoEternalEntry
  BY DEF TokenInv, ExpiryInv, NoEternalEntry
<1> QED  BY <1>1, InvAlways, PTL
=============================================================================
