-------------------------- MODULE LocalAsyncProofs --------------------------
(***************************************************************************)
(* Proofs about LocalAsyncLimiter for every number of keys, requests,      *)
(* stripes, every budget, chunk size, capacity and limit.  The first part  *)
(* is about the locks, the map and the flushes; the second is the          *)
(* accounting: no token granted in a running window is lost on its way to  *)
(* Redis, and in a window without evictions each is counted once.  There   *)
(* the sums over the entries of a batch go by induction on its length.     *)
(***************************************************************************)
EXTENDS LocalAsyncLimiter, SequenceTheorems, FiniteSetTheorems, WellFoundedInduction, TLAPS

\* Who holds flushMu, and which goroutine is inside a flush because of it.
LockInv ==
    /\ \A p \in Flushers : fl[p].step # "none" <=> flushMu = p
    /\ wpc = "flush" <=> flushMu = "worker"
    /\ cpc = "flush" <=> flushMu = "closer"
    /\ cpc \in {"drain", "flush"} => rounds >= 1

\* The replies of a flush cover its batch once it is applied.
BatchInv ==
    \A p \in Flushers :
        /\ fl[p].sent <= Len(fl[p].res)
        /\ fl[p].step = "snapshot" => fl[p].sent = 0
        /\ fl[p].step \in {"exec", "apply", "expire"} => fl[p].sent <= Len(fl[p].batch)
        /\ fl[p].step \in {"apply", "expire"} => Len(fl[p].res) = Len(fl[p].batch)

\* A failed command leaves work behind, and only a fail-closed limiter is down.
OutcomeInv ==
    /\ \A p \in Flushers : fl[p].tickErr => fl[p].more
    /\ redisDown => ~FailOpen

-----------------------------------------------------------------------------

\* The window of a clock value within the bound is one of the windows.
LEMMA WindowType == ASSUME NEW t \in 0..MaxTime PROVE WindowStart(t) \in Windows
  BY DEF Windows

\* A state that is not absent, or that owes something, is a state of a window.
LEMMA StateType ==
  ASSUME NEW k \in Keys, states \in [Keys -> LocalState \cup {NoState}],
         Present(states, k) \/ states[k].localDelta # 0
  PROVE  states[k] \in LocalState
  BY DEF Present, NoState

\* A delta is a natural number whether or not the key has a state.
LEMMA DeltaType ==
  ASSUME NEW k \in Keys, states \in [Keys -> LocalState \cup {NoState}]
  PROVE  states[k].localDelta \in Nat
  BY DEF LocalState, NoState

\* The empty flush is well typed.
LEMMA NoFlushType == NoFlush \in FlushLocals
<1>1. 0 \in 0..NumStripes /\ 0 \in 0..Budget /\ 0 \in 0..MaxTime
  BY LocalAsyncAssumption
<1>2. <<>> \in Seq(PendingFlush) /\ <<>> \in Seq(Reply)
  OBVIOUS
<1> QED  BY <1>1, <1>2 DEF NoFlush, FlushLocals

\* The idle request is well typed.
LEMMA NoRequestType ==
  NoRequest \in RequestState
<1>1. (CHOOSE k \in Keys : TRUE) \in Keys
  BY LocalAsyncAssumption
<1>2. 0 \in 0..MaxTime
  BY LocalAsyncAssumption
<1>3. 0 \in Windows
  <2>1. WindowStart(0) = 0
    BY LocalAsyncAssumption DEF WindowStart
  <2> QED  BY <1>2, <2>1, WindowType
<1> QED  BY <1>1, <1>2, <1>3 DEF NoRequest, RequestState

\* Counting n more of a key's window.
LEMMA CountType ==
  ASSUME NEW f \in Counts, NEW k \in Keys, NEW w \in Windows,
         NEW n \in Nat
  PROVE  [f EXCEPT ![k][w] = @ + n] \in Counts
<1>1. [f[k] EXCEPT ![w] = @ + n] \in [Windows -> Nat]
  BY DEF Counts
<1> QED  BY <1>1 DEF Counts

\* An empty stripe list and a set of expired keys keep the states well typed.
LEMMA RemoveType ==
  ASSUME NEW K \in SUBSET Keys, states \in [Keys -> LocalState \cup {NoState}]
  PROVE  Remove(states, K) \in [Keys -> LocalState \cup {NoState}]
  BY DEF Remove

-----------------------------------------------------------------------------
(* Type correctness, action by action.                                      *)

\* The initial state is well typed and has no flush in it.
LEMMA InitOK == Init => TypeOK /\ LockInv /\ BatchInv /\ OutcomeInv
<1> SUFFICES ASSUME Init PROVE TypeOK /\ LockInv /\ BatchInv /\ OutcomeInv
  OBVIOUS
<1>1. TypeOK
  <2>1. fl \in [Flushers -> FlushLocals]
    BY NoFlushType DEF Init
  <2>2. req \in [Reqs -> RequestState]
    BY NoRequestType DEF Init
  <2>3. evicted \in [StripeIds -> Seq(PendingFlush)] /\ flushCursor \in StripeIds
    BY LocalAsyncAssumption DEF Init, StripeIds
  <2>4. now \in 0..MaxTime /\ failStreak \in 0..FailClosedThreshold
        /\ rounds \in 0..(NumStripes + 1)
    BY LocalAsyncAssumption DEF Init
  <2> QED  BY <2>1, <2>2, <2>3, <2>4 DEF Init, TypeOK, Flushers, Counts
<1>2. LockInv /\ BatchInv /\ OutcomeInv
  BY DEF Init, LockInv, BatchInv, OutcomeInv, NoFlush, Flushers
<1> QED  BY <1>1, <1>2

\* The clock, Redis and the other replicas.
LEMMA EnvironmentType == TypeOK /\ Environment => TypeOK'
<1> SUFFICES ASSUME TypeOK, Environment PROVE TypeOK'
  OBVIOUS
<1> USE DEF local, wake, health, flush, server, history
<1>1. CASE AdvanceClock
  <2>1. now' \in 0..MaxTime
    BY <1>1, LocalAsyncAssumption DEF AdvanceClock, TypeOK
  <2> QED  BY <1>1, <2>1 DEF AdvanceClock, TypeOK
<1>2. CASE RedisToggle
  BY <1>2 DEF RedisToggle, TypeOK
<1>3. ASSUME NEW k \in Keys, OtherReplica(k) PROVE TypeOK'
  <2>1. WindowStart(now) \in Windows
    BY WindowType DEF TypeOK
  <2>2. redis' \in Counts /\ other' \in Counts
    BY <1>3, <2>1, CountType DEF OtherReplica, TypeOK
  <2>3. ttl' \subseteq Keys \X Windows
    BY <1>3, <2>1 DEF OtherReplica, TypeOK
  <2> QED  BY <1>3, <2>2, <2>3 DEF OtherReplica, TypeOK
<1>4. ASSUME NEW k \in Keys, NEW w \in Windows, RedisExpires(k, w) PROVE TypeOK'
  <2>1. redis' \in Counts
    BY <1>4 DEF RedisExpires, TypeOK, Counts
  <2> QED  BY <1>4, <2>1 DEF RedisExpires, TypeOK
<1> QED  BY <1>1, <1>2, <1>3, <1>4 DEF Environment

\* AllowN, outside the decision.
LEMMA RequestType ==
  ASSUME TypeOK, NEW r \in Reqs,
         \/ \E k \in Keys, n \in Costs : AllowNReadClock(r, k, n)
         \/ AllowNEnqueue(r) \/ AllowNMarkActive(r)
  PROVE  TypeOK'
<1> USE DEF local, wake, health, flush, server, history
<1>1. ASSUME NEW k \in Keys, NEW n \in Costs, AllowNReadClock(r, k, n) PROVE TypeOK'
  <2>1. WindowStart(now) \in Windows /\ n \in Nat
    BY WindowType, LocalAsyncAssumption DEF TypeOK
  <2>2. req' \in [Reqs -> RequestState]
    BY <1>1, <2>1 DEF AllowNReadClock, TypeOK, RequestState
  <2> QED  BY <1>1, <2>2 DEF AllowNReadClock, TypeOK
<1>2. CASE AllowNEnqueue(r)
  <2>1. req' \in [Reqs -> RequestState]
    BY <1>2, NoRequestType, Zenon DEF AllowNEnqueue, Enqueued, TypeOK, RequestState
  <2> QED  BY <1>2, <2>1 DEF AllowNEnqueue, TypeOK
<1>3. CASE AllowNMarkActive(r)
  BY <1>3, NoRequestType DEF AllowNMarkActive, TypeOK
<1> QED  BY <1>1, <1>2, <1>3

\* The decision of AllowN, with its evictions.
LEMMA DecideType == ASSUME TypeOK, NEW r \in Reqs, AllowNDecide(r) PROVE TypeOK'
<1> USE DEF local, wake, health, flush, server, history
<1> DEFINE k == req[r].key
           n == req[r].n
           ws == req[r].ws
           s == StripeOf[k]
           found == Present(states, k)
           same == found /\ states[k].windowStart = ws
           st == IF same THEN states[k] ELSE FreshState(ws)
           decision == Decision(st, n)
<1>1. k \in Keys /\ n \in Nat /\ ws \in Windows /\ s \in StripeIds
  BY LocalAsyncAssumption DEF TypeOK, StripeIds, RequestState
<1>2. st \in LocalState
  <2>1. FreshState(ws) \in LocalState
    BY <1>1 DEF FreshState, NoState, LocalState
  <2> QED  BY <1>1, <2>1, StateType DEF TypeOK
<1>3. PICK e \in IF found THEN {[gone |-> {}, victim |-> {}]} ELSE Evictions(s, req[r].now) :
        LET pending == CarryOut(evicted[s], e)
            kept == Remove(states, e.gone)
            drops == DropVictim(evicted[s], e)
        IN
        /\ evicted' = [evicted EXCEPT ![s] = pending]
        /\ states' = [kept EXCEPT ![k] =
                        IF decision = "allow" THEN [st EXCEPT !.localDelta = @ + n]
                        ELSE IF decision = "latch-deny" THEN [st EXCEPT !.blocked = TRUE]
                        ELSE st]
        /\ dirty' = (dirty \ e.gone) \cup (IF decision = "allow" /\ n > 0 THEN {k} ELSE {})
        /\ admitted' = IF decision = "allow" THEN [admitted EXCEPT ![k][ws] = @ + n]
                       ELSE admitted
        /\ dropped' = IF found /\ ~same
                      THEN AddDropped(drops, k, states[k].windowStart, states[k].localDelta)
                      ELSE drops
        /\ req' = [req EXCEPT ![r] = IF NeedEnqueue(pending, decision, n)
                                     THEN [@ EXCEPT !.pc = "enqueue"] ELSE NoRequest]
  BY Zenon DEF AllowNDecide
<1>4. e.gone \subseteq Keys /\ e.victim \subseteq Keys
  <2>1. KeysOf(s) \subseteq Keys
    BY DEF KeysOf
  <2>2. CASE found
    BY <1>3, <2>2
  <2>3. CASE ~found
    <3>1. e \in Evictions(s, req[r].now)
      BY <1>3, <2>3
    <3>2. ExpiredStates(states, s, req[r].now) \subseteq Keys
      BY <2>1 DEF ExpiredStates
    <3>3. \A S : \A v \in Victims(states, S) : v \in S
      BY DEF Victims
    <3> QED  BY <2>1, <3>1, <3>2, <3>3 DEF Evictions
  <2> QED  BY <2>2, <2>3
<1>5. evicted' \in [StripeIds -> Seq(PendingFlush)]
  <2>1. evicted[s] \in Seq(PendingFlush)
    BY <1>1 DEF TypeOK
  <2>2. CarryOut(evicted[s], e) \in Seq(PendingFlush)
    <3> DEFINE owing == {v \in e.victim : states[v].localDelta > 0}
               v == CHOOSE x \in owing : TRUE
    <3>1. CASE owing = {} \/ Len(evicted[s]) >= 2 * StripeCap
      BY <2>1, <3>1 DEF CarryOut
    <3>2. CASE ~(owing = {} \/ Len(evicted[s]) >= 2 * StripeCap)
      <4>1. v \in owing
        BY <3>2
      <4>2. v \in Keys /\ states[v] \in LocalState
        <5>1. v \in Keys
          BY <1>4, <4>1
        <5>2. states[v].localDelta # 0
          BY <4>1, <5>1, DeltaType DEF TypeOK
        <5> QED  BY <5>1, <5>2, StateType DEF TypeOK
      <4>3. [key |-> v, flushN |-> states[v].localDelta, ws |-> states[v].windowStart,
             evicted |-> TRUE] \in PendingFlush
        BY <4>2 DEF PendingFlush, LocalState
      <4> QED  BY <2>1, <3>2, <4>3, AppendProperties DEF CarryOut
    <3> QED  BY <3>1, <3>2
  <2> QED  BY <1>1, <1>3, <2>2 DEF TypeOK
<1>6. states' \in [Keys -> LocalState \cup {NoState}]
  <2>1. Remove(states, e.gone) \in [Keys -> LocalState \cup {NoState}]
    BY <1>4, RemoveType DEF TypeOK
  <2>2. [st EXCEPT !.localDelta = @ + n] \in LocalState
    BY <1>1, <1>2 DEF LocalState
  <2>3. [st EXCEPT !.blocked = TRUE] \in LocalState
    BY <1>2 DEF LocalState
  <2> QED  BY <1>1, <1>2, <1>3, <2>1, <2>2, <2>3
<1>7. dirty' \subseteq Keys
  BY <1>1, <1>3 DEF TypeOK
<1>8. admitted' \in Counts
  <2>1. [admitted EXCEPT ![k][ws] = @ + n] \in Counts
    BY <1>1, CountType DEF TypeOK
  <2>2. admitted' = IF decision = "allow" THEN [admitted EXCEPT ![k][ws] = @ + n]
                    ELSE admitted
    BY <1>3
  <2> QED  BY <2>1, <2>2 DEF TypeOK
<1>9. dropped' \in Counts
  <2>1. \A x \in Keys : states[x].localDelta \in Nat
    BY DeltaType DEF TypeOK
  <2>2. DropVictim(evicted[s], e) \in Counts
    <3>1. \A x \in Keys, w \in Windows :
            dropped[x][w] \in Nat /\ dropped[x][w] + states[x].localDelta \in Nat
      <4>1. dropped \in Counts
        BY DEF TypeOK
      <4> QED  BY <2>1, <4>1 DEF Counts
    <3>2. \A x \in Keys, w \in Windows :
            (IF x \in e.victim /\ states[x].windowStart = w
             THEN dropped[x][w] + states[x].localDelta ELSE dropped[x][w]) \in Nat
      BY <3>1
    <3> QED  BY <3>2 DEF DropVictim, TypeOK, Counts
  <2>3. found => states[k] \in LocalState
    BY <1>1, StateType DEF TypeOK
  <2>4. found => states[k].windowStart \in Windows
    BY <2>3 DEF LocalState
  <2>5. found => AddDropped(DropVictim(evicted[s], e), k, states[k].windowStart,
                            states[k].localDelta) \in Counts
    BY <1>1, <2>1, <2>2, <2>4, CountType DEF AddDropped
  <2>6. dropped' = IF found /\ ~same
                   THEN AddDropped(DropVictim(evicted[s], e), k, states[k].windowStart,
                                   states[k].localDelta)
                   ELSE DropVictim(evicted[s], e)
    BY <1>3
  <2> QED  BY <2>2, <2>5, <2>6
<1>10. req' \in [Reqs -> RequestState]
  BY <1>3, NoRequestType DEF TypeOK, RequestState
<1> QED
  BY <1>5, <1>6, <1>7, <1>8, <1>9, <1>10, ZenonT(30) DEF AllowNDecide, TypeOK

\* The stripe a snapshot visits is a stripe.
LEMMA StripeAtType ==
  ASSUME flushCursor \in StripeIds, NEW i \in Nat PROVE StripeAt(i) \in StripeIds
<1>1. \A a, b : a \in Nat /\ b \in Nat \ {0} => a % b \in 0..(b - 1)
  OBVIOUS
<1>2. flushCursor + i \in Nat
  BY LocalAsyncAssumption DEF StripeIds
<1> QED  BY <1>1, <1>2, LocalAsyncAssumption DEF StripeAt, StripeIds

\* The next start of the snapshot is a stripe.
LEMMA CursorType == ASSUME flushCursor \in StripeIds PROVE NextCursor \in StripeIds
  BY StripeAtType DEF StripeAt, NextCursor

\* A function on an initial segment is a sequence of that length.
LEMMA FunctionIsSeq ==
  ASSUME NEW n \in Nat, NEW S, NEW f \in [1..n -> S]
  PROVE  f \in Seq(S) /\ Len(f) = n
<1>1. f \in Seq(S)
  BY SeqDef
<1> QED  BY <1>1

\* An ordering of a finite set lists exactly its elements.
LEMMA OrderingType ==
  ASSUME NEW S, IsFiniteSet(S), NEW order \in Orderings(S)
  PROVE  order \in Seq(S) /\ Len(order) = Cardinality(S)
<1>1. Cardinality(S) \in Nat
  BY FS_CardinalityType
<1>2. order \in [1..Cardinality(S) -> S]
  BY DEF Orderings
<1>3. order \in Seq(S)
  BY <1>1, <1>2
<1> QED  BY <1>1, <1>2, <1>3

\* One stripe of the snapshot.
LEMMA SnapshotType == ASSUME TypeOK, NEW p \in Flushers, SnapshotStripe(p) PROVE TypeOK'
<1> USE DEF local, wake, health, flush, server, history
<1> DEFINE s == StripeAt(fl[p].i)
           take == MinOf(Len(evicted[s]), fl[p].budget)
           b == fl[p].budget - take
           D == dirty \cap KeysOf(s)
           old == ExpiredStates(states, s, fl[p].now)
<1>1. fl[p] \in FlushLocals /\ fl \in [Flushers -> FlushLocals]
  BY DEF TypeOK
<1>2. s \in StripeIds /\ fl[p].i \in 0..NumStripes
  BY <1>1, StripeAtType, LocalAsyncAssumption DEF TypeOK, FlushLocals
<1>3. evicted[s] \in Seq(PendingFlush) /\ evicted \in [StripeIds -> Seq(PendingFlush)]
  BY <1>2 DEF TypeOK
<1>4. take \in Nat /\ take <= Len(evicted[s]) /\ b \in 0..Budget
  BY <1>1, <1>3, LocalAsyncAssumption DEF MinOf, FlushLocals
<1>5. SubSeq(evicted[s], 1, take) \in Seq(PendingFlush)
  BY <1>3, <1>4, SubSeqProperties
<1>6. SubSeq(evicted[s], take + 1, Len(evicted[s])) \in Seq(PendingFlush)
  BY <1>3, <1>4, SubSeqProperties
<1>7. PICK V \in Visits(D, b) : \E order \in Orderings({k \in V : states[k].localDelta # 0}) :
        /\ dirty' = dirty \ (V \cup old)
        /\ fl' = [fl EXCEPT ![p] = [fl[p] EXCEPT
             !.batch = fl[p].batch \o SubSeq(evicted[s], 1, take)
                         \o [j \in 1..Len(order) |-> PendingOf(order[j])],
             !.budget = b - Len(order),
             !.more = fl[p].more \/ take < Len(evicted[s]) \/ V # D,
             !.i = fl[p].i + 1]]
  BY Zenon DEF SnapshotStripe
<1> DEFINE live == {k \in V : states[k].localDelta # 0}
<1>8. live \subseteq Keys /\ IsFiniteSet(live) /\ Cardinality(live) <= b
  <2>1. V \subseteq Keys /\ Cardinality(live) <= b
    BY <1>7 DEF Visits, TypeOK
  <2> QED  BY <2>1, FS_Subset, LocalAsyncAssumption
<1>9. PICK order \in Orderings(live) :
        fl' = [fl EXCEPT ![p] = [fl[p] EXCEPT
             !.batch = fl[p].batch \o SubSeq(evicted[s], 1, take)
                         \o [j \in 1..Len(order) |-> PendingOf(order[j])],
             !.budget = b - Len(order),
             !.more = fl[p].more \/ take < Len(evicted[s]) \/ V # D,
             !.i = fl[p].i + 1]]
  BY <1>7, Zenon
<1>10. order \in Seq(live) /\ Len(order) = Cardinality(live) /\ Len(order) \in Nat
  BY <1>8, <1>9, OrderingType, FS_CardinalityType
<1> DEFINE listed == [j \in 1..Len(order) |-> PendingOf(order[j])]
<1>11. listed \in Seq(PendingFlush)
  <2>1. \A j \in 1..Len(order) : PendingOf(order[j]) \in PendingFlush
    <3> SUFFICES ASSUME NEW j \in 1..Len(order) PROVE PendingOf(order[j]) \in PendingFlush
      OBVIOUS
    <3>1. order[j] \in live
      BY <1>10
    <3>2. order[j] \in Keys /\ states[order[j]] \in LocalState
      BY <1>8, <3>1, StateType DEF TypeOK
    <3> QED  BY <3>2 DEF PendingOf, PendingFlush, LocalState
  <2>2. listed \in [1..Len(order) -> PendingFlush]
    BY <2>1
  <2> HIDE DEF listed
  <2> QED  BY <1>10, <2>2, FunctionIsSeq
<1>12. fl' \in [Flushers -> FlushLocals]
  <2> DEFINE batch == (fl[p].batch \o SubSeq(evicted[s], 1, take)) \o listed
             more == fl[p].more \/ take < Len(evicted[s]) \/ V # D
  <2>1. batch \in Seq(PendingFlush)
    <3>1. fl[p].batch \in Seq(PendingFlush)
      BY <1>1 DEF FlushLocals
    <3>2. fl[p].batch \o SubSeq(evicted[s], 1, take) \in Seq(PendingFlush)
      BY <1>5, <3>1, ConcatProperties
    <3> QED  BY <1>11, <3>2, ConcatProperties
  <2>2. b - Len(order) \in 0..Budget
    BY <1>4, <1>8, <1>10, LocalAsyncAssumption
  <2>3. fl[p].i + 1 \in 0..NumStripes
    <3>1. fl[p].i < NumStripes
      BY DEF SnapshotStripe
    <3> QED  BY <1>2, <3>1, LocalAsyncAssumption
  <2>4. more \in BOOLEAN
    BY <1>1 DEF FlushLocals
  <2> HIDE DEF batch, more
  <2>5. [fl[p] EXCEPT !.batch = batch, !.budget = b - Len(order), !.more = more,
                      !.i = fl[p].i + 1] \in FlushLocals
    BY <1>1, <2>1, <2>2, <2>3, <2>4 DEF FlushLocals
  <2>6. fl' = [fl EXCEPT ![p] = [fl[p] EXCEPT !.batch = batch, !.budget = b - Len(order),
                                              !.more = more, !.i = fl[p].i + 1]]
    BY <1>9, Zenon DEF batch, more
  <2> QED  BY <1>1, <2>5, <2>6
<1>13. dirty' \subseteq Keys
  BY <1>7 DEF TypeOK
<1>14. states' \in [Keys -> LocalState \cup {NoState}]
  <2>1. old \subseteq Keys
    BY DEF ExpiredStates, KeysOf
  <2> QED  BY <2>1, RemoveType DEF SnapshotStripe, TypeOK
<1>15. evicted' \in [StripeIds -> Seq(PendingFlush)]
  BY <1>2, <1>3, <1>6 DEF SnapshotStripe
<1> QED  BY <1>12, <1>13, <1>14, <1>15 DEF SnapshotStripe, TypeOK

\* Starting a flush.
LEMMA LockType ==
  ASSUME TypeOK, NEW p \in Flushers, LockFlush(p)
  PROVE  fl' \in [Flushers -> FlushLocals] /\ flushMu' \in Flushers \cup {"none"}
<1>1. Budget \in 0..Budget /\ now \in 0..MaxTime
  BY LocalAsyncAssumption DEF TypeOK
<1>2. [NoFlush EXCEPT !.step = "snapshot", !.budget = Budget, !.now = now] \in FlushLocals
  BY <1>1, NoFlushType DEF FlushLocals
<1> QED  BY <1>2 DEF LockFlush, TypeOK

\* Noting the outcome of a flush.
LEMMA NoteType ==
  ASSUME TypeOK, NEW err, NoteFlushOutcome(err)
  PROVE  redisDown' \in BOOLEAN /\ failStreak' \in 0..FailClosedThreshold
<1>1. failStreak' \in 0..FailClosedThreshold
  BY LocalAsyncAssumption DEF TypeOK, NoteFlushOutcome, MinOf
<1>2. redisDown' \in BOOLEAN
  BY DEF NoteFlushOutcome
<1> QED  BY <1>1, <1>2

\* Ending a flush.
LEMMA UnlockType ==
  ASSUME TypeOK, LockInv, NEW p \in Flushers, NEW more, Unlock(p, more),
         fl[p].step # "none"
  PROVE  /\ fl' \in [Flushers -> FlushLocals] /\ flushMu' \in Flushers \cup {"none"}
         /\ wpc' \in {"idle", "due", "flush", "requeue", "mark"}
         /\ cpc' \in {"open", "deregistered", "drain", "flush", "closed"}
         /\ rounds' \in 0..(NumStripes + 1)
<1>1. fl' \in [Flushers -> FlushLocals] /\ flushMu' \in Flushers \cup {"none"}
  BY NoFlushType DEF Unlock, TypeOK
<1>2. CASE p = "worker"
  <2>1. UNCHANGED <<cpc, rounds>> /\ wpc' = AfterFlush(more)
    BY <1>2 DEF Unlock
  <2> QED  BY <1>1, <2>1 DEF AfterFlush, TypeOK
<1>3. CASE p = "closer"
  <2>1. /\ cpc' = IF more /\ rounds > 1 THEN "drain" ELSE "closed"
        /\ rounds' = rounds - 1 /\ wpc' = wpc
    BY <1>3 DEF Unlock
  <2>2. cpc = "flush"
    BY <1>3 DEF LockInv, Flushers
  <2>3. rounds >= 1
    BY <2>2 DEF LockInv
  <2>4. rounds' \in 0..(NumStripes + 1)
    BY <2>1, <2>3, LocalAsyncAssumption DEF TypeOK
  <2> QED  BY <1>1, <2>1, <2>4 DEF TypeOK
<1> QED  BY <1>2, <1>3 DEF Flushers

\* The steps of a flush that touch neither Redis nor the states.
LEMMA QuietFlushType ==
  ASSUME TypeOK, LockInv, BatchInv, NEW p \in Flushers,
         SnapshotSpill(p) \/ SnapshotDone(p) \/ SnapshotEmpty(p) \/ ExecChunk(p)
         \/ ExecFails(p) \/ ApplyDone(p) \/ ExecExpire(p)
  PROVE  TypeOK'
<1> USE DEF local, wake, health, flush, server, history
<1>0. fl[p] \in FlushLocals /\ fl \in [Flushers -> FlushLocals]
  BY DEF TypeOK
<1>1. CASE SnapshotSpill(p)
  <2>0. NumStripes \in 0..NumStripes
    BY LocalAsyncAssumption
  <2>1. [fl[p] EXCEPT !.i = NumStripes, !.more = TRUE] \in FlushLocals
    BY <1>0, <2>0 DEF FlushLocals
  <2>2. fl' \in [Flushers -> FlushLocals]
    BY <1>0, <1>1, <2>1 DEF SnapshotSpill, Spill
  <2> QED  BY <1>1, <2>2 DEF SnapshotSpill, TypeOK
<1>2. CASE SnapshotDone(p)
  <2>1. [fl[p] EXCEPT !.step = "exec"] \in FlushLocals
    BY <1>0 DEF FlushLocals
  <2>2. fl' \in [Flushers -> FlushLocals]
    BY <1>0, <1>2, <2>1 DEF SnapshotDone
  <2>3. flushCursor' \in StripeIds
    BY <1>2, CursorType DEF SnapshotDone, TypeOK
  <2> QED  BY <1>2, <2>2, <2>3 DEF SnapshotDone, TypeOK
<1>3. CASE SnapshotEmpty(p)
  <2>1. fl[p].step # "none"
    BY <1>3 DEF SnapshotEmpty
  <2>2. PICK more : Unlock(p, more)
    BY <1>3 DEF SnapshotEmpty
  <2>3. redisDown' \in BOOLEAN /\ failStreak' \in 0..FailClosedThreshold
    BY <1>3, NoteType DEF SnapshotEmpty, TypeOK
  <2>4. flushCursor' \in StripeIds
    BY <1>3, CursorType DEF SnapshotEmpty, TypeOK
  <2>5. /\ fl' \in [Flushers -> FlushLocals] /\ flushMu' \in Flushers \cup {"none"}
        /\ wpc' \in {"idle", "due", "flush", "requeue", "mark"}
        /\ cpc' \in {"open", "deregistered", "drain", "flush", "closed"}
        /\ rounds' \in 0..(NumStripes + 1)
    BY <2>1, <2>2, UnlockType
  <2> QED  BY <1>3, <2>3, <2>4, <2>5 DEF SnapshotEmpty, TypeOK
<1>4. CASE ExecChunk(p)
  <2>1. ChunkEnd(p) \in Nat
    BY <1>0, LocalAsyncAssumption DEF ChunkEnd, MinOf, FlushLocals
  <2>2. [fl[p] EXCEPT !.sent = ChunkEnd(p),
                      !.step = IF ChunkEnd(p) = Len(fl[p].batch) THEN "apply" ELSE "exec"]
          \in FlushLocals
    BY <1>0, <2>1 DEF FlushLocals
  <2>3. fl' \in [Flushers -> FlushLocals]
    BY <1>0, <1>4, <2>2 DEF ExecChunk
  <2> QED  BY <1>4, <2>3 DEF ExecChunk, TypeOK
<1>5. CASE ExecFails(p)
  <2>1. /\ fl[p].batch \in Seq(PendingFlush) /\ fl[p].res \in Seq(Reply)
        /\ fl[p].sent \in Nat /\ fl[p].sent <= Len(fl[p].res) /\ Len(fl[p].batch) \in Nat
    BY <1>0 DEF FlushLocals, BatchInv
  <2>2. \A i \in 1..Len(fl[p].batch) :
          (IF i <= fl[p].sent THEN fl[p].res[i] ELSE [ok |-> FALSE, count |-> 0]) \in Reply
    <3> SUFFICES ASSUME NEW i \in 1..Len(fl[p].batch)
                 PROVE  (IF i <= fl[p].sent THEN fl[p].res[i]
                         ELSE [ok |-> FALSE, count |-> 0]) \in Reply
      OBVIOUS
    <3>1. CASE i <= fl[p].sent
      <4>1. i \in 1..Len(fl[p].res)
        BY <2>1, <3>1
      <4> QED  BY <2>1, <3>1, <4>1
    <3>2. CASE ~(i <= fl[p].sent)
      BY <3>2 DEF Reply
    <3> QED  BY <3>1, <3>2
  <2>3. TailFailed(p) \in [1..Len(fl[p].batch) -> Reply]
    BY <2>2 DEF TailFailed
  <2>4. TailFailed(p) \in Seq(Reply)
    BY <2>1, <2>3, FunctionIsSeq
  <2>5. [fl[p] EXCEPT !.res = TailFailed(p), !.step = "apply"] \in FlushLocals
    BY <1>0, <2>4 DEF FlushLocals
  <2>6. fl' \in [Flushers -> FlushLocals]
    BY <1>0, <1>5, <2>5 DEF ExecFails
  <2> QED  BY <1>5, <2>6 DEF ExecFails, TypeOK
<1>6. CASE ApplyDone(p)
  <2>1. [fl[p] EXCEPT !.step = "expire"] \in FlushLocals
    BY <1>0 DEF FlushLocals
  <2>2. fl' \in [Flushers -> FlushLocals]
    BY <1>0, <1>6, <2>1 DEF ApplyDone
  <2>3. redisDown' \in BOOLEAN /\ failStreak' \in 0..FailClosedThreshold
    BY <1>6, NoteType DEF ApplyDone, TypeOK
  <2> QED  BY <1>6, <2>2, <2>3 DEF ApplyDone, TypeOK
<1>7. CASE ExecExpire(p)
  <2>1. fl[p].step # "none" /\ Unlock(p, fl[p].more)
    BY <1>7 DEF ExecExpire
  <2>2. redisDown' \in BOOLEAN /\ failStreak' \in 0..FailClosedThreshold
    BY <1>7, NoteType DEF ExecExpire, TypeOK
  <2>3. ttl' \subseteq Keys \X Windows
    <3>1. fl[p].creators \subseteq Keys \X Windows
      BY <1>0 DEF FlushLocals
    <3> QED  BY <1>7, <3>1 DEF ExecExpire, TypeOK
  <2>4. /\ fl' \in [Flushers -> FlushLocals] /\ flushMu' \in Flushers \cup {"none"}
        /\ wpc' \in {"idle", "due", "flush", "requeue", "mark"}
        /\ cpc' \in {"open", "deregistered", "drain", "flush", "closed"}
        /\ rounds' \in 0..(NumStripes + 1)
    BY <2>1, UnlockType
  <2> QED  BY <1>7, <2>2, <2>3, <2>4 DEF ExecExpire, TypeOK
<1> QED  BY <1>1, <1>2, <1>3, <1>4, <1>5, <1>6, <1>7

\* One INCRBY of a pipeline.
LEMMA ExecCommandType == ASSUME TypeOK, NEW p \in Flushers, ExecCommand(p) PROVE TypeOK'
<1> USE DEF local, wake, health, flush, server, history
<1> DEFINE e == fl[p].batch[Len(fl[p].res) + 1]
           count == redis[e.key][e.ws] + e.flushN
<1>1. fl[p] \in FlushLocals /\ fl \in [Flushers -> FlushLocals] /\ redis \in Counts
  BY DEF TypeOK
<1>2. /\ fl[p].batch \in Seq(PendingFlush)
      /\ fl[p].res \in Seq(Reply) /\ fl[p].sent \in Nat
  BY <1>1 DEF FlushLocals
<1>3. Len(fl[p].res) + 1 \in 1..Len(fl[p].batch)
  <2>1. ChunkEnd(p) \in Nat /\ ChunkEnd(p) <= Len(fl[p].batch)
    BY <1>2, LocalAsyncAssumption DEF ChunkEnd, MinOf
  <2>2. Len(fl[p].res) < ChunkEnd(p)
    BY Zenon DEF ExecCommand
  <2> QED  BY <1>2, <2>1, <2>2
<1>4. e \in PendingFlush
  BY <1>2, <1>3
<1>5. e.key \in Keys /\ e.ws \in Windows /\ e.flushN \in Nat
  BY <1>4 DEF PendingFlush
<1>6. count \in Nat
  BY <1>1, <1>5 DEF Counts
<1>7. redis' \in Counts
  <2>1. redis' = [redis EXCEPT ![e.key][e.ws] = count]
    BY Zenon DEF ExecCommand
  <2> HIDE DEF count, e
  <2>2. [redis[e.key] EXCEPT ![e.ws] = count] \in [Windows -> Nat]
    BY <1>1, <1>5, <1>6 DEF Counts
  <2> QED  BY <1>1, <1>5, <2>1, <2>2 DEF Counts
<1>8. fl' \in [Flushers -> FlushLocals]
  <2>1. [ok |-> TRUE, count |-> count] \in Reply
    BY <1>6, Zenon DEF Reply
  <2>2. Append(fl[p].res, [ok |-> TRUE, count |-> count]) \in Seq(Reply)
    BY <1>2, <2>1, AppendProperties
  <2>3. [fl[p] EXCEPT !.res = Append(fl[p].res, [ok |-> TRUE, count |-> count])]
          \in FlushLocals
    BY <1>1, <2>2, Zenon DEF FlushLocals
  <2> QED  BY <1>1, <2>3, ZenonT(30) DEF ExecCommand
<1> QED  BY <1>7, <1>8, Zenon DEF ExecCommand, TypeOK

\* Reconciling one entry of the batch.
LEMMA ApplyEntryType ==
  ASSUME TypeOK, LockInv, BatchInv, NEW p \in Flushers, ApplyEntry(p) PROVE TypeOK'
<1> USE DEF local, wake, health, flush, server, history
<1> DEFINE i == fl[p].idx + 1
           e == fl[p].batch[i]
           s == StripeOf[e.key]
<1>1. fl[p] \in FlushLocals /\ fl \in [Flushers -> FlushLocals]
  BY DEF TypeOK
<1>2. /\ fl[p].batch \in Seq(PendingFlush) /\ fl[p].idx \in Nat
      /\ fl[p].res \in Seq(Reply)
  BY <1>1 DEF FlushLocals
<1>3. i \in 1..Len(fl[p].batch) /\ Len(fl[p].res) = Len(fl[p].batch)
  <2>1. fl[p].step = "apply" /\ fl[p].idx < Len(fl[p].batch)
    BY DEF ApplyEntry
  <2> QED  BY <1>2, <2>1 DEF BatchInv
<1>4. e \in PendingFlush /\ fl[p].res[i] \in Reply
  BY <1>2, <1>3, ElementOfSeq
<1>5. e.key \in Keys /\ e.ws \in Windows /\ e.flushN \in Nat /\ fl[p].res[i].count \in Nat
  BY <1>4 DEF PendingFlush, Reply
<1>6. s \in StripeIds
  BY <1>5, LocalAsyncAssumption DEF StripeIds
<1>7. CASE ~fl[p].res[i].ok
  <2>1. ApplyError(p, e)
    BY <1>7 DEF ApplyEntry
  <2>2. [fl[p] EXCEPT !.idx = fl[p].idx + 1, !.tickErr = TRUE, !.more = TRUE] \in FlushLocals
    <3>1. fl[p].idx + 1 \in Nat
      BY <1>2
    <3> QED  BY <1>1, <3>1 DEF FlushLocals
  <2>3. fl' \in [Flushers -> FlushLocals]
    BY <1>1, <2>1, <2>2, ZenonT(30) DEF ApplyError
  <2>4. evicted' \in [StripeIds -> Seq(PendingFlush)]
    <3>1. evicted[s] \in Seq(PendingFlush) /\ evicted \in [StripeIds -> Seq(PendingFlush)]
      BY <1>6 DEF TypeOK
    <3>2. Append(evicted[s], e) \in Seq(PendingFlush)
      BY <1>4, <3>1, AppendProperties
    <3> QED  BY <1>6, <2>1, <3>1, <3>2, Zenon DEF ApplyError
  <2>5. dropped' \in Counts
    BY <1>5, <2>1, CountType, ZenonT(30) DEF ApplyError, AddDropped, TypeOK
  <2>6. dirty' \subseteq Keys /\ states' = states
    BY <1>5, <2>1, Zenon DEF ApplyError, TypeOK
  <2> QED  BY <2>3, <2>4, <2>5, <2>6 DEF ApplyEntry, TypeOK
<1>8. CASE fl[p].res[i].ok
  <2> DEFINE count == fl[p].res[i].count
             st == Reconciled(states[e.key], e, count)
             residue == Matches(e) /\ st.localDelta # 0
             made == IF Creates(e, count) THEN {<<e.key, e.ws>>} ELSE {}
  <2>1. ApplyReply(p, e, count)
    BY <1>8 DEF ApplyEntry
  <2>2. Matches(e) => st \in LocalState
    <3> SUFFICES ASSUME Matches(e) PROVE st \in LocalState
      OBVIOUS
    <3>1. states[e.key] \in LocalState
      BY <1>5, StateType DEF Matches, TypeOK
    <3>2. MaxOf(states[e.key].localDelta - e.flushN, 0) \in Nat
      BY <1>5, <3>1 DEF MaxOf, LocalState
    <3>3. (states[e.key].blocked \/ count >= Limit) \in BOOLEAN
      OBVIOUS
    <3> QED  BY <1>5, <3>1, <3>2, <3>3, Zenon DEF Reconciled, LocalState
  <2>3. states' \in [Keys -> LocalState \cup {NoState}]
    BY <1>5, <2>1, <2>2, Zenon DEF ApplyReply, TypeOK
  <2>4. fl' \in [Flushers -> FlushLocals]
    <3>1. fl[p].creators \cup made \in SUBSET (Keys \X Windows)
      BY <1>1, <1>5 DEF FlushLocals
    <3>2. (fl[p].more \/ residue) \in BOOLEAN
      OBVIOUS
    <3>3. fl' = [fl EXCEPT ![p] = [fl[p] EXCEPT !.idx = fl[p].idx + 1,
                   !.more = fl[p].more \/ residue, !.creators = fl[p].creators \cup made]]
      BY <2>1, Zenon DEF ApplyReply
    <3> HIDE DEF residue, made
    <3>4. [fl[p] EXCEPT !.idx = fl[p].idx + 1, !.more = fl[p].more \/ residue,
                        !.creators = fl[p].creators \cup made] \in FlushLocals
      <4>1. fl[p].idx + 1 \in Nat
        BY <1>2
      <4> QED  BY <1>1, <4>1, <3>1, <3>2 DEF FlushLocals
    <3> QED  BY <1>1, <3>3, <3>4
  <2>5. dirty' \subseteq Keys /\ UNCHANGED <<evicted, dropped>>
    BY <1>5, <2>1, Zenon DEF ApplyReply, TypeOK
  <2> QED  BY <2>3, <2>4, <2>5 DEF ApplyEntry, TypeOK
<1> QED  BY <1>7, <1>8

\* The coordinator worker and Close, outside the flush.
LEMMA WorkerType == ASSUME TypeOK, Worker \/ Closer PROVE TypeOK'
<1> USE DEF local, wake, health, flush, server, history
<1>1. CASE TickShard
  BY <1>1 DEF TickShard, TypeOK
<1>2. CASE WorkerLock
  BY <1>2, LockType DEF WorkerLock, TypeOK, Flushers
<1>3. CASE WorkerRequeue
  BY <1>3 DEF WorkerRequeue, TypeOK
<1>4. CASE WorkerMarkActive
  BY <1>4 DEF WorkerMarkActive, TypeOK
<1>5. CASE Deregister
  BY <1>5 DEF Deregister, TypeOK
<1>6. CASE DeregisterClear
  <2>1. rounds' \in 0..(NumStripes + 1)
    BY <1>6, LocalAsyncAssumption DEF DeregisterClear
  <2> QED  BY <1>6, <2>1 DEF DeregisterClear, TypeOK
<1>7. CASE CloserLock
  BY <1>7, LockType DEF CloserLock, TypeOK, Flushers
<1> QED  BY <1>1, <1>2, <1>3, <1>4, <1>5, <1>6, <1>7 DEF Worker, Closer

\* Every step keeps the state well typed.
LEMMA NextType ==
  TypeOK /\ LockInv /\ BatchInv /\ [Next]_vars => TypeOK'
<1> SUFFICES ASSUME TypeOK, LockInv, BatchInv, [Next]_vars PROVE TypeOK'
  OBVIOUS
<1>1. CASE UNCHANGED vars
  BY <1>1 DEF vars, TypeOK, local, wake, health, flush, server, history
<1>2. CASE Environment
  BY <1>2, EnvironmentType
<1>3. ASSUME NEW r \in Reqs, Request(r) PROVE TypeOK'
  BY <1>3, RequestType, DecideType DEF Request
<1>4. ASSUME NEW p \in Flushers, FlushStep(p) PROVE TypeOK'
  BY <1>4, SnapshotType, QuietFlushType, ExecCommandType, ApplyEntryType DEF FlushStep
<1>5. CASE Worker \/ Closer
  BY <1>5, WorkerType
<1> QED  BY <1>1, <1>2, <1>3, <1>4, <1>5 DEF Next

-----------------------------------------------------------------------------
(* The lock discipline.                                                     *)

StructInv == LockInv /\ BatchInv /\ OutcomeInv

\* Steps that are not part of a flush and do not start one.
LEMMA OutsideStruct ==
  ASSUME StructInv, UNCHANGED <<flushMu, fl, redisDown>>,
         wpc' = "flush" <=> wpc = "flush", cpc' = "flush" <=> cpc = "flush",
         cpc' \in {"drain", "flush"} => rounds' >= 1
  PROVE  StructInv'
  BY DEF StructInv, LockInv, BatchInv, OutcomeInv

\* flushMu goes to the worker or to Close.
LEMMA LockStruct ==
  ASSUME TypeOK, StructInv, NEW p \in Flushers, LockFlush(p), redisDown' = redisDown,
         wpc' = "flush" <=> (wpc = "flush" \/ p = "worker"),
         cpc' = "flush" <=> (cpc = "flush" \/ p = "closer"),
         cpc' \in {"drain", "flush"} => rounds' >= 1
  PROVE  StructInv'
<1>1. fl \in [Flushers -> FlushLocals]
  BY DEF TypeOK
<1>2. fl' = [fl EXCEPT ![p] = [NoFlush EXCEPT !.step = "snapshot", !.budget = Budget,
                                              !.now = now]]
      /\ flushMu = "none" /\ flushMu' = p
  BY DEF LockFlush
<1>3. /\ fl'[p].step = "snapshot" /\ fl'[p].sent = 0 /\ fl'[p].res = <<>>
      /\ fl'[p].tickErr = FALSE
      /\ \A q \in Flushers : q # p => fl'[q] = fl[q]
  BY <1>1, <1>2 DEF NoFlush
<1>4. LockInv'
  BY <1>2, <1>3 DEF StructInv, LockInv, Flushers
<1>5. BatchInv' /\ OutcomeInv'
  BY <1>2, <1>3 DEF StructInv, BatchInv, OutcomeInv
<1> QED  BY <1>4, <1>5 DEF StructInv

\* A step inside the flush of p that keeps the lock.
LEMMA InsideStruct ==
  ASSUME TypeOK, StructInv, NEW p \in Flushers, NEW rec,
         fl' = [fl EXCEPT ![p] = rec], fl[p].step # "none", rec.step # "none",
         UNCHANGED <<flushMu, wpc, cpc, rounds>>,
         rec.sent <= Len(rec.res), rec.step = "snapshot" => rec.sent = 0,
         rec.step \in {"exec", "apply", "expire"} => rec.sent <= Len(rec.batch),
         rec.step \in {"apply", "expire"} => Len(rec.res) = Len(rec.batch),
         rec.tickErr => rec.more,
         redisDown' => ~FailOpen
  PROVE  StructInv'
<1>1. fl'[p] = rec /\ \A q \in Flushers : q # p => fl'[q] = fl[q]
  BY DEF TypeOK
<1>2. LockInv'
  BY <1>1 DEF StructInv, LockInv
<1>3. BatchInv' /\ OutcomeInv'
  BY <1>1 DEF StructInv, BatchInv, OutcomeInv
<1> QED  BY <1>2, <1>3 DEF StructInv

\* flushMu is released.
LEMMA UnlockStruct ==
  ASSUME TypeOK, StructInv, NEW p \in Flushers, NEW more, Unlock(p, more),
         fl[p].step # "none", redisDown' => ~FailOpen
  PROVE  StructInv'
<1>1. fl'[p] = NoFlush /\ flushMu = p /\ flushMu' = "none"
      /\ \A q \in Flushers : q # p => fl'[q] = fl[q]
  BY DEF Unlock, TypeOK, StructInv, LockInv
<1>2. LockInv'
  <2>1. \A q \in Flushers : fl'[q].step # "none" <=> flushMu' = q
    BY <1>1 DEF StructInv, LockInv, NoFlush, Flushers
  <2>2. wpc' # "flush" /\ cpc' # "flush" /\ (cpc' = "drain" => rounds' >= 1)
    <3>1. CASE p = "worker"
      <4>1. wpc' = AfterFlush(more) /\ cpc' = cpc /\ rounds' = rounds
        BY <3>1 DEF Unlock
      <4>2. cpc # "flush"
        BY <1>1, <3>1 DEF StructInv, LockInv
      <4> QED  BY <4>1, <4>2 DEF AfterFlush, StructInv, LockInv
    <3>2. CASE p = "closer"
      <4>1. /\ cpc' = IF more /\ rounds > 1 THEN "drain" ELSE "closed"
            /\ rounds' = rounds - 1 /\ wpc' = wpc
        BY <3>2 DEF Unlock
      <4>2. wpc # "flush" /\ rounds \in Int
        BY <1>1, <3>2, LocalAsyncAssumption DEF StructInv, LockInv, TypeOK
      <4> QED  BY <4>1, <4>2
    <3> QED  BY <3>1, <3>2 DEF Flushers
  <2> QED  BY <1>1, <2>1, <2>2 DEF LockInv
<1>3. BatchInv' /\ OutcomeInv'
  BY <1>1 DEF StructInv, BatchInv, OutcomeInv, NoFlush
<1> QED  BY <1>2, <1>3 DEF StructInv

\* Only a fail-closed limiter is ever marked down.
LEMMA NoteDown == ASSUME NEW err, NoteFlushOutcome(err) PROVE redisDown' => ~FailOpen
  BY DEF NoteFlushOutcome

\* The steps of a flush.
LEMMA FlushStruct ==
  ASSUME TypeOK, StructInv, NEW p \in Flushers, FlushStep(p) PROVE StructInv'
<1> USE DEF local, wake, health, flush, server, history
<1>0. /\ fl[p] \in FlushLocals /\ fl[p].sent <= Len(fl[p].res)
      /\ fl[p].tickErr => fl[p].more
      /\ redisDown => ~FailOpen
      /\ fl[p].step \in {"apply", "expire"} => Len(fl[p].res) = Len(fl[p].batch)
      /\ fl[p].step = "snapshot" => fl[p].sent = 0
      /\ fl[p].step \in {"exec", "apply", "expire"} => fl[p].sent <= Len(fl[p].batch)
      /\ Len(fl[p].batch) \in Nat /\ Len(fl[p].res) \in Nat /\ fl[p].sent \in Nat
  <2>1. fl[p] \in FlushLocals
    BY DEF TypeOK
  <2>2. Len(fl[p].batch) \in Nat /\ Len(fl[p].res) \in Nat /\ fl[p].sent \in Nat
    BY <2>1 DEF FlushLocals
  <2>3. BatchInv /\ OutcomeInv
    BY DEF StructInv
  <2> QED  BY <2>1, <2>2, <2>3 DEF BatchInv, OutcomeInv
<1>1. CASE SnapshotStripe(p)
  <2> DEFINE s == StripeAt(fl[p].i)
             take == MinOf(Len(evicted[s]), fl[p].budget)
             b == fl[p].budget - take
             D == dirty \cap KeysOf(s)
  <2>1. PICK V, order :
            fl' = [fl EXCEPT ![p] = [fl[p] EXCEPT
             !.batch = fl[p].batch \o SubSeq(evicted[s], 1, take)
                         \o [j \in 1..Len(order) |-> PendingOf(order[j])],
             !.budget = b - Len(order),
             !.more = fl[p].more \/ take < Len(evicted[s]) \/ V # D,
             !.i = fl[p].i + 1]]
    BY <1>1, Zenon DEF SnapshotStripe
  <2> DEFINE batch == fl[p].batch \o SubSeq(evicted[s], 1, take)
                         \o [j \in 1..Len(order) |-> PendingOf(order[j])]
             rec == [fl[p] EXCEPT !.batch = batch, !.budget = b - Len(order),
                        !.more = fl[p].more \/ take < Len(evicted[s]) \/ V # D,
                        !.i = fl[p].i + 1]
  <2> HIDE DEF batch
  <2>2. /\ rec.step = "snapshot" /\ rec.sent = fl[p].sent /\ rec.res = fl[p].res
        /\ rec.tickErr = fl[p].tickErr /\ (fl[p].more => rec.more)
    BY <1>0, <1>1 DEF SnapshotStripe, FlushLocals
  <2>3. UNCHANGED <<flushMu, wpc, cpc, rounds, redisDown>> /\ fl[p].step = "snapshot"
    BY <1>1 DEF SnapshotStripe
  <2> HIDE DEF rec
  <2>4. fl' = [fl EXCEPT ![p] = rec]
    BY <2>1, Zenon DEF rec, batch
  <2> QED  BY <1>0, <2>2, <2>3, <2>4, InsideStruct
<1>2. CASE SnapshotSpill(p)
  <2> DEFINE rec == [fl[p] EXCEPT !.i = NumStripes, !.more = TRUE]
  <2>1. /\ rec.step = fl[p].step /\ rec.sent = fl[p].sent /\ rec.res = fl[p].res
        /\ rec.more
    BY <1>0 DEF FlushLocals
  <2>2. fl' = [fl EXCEPT ![p] = rec] /\ fl[p].step = "snapshot"
        /\ UNCHANGED <<flushMu, wpc, cpc, rounds, redisDown>>
    BY <1>2 DEF SnapshotSpill, Spill
  <2> HIDE DEF rec
  <2> QED  BY <1>0, <2>1, <2>2, InsideStruct
<1>3. CASE SnapshotDone(p)
  <2> DEFINE rec == [fl[p] EXCEPT !.step = "exec"]
  <2>1. /\ rec.step = "exec" /\ rec.sent = fl[p].sent /\ rec.res = fl[p].res
        /\ rec.batch = fl[p].batch /\ rec.tickErr = fl[p].tickErr /\ rec.more = fl[p].more
    BY <1>0 DEF FlushLocals
  <2>2. fl' = [fl EXCEPT ![p] = rec] /\ fl[p].step = "snapshot"
        /\ UNCHANGED <<flushMu, wpc, cpc, rounds, redisDown>>
    BY <1>3 DEF SnapshotDone
  <2> HIDE DEF rec
  <2>3. rec.sent <= Len(rec.batch)
    BY <1>0, <2>1, <2>2
  <2> QED  BY <1>0, <2>1, <2>2, <2>3, InsideStruct
<1>4. CASE SnapshotEmpty(p)
  <2>1. fl[p].step # "none" /\ \E more : Unlock(p, more)
    BY <1>4 DEF SnapshotEmpty
  <2>2. redisDown' => ~FailOpen
    BY <1>0, <1>4, NoteDown DEF SnapshotEmpty
  <2> QED  BY <2>1, <2>2, UnlockStruct
<1>5. CASE ExecCommand(p)
  <2> DEFINE e == fl[p].batch[Len(fl[p].res) + 1]
             reply == [ok |-> TRUE, count |-> redis[e.key][e.ws] + e.flushN]
             rec == [fl[p] EXCEPT !.res = Append(fl[p].res, reply)]
  <2>1. /\ rec.step = fl[p].step /\ rec.sent = fl[p].sent
        /\ rec.res = Append(fl[p].res, reply) /\ rec.batch = fl[p].batch
        /\ rec.tickErr = fl[p].tickErr /\ rec.more = fl[p].more
    BY <1>0 DEF FlushLocals
  <2>2. rec.sent <= Len(rec.res)
    <3>1. Len(Append(fl[p].res, reply)) = Len(fl[p].res) + 1
      <4>1. fl[p].res \in Seq(Reply)
        BY <1>0 DEF FlushLocals
      <4>2. fl[p].res \in Seq(Reply \cup {reply})
        BY <4>1, SeqMonotonic, ZenonT(30)
      <4> HIDE DEF reply
      <4> QED  BY <4>2, AppendProperties
    <3> HIDE DEF rec, reply
    <3> QED  BY <1>0, <2>1, <3>1
  <2>3. fl' = [fl EXCEPT ![p] = rec] /\ fl[p].step = "exec"
        /\ UNCHANGED <<flushMu, wpc, cpc, rounds, redisDown>>
    BY <1>5, Zenon DEF ExecCommand
  <2> HIDE DEF rec
  <2> QED  BY <1>0, <2>1, <2>2, <2>3, InsideStruct, Zenon
<1>6. CASE ExecChunk(p)
  <2> DEFINE rec == [fl[p] EXCEPT !.sent = ChunkEnd(p),
               !.step = IF ChunkEnd(p) = Len(fl[p].batch) THEN "apply" ELSE "exec"]
  <2>1. /\ rec.step = IF ChunkEnd(p) = Len(fl[p].batch) THEN "apply" ELSE "exec"
        /\ rec.sent = ChunkEnd(p) /\ rec.res = fl[p].res /\ rec.batch = fl[p].batch
        /\ rec.tickErr = fl[p].tickErr /\ rec.more = fl[p].more
    BY <1>0 DEF FlushLocals
  <2>2. fl' = [fl EXCEPT ![p] = rec] /\ fl[p].step = "exec"
        /\ Len(fl[p].res) = ChunkEnd(p)
        /\ UNCHANGED <<flushMu, wpc, cpc, rounds, redisDown>>
    BY <1>6 DEF ExecChunk
  <2>3. rec.sent <= Len(rec.res) /\ rec.sent <= Len(rec.batch)
    <3>1. Len(fl[p].res) \in Nat /\ fl[p].sent \in Nat
      BY <1>0 DEF FlushLocals
    <3>2. ChunkEnd(p) <= Len(fl[p].batch)
      BY <1>0, <3>1, LocalAsyncAssumption DEF ChunkEnd, MinOf
    <3> QED  BY <2>1, <2>2, <3>1, <3>2
  <2> HIDE DEF rec
  <2> QED  BY <1>0, <2>1, <2>2, <2>3, InsideStruct
<1>7. CASE ExecFails(p)
  <2> DEFINE rec == [fl[p] EXCEPT !.res = TailFailed(p), !.step = "apply"]
  <2>1. /\ rec.step = "apply" /\ rec.sent = fl[p].sent /\ rec.res = TailFailed(p)
        /\ rec.batch = fl[p].batch
        /\ rec.tickErr = fl[p].tickErr /\ rec.more = fl[p].more
    BY <1>0 DEF FlushLocals
  <2>2. fl' = [fl EXCEPT ![p] = rec] /\ fl[p].step = "exec"
        /\ UNCHANGED <<flushMu, wpc, cpc, rounds, redisDown>>
    BY <1>7 DEF ExecFails
  <2>3. Len(TailFailed(p)) = Len(fl[p].batch)
    <3>1. Len(fl[p].batch) \in Nat
      BY <1>0 DEF FlushLocals
    <3>2. TailFailed(p) \in [1..Len(fl[p].batch) -> {TailFailed(p)[i] : i \in 1..Len(fl[p].batch)}]
      BY DEF TailFailed
    <3> QED  BY <3>1, <3>2, FunctionIsSeq
  <2> HIDE DEF rec
  <2> QED  BY <1>0, <2>1, <2>2, <2>3, InsideStruct
<1>8. CASE ApplyEntry(p)
  <2> DEFINE i == fl[p].idx + 1
             e == fl[p].batch[i]
  <2>1. fl[p].step = "apply" /\ UNCHANGED <<flushMu, wpc, cpc, rounds, redisDown>>
    BY <1>8 DEF ApplyEntry
  <2>2. CASE ApplyError(p, e)
    <3> DEFINE rec == [fl[p] EXCEPT !.idx = fl[p].idx + 1, !.tickErr = TRUE, !.more = TRUE]
    <3>1. /\ rec.step = fl[p].step /\ rec.sent = fl[p].sent /\ rec.res = fl[p].res
          /\ rec.batch = fl[p].batch /\ rec.more
      BY <1>0 DEF FlushLocals
    <3>2. fl' = [fl EXCEPT ![p] = rec]
      BY <2>2, Zenon DEF ApplyError
    <3> HIDE DEF rec
    <3> QED  BY <1>0, <2>1, <3>1, <3>2, InsideStruct
  <2>3. ASSUME NEW count, ApplyReply(p, e, count) PROVE StructInv'
    <3> DEFINE residue == Matches(e) /\ Reconciled(states[e.key], e, count).localDelta # 0
               made == IF Creates(e, count) THEN {<<e.key, e.ws>>} ELSE {}
               rec == [fl[p] EXCEPT !.idx = fl[p].idx + 1, !.more = fl[p].more \/ residue,
                                    !.creators = fl[p].creators \cup made]
    <3>1. fl' = [fl EXCEPT ![p] = rec]
      BY <2>3, Zenon DEF ApplyReply
    <3> HIDE DEF residue, made
    <3>2. /\ rec.step = fl[p].step /\ rec.sent = fl[p].sent /\ rec.res = fl[p].res
          /\ rec.batch = fl[p].batch /\ rec.tickErr = fl[p].tickErr
          /\ fl[p].more => rec.more
      BY <1>0 DEF FlushLocals
    <3> HIDE DEF rec
    <3> QED  BY <1>0, <2>1, <3>1, <3>2, InsideStruct
  <2> QED  BY <1>8, <2>2, <2>3 DEF ApplyEntry
<1>9. CASE ApplyDone(p)
  <2> DEFINE rec == [fl[p] EXCEPT !.step = "expire"]
  <2>1. /\ rec.step = "expire" /\ rec.sent = fl[p].sent /\ rec.res = fl[p].res
        /\ rec.batch = fl[p].batch
        /\ rec.tickErr = fl[p].tickErr /\ rec.more = fl[p].more
    BY <1>0 DEF FlushLocals
  <2>2. fl' = [fl EXCEPT ![p] = rec] /\ fl[p].step = "apply"
        /\ UNCHANGED <<flushMu, wpc, cpc, rounds>>
    BY <1>9 DEF ApplyDone
  <2>3. redisDown' => ~FailOpen
    BY <1>0, <1>9, NoteDown DEF ApplyDone
  <2> HIDE DEF rec
  <2> QED  BY <1>0, <2>1, <2>2, <2>3, InsideStruct
<1>10. CASE ExecExpire(p)
  <2>1. fl[p].step # "none" /\ Unlock(p, fl[p].more)
    BY <1>10 DEF ExecExpire
  <2>2. redisDown' => ~FailOpen
    BY <1>0, <1>10, NoteDown DEF ExecExpire
  <2> QED  BY <2>1, <2>2, UnlockStruct
<1> QED
  BY <1>1, <1>2, <1>3, <1>4, <1>5, <1>6, <1>7, <1>8, <1>9, <1>10 DEF FlushStep

\* Every step keeps the lock discipline.
LEMMA NextStruct == TypeOK /\ StructInv /\ [Next]_vars => StructInv'
<1> SUFFICES ASSUME TypeOK, StructInv, [Next]_vars PROVE StructInv'
  OBVIOUS
<1> USE DEF local, wake, health, flush, server, history
<1>1. cpc \in {"drain", "flush"} => rounds >= 1
  BY DEF StructInv, LockInv
<1>2. CASE UNCHANGED vars
  BY <1>1, <1>2, OutsideStruct DEF vars
<1>3. CASE Environment
  <2>1. UNCHANGED <<flushMu, fl, redisDown, wpc, cpc, rounds>>
    BY <1>3, Zenon DEF Environment, AdvanceClock, RedisToggle, OtherReplica, RedisExpires
  <2> QED  BY <1>1, <2>1, OutsideStruct
<1>4. ASSUME NEW r \in Reqs, Request(r) PROVE StructInv'
  <2>1. UNCHANGED <<flushMu, fl, redisDown, wpc, cpc, rounds>>
    BY <1>4, Zenon DEF Request, AllowNReadClock, AllowNDecide, AllowNEnqueue, AllowNMarkActive
  <2> QED  BY <1>1, <2>1, OutsideStruct
<1>5. ASSUME NEW p \in Flushers, FlushStep(p) PROVE StructInv'
  BY <1>5, FlushStruct
<1>6. CASE TickShard
  BY <1>1, <1>6, OutsideStruct DEF TickShard
<1>7. CASE WorkerLock
  BY <1>1, <1>7, LockStruct DEF WorkerLock, Flushers
<1>8. CASE WorkerRequeue
  BY <1>1, <1>8, OutsideStruct DEF WorkerRequeue
<1>9. CASE WorkerMarkActive
  BY <1>1, <1>9, OutsideStruct DEF WorkerMarkActive
<1>10. CASE Deregister
  BY <1>10, OutsideStruct DEF Deregister
<1>11. CASE DeregisterClear
  <2>1. rounds' >= 1
    BY <1>11, LocalAsyncAssumption DEF DeregisterClear
  <2> QED  BY <1>11, <2>1, OutsideStruct DEF DeregisterClear
<1>12. CASE CloserLock
  BY <1>1, <1>12, LockStruct DEF CloserLock, Flushers
<1> QED
  BY <1>2, <1>3, <1>4, <1>5, <1>6, <1>7, <1>8, <1>9, <1>10, <1>11, <1>12
  DEF Next, Worker, Closer

-----------------------------------------------------------------------------
(* No lost wakeup.                                                          *)

\* A fresh snapshot has every stripe ahead of it, wherever its cursor starts.
LEMMA EveryStripeAhead ==
  ASSUME flushCursor \in StripeIds, NEW s \in StripeIds
  PROVE  \E i \in 0..(NumStripes - 1) : StripeAt(i) = s
<1>1. /\ NumStripes \in Nat \ {0} /\ s \in Nat /\ s < NumStripes
      /\ flushCursor \in Nat /\ flushCursor < NumStripes
  BY LocalAsyncAssumption DEF StripeIds
<1>2. \A a \in Nat, b \in Nat \ {0} : a < b => a % b = a /\ (a + b) % b = a
  OBVIOUS
<1>3. CASE flushCursor <= s
  <2>1. s - flushCursor \in 0..(NumStripes - 1) /\ flushCursor + (s - flushCursor) = s
    BY <1>1, <1>3
  <2>2. StripeAt(s - flushCursor) = s
    BY <1>1, <1>2, <2>1 DEF StripeAt
  <2> QED  BY <2>1, <2>2
<1>4. CASE s < flushCursor
  <2>1. /\ s + NumStripes - flushCursor \in 0..(NumStripes - 1)
        /\ flushCursor + (s + NumStripes - flushCursor) = s + NumStripes
    BY <1>1, <1>4
  <2>2. StripeAt(s + NumStripes - flushCursor) = s
    BY <1>1, <1>2, <2>1 DEF StripeAt
  <2> QED  BY <2>1, <2>2
<1> QED  BY <1>1, <1>3, <1>4

\* A flush that has seen work left over comes back for it.
LEMMA MoreCovers ==
  ASSUME StructInv', NEW p \in Flushers, fl'[p].step # "none", fl'[p].more, NEW s
  PROVE  Covered(s)'
<1>1. CASE p = "worker"
  <2>1. wpc' = "flush" /\ fl'["worker"].more
    BY <1>1 DEF StructInv, LockInv
  <2> QED  BY <2>1 DEF Covered, WorkerWillReturn
<1>2. CASE p = "closer"
  <2>1. cpc' = "flush" /\ fl'["closer"].more
    BY <1>2 DEF StructInv, LockInv
  <2> QED  BY <2>1 DEF Covered, CloserWillReturn
<1> QED  BY <1>1, <1>2 DEF Flushers

\* A step outside the flushes that takes no marker away keeps every promise.
LEMMA OutsideCovers ==
  ASSUME NEW s, Covered(s), UNCHANGED <<wpc, fl, flushCursor>>,
         cpc' = cpc,
         enqueued => enqueued', active => active',
         \A r \in Reqs : req[r].pc \in {"enqueue", "mark"} => req'[r].pc = req[r].pc
  PROVE  Covered(s)'
<1>1. Unvisited("worker", s)' = Unvisited("worker", s)
      /\ Unvisited("closer", s)' = Unvisited("closer", s)
  BY DEF Unvisited, StripeAt
<1> QED  BY <1>1 DEF Covered, WorkerWillReturn, CloserWillReturn

\* A step inside the flush of p that forgets neither what is left over nor a
\* stripe still ahead of it keeps the promise made to stripe s.
LEMMA InsideCovers ==
  ASSUME TypeOK, StructInv, StructInv', NEW s, Covered(s), NEW p \in Flushers, NEW rec,
         fl' = [fl EXCEPT ![p] = rec], fl[p].step # "none", rec.step # "none",
         UNCHANGED <<wpc, cpc, enqueued, active, req>>,
         fl[p].more => rec.more,
         Unvisited(p, s) => rec.more \/ Unvisited(p, s)'
  PROVE  Covered(s)'
<1>1. fl'[p] = rec /\ \A q \in Flushers : q # p => fl'[q] = fl[q]
  BY DEF TypeOK
<1>2. \A q \in Flushers : q # p => fl[q].step = "none" /\ ~Unvisited(q, s)
  BY DEF StructInv, LockInv, Unvisited
<1>3. CASE rec.more
  BY <1>1, <1>3, MoreCovers
<1>4. CASE ~rec.more /\ ~Unvisited(p, s)
  <2>1. /\ wpc = "flush" => ~(fl["worker"].more \/ Unvisited("worker", s))
        /\ cpc = "flush" => ~(fl["closer"].more \/ Unvisited("closer", s))
    BY <1>2, <1>4 DEF StructInv, LockInv, Flushers
  <2> QED  BY <2>1 DEF Covered, WorkerWillReturn, CloserWillReturn
<1>5. CASE ~rec.more /\ Unvisited(p, s)
  <2>1. Unvisited(p, s)'
    BY <1>5
  <2>2. CASE p = "worker"
    <3>1. wpc' = "flush"
      BY <2>2 DEF StructInv, LockInv, Flushers
    <3> QED  BY <2>1, <2>2, <3>1 DEF Covered, WorkerWillReturn
  <2>3. CASE p = "closer"
    <3>1. cpc' = "flush"
      BY <2>3 DEF StructInv, LockInv, Flushers
    <3> QED  BY <2>1, <2>3, <3>1 DEF Covered, CloserWillReturn
  <2> QED  BY <2>2, <2>3 DEF Flushers
<1> QED  BY <1>3, <1>4, <1>5

\* flushMu is released with nothing left over only when no stripe is left either:
\* what is covered then is covered by someone else.
LEMMA UnlockCovers ==
  ASSUME TypeOK, StructInv, NEW s, Covered(s), NEW p \in Flushers, NEW more, Unlock(p, more),
         fl[p].step # "none", fl[p].more => more, ~Unvisited(p, s),
         UNCHANGED <<enqueued, active, req>>, cpc' # "closed"
  PROVE  Covered(s)'
<1>1. \A q \in Flushers : q # p => fl[q].step = "none"
  BY DEF StructInv, LockInv
<1>2. CASE p = "worker"
  <2>1. wpc = "flush" /\ cpc # "flush" /\ cpc' = cpc /\ wpc' = AfterFlush(more)
    BY <1>2 DEF StructInv, LockInv, Unlock, Flushers
  <2>2. CASE more
    BY <2>1, <2>2 DEF Covered, WorkerWillReturn, AfterFlush
  <2>3. CASE ~more
    BY <1>2, <2>1, <2>3 DEF Covered, WorkerWillReturn, CloserWillReturn
  <2> QED  BY <2>2, <2>3
<1>3. CASE p = "closer"
  <2>1. cpc' = "drain"
    BY <1>3 DEF Unlock
  <2> QED  BY <2>1 DEF Covered, CloserWillReturn
<1> QED  BY <1>2, <1>3 DEF Flushers

\* A flush that starts has every stripe ahead of it.
LEMMA LockCovers ==
  ASSUME TypeOK, NEW s \in StripeIds, NEW p \in Flushers, LockFlush(p),
         flushCursor' = flushCursor,
         IF p = "worker" THEN wpc' = "flush" ELSE cpc' = "flush"
  PROVE  Covered(s)'
<1>1. flushCursor \in StripeIds /\ fl \in [Flushers -> FlushLocals]
  BY DEF TypeOK
<1>2. fl'[p].step = "snapshot" /\ fl'[p].i = 0
  BY <1>1 DEF LockFlush, NoFlush
<1>3. Unvisited(p, s)'
  <2>1. PICK i \in 0..(NumStripes - 1) : StripeAt(i) = s
    BY <1>1, EveryStripeAhead
  <2> QED  BY <1>2, <2>1 DEF Unvisited, StripeAt
<1> QED  BY <1>3 DEF Covered, WorkerWillReturn, CloserWillReturn, Flushers

\* AllowN: work it adds to a stripe is announced, by the goroutine itself until
\* the limiter is in the active set.
LEMMA RequestCovers ==
  ASSUME TypeOK, NoLostWakeup, NEW r \in Reqs, Request(r) PROVE NoLostWakeup'
<1> USE DEF local, wake, health, flush, server, history
<1>0. req \in [Reqs -> RequestState]
  BY DEF TypeOK
<1> SUFFICES ASSUME cpc' # "closed", NEW s \in StripeIds, StripeWork(s)' PROVE Covered(s)'
  BY DEF NoLostWakeup
<1>1. ASSUME NEW k \in Keys, NEW n \in Costs, AllowNReadClock(r, k, n) PROVE Covered(s)'
  <2>1. StripeWork(s) /\ cpc # "closed"
    BY <1>1 DEF AllowNReadClock, StripeWork
  <2>2. \A q \in Reqs : req[q].pc \in {"enqueue", "mark"} => req'[q].pc = req[q].pc
    BY <1>0, <1>1 DEF AllowNReadClock
  <2> QED  BY <1>1, <2>1, <2>2, OutsideCovers DEF AllowNReadClock, NoLostWakeup
<1>2. CASE AllowNDecide(r)
  <2> DEFINE k == req[r].key
             n == req[r].n
             t == StripeOf[k]
  <2>1. PICK e, decision, pending :
           /\ evicted' = [evicted EXCEPT ![t] = pending]
           /\ dirty' = (dirty \ e.gone) \cup (IF decision = "allow" /\ n > 0 THEN {k} ELSE {})
           /\ req' = [req EXCEPT ![r] =
                        IF NeedEnqueue(pending, decision, n)
                        THEN [req[r] EXCEPT !.pc = "enqueue"] ELSE NoRequest]
    BY <1>2, Zenon DEF AllowNDecide
  <2>2. /\ req[r].pc = "decide" /\ req[r] \in RequestState
        /\ UNCHANGED <<wpc, fl, flushCursor, cpc, enqueued, active>>
    BY <1>0, <1>2 DEF AllowNDecide
  <2>3. CASE NeedEnqueue(pending, decision, n)
    <3>1. req'[r].pc = "enqueue"
      BY <1>0, <2>1, <2>2, <2>3 DEF RequestState
    <3> QED  BY <3>1 DEF Covered
  <2>4. CASE ~NeedEnqueue(pending, decision, n)
    <3>1. pending = <<>> /\ dirty' \subseteq dirty
      BY <2>1, <2>4 DEF NeedEnqueue
    <3>2. evicted'[s] # <<>> => evicted[s] # <<>>
      BY <2>1, <3>1 DEF TypeOK
    <3>3. StripeWork(s)
      BY <3>1, <3>2 DEF StripeWork
    <3>4. \A q \in Reqs : req[q].pc \in {"enqueue", "mark"} => req'[q].pc = req[q].pc
      BY <1>0, <2>1, <2>2
    <3> QED  BY <2>2, <3>3, <3>4, OutsideCovers DEF NoLostWakeup
  <2> QED  BY <2>3, <2>4
<1>3. CASE AllowNEnqueue(r)
  BY <1>3 DEF AllowNEnqueue, Covered
<1>4. CASE AllowNMarkActive(r)
  BY <1>4 DEF AllowNMarkActive, Covered
<1> QED  BY <1>1, <1>2, <1>3, <1>4 DEF Request

\* The snapshot of a stripe leaves nothing behind in it that is not noted.
LEMMA SnapshotCovers ==
  ASSUME TypeOK, StructInv, StructInv', NoLostWakeup, NEW p \in Flushers, SnapshotStripe(p)
  PROVE  NoLostWakeup'
<1> USE DEF local, wake, health, flush, server, history
<1> SUFFICES ASSUME cpc' # "closed", NEW s \in StripeIds, StripeWork(s)' PROVE Covered(s)'
  BY DEF NoLostWakeup
<1> DEFINE t == StripeAt(fl[p].i)
           take == MinOf(Len(evicted[t]), fl[p].budget)
           b == fl[p].budget - take
           D == dirty \cap KeysOf(t)
           old == ExpiredStates(states, t, fl[p].now)
<1>1. PICK V, order :
       /\ dirty' = dirty \ (V \cup old)
       /\ fl' = [fl EXCEPT ![p] = [fl[p] EXCEPT
             !.batch = fl[p].batch \o SubSeq(evicted[t], 1, take)
                         \o [j \in 1..Len(order) |-> PendingOf(order[j])],
             !.budget = b - Len(order),
             !.more = fl[p].more \/ take < Len(evicted[t]) \/ V # D,
             !.i = fl[p].i + 1]]
  BY Zenon DEF SnapshotStripe
<1> DEFINE batch == fl[p].batch \o SubSeq(evicted[t], 1, take)
                         \o [j \in 1..Len(order) |-> PendingOf(order[j])]
           more == fl[p].more \/ take < Len(evicted[t]) \/ V # D
           rec == [fl[p] EXCEPT !.batch = batch, !.budget = b - Len(order),
                                !.more = more, !.i = fl[p].i + 1]
<1>2. dirty' = dirty \ (V \cup old)
  BY <1>1
<1>3. fl' = [fl EXCEPT ![p] = rec]
  BY <1>1, Zenon
<1>4. /\ evicted' = [evicted EXCEPT ![t] = SubSeq(evicted[t], take + 1, Len(evicted[t]))]
      /\ fl[p].step = "snapshot" /\ fl[p].i < NumStripes /\ fl[p].budget > 0
      /\ UNCHANGED <<wpc, cpc, enqueued, active, req, flushCursor>>
  BY DEF SnapshotStripe
<1>5. fl[p] \in FlushLocals /\ fl \in [Flushers -> FlushLocals]
  BY DEF TypeOK
<1> HIDE DEF batch, more
<1>6. rec.step = "snapshot" /\ rec.more = more /\ rec.i = fl[p].i + 1
  BY <1>4, <1>5 DEF FlushLocals
<1> HIDE DEF rec
<1>7. fl'[p] = rec
  BY <1>3, <1>5
<1>8. CASE more
  BY <1>6, <1>7, <1>8, MoreCovers
<1>9. CASE ~more
  <2>1. fl[p].i \in Nat /\ NumStripes \in Nat \ {0} /\ fl[p].budget \in Nat
    BY <1>5, LocalAsyncAssumption DEF FlushLocals
  <2>2. evicted \in [StripeIds -> Seq(PendingFlush)] /\ flushCursor \in StripeIds
    BY DEF TypeOK
  <2>3. t \in StripeIds
    BY <1>4, <2>1, <2>2, StripeAtType
  <2>4. Len(evicted[t]) \in Nat /\ take = Len(evicted[t])
    <3>1. Len(evicted[t]) \in Nat
      BY <2>2, <2>3
    <3> QED  BY <3>1, <1>9, <2>1 DEF more, MinOf
  <2>5. SubSeq(evicted[t], take + 1, Len(evicted[t])) = <<>>
    <3>1. evicted[t] \in Seq(PendingFlush)
      BY <2>2, <2>3
    <3> QED  BY <3>1, <2>4
  <2>6. evicted'[t] = <<>> /\ dirty' \cap KeysOf(t) = {}
    <3>1. evicted'[t] = <<>>
      BY <1>4, <2>2, <2>3, <2>5
    <3> QED  BY <1>2, <1>9, <3>1 DEF more
  <2>7. s # t
    <3>1. evicted'[s] # <<>> \/ dirty' \cap KeysOf(s) # {}
      BY DEF StripeWork, KeysOf
    <3> QED  BY <2>6, <3>1
  <2>8. StripeWork(s)
    <3>1. evicted'[s] = evicted[s]
      BY <1>4, <2>2, <2>7
    <3> QED  BY <1>2, <3>1 DEF StripeWork, KeysOf
  <2>9. Unvisited(p, s) => Unvisited(p, s)'
    <3> SUFFICES ASSUME Unvisited(p, s) PROVE Unvisited(p, s)'
      OBVIOUS
    <3>1. PICK j \in fl[p].i..(NumStripes - 1) : StripeAt(j) = s
      BY DEF Unvisited
    <3>2. j # fl[p].i
      BY <2>7, <3>1
    <3>3. j \in rec.i..(NumStripes - 1)
      BY <1>6, <2>1, <3>1, <3>2
    <3>4. StripeAt(j)' = s
      BY <1>4, <3>1 DEF StripeAt
    <3> QED  BY <1>6, <1>7, <3>3, <3>4 DEF Unvisited
  <2>10. Covered(s)
    BY <1>4, <2>8 DEF NoLostWakeup
  <2>11. fl[p].more => rec.more
    BY <1>6 DEF more
  <2> QED  BY <1>3, <1>4, <1>6, <2>9, <2>10, <2>11, InsideCovers
<1> QED  BY <1>8, <1>9

\* Applying a reply: an error or a residue is noted, anything else adds no work.
LEMMA ApplyCovers ==
  ASSUME TypeOK, StructInv, StructInv', NoLostWakeup, NEW p \in Flushers, ApplyEntry(p)
  PROVE  NoLostWakeup'
<1> USE DEF local, wake, health, flush, server, history
<1> SUFFICES ASSUME cpc' # "closed", NEW s \in StripeIds, StripeWork(s)' PROVE Covered(s)'
  BY DEF NoLostWakeup
<1> DEFINE e == fl[p].batch[fl[p].idx + 1]
           count == fl[p].res[fl[p].idx + 1].count
<1>1. /\ fl[p].step = "apply"
      /\ UNCHANGED <<wpc, cpc, enqueued, active, req, flushCursor>>
  BY DEF ApplyEntry
<1>2. fl[p] \in FlushLocals /\ fl \in [Flushers -> FlushLocals]
  BY DEF TypeOK
<1>3. CASE ApplyError(p, e)
  <2> DEFINE rec == [fl[p] EXCEPT !.idx = fl[p].idx + 1, !.tickErr = TRUE, !.more = TRUE]
  <2>1. rec.step = "apply" /\ rec.more
    BY <1>1, <1>2 DEF FlushLocals
  <2>2. fl'[p] = rec
    BY <1>2, <1>3, Zenon DEF ApplyError
  <2> QED  BY <2>1, <2>2, MoreCovers, Zenon
<1>4. CASE ApplyReply(p, e, count)
  <2> DEFINE residue == Matches(e) /\ Reconciled(states[e.key], e, count).localDelta # 0
             made == IF Creates(e, count) THEN {<<e.key, e.ws>>} ELSE {}
             rec == [fl[p] EXCEPT !.idx = fl[p].idx + 1, !.more = fl[p].more \/ residue,
                                  !.creators = fl[p].creators \cup made]
  <2>1. fl' = [fl EXCEPT ![p] = rec]
    BY <1>4, Zenon DEF ApplyReply
  <2>2. dirty' = (IF residue THEN dirty \cup {e.key} ELSE dirty) /\ evicted' = evicted
    BY <1>4, Zenon DEF ApplyReply
  <2> HIDE DEF residue, made
  <2>3. rec.step = "apply" /\ rec.more = (fl[p].more \/ residue)
    BY <1>1, <1>2 DEF FlushLocals
  <2> HIDE DEF rec
  <2>4. CASE residue
    BY <1>2, <2>1, <2>3, <2>4, MoreCovers
  <2>5. CASE ~residue
    <3>1. StripeWork(s) /\ cpc # "closed"
      BY <1>1, <2>2, <2>5 DEF StripeWork
    <3>2. Covered(s) /\ ~Unvisited(p, s)
      BY <1>1, <3>1 DEF NoLostWakeup, Unvisited
    <3> QED  BY <1>1, <2>1, <2>3, <3>2, InsideCovers
  <2> QED  BY <2>4, <2>5
<1> QED  BY <1>3, <1>4 DEF ApplyEntry

\* The steps of a flush that change neither a dirty set nor evictedPending.
LEMMA QuietFlushCovers ==
  ASSUME TypeOK, StructInv, StructInv', NoLostWakeup, NEW p \in Flushers, FlushStep(p),
         ~SnapshotStripe(p), ~ApplyEntry(p)
  PROVE  NoLostWakeup'
<1> USE DEF local, wake, health, flush, server, history
<1>1. UNCHANGED <<dirty, evicted, enqueued, active, req>>
  BY Zenon DEF FlushStep, SnapshotSpill, SnapshotDone, SnapshotEmpty, ExecCommand, ExecChunk,
         ExecFails, ApplyDone, ExecExpire
<1> SUFFICES ASSUME cpc' # "closed", NEW s \in StripeIds, StripeWork(s)' PROVE Covered(s)'
  BY DEF NoLostWakeup
<1>2. StripeWork(s)
  BY <1>1 DEF StripeWork
<1>3. fl[p] \in FlushLocals /\ fl \in [Flushers -> FlushLocals]
  BY DEF TypeOK
<1>4. fl[p].step # "none" /\ cpc # "closed"
  <2>1. fl[p].step # "none"
    BY Zenon DEF FlushStep, SnapshotSpill, SnapshotDone, SnapshotEmpty, ExecCommand, ExecChunk,
           ExecFails, ApplyDone, ExecExpire
  <2>3. CASE p = "closer"
    BY <2>1, <2>3 DEF StructInv, LockInv
  <2>4. CASE p = "worker"
    BY <2>1, <2>4, Zenon DEF FlushStep, SnapshotSpill, SnapshotDone, SnapshotEmpty, ExecCommand,
           ExecChunk, ExecFails, ApplyDone, ExecExpire, Unlock
  <2> QED  BY <2>3, <2>4 DEF Flushers
<1>5. Covered(s)
  BY <1>2, <1>4 DEF NoLostWakeup
<1>6. fl[p].i = NumStripes \/ fl[p].step # "snapshot" => ~Unvisited(p, s)
  BY LocalAsyncAssumption DEF Unvisited
<1>7. CASE SnapshotSpill(p)
  <2>1. fl'[p].more /\ fl'[p].step = "snapshot"
    BY <1>3, <1>7 DEF SnapshotSpill, Spill, FlushLocals
  <2> QED  BY <2>1, MoreCovers
<1>8. ASSUME NEW rec, fl' = [fl EXCEPT ![p] = rec], UNCHANGED <<wpc, cpc>>,
             rec.step # "none", rec.more = fl[p].more,
             fl[p].i = NumStripes \/ fl[p].step # "snapshot"
      PROVE  Covered(s)'
  BY <1>1, <1>4, <1>5, <1>6, <1>8, InsideCovers
<1>9. CASE SnapshotDone(p)
  <2> DEFINE rec == [fl[p] EXCEPT !.step = "exec"]
  <2>1. rec.step = "exec" /\ rec.more = fl[p].more
    BY <1>3 DEF FlushLocals
  <2>2. fl' = [fl EXCEPT ![p] = rec] /\ UNCHANGED <<wpc, cpc>> /\ fl[p].i = NumStripes
    BY <1>9 DEF SnapshotDone
  <2> HIDE DEF rec
  <2> QED  BY <1>8, <2>1, <2>2
<1>10. CASE SnapshotEmpty(p)
  <2>1. PICK more : Unlock(p, more) /\ (fl[p].more => more)
    BY <1>10 DEF SnapshotEmpty, MoreAfterEmpty
  <2>2. fl[p].i = NumStripes
    BY <1>10 DEF SnapshotEmpty
  <2> QED  BY <1>1, <1>4, <1>5, <1>6, <2>1, <2>2, UnlockCovers
<1>11. CASE ExecCommand(p)
  <2> DEFINE e == fl[p].batch[Len(fl[p].res) + 1]
             reply == [ok |-> TRUE, count |-> redis[e.key][e.ws] + e.flushN]
             rec == [fl[p] EXCEPT !.res = Append(fl[p].res, reply)]
  <2>1. rec.step = fl[p].step /\ rec.more = fl[p].more
    BY <1>3 DEF FlushLocals
  <2>2. fl' = [fl EXCEPT ![p] = rec] /\ UNCHANGED <<wpc, cpc>> /\ fl[p].step = "exec"
    BY <1>11, Zenon DEF ExecCommand
  <2> HIDE DEF rec
  <2> QED  BY <1>8, <2>1, <2>2, Zenon
<1>12. CASE ExecChunk(p)
  <2> DEFINE next == IF ChunkEnd(p) = Len(fl[p].batch) THEN "apply" ELSE "exec"
             rec == [fl[p] EXCEPT !.sent = ChunkEnd(p), !.step = next]
  <2>1. rec.step = next /\ rec.more = fl[p].more
    BY <1>3 DEF FlushLocals
  <2>2. fl' = [fl EXCEPT ![p] = rec] /\ UNCHANGED <<wpc, cpc>> /\ fl[p].step = "exec"
    BY <1>12 DEF ExecChunk
  <2> HIDE DEF rec
  <2> QED  BY <1>8, <2>1, <2>2
<1>13. CASE ExecFails(p)
  <2> DEFINE rec == [fl[p] EXCEPT !.res = TailFailed(p), !.step = "apply"]
  <2>1. rec.step = "apply" /\ rec.more = fl[p].more
    BY <1>3 DEF FlushLocals
  <2>2. fl' = [fl EXCEPT ![p] = rec] /\ UNCHANGED <<wpc, cpc>> /\ fl[p].step = "exec"
    BY <1>13 DEF ExecFails
  <2> HIDE DEF rec
  <2> QED  BY <1>8, <2>1, <2>2
<1>14. CASE ApplyDone(p)
  <2> DEFINE rec == [fl[p] EXCEPT !.step = "expire"]
  <2>1. rec.step = "expire" /\ rec.more = fl[p].more
    BY <1>3 DEF FlushLocals
  <2>2. fl' = [fl EXCEPT ![p] = rec] /\ UNCHANGED <<wpc, cpc>> /\ fl[p].step = "apply"
    BY <1>14 DEF ApplyDone
  <2> HIDE DEF rec
  <2> QED  BY <1>8, <2>1, <2>2
<1>15. CASE ExecExpire(p)
  <2>1. Unlock(p, fl[p].more) /\ fl[p].step = "expire"
    BY <1>15 DEF ExecExpire
  <2> QED  BY <1>1, <1>4, <1>5, <1>6, <2>1, UnlockCovers
<1> QED
  BY <1>7, <1>9, <1>10, <1>11, <1>12, <1>13, <1>14, <1>15 DEF FlushStep

\* Every step keeps the promise that work in a stripe is come back to.
LEMMA NextCovers ==
  TypeOK /\ StructInv /\ StructInv' /\ NoLostWakeup /\ [Next]_vars => NoLostWakeup'
<1> SUFFICES ASSUME TypeOK, StructInv, StructInv', NoLostWakeup, [Next]_vars
             PROVE  NoLostWakeup'
  OBVIOUS
<1> USE DEF local, wake, health, flush, server, history
<1>1. ASSUME UNCHANGED <<dirty, evicted, enqueued, active, req, wpc, cpc, fl, flushCursor>>
      PROVE  NoLostWakeup'
  <2> SUFFICES ASSUME cpc' # "closed", NEW s \in StripeIds, StripeWork(s)' PROVE Covered(s)'
    BY DEF NoLostWakeup
  <2>1. StripeWork(s)
    BY <1>1 DEF StripeWork
  <2> QED  BY <1>1, <2>1, OutsideCovers DEF NoLostWakeup
<1>2. CASE UNCHANGED vars
  BY <1>1, <1>2 DEF vars
<1>3. CASE Environment
  BY <1>1, <1>3 DEF Environment, AdvanceClock, RedisToggle, OtherReplica, RedisExpires
<1>4. ASSUME NEW r \in Reqs, Request(r) PROVE NoLostWakeup'
  BY <1>4, RequestCovers
<1>5. ASSUME NEW p \in Flushers, FlushStep(p) PROVE NoLostWakeup'
  BY <1>5, SnapshotCovers, ApplyCovers, QuietFlushCovers
<1>6. CASE TickShard
  BY <1>6 DEF TickShard, NoLostWakeup, Covered, WorkerWillReturn
<1>7. CASE WorkerLock
  BY <1>7, LockCovers DEF WorkerLock, NoLostWakeup, Flushers
<1>8. CASE WorkerRequeue
  BY <1>8 DEF WorkerRequeue, NoLostWakeup, Covered
<1>9. CASE WorkerMarkActive
  BY <1>9 DEF WorkerMarkActive, NoLostWakeup, Covered
<1>10. CASE Deregister
  BY <1>10 DEF Deregister, NoLostWakeup, Covered, CloserWillReturn
<1>11. CASE DeregisterClear
  BY <1>11 DEF DeregisterClear, NoLostWakeup, Covered, CloserWillReturn
<1>12. CASE CloserLock
  BY <1>12, LockCovers DEF CloserLock, NoLostWakeup, Flushers
<1> QED
  BY <1>2, <1>3, <1>4, <1>5, <1>6, <1>7, <1>8, <1>9, <1>10, <1>11, <1>12
  DEF Next, Worker, Closer

-----------------------------------------------------------------------------
(* The theorems.                                                            *)

\* At the start there is no work.
LEMMA InitCovers == Init => NoLostWakeup
  BY DEF Init, NoLostWakeup, StripeWork

\* The type invariant and the lock discipline of flushMu hold in every state of
\* every run of the limiter, its worker and Close.
THEOREM TypeCorrect == Spec => [](TypeOK /\ StructInv)
<1>1. Init => TypeOK /\ StructInv
  BY InitOK DEF StructInv
<1>2. TypeOK /\ StructInv /\ [Next]_vars => TypeOK' /\ StructInv'
  BY NextType, NextStruct DEF StructInv
<1> QED  BY <1>1, <1>2, PTL DEF Spec

\* Concurrency invariant 2 of redis_local_async.go: whatever the interleaving of
\* AllowN, tickShard, flushDue and Close, a delta left in a stripe has a goroutine
\* that is bound to come back to it, until Close has returned.
THEOREM WakeupNeverLost == Spec => []NoLostWakeup
<1>1. Init => NoLostWakeup
  BY InitCovers
<1>2. TypeOK /\ StructInv /\ (TypeOK /\ StructInv)' /\ NoLostWakeup /\ [Next]_vars => NoLostWakeup'
  BY NextCovers
<1> QED  BY <1>1, <1>2, TypeCorrect, PTL DEF Spec

-----------------------------------------------------------------------------
(* One marker per active period, and a limiter that is down is probed.      *)

\* A step of a flush touches no marker, and the worker leaves it for "idle" or
\* "requeue".
LEMMA FlushMarkers ==
  ASSUME StructInv, NEW p \in Flushers, FlushStep(p)
  PROVE  /\ UNCHANGED <<enqueued, active, req>>
         /\ wpc # "mark" => wpc' # "mark"
         /\ wpc = "mark" => wpc' = wpc
         /\ cpc \in {"open", "deregistered"} => cpc' = cpc
         /\ cpc' \in {"open", "deregistered"} => cpc' = cpc
<1> USE DEF local, wake, health, flush, server, history
<1>1. UNCHANGED <<enqueued, active, req>> /\ fl[p].step # "none"
  BY ZenonT(30) DEF FlushStep, SnapshotStripe, SnapshotSpill, SnapshotDone, SnapshotEmpty, ExecCommand,
         ExecChunk, ExecFails, ApplyEntry, ApplyDone, ExecExpire
<1>2. UNCHANGED <<wpc, cpc>> \/ \E more : Unlock(p, more)
  BY Zenon DEF FlushStep, SnapshotStripe, SnapshotSpill, SnapshotDone, SnapshotEmpty, ExecCommand,
         ExecChunk, ExecFails, ApplyEntry, ApplyDone, ExecExpire
<1>3. ASSUME NEW more, Unlock(p, more)
      PROVE  /\ wpc # "mark" => wpc' # "mark"
             /\ wpc = "mark" => wpc' = wpc
             /\ cpc \in {"open", "deregistered"} => cpc' = cpc
             /\ cpc' \in {"open", "deregistered"} => cpc' = cpc
  BY <1>1, <1>3 DEF Unlock, AfterFlush, StructInv, LockInv, Flushers
<1> QED  BY <1>1, <1>2, <1>3

\* Every step keeps the markers in step with enqueued.
LEMMA NextMarker == TypeOK /\ StructInv /\ OneMarker /\ [Next]_vars => OneMarker'
<1> SUFFICES ASSUME TypeOK, StructInv, OneMarker, [Next]_vars PROVE OneMarker'
  OBVIOUS
<1> USE DEF local, wake, health, flush, server, history
<1>0. req \in [Reqs -> RequestState] /\ enqueued \in BOOLEAN /\ active \in BOOLEAN
  BY DEF TypeOK
<1>1. ASSUME UNCHANGED <<enqueued, active>>, Markers' = Markers, wpc # "mark" => wpc' # "mark",
             wpc = "mark" => wpc' = wpc,
             cpc = "deregistered" => cpc' = cpc, cpc' = "open" => cpc = "open"
      PROVE  OneMarker'
  BY <1>1 DEF OneMarker
<1>2. CASE UNCHANGED vars
  BY <1>1, <1>2 DEF vars, Markers
<1>3. CASE Environment
  BY <1>1, <1>3 DEF Environment, AdvanceClock, RedisToggle, OtherReplica, RedisExpires, Markers
<1>4. ASSUME NEW r \in Reqs, NEW k \in Keys, NEW n \in Costs, AllowNReadClock(r, k, n)
      PROVE  OneMarker'
  <2>1. Markers' = Markers
    BY <1>0, <1>4 DEF AllowNReadClock, Markers
  <2> QED  BY <1>1, <1>4, <2>1 DEF AllowNReadClock
<1>5. ASSUME NEW r \in Reqs, AllowNDecide(r) PROVE OneMarker'
  <2>1. PICK x : req' = [req EXCEPT ![r] = x] /\ x \in {[req[r] EXCEPT !.pc = "enqueue"], NoRequest}
    BY <1>5 DEF AllowNDecide
  <2>2. req[r].pc = "decide" /\ req[r] \in RequestState
    BY <1>0, <1>5 DEF AllowNDecide
  <2>3. x.pc # "mark"
    BY <2>1, <2>2 DEF RequestState, NoRequest
  <2>4. Markers' = Markers
    BY <1>0, <2>1, <2>2, <2>3 DEF Markers
  <2> QED  BY <1>1, <1>5, <2>4 DEF AllowNDecide
<1>6. ASSUME NEW r \in Reqs, AllowNEnqueue(r) PROVE OneMarker'
  <2>1. /\ req[r].pc = "enqueue" /\ enqueued' /\ req' = Enqueued(r) /\ req[r] \in RequestState
        /\ UNCHANGED <<active, wpc, cpc>>
    BY <1>0, <1>6 DEF AllowNEnqueue
  <2>2. CASE enqueued
    <3>1. Markers' = Markers
      BY <1>0, <2>1, <2>2 DEF Enqueued, Markers, NoRequest
    <3> QED  BY <2>1, <2>2, <3>1 DEF OneMarker
  <2>3. CASE ~enqueued
    <3>1. Markers' = Markers \cup {r}
      <4>1. req' = [req EXCEPT ![r] = [req[r] EXCEPT !.pc = "mark"]]
        BY <2>1, <2>3 DEF Enqueued
      <4>2. [req[r] EXCEPT !.pc = "mark"].pc = "mark"
        BY <2>1 DEF RequestState
      <4> QED  BY <1>0, <4>1, <4>2 DEF Markers
    <3> QED  BY <2>1, <2>3, <3>1 DEF OneMarker
  <2> QED  BY <1>0, <2>2, <2>3
<1>7. ASSUME NEW r \in Reqs, AllowNMarkActive(r) PROVE OneMarker'
  <2>1. r \in Markers /\ Markers' = Markers \ {r}
    BY <1>0, <1>7 DEF AllowNMarkActive, Markers, NoRequest
  <2> QED  BY <1>7, <2>1 DEF AllowNMarkActive, OneMarker
<1>8. ASSUME NEW p \in Flushers, FlushStep(p) PROVE OneMarker'
  <2>1. Markers' = Markers
    BY <1>8, FlushMarkers DEF Markers
  <2> QED  BY <1>1, <1>8, <2>1, FlushMarkers
<1>9. CASE WorkerLock \/ CloserLock
  BY <1>1, <1>9 DEF WorkerLock, CloserLock, Markers
<1>10. CASE TickShard
  <2>1. Markers' = Markers
    BY <1>10 DEF TickShard, Markers
  <2> QED  BY <1>10, <2>1 DEF TickShard, OneMarker
<1>11. CASE WorkerRequeue
  <2>1. Markers' = Markers
    BY <1>11 DEF WorkerRequeue, Markers
  <2> QED  BY <1>0, <1>11, <2>1 DEF WorkerRequeue, OneMarker
<1>12. CASE WorkerMarkActive
  <2>1. Markers' = Markers
    BY <1>12 DEF WorkerMarkActive, Markers
  <2> QED  BY <1>12, <2>1 DEF WorkerMarkActive, OneMarker
<1>13. CASE Deregister \/ DeregisterClear
  BY <1>13 DEF Deregister, DeregisterClear, OneMarker
<1> QED
  BY <1>2, <1>3, <1>4, <1>5, <1>6, <1>7, <1>8, <1>9, <1>10, <1>11, <1>12, <1>13
  DEF Next, Request, Worker, Closer

\* A flush leaves a fail-closed limiter down only with an error, which is noted
\* as work left over.
LEMMA NoteArmed ==
  ASSUME TypeOK, NEW err \in BOOLEAN, NoteFlushOutcome(err), redisDown' PROVE err
<1>1. FailClosedThreshold \in Nat \ {0}
  BY LocalAsyncAssumption
<1> QED  BY <1>1 DEF NoteFlushOutcome

\* Every step keeps a limiter that is down armed.
LEMMA NextArmed ==
  TypeOK /\ StructInv /\ OneMarker /\ DownStaysArmed /\ [Next]_vars => DownStaysArmed'
<1> SUFFICES ASSUME TypeOK, StructInv, OneMarker, DownStaysArmed, [Next]_vars,
                    redisDown', cpc' = "open"
             PROVE  \/ enqueued'
                    \/ wpc' \in {"due", "requeue"}
                    \/ wpc' = "flush" /\ (fl'["worker"].more \/ fl'["worker"].step # "expire")
  BY DEF DownStaysArmed
<1> USE DEF local, wake, health, flush, server, history
<1>1. CASE UNCHANGED <<redisDown, cpc, enqueued, wpc, fl>>
  BY <1>1 DEF DownStaysArmed
<1>2. CASE UNCHANGED vars
  BY <1>1, <1>2 DEF vars
<1>3. CASE Environment
  BY <1>1, <1>3, Zenon DEF Environment, AdvanceClock, RedisToggle, OtherReplica, RedisExpires
<1>4. ASSUME NEW r \in Reqs, Request(r)
      PROVE  enqueued' \/ UNCHANGED <<redisDown, cpc, enqueued, wpc, fl>>
  BY <1>4, Zenon DEF Request, AllowNReadClock, AllowNDecide, AllowNEnqueue, AllowNMarkActive
<1>5. ASSUME NEW p \in Flushers, FlushStep(p)
      PROVE  \/ enqueued'
             \/ wpc' \in {"due", "requeue"}
             \/ wpc' = "flush" /\ (fl'["worker"].more \/ fl'["worker"].step # "expire")
  <2>1. fl[p] \in FlushLocals /\ fl \in [Flushers -> FlushLocals] /\ redisUp \in BOOLEAN
        /\ FailOpen \in BOOLEAN /\ redisDown \in BOOLEAN
    BY LocalAsyncAssumption DEF TypeOK
  <2>2. fl[p].step # "none"
    BY <1>5, Zenon DEF FlushStep, SnapshotStripe, SnapshotSpill, SnapshotDone, SnapshotEmpty,
           ExecCommand, ExecChunk, ExecFails, ApplyEntry, ApplyDone, ExecExpire
  <2>3. p = "worker" /\ wpc = "flush" /\ cpc = "open"
    <3>1. cpc = "open"
      BY <1>5, FlushMarkers
    <3> QED  BY <2>2, <3>1 DEF StructInv, LockInv, Flushers
  <2>4. StructInv'
    BY <1>5, FlushStruct
  <2>5. CASE SnapshotEmpty(p)
    <3>1. redisDown => ~FailOpen
      BY DEF StructInv, OutcomeInv
    <3>2. MoreAfterEmpty(p, (~FailOpen /\ redisDown) /\ redisDown')
      BY <2>1, <2>3, <2>5, <3>1 DEF SnapshotEmpty, MoreAfterEmpty
    <3> QED  BY <2>3, <2>5, <3>2 DEF SnapshotEmpty, Unlock, AfterFlush
  <2>6. CASE ExecExpire(p)
    <3>1. redisDown /\ enqueued' = enqueued /\ fl[p].step = "expire"
      BY <2>3, <2>6 DEF ExecExpire
    <3>2. enqueued \/ fl[p].more
      BY <2>3, <3>1 DEF DownStaysArmed
    <3> QED  BY <2>3, <2>6, <3>1, <3>2 DEF ExecExpire, Unlock, AfterFlush
  <2>7. CASE ApplyDone(p)
    <3>1. fl[p].tickErr \in BOOLEAN /\ NoteFlushOutcome(fl[p].tickErr)
      BY <2>1, <2>3, <2>7 DEF ApplyDone, FlushLocals
    <3>2. fl[p].more
      BY <3>1, NoteArmed DEF StructInv, OutcomeInv
    <3>3. fl'[p].more = fl[p].more
      BY <2>1, <2>7 DEF ApplyDone, FlushLocals
    <3> QED  BY <2>3, <2>7, <3>2, <3>3 DEF ApplyDone
  <2>9. CASE SnapshotStripe(p)
    <3>1. fl'[p].step = fl[p].step
      BY <2>1, <2>9 DEF SnapshotStripe, FlushLocals
    <3> QED  BY <2>3, <2>9, <3>1 DEF SnapshotStripe
  <2>10. CASE SnapshotSpill(p) \/ SnapshotDone(p)
    <3>1. CASE SnapshotSpill(p)
      <4>1. fl'[p].step = fl[p].step /\ fl[p].step = "snapshot"
        BY <2>1, <3>1 DEF SnapshotSpill, Spill, FlushLocals
      <4> QED  BY <2>3, <3>1, <4>1 DEF SnapshotSpill
    <3>2. CASE SnapshotDone(p)
      <4>1. fl'[p].step = "exec"
        BY <2>1, <3>2 DEF SnapshotDone, FlushLocals
      <4> QED  BY <2>3, <3>2, <4>1 DEF SnapshotDone
    <3> QED  BY <2>10, <3>1, <3>2
  <2>11. CASE ExecCommand(p) \/ ExecChunk(p) \/ ExecFails(p)
    <3>1. CASE ExecCommand(p)
      <4>1. fl'[p].step = fl[p].step /\ fl[p].step = "exec"
        BY <2>1, <3>1 DEF ExecCommand, FlushLocals
      <4> QED  BY <2>3, <3>1, <4>1, Zenon DEF ExecCommand
    <3>2. CASE ExecChunk(p)
      <4>1. fl'[p].step \in {"apply", "exec"}
        BY <2>1, <3>2 DEF ExecChunk, FlushLocals
      <4> QED  BY <2>3, <3>2, <4>1 DEF ExecChunk
    <3>3. CASE ExecFails(p)
      <4>1. fl'[p].step = "apply"
        BY <2>1, <3>3 DEF ExecFails, FlushLocals
      <4> QED  BY <2>3, <3>3, <4>1 DEF ExecFails
    <3> QED  BY <2>11, <3>1, <3>2, <3>3
  <2>12. CASE ApplyEntry(p)
    <3>1. fl'[p].step = fl[p].step
      <4> DEFINE e == fl[p].batch[fl[p].idx + 1]
                 count == fl[p].res[fl[p].idx + 1].count
      <4>1. CASE ApplyError(p, e)
        <5>1. fl' = [fl EXCEPT ![p] = [fl[p] EXCEPT !.idx = fl[p].idx + 1, !.tickErr = TRUE,
                                                    !.more = TRUE]]
          BY <4>1, Zenon DEF ApplyError
        <5> QED  BY <2>1, <5>1 DEF FlushLocals
      <4>2. CASE ApplyReply(p, e, count)
        <5> DEFINE more == fl[p].more \/ (Matches(e) /\ Reconciled(states[e.key], e, count).localDelta # 0)
                   made == fl[p].creators \cup (IF Creates(e, count) THEN {<<e.key, e.ws>>} ELSE {})
        <5>1. fl' = [fl EXCEPT ![p] = [fl[p] EXCEPT !.idx = fl[p].idx + 1, !.more = more,
                                                    !.creators = made]]
          BY <4>2, Zenon DEF ApplyReply
        <5> HIDE DEF more, made
        <5> QED  BY <2>1, <5>1 DEF FlushLocals
      <4> QED  BY <2>12, <4>1, <4>2 DEF ApplyEntry
    <3>2. fl'[p].step = fl[p].step /\ fl[p].step = "apply"
      BY <2>12, <3>1 DEF ApplyEntry
    <3> QED  BY <2>3, <2>12, <3>2 DEF ApplyEntry
  <2> QED
    BY <1>5, <2>5, <2>6, <2>7, <2>9, <2>10, <2>11, <2>12 DEF FlushStep
<1>6. CASE TickShard \/ WorkerRequeue
  BY <1>6 DEF TickShard, WorkerRequeue
<1>7. CASE WorkerLock
  <2>1. fl'["worker"].step = "snapshot"
    BY <1>7 DEF WorkerLock, LockFlush, TypeOK, NoFlush, Flushers
  <2> QED  BY <1>7, <2>1 DEF WorkerLock
<1>8. CASE WorkerMarkActive
  BY <1>8 DEF WorkerMarkActive, OneMarker
<1>9. CASE Closer
  BY <1>9 DEF Closer, Deregister, DeregisterClear, CloserLock
<1> QED
  BY <1>1, <1>2, <1>3, <1>4, <1>5, <1>6, <1>7, <1>8, <1>9 DEF Next, Worker

\* markActive "runs at most once per active period": however AllowN, tickShard and
\* flushDue interleave, enqueued stands for one entry of the active set or for one
\* goroutine about to add it, so neither a wakeup nor an entry is duplicated.
THEOREM MarkerUnique == Spec => []OneMarker
<1>1. Init => OneMarker
  BY DEF Init, OneMarker, Markers, NoRequest
<1>2. TypeOK /\ StructInv /\ OneMarker /\ [Next]_vars => OneMarker'
  BY NextMarker
<1> QED  BY <1>1, <1>2, TypeCorrect, PTL DEF Spec

\* A fail-closed limiter that noteFlushOutcomeLocked marked down is always about
\* to be flushed or probed, so the flag it denies by can be cleared.
THEOREM DownAlwaysArmed == Spec => []DownStaysArmed
<1>1. Init => DownStaysArmed
  BY DEF Init, DownStaysArmed
<1>2. TypeOK /\ StructInv /\ OneMarker /\ DownStaysArmed /\ [Next]_vars => DownStaysArmed'
  BY NextArmed
<1> QED  BY <1>1, <1>2, TypeCorrect, MarkerUnique, PTL DEF Spec

-----------------------------------------------------------------------------
(* What a replica knows of the shared count: a flush never takes globalBase *)
(* back, and one replica grants no more than the limit in a window, whatever*)
(* happens to its flushes.                                                  *)

StateTable == [Keys -> LocalState \cup {NoState}]

\* A window that is still running at time t: Redis keeps its counter.
Open(t, w) == t < w + Duration

\* Replies come in the exec step; entries are applied in the apply step.
ShapeOK(f) ==
    /\ f.step = "none" => f.batch = <<>>
    /\ f.step \in {"none", "snapshot"} => f.res = <<>>
    /\ f.step \in {"none", "snapshot", "exec"} => f.idx = 0
    /\ Len(f.res) <= Len(f.batch)

\* The base of a state of a running window is a count Redis has reached.
BaseOK(t, st, counts) ==
    st # NoState /\ Open(t, st.windowStart) => st.globalBase <= counts[st.windowStart]

\* A reply of a running window is a count Redis has reached, not below an earlier
\* reply for the same window key nor, until it is applied, below the base.
ReplyOK(t, table, counts, f, i) ==
    LET e == f.batch[i]
        c == f.res[i].count
    IN  f.res[i].ok /\ Open(t, e.ws) =>
          /\ c <= counts[e.key][e.ws]
          /\ \A j \in 1..(i - 1) :
               f.res[j].ok /\ f.batch[j].key = e.key /\ f.batch[j].ws = e.ws
                 => f.res[j].count <= c
          /\ i > f.idx /\ table[e.key].windowStart = e.ws => table[e.key].globalBase <= c

RepliesOK(t, table, counts, f) == \A i \in 1..Len(f.res) : ReplyOK(t, table, counts, f, i)

BaseInv ==
    /\ \A p \in Flushers : ShapeOK(fl[p])
    /\ \A k \in Keys : BaseOK(now, states[k], redis[k])
    /\ \A p \in Flushers : RepliesOK(now, states, redis, fl[p])

-----------------------------------------------------------------------------
(* One replica in one window.                                               *)

\* The clock stays in the first window, and a stripe has room for all its keys.
OneWindow == MaxTime < Duration
RoomForAll == \A s \in StripeIds : Cardinality(KeysOf(s)) <= StripeCap

\* What a flush carries for a key is part of the key's delta until it is applied,
\* and a reply that is not applied yet counts it.
EntryOK(table, granted, f, i) ==
    LET e  == f.batch[i]
        st == table[e.key]
    IN  i > f.idx =>
          /\ st.windowStart = e.ws /\ e.flushN <= st.localDelta
          /\ i <= Len(f.res) /\ f.res[i].ok =>
               granted[e.key][0] <= f.res[i].count + (st.localDelta - e.flushN)

\* A flush carries each key once and nothing that was evicted.
BatchOK(f) ==
    /\ \A i, j \in 1..Len(f.batch) : f.batch[i].key = f.batch[j].key => i = j
    /\ \A i \in 1..Len(f.batch) : ~f.batch[i].evicted

EntriesOK(table, granted, f) == \A i \in 1..Len(f.batch) : EntryOK(table, granted, f, i)

\* The snapshot has left the stripe of each key it carries.
StripesLeft(p) ==
    \A i \in 1..Len(fl[p].batch) : ~Unvisited(p, StripeOf[fl[p].batch[i].key])

\* What the replica granted is covered by the count it decides from and by what
\* Redis has or is owed.
GrantOK(st, granted, count) ==
    /\ granted <= st.globalBase + st.localDelta
    /\ granted <= count + st.localDelta
    /\ granted <= Limit

LimitInv ==
    /\ \A s \in StripeIds : evicted[s] = <<>>
    /\ \A p \in Flushers : BatchOK(fl[p]) /\ StripesLeft(p) /\ EntriesOK(states, admitted, fl[p])
    /\ \A k \in Keys : GrantOK(states[k], admitted[k][0], redis[k][0])

-----------------------------------------------------------------------------
(* Types.                                                                   *)

\* A window starts at a time.
LEMMA WindowNat == \A w \in Windows : w \in Nat
<1>1. \A t \in Nat : t - (t % Duration) \in Nat
  BY LocalAsyncAssumption
<1> QED
  BY <1>1, LocalAsyncAssumption DEF Windows, WindowStart

\* The parts of the locals of a flush.
LEMMA LocalsType ==
  ASSUME NEW f \in FlushLocals
  PROVE  /\ f.batch \in Seq(PendingFlush) /\ f.res \in Seq(Reply)
         /\ Len(f.batch) \in Nat /\ Len(f.res) \in Nat
         /\ f.idx \in Nat /\ f.sent \in Nat
         /\ f.i \in Nat /\ f.budget \in Nat /\ f.now \in 0..MaxTime
<1>1. f.i \in 0..NumStripes /\ f.budget \in 0..Budget /\ f.now \in 0..MaxTime
  BY DEF FlushLocals
<1>2. f.i \in Nat /\ f.budget \in Nat
  BY <1>1, LocalAsyncAssumption
<1> QED
  BY <1>1, <1>2 DEF FlushLocals

\* The parts of an entry of a batch.
LEMMA EntryType ==
  ASSUME NEW f \in FlushLocals, NEW i \in 1..Len(f.batch)
  PROVE  /\ f.batch[i] \in PendingFlush
         /\ f.batch[i].key \in Keys /\ f.batch[i].ws \in Windows
         /\ f.batch[i].ws \in Nat /\ f.batch[i].flushN \in Nat
<1>1. f.batch[i] \in PendingFlush
  BY LocalsType, ElementOfSeq
<1> QED
  BY <1>1, WindowNat DEF PendingFlush

\* The parts of a reply.
LEMMA ReplyType ==
  ASSUME NEW f \in FlushLocals, NEW i \in 1..Len(f.res)
  PROVE  f.res[i] \in Reply /\ f.res[i].count \in Nat
<1>1. f.res[i] \in Reply
  BY LocalsType, ElementOfSeq
<1> QED
  BY <1>1 DEF Reply

\* The parts of a state.
LEMMA TableType ==
  ASSUME NEW table \in StateTable, NEW k \in Keys
  PROVE  /\ table[k].globalBase \in Nat /\ table[k].localDelta \in Nat
         /\ table[k] # NoState => table[k] \in LocalState /\ table[k].windowStart \in Windows
                                  /\ table[k].windowStart \in Nat
         /\ NoState.windowStart \notin Windows
         /\ table[k].windowStart \in Windows => table[k] # NoState
<1>1. table[k] \in LocalState \cup {NoState}
  BY DEF StateTable
<1>2. NoState.windowStart \notin Windows /\ NoState.globalBase = 0 /\ NoState.localDelta = 0
  BY WindowNat DEF NoState
<1> QED
  BY <1>1, <1>2, WindowNat DEF LocalState

-----------------------------------------------------------------------------
(* Steps that add no reply and move no base.                                *)

\* The state of a key goes, starts a window anew, or keeps its base.
KeepsBase(before, after) ==
    \/ after = NoState
    \/ after.globalBase = 0 /\ after.windowStart # before.windowStart
    \/ after.windowStart = before.windowStart /\ after.globalBase = before.globalBase

\* A flush has only replies it had before.
KeepsReplies(f, g) ==
    \A i \in 1..Len(g.res) : g.res[i].ok =>
        /\ i \in 1..Len(f.res) /\ g.res[i] = f.res[i]
        /\ \A j \in 1..i : g.batch[j] = f.batch[j]
        /\ g.idx >= f.idx

\* The base stays within the count Redis has reached.
LEMMA BaseFrame ==
  ASSUME NEW t \in Nat, NEW u \in Nat, t <= u,
         NEW before \in LocalState \cup {NoState}, NEW after \in LocalState \cup {NoState},
         NEW counts \in [Windows -> Nat], NEW grown \in [Windows -> Nat],
         \A w \in Windows : Open(u, w) => counts[w] <= grown[w],
         KeepsBase(before, after), BaseOK(t, before, counts)
  PROVE  BaseOK(u, after, grown)
<1> SUFFICES ASSUME after # NoState, Open(u, after.windowStart)
             PROVE  after.globalBase <= grown[after.windowStart]
  BY DEF BaseOK
<1> DEFINE w == after.windowStart
<1>1. w \in Windows /\ w \in Nat /\ after.globalBase \in Nat
  BY WindowNat DEF LocalState
<1>2. grown[w] \in Nat /\ counts[w] \in Nat /\ counts[w] <= grown[w]
  BY <1>1
<1>3. CASE after.globalBase = 0
  BY <1>2, <1>3
<1>4. CASE w = before.windowStart /\ after.globalBase = before.globalBase
  <2>1. before # NoState
    BY <1>1, <1>4 DEF NoState
  <2>2. Open(t, before.windowStart)
    BY <1>1, <1>4, LocalAsyncAssumption DEF Open
  <2> QED
    BY <1>1, <1>2, <1>4, <2>1, <2>2 DEF BaseOK
<1> QED
  BY <1>3, <1>4 DEF KeepsBase

\* The replies of a flush stay between the base and the count Redis has reached.
LEMMA ReplyFrame ==
  ASSUME NEW t \in Nat, NEW u \in Nat, t <= u,
         NEW before \in StateTable, NEW after \in StateTable,
         NEW counts \in Counts, NEW grown \in Counts,
         \A k \in Keys, w \in Windows : Open(u, w) => counts[k][w] <= grown[k][w],
         \A k \in Keys : KeepsBase(before[k], after[k]),
         NEW f \in FlushLocals, NEW g \in FlushLocals,
         ShapeOK(f), KeepsReplies(f, g), RepliesOK(t, before, counts, f)
  PROVE  RepliesOK(u, after, grown, g)
<1> SUFFICES ASSUME NEW i \in 1..Len(g.res) PROVE ReplyOK(u, after, grown, g, i)
  BY DEF RepliesOK
<1> DEFINE e == g.batch[i]
           c == g.res[i].count
<1> SUFFICES ASSUME g.res[i].ok, Open(u, e.ws)
             PROVE  /\ c <= grown[e.key][e.ws]
                    /\ \A j \in 1..(i - 1) :
                         g.res[j].ok /\ g.batch[j].key = e.key /\ g.batch[j].ws = e.ws
                           => g.res[j].count <= c
                    /\ i > g.idx /\ after[e.key].windowStart = e.ws => after[e.key].globalBase <= c
  BY DEF ReplyOK
<1>1. /\ i \in 1..Len(f.res) /\ g.res[i] = f.res[i]
      /\ \A j \in 1..i : g.batch[j] = f.batch[j]
      /\ g.idx >= f.idx
  BY DEF KeepsReplies
<1>2. i \in Nat \ {0} /\ i \in 1..i /\ i \in 1..Len(f.batch) /\ f.idx \in Nat /\ g.idx \in Nat
  BY <1>1, LocalsType DEF ShapeOK
<1>3. e = f.batch[i] /\ c = f.res[i].count /\ f.res[i].ok
  BY <1>1, <1>2
<1>4. e.key \in Keys /\ e.ws \in Windows /\ e.ws \in Nat /\ c \in Nat
  BY <1>1, <1>2, <1>3, EntryType, ReplyType
<1>5. Open(t, e.ws)
  BY <1>4, LocalAsyncAssumption DEF Open
<1>6. /\ c <= counts[e.key][e.ws]
      /\ \A j \in 1..(i - 1) :
           f.res[j].ok /\ f.batch[j].key = e.key /\ f.batch[j].ws = e.ws
             => f.res[j].count <= c
      /\ i > f.idx /\ before[e.key].windowStart = e.ws => before[e.key].globalBase <= c
  BY <1>1, <1>3, <1>5 DEF RepliesOK, ReplyOK
<1> HIDE DEF e, c
<1>7. c <= grown[e.key][e.ws]
  <2>1. counts[e.key][e.ws] \in Nat /\ grown[e.key][e.ws] \in Nat
    BY <1>4 DEF Counts
  <2>2. counts[e.key][e.ws] <= grown[e.key][e.ws]
    BY <1>4
  <2> QED
    BY <1>4, <1>6, <2>1, <2>2
<1>8. ASSUME NEW j \in 1..(i - 1), g.res[j].ok,
             g.batch[j].key = e.key, g.batch[j].ws = e.ws
      PROVE  g.res[j].count <= c
  <2>1. j \in 1..i /\ j \in 1..Len(g.res)
    BY <1>2, LocalsType
  <2>2. g.res[j] = f.res[j]
    BY <1>8, <2>1 DEF KeepsReplies
  <2>3. g.batch[j] = f.batch[j]
    BY <1>1, <2>1
  <2> QED
    BY <1>6, <1>8, <2>2, <2>3
<1>9. ASSUME i > g.idx, after[e.key].windowStart = e.ws PROVE after[e.key].globalBase <= c
  <2>1. i > f.idx
    BY <1>1, <1>2, <1>9
  <2>2. after[e.key] # NoState
    BY <1>4, <1>9, TableType
  <2>3. CASE after[e.key].globalBase = 0
    BY <1>4, <2>3
  <2>4. CASE /\ after[e.key].windowStart = before[e.key].windowStart
             /\ after[e.key].globalBase = before[e.key].globalBase
    BY <1>6, <1>9, <2>1, <2>4
  <2> QED
    BY <1>4, <2>2, <2>3, <2>4 DEF KeepsBase
<1> QED
  BY <1>7, <1>8, <1>9 DEF e, c

\* A flush that does not change keeps its replies.
LEMMA SameReplies == ASSUME NEW f \in FlushLocals PROVE KeepsReplies(f, f)
  BY LocalsType DEF KeepsReplies

\* A step that adds no reply, moves no base and takes nothing from an open counter.
LEMMA BaseKept ==
  ASSUME TypeOK, TypeOK', BaseInv, now <= now',
         \A k \in Keys, w \in Windows : Open(now', w) => redis[k][w] <= redis'[k][w],
         \A k \in Keys : KeepsBase(states[k], states'[k]),
         \A p \in Flushers : ShapeOK(fl'[p]) /\ KeepsReplies(fl[p], fl'[p])
  PROVE  BaseInv'
<1>1. /\ now \in Nat /\ now' \in Nat /\ states \in StateTable /\ states' \in StateTable
      /\ redis \in Counts /\ redis' \in Counts
      /\ fl \in [Flushers -> FlushLocals] /\ fl' \in [Flushers -> FlushLocals]
  BY LocalAsyncAssumption DEF TypeOK, StateTable
<1>2. ASSUME NEW k \in Keys PROVE BaseOK(now', states'[k], redis'[k])
  <2>1. /\ states[k] \in LocalState \cup {NoState} /\ states'[k] \in LocalState \cup {NoState}
        /\ redis[k] \in [Windows -> Nat] /\ redis'[k] \in [Windows -> Nat]
    BY <1>1 DEF StateTable, Counts
  <2>2. \A w \in Windows : Open(now', w) => redis[k][w] <= redis'[k][w]
    OBVIOUS
  <2>3. KeepsBase(states[k], states'[k]) /\ BaseOK(now, states[k], redis[k])
    BY DEF BaseInv
  <2> QED
    BY <1>1, <2>1, <2>2, <2>3, BaseFrame
<1>3. ASSUME NEW p \in Flushers PROVE RepliesOK(now', states', redis', fl'[p])
  <2>1. fl[p] \in FlushLocals /\ fl'[p] \in FlushLocals
    BY <1>1
  <2>2. ShapeOK(fl[p]) /\ KeepsReplies(fl[p], fl'[p]) /\ RepliesOK(now, states, redis, fl[p])
    BY DEF BaseInv
  <2> QED
    BY <1>1, <2>1, <2>2, ReplyFrame
<1> QED
  BY <1>2, <1>3 DEF BaseInv

\* What GlobalBaseMonotone says of one step.
BaseStep ==
    \A k \in Keys :
      /\ Present(states, k) /\ states'[k].windowStart = states[k].windowStart
      /\ now < states[k].windowStart + Duration
      => states'[k].globalBase >= states[k].globalBase

\* States that keep their bases take no base back.
LEMMA KeptStep ==
  ASSUME TypeOK, \A k \in Keys : KeepsBase(states[k], states'[k])
  PROVE  BaseStep
<1> SUFFICES ASSUME NEW k \in Keys, Present(states, k),
                    states'[k].windowStart = states[k].windowStart
             PROVE  states'[k].globalBase >= states[k].globalBase
  BY DEF BaseStep
<1>1. states \in StateTable
  BY DEF TypeOK, StateTable
<1>2. states[k].windowStart \in Windows /\ states[k].globalBase \in Nat
  BY <1>1, TableType DEF Present
<1>3. states'[k] # NoState
  BY <1>1, <1>2, TableType
<1> QED
  BY <1>2, <1>3 DEF KeepsBase

-----------------------------------------------------------------------------
(* The steps.                                                               *)

\* A step that leaves the clock, the states, Redis and the flushes alone.
LEMMA OutsideBase ==
  ASSUME TypeOK, BaseInv, UNCHANGED <<now, states, redis, fl>>
  PROVE  BaseInv' /\ BaseStep
<1>1. BaseInv'
  BY DEF BaseInv
<1>2. \A k \in Keys : KeepsBase(states[k], states'[k])
  BY DEF KeepsBase
<1> QED
  BY <1>1, <1>2, KeptStep

\* The clock, Redis and the other replica take no base or reply back.
LEMMA EnvironmentBase ==
  ASSUME TypeOK, TypeOK', BaseInv, Environment PROVE BaseInv' /\ BaseStep
<1> USE DEF local, wake, health, flush, server, history
<1>1. UNCHANGED <<states, fl>> /\ now <= now'
  <2>1. now \in Nat
    BY LocalAsyncAssumption DEF TypeOK
  <2>2. CASE AdvanceClock
    BY <2>1, <2>2 DEF AdvanceClock
  <2>3. CASE RedisToggle
    BY <2>1, <2>3 DEF RedisToggle
  <2>4. CASE \E k \in Keys : OtherReplica(k)
    BY <2>1, <2>4 DEF OtherReplica
  <2>5. CASE \E k \in Keys, w \in Windows : RedisExpires(k, w)
    BY <2>1, <2>5 DEF RedisExpires
  <2> QED
    BY <2>2, <2>3, <2>4, <2>5 DEF Environment
<1>2. ASSUME NEW k \in Keys, NEW w \in Windows, Open(now', w) PROVE redis[k][w] <= redis'[k][w]
  <2>0. redis \in Counts /\ redis[k][w] \in Nat
    BY DEF TypeOK, Counts
  <2>1. CASE UNCHANGED redis
    BY <2>0, <2>1
  <2>2. ASSUME NEW x \in Keys, OtherReplica(x) PROVE redis[k][w] <= redis'[k][w]
    <3>1. redis' = [redis EXCEPT ![x][WindowStart(now)] = @ + 1]
      BY <2>2 DEF OtherReplica
    <3> QED
      BY <2>0, <3>1 DEF Counts
  <2>3. ASSUME NEW x \in Keys, NEW v \in Windows, RedisExpires(x, v) PROVE redis[k][w] <= redis'[k][w]
    <3>1. redis' = [redis EXCEPT ![x][v] = 0] /\ now >= v + Duration /\ now' = now
      BY <2>3 DEF RedisExpires
    <3>2. now \in Nat /\ v \in Nat /\ w \in Nat
      BY WindowNat DEF TypeOK
    <3>3. w # v
      BY <1>2, <3>1, <3>2, LocalAsyncAssumption DEF Open
    <3> QED
      BY <2>0, <3>1, <3>3 DEF Counts
  <2> QED
    BY <2>1, <2>2, <2>3 DEF Environment, AdvanceClock, RedisToggle
<1>3. \A k \in Keys : KeepsBase(states[k], states'[k])
  BY <1>1 DEF KeepsBase
<1>4. \A p \in Flushers : ShapeOK(fl'[p]) /\ KeepsReplies(fl[p], fl'[p])
  BY <1>1, SameReplies DEF BaseInv, TypeOK
<1> QED
  BY <1>1, <1>2, <1>3, <1>4, BaseKept, KeptStep

\* AllowN keeps the base of the state it finds, or starts a state without one.
LEMMA DecideBase ==
  ASSUME TypeOK, TypeOK', BaseInv, NEW r \in Reqs, AllowNDecide(r)
  PROVE  BaseInv' /\ BaseStep
<1> USE DEF local, wake, health, flush, server, history
<1>1. UNCHANGED <<now, redis, fl>>
  BY DEF AllowNDecide
<1>2. ASSUME NEW k \in Keys PROVE KeepsBase(states[k], states'[k])
  <2> DEFINE key == req[r].key
             same == Present(states, key) /\ states[key].windowStart = req[r].ws
             st == IF same THEN states[key] ELSE FreshState(req[r].ws)
             decision == Decision(st, req[r].n)
             new == IF decision = "allow" THEN [st EXCEPT !.localDelta = @ + req[r].n]
                    ELSE IF decision = "latch-deny" THEN [st EXCEPT !.blocked = TRUE]
                    ELSE st
  <2>1. key \in Keys /\ req[r].ws \in Windows
    BY DEF TypeOK, RequestState
  <2>2. PICK gone : states' = [Remove(states, gone) EXCEPT ![key] = new]
    BY DEF AllowNDecide
  <2>3. CASE k # key
    <3>1. states'[k] = NoState \/ states'[k] = states[k]
      BY <2>2, <2>3 DEF Remove
    <3> QED
      BY <3>1 DEF KeepsBase
  <2>4. CASE k = key
    <3>1. states'[k] = new
      BY <2>1, <2>2, <2>4 DEF Remove
    <3>2. new.windowStart = st.windowStart /\ new.globalBase = st.globalBase
      <4>1. st \in LocalState
        <5>1. FreshState(req[r].ws) \in LocalState
          BY <2>1 DEF FreshState, NoState, LocalState
        <5> QED
          BY <2>1, <5>1, StateType DEF TypeOK
      <4> HIDE DEF st, decision
      <4> QED
        BY <4>1 DEF LocalState
    <3>3. CASE same
      BY <2>4, <3>1, <3>2, <3>3 DEF KeepsBase
    <3>4. CASE ~same
      <4>1. st.windowStart = req[r].ws /\ st.globalBase = 0
        BY <3>4 DEF FreshState, NoState
      <4>2. req[r].ws # states[key].windowStart
        <5>1. states \in StateTable
          BY DEF TypeOK, StateTable
        <5> QED
          BY <2>1, <3>4, <5>1, TableType DEF Present
      <4> QED
        BY <2>4, <3>1, <3>2, <4>1, <4>2 DEF KeepsBase
    <3> QED
      BY <3>3, <3>4
  <2> QED
    BY <2>3, <2>4
<1>3. \A p \in Flushers : ShapeOK(fl'[p]) /\ KeepsReplies(fl[p], fl'[p])
  BY <1>1, SameReplies DEF BaseInv, TypeOK
<1>4. now <= now' /\ \A k \in Keys, w \in Windows : redis[k][w] <= redis'[k][w]
  BY <1>1 DEF TypeOK, Counts
<1> QED
  BY <1>1, <1>2, <1>3, <1>4, BaseKept, KeptStep

\* The empty flush has no replies.
LEMMA NoReplies ==
  ASSUME NEW f \in FlushLocals, NEW g \in FlushLocals, g.res = <<>>
  PROVE  KeepsReplies(f, g)
  BY DEF KeepsReplies

\* The steps of a flush that neither add a reply nor apply one.
QuietStep(p) ==
    \/ SnapshotSpill(p) \/ SnapshotDone(p) \/ SnapshotEmpty(p) \/ ExecChunk(p)
    \/ ExecFails(p) \/ ApplyDone(p) \/ ExecExpire(p)

\* What a step of a flush outside Redis and apply does to its locals.
LEMMA QuietLocals ==
  ASSUME TypeOK, TypeOK', StructInv, BaseInv, NEW p \in Flushers, QuietStep(p)
  PROVE  /\ \/ fl'[p] = NoFlush
            \/ /\ fl'[p].batch = fl[p].batch /\ fl'[p].idx = fl[p].idx
               /\ fl'[p].step = "snapshot" => fl'[p].i = NumStripes
         /\ ShapeOK(fl'[p]) /\ KeepsReplies(fl[p], fl'[p])
<1> USE DEF local, wake, health, flush, server, history
<1>0. /\ fl[p] \in FlushLocals /\ fl \in [Flushers -> FlushLocals]
      /\ fl'[p] \in FlushLocals /\ ShapeOK(fl[p])
  BY DEF TypeOK, BaseInv
<1>1. ASSUME fl' = [fl EXCEPT ![p] = NoFlush]
      PROVE  fl'[p] = NoFlush /\ ShapeOK(fl'[p]) /\ KeepsReplies(fl[p], fl'[p])
  <2>1. fl'[p] = NoFlush
    BY <1>0, <1>1
  <2>2. ShapeOK(fl'[p]) /\ fl'[p].res = <<>>
    BY <2>1 DEF ShapeOK, NoFlush
  <2> QED
    BY <1>0, <2>1, <2>2, NoReplies
<1>2. CASE SnapshotEmpty(p) \/ ExecExpire(p)
  BY <1>1, <1>2 DEF SnapshotEmpty, ExecExpire, Unlock
<1>3. ASSUME fl'[p].batch = fl[p].batch, fl'[p].idx = fl[p].idx, fl'[p].res = fl[p].res
      PROVE  KeepsReplies(fl[p], fl'[p])
  <2>1. \A i : i \in 1..Len(fl'[p].res) => i \in 1..Len(fl[p].res) /\ fl'[p].res[i] = fl[p].res[i]
    BY <1>3
  <2>2. fl'[p].idx >= fl[p].idx
    BY <1>0, <1>3, LocalsType
  <2> QED
    BY <1>3, <2>1, <2>2 DEF KeepsReplies
<1>4. CASE SnapshotSpill(p)
  <2>1. fl'[p] = [fl[p] EXCEPT !.i = NumStripes, !.more = TRUE]
    BY <1>0, <1>4 DEF SnapshotSpill, Spill
  <2>2. /\ fl'[p].batch = fl[p].batch /\ fl'[p].idx = fl[p].idx /\ fl'[p].res = fl[p].res
        /\ fl'[p].step = fl[p].step /\ fl'[p].i = NumStripes
    BY <1>0, <2>1 DEF FlushLocals
  <2> QED
    BY <1>0, <1>3, <2>2 DEF ShapeOK
<1>5. CASE SnapshotDone(p)
  <2>1. fl'[p] = [fl[p] EXCEPT !.step = "exec"] /\ fl[p].step = "snapshot"
    BY <1>0, <1>5 DEF SnapshotDone
  <2>2. /\ fl'[p].batch = fl[p].batch /\ fl'[p].idx = fl[p].idx /\ fl'[p].res = fl[p].res
        /\ fl'[p].step = "exec"
    BY <1>0, <2>1 DEF FlushLocals
  <2> QED
    BY <1>0, <1>3, <2>1, <2>2 DEF ShapeOK
<1>6. CASE ExecChunk(p)
  <2>1. fl'[p] = [fl[p] EXCEPT !.sent = ChunkEnd(p),
                    !.step = IF ChunkEnd(p) = Len(fl[p].batch) THEN "apply" ELSE "exec"]
        /\ fl[p].step = "exec"
    BY <1>0, <1>6 DEF ExecChunk
  <2>2. /\ fl'[p].batch = fl[p].batch /\ fl'[p].idx = fl[p].idx /\ fl'[p].res = fl[p].res
        /\ fl'[p].step \in {"apply", "exec"}
    BY <1>0, <2>1 DEF FlushLocals
  <2> QED
    BY <1>0, <1>3, <2>1, <2>2 DEF ShapeOK
<1>7. CASE ApplyDone(p)
  <2>1. fl'[p] = [fl[p] EXCEPT !.step = "expire"] /\ fl[p].step = "apply"
    BY <1>0, <1>7 DEF ApplyDone
  <2>2. /\ fl'[p].batch = fl[p].batch /\ fl'[p].idx = fl[p].idx /\ fl'[p].res = fl[p].res
        /\ fl'[p].step = "expire"
    BY <1>0, <2>1 DEF FlushLocals
  <2> QED
    BY <1>0, <1>3, <2>1, <2>2 DEF ShapeOK
<1>8. CASE ExecFails(p)
  <2>1. fl'[p] = [fl[p] EXCEPT !.res = TailFailed(p), !.step = "apply"] /\ fl[p].step = "exec"
    BY <1>0, <1>8 DEF ExecFails
  <2>2. /\ fl'[p].batch = fl[p].batch /\ fl'[p].idx = fl[p].idx /\ fl'[p].res = TailFailed(p)
        /\ fl'[p].step = "apply"
    BY <1>0, <2>1 DEF FlushLocals
  <2>3. Len(TailFailed(p)) = Len(fl[p].batch)
    <3>1. Len(fl[p].batch) \in Nat /\ TailFailed(p) \in Seq(Reply)
      BY <1>0, <2>2, LocalsType
    <3> QED
      BY <3>1 DEF TailFailed
  <2>4. ShapeOK(fl'[p])
    BY <1>0, <2>2, <2>3, LocalsType DEF ShapeOK
  <2>5. ASSUME NEW i \in 1..Len(fl'[p].res), fl'[p].res[i].ok
        PROVE  i \in 1..Len(fl[p].res) /\ fl'[p].res[i] = fl[p].res[i]
    <3>1. fl'[p].res[i] = IF i <= fl[p].sent THEN fl[p].res[i] ELSE [ok |-> FALSE, count |-> 0]
      BY <2>2, <2>3, <2>5 DEF TailFailed
    <3>2. i <= fl[p].sent
      BY <2>5, <3>1
    <3>3. fl[p].sent <= Len(fl[p].res)
      BY DEF StructInv, BatchInv
    <3> QED
      BY <1>0, <3>1, <3>2, <3>3, LocalsType
  <2>6. fl'[p].idx >= fl[p].idx
    BY <1>0, <2>2, LocalsType
  <2> QED
    BY <2>2, <2>4, <2>5, <2>6 DEF KeepsReplies
<1> QED
  BY <1>2, <1>4, <1>5, <1>6, <1>7, <1>8 DEF QuietStep

\* What such a step leaves alone.
LEMMA QuietFrame ==
  ASSUME TypeOK, NEW p \in Flushers, QuietStep(p)
  PROVE  /\ UNCHANGED <<now, states, evicted, redis, admitted, other, dropped>>
         /\ \A q \in Flushers : q # p => fl'[q] = fl[q]
<1> USE DEF local, wake, health, flush, server, history
<1>0. fl \in [Flushers -> FlushLocals]
  BY DEF TypeOK
<1>1. UNCHANGED <<now, states, evicted, redis, admitted, other, dropped>> /\ \E f : fl' = [fl EXCEPT ![p] = f]
  <2>1. CASE SnapshotSpill(p)
    BY <2>1 DEF SnapshotSpill, Spill
  <2>2. CASE SnapshotDone(p)
    BY <2>2 DEF SnapshotDone
  <2>3. CASE SnapshotEmpty(p)
    BY <2>3 DEF SnapshotEmpty, Unlock
  <2>4. CASE ExecChunk(p)
    BY <2>4 DEF ExecChunk
  <2>5. CASE ExecFails(p)
    BY <2>5 DEF ExecFails
  <2>6. CASE ApplyDone(p)
    BY <2>6 DEF ApplyDone
  <2>7. CASE ExecExpire(p)
    BY <2>7 DEF ExecExpire, Unlock
  <2> QED
    BY <2>1, <2>2, <2>3, <2>4, <2>5, <2>6, <2>7 DEF QuietStep
<1> QED
  BY <1>0, <1>1

\* Such a step keeps the invariant.
LEMMA QuietBase ==
  ASSUME TypeOK, TypeOK', StructInv, BaseInv, NEW p \in Flushers, QuietStep(p)
  PROVE  BaseInv' /\ BaseStep
<1>1. UNCHANGED <<now, states, redis>> /\ \A q \in Flushers : q # p => fl'[q] = fl[q]
  BY QuietFrame
<1>2. \A k \in Keys : KeepsBase(states[k], states'[k])
  BY <1>1 DEF KeepsBase
<1>3. \A q \in Flushers : ShapeOK(fl'[q]) /\ KeepsReplies(fl[q], fl'[q])
  BY <1>1, QuietLocals, SameReplies DEF BaseInv, TypeOK
<1>4. now <= now' /\ \A k \in Keys, w \in Windows : redis[k][w] <= redis'[k][w]
  BY <1>1 DEF TypeOK, Counts
<1> QED
  BY <1>2, <1>3, <1>4, BaseKept, KeptStep

\* What one stripe of the snapshot does to the flush: it appends evicted entries,
\* then the deltas of keys of the stripe.
LEMMA SnapshotLocals ==
  ASSUME TypeOK, NEW p \in Flushers, SnapshotStripe(p)
  PROVE  /\ fl'[p].res = fl[p].res /\ fl'[p].idx = fl[p].idx
         /\ fl'[p].step = "snapshot" /\ fl[p].step = "snapshot"
         /\ fl'[p].i = fl[p].i + 1 /\ fl[p].i < NumStripes
         /\ \A q \in Flushers : q # p => fl'[q] = fl[q]
         /\ \E V \in SUBSET (dirty \cap KeysOf(StripeAt(fl[p].i))) :
            \E order \in Orderings({k \in V : states[k].localDelta # 0}) :
              fl'[p].batch = fl[p].batch
                   \o SubSeq(evicted[StripeAt(fl[p].i)], 1,
                             MinOf(Len(evicted[StripeAt(fl[p].i)]), fl[p].budget))
                   \o [j \in 1..Len(order) |-> PendingOf(order[j])]
<1> DEFINE s == StripeAt(fl[p].i)
           take == MinOf(Len(evicted[s]), fl[p].budget)
           b == fl[p].budget - take
           D == dirty \cap KeysOf(s)
<1>0. fl[p] \in FlushLocals /\ fl \in [Flushers -> FlushLocals]
  BY DEF TypeOK
<1>1. PICK V \in Visits(D, b) : \E order \in Orderings({k \in V : states[k].localDelta # 0}) :
        fl' = [fl EXCEPT ![p] = [fl[p] EXCEPT
             !.batch = fl[p].batch \o SubSeq(evicted[s], 1, take)
                         \o [j \in 1..Len(order) |-> PendingOf(order[j])],
             !.budget = b - Len(order),
             !.more = fl[p].more \/ take < Len(evicted[s]) \/ V # D,
             !.i = fl[p].i + 1]]
  BY ZenonT(30) DEF SnapshotStripe
<1>2. V \in SUBSET D
  BY <1>1 DEF Visits
<1>3. PICK order \in Orderings({k \in V : states[k].localDelta # 0}) :
        fl' = [fl EXCEPT ![p] = [fl[p] EXCEPT
             !.batch = fl[p].batch \o SubSeq(evicted[s], 1, take)
                         \o [j \in 1..Len(order) |-> PendingOf(order[j])],
             !.budget = b - Len(order),
             !.more = fl[p].more \/ take < Len(evicted[s]) \/ V # D,
             !.i = fl[p].i + 1]]
  BY <1>1, Zenon
<1> DEFINE batch == fl[p].batch \o SubSeq(evicted[s], 1, take)
                         \o [j \in 1..Len(order) |-> PendingOf(order[j])]
           more == fl[p].more \/ take < Len(evicted[s]) \/ V # D
           left == b - Len(order)
<1>4. fl' = [fl EXCEPT ![p] = [fl[p] EXCEPT !.batch = batch, !.budget = left,
                                             !.more = more, !.i = fl[p].i + 1]]
  BY <1>3, Zenon DEF batch, more, left
<1>5. fl[p].step = "snapshot" /\ fl[p].i < NumStripes
  BY DEF SnapshotStripe
<1> HIDE DEF batch, more, left
<1>6. fl'[p] = [fl[p] EXCEPT !.batch = batch, !.budget = left, !.more = more, !.i = fl[p].i + 1]
      /\ \A q \in Flushers : q # p => fl'[q] = fl[q]
  BY <1>0, <1>4
<1>7. /\ fl'[p].res = fl[p].res /\ fl'[p].idx = fl[p].idx /\ fl'[p].step = fl[p].step
      /\ fl'[p].i = fl[p].i + 1 /\ fl'[p].batch = batch
  BY <1>0, <1>6 DEF FlushLocals
<1>8. \E o \in Orderings({k \in V : states[k].localDelta # 0}) :
        fl'[p].batch = fl[p].batch \o SubSeq(evicted[s], 1, take)
                         \o [j \in 1..Len(o) |-> PendingOf(o[j])]
  BY <1>3, <1>7, Zenon DEF batch
<1> HIDE DEF D
<1>9. \E W \in SUBSET D : \E o \in Orderings({k \in W : states[k].localDelta # 0}) :
        fl'[p].batch = fl[p].batch \o SubSeq(evicted[s], 1, take)
                         \o [j \in 1..Len(o) |-> PendingOf(o[j])]
  BY <1>2, <1>8, Zenon
<1> QED
  BY <1>5, <1>6, <1>7, <1>9, Zenon DEF D

\* A snapshot removes states and adds to the batch; it has no replies yet.
LEMMA SnapshotBase ==
  ASSUME TypeOK, TypeOK', BaseInv, NEW p \in Flushers, SnapshotStripe(p)
  PROVE  BaseInv' /\ BaseStep
<1> USE DEF local, wake, health, flush, server, history
<1>0. /\ fl[p] \in FlushLocals /\ fl \in [Flushers -> FlushLocals]
      /\ fl'[p] \in FlushLocals /\ ShapeOK(fl[p])
  BY DEF TypeOK, BaseInv
<1>1. UNCHANGED <<now, redis>> /\ \E K : states' = Remove(states, K)
  <2>1. states' = Remove(states, ExpiredStates(states, StripeAt(fl[p].i), fl[p].now))
    BY DEF SnapshotStripe
  <2> QED
    BY <2>1 DEF SnapshotStripe
<1>2. \A k \in Keys : KeepsBase(states[k], states'[k])
  BY <1>1 DEF KeepsBase, Remove
<1>5. /\ fl'[p].res = fl[p].res /\ fl'[p].idx = fl[p].idx /\ fl'[p].step = "snapshot"
      /\ fl[p].step = "snapshot" /\ \A q \in Flushers : q # p => fl'[q] = fl[q]
  BY SnapshotLocals
<1>6. fl'[p].res = <<>> /\ ShapeOK(fl'[p])
  BY <1>0, <1>5, LocalsType DEF ShapeOK
<1>7. \A q \in Flushers : ShapeOK(fl'[q]) /\ KeepsReplies(fl[q], fl'[q])
  BY <1>0, <1>5, <1>6, SameReplies, NoReplies DEF BaseInv
<1>8. now <= now' /\ \A k \in Keys, w \in Windows : redis[k][w] <= redis'[k][w]
  BY <1>1 DEF TypeOK, Counts
<1> QED
  BY <1>2, <1>7, <1>8, BaseKept, KeptStep

\* flushMu is taken: a flush without replies.
LEMMA LockBase ==
  ASSUME TypeOK, TypeOK', BaseInv, NEW p \in Flushers, LockFlush(p), UNCHANGED <<now, states, redis>>
  PROVE  BaseInv' /\ BaseStep
<1>0. /\ fl \in [Flushers -> FlushLocals] /\ fl' \in [Flushers -> FlushLocals]
  BY DEF TypeOK
<1>1. fl'[p].res = <<>> /\ ShapeOK(fl'[p])
  BY <1>0 DEF LockFlush, NoFlush, ShapeOK
<1>2. \A q \in Flushers : q # p => fl'[q] = fl[q]
  BY <1>0 DEF LockFlush
<1>3. \A q \in Flushers : ShapeOK(fl'[q]) /\ KeepsReplies(fl[q], fl'[q])
  BY <1>0, <1>1, <1>2, SameReplies, NoReplies DEF BaseInv
<1>4. \A k \in Keys : KeepsBase(states[k], states'[k])
  BY DEF KeepsBase
<1>5. now <= now' /\ \A k \in Keys, w \in Windows : redis[k][w] <= redis'[k][w]
  BY DEF TypeOK, Counts
<1> QED
  BY <1>3, <1>4, <1>5, BaseKept, KeptStep

\* One INCRBY: entry n of the batch, e, is answered with the count c.
ExecEffect(p, n, e, c) ==
    /\ n = Len(fl[p].res) + 1 /\ e = fl[p].batch[n] /\ c = redis[e.key][e.ws] + e.flushN
    /\ n \in 1..Len(fl[p].batch) /\ n \in Nat /\ Len(fl'[p].res) = n
    /\ fl'[p].batch = fl[p].batch /\ fl'[p].idx = fl[p].idx /\ fl'[p].step = "exec"
    /\ fl'[p].res[n] = [ok |-> TRUE, count |-> c]
    /\ \A j \in 1..(n - 1) : fl'[p].res[j] = fl[p].res[j] /\ j \in 1..Len(fl[p].res)
    /\ \A q \in Flushers : q # p => fl'[q] = fl[q]
    /\ \A k \in Keys, w \in Windows :
         redis'[k][w] = IF k = e.key /\ w = e.ws THEN c ELSE redis[k][w]
    /\ e.key \in Keys /\ e.ws \in Windows /\ e.flushN \in Nat
    /\ c \in Nat /\ redis[e.key][e.ws] \in Nat /\ redis[e.key][e.ws] <= c
    /\ fl[p].step = "exec" /\ UNCHANGED <<now, states, evicted, admitted, flushCursor>>

\* What a command of the pipeline does to the locals.
LEMMA ExecLocals ==
  ASSUME TypeOK, NEW p \in Flushers, ExecCommand(p)
  PROVE  \E n, e, c : ExecEffect(p, n, e, c)
<1> USE DEF local, wake, health, flush, server, history
<1>0. /\ fl[p] \in FlushLocals /\ fl \in [Flushers -> FlushLocals]
      /\ fl[p].res \in Seq(Reply) /\ Len(fl[p].res) \in Nat /\ Len(fl[p].batch) \in Nat
      /\ fl[p].sent \in Nat
  BY LocalsType DEF TypeOK
<1> DEFINE n == Len(fl[p].res) + 1
           e == fl[p].batch[n]
           c == redis[e.key][e.ws] + e.flushN
           new == [ok |-> TRUE, count |-> c]
<1>1. n \in 1..Len(fl[p].batch) /\ n \in Nat
  <2>1. ChunkEnd(p) \in Nat /\ ChunkEnd(p) <= Len(fl[p].batch)
    BY <1>0, LocalAsyncAssumption DEF ChunkEnd, MinOf
  <2>2. Len(fl[p].res) < ChunkEnd(p)
    BY DEF ExecCommand
  <2> QED
    BY <1>0, <2>1, <2>2
<1>2. \A j \in 1..(n - 1) : j \in 1..Len(fl[p].res)
  BY <1>0
<1> HIDE DEF n
<1>3. e.key \in Keys /\ e.ws \in Windows /\ e.flushN \in Nat
  BY <1>0, <1>1, EntryType
<1>4. fl' = [fl EXCEPT ![p] = [fl[p] EXCEPT !.res = Append(fl[p].res, new)]]
      /\ redis' = [redis EXCEPT ![e.key][e.ws] = c]
  BY Zenon DEF ExecCommand, n
<1> HIDE DEF e
<1>5. redis[e.key][e.ws] \in Nat /\ redis \in Counts
  BY <1>3 DEF TypeOK, Counts
<1>6. c \in Nat /\ redis[e.key][e.ws] <= c
  BY <1>3, <1>5
<1> HIDE DEF c
<1>7. new \in Reply
  BY <1>6 DEF Reply
<1>8. ASSUME NEW k \in Keys, NEW w \in Windows
      PROVE  redis'[k][w] = IF k = e.key /\ w = e.ws THEN c ELSE redis[k][w]
  <2>1. redis'[k] = IF k = e.key THEN [redis[k] EXCEPT ![e.ws] = c] ELSE redis[k]
    BY <1>3, <1>4, <1>5 DEF Counts
  <2> QED
    BY <1>5, <2>1 DEF Counts
<1> HIDE DEF new
<1>9. fl'[p] = [fl[p] EXCEPT !.res = Append(fl[p].res, new)]
      /\ \A q \in Flushers : q # p => fl'[q] = fl[q]
  BY <1>0, <1>4
<1>10. /\ fl'[p].batch = fl[p].batch /\ fl'[p].idx = fl[p].idx /\ fl'[p].step = fl[p].step
       /\ fl'[p].res = Append(fl[p].res, new)
  BY <1>0, <1>9 DEF FlushLocals
<1>11. /\ Len(Append(fl[p].res, new)) = Len(fl[p].res) + 1
       /\ Append(fl[p].res, new)[Len(fl[p].res) + 1] = new
       /\ \A j \in 1..Len(fl[p].res) : Append(fl[p].res, new)[j] = fl[p].res[j]
  BY <1>0, <1>7, AppendProperties
<1>12. /\ Len(fl'[p].res) = n /\ fl'[p].res[n] = [ok |-> TRUE, count |-> c]
       /\ \A j \in 1..(n - 1) : fl'[p].res[j] = fl[p].res[j]
  BY <1>2, <1>10, <1>11 DEF n, new
<1>13. fl[p].step = "exec" /\ UNCHANGED <<now, states, evicted, admitted, flushCursor>>
  BY Zenon DEF ExecCommand
<1>14. n = Len(fl[p].res) + 1 /\ e = fl[p].batch[n] /\ c = redis[e.key][e.ws] + e.flushN
  BY DEF n, e, c
<1>15. ExecEffect(p, n, e, c)
  BY <1>1, <1>2, <1>3, <1>5, <1>6, <1>8, <1>9, <1>10, <1>12, <1>13, <1>14, Zenon DEF ExecEffect
<1> QED
  BY <1>15, Zenon

\* INCRBY answers with a count no smaller than the base and the replies before it.
LEMMA ExecBase ==
  ASSUME TypeOK, TypeOK', StructInv, BaseInv, NEW p \in Flushers, ExecCommand(p)
  PROVE  BaseInv' /\ BaseStep
<1>0. /\ fl[p] \in FlushLocals /\ fl \in [Flushers -> FlushLocals] /\ states \in StateTable
      /\ fl'[p] \in FlushLocals /\ ShapeOK(fl[p]) /\ redis \in Counts /\ redis' \in Counts
      /\ now \in Nat /\ states' \in StateTable
  BY LocalAsyncAssumption DEF TypeOK, BaseInv, StateTable
<1>1. PICK n, e, c : ExecEffect(p, n, e, c)
  BY ExecLocals
<1>a. /\ n = Len(fl[p].res) + 1 /\ e = fl[p].batch[n]
      /\ n \in 1..Len(fl[p].batch) /\ n \in Nat /\ Len(fl'[p].res) = n
      /\ fl'[p].batch = fl[p].batch /\ fl'[p].idx = fl[p].idx /\ fl'[p].step = "exec"
      /\ fl[p].step = "exec"
  BY <1>1, Zenon DEF ExecEffect
<1>b. /\ fl'[p].res[n] = [ok |-> TRUE, count |-> c]
      /\ \A j \in 1..(n - 1) : fl'[p].res[j] = fl[p].res[j] /\ j \in 1..Len(fl[p].res)
      /\ \A q \in Flushers : q # p => fl'[q] = fl[q]
  BY <1>1, Zenon DEF ExecEffect
<1>c. /\ \A k \in Keys, w \in Windows :
           redis'[k][w] = IF k = e.key /\ w = e.ws THEN c ELSE redis[k][w]
      /\ c \in Nat /\ redis[e.key][e.ws] \in Nat /\ redis[e.key][e.ws] <= c
  BY <1>1, Zenon DEF ExecEffect
<1>d. now' = now /\ states' = states /\ e.key \in Keys /\ e.ws \in Windows
  BY <1>1, Zenon DEF ExecEffect
<1>2. ASSUME NEW k \in Keys, NEW w \in Windows PROVE redis[k][w] <= redis'[k][w]
  <2>1. redis[k][w] \in Nat
    BY <1>0 DEF Counts
  <2> QED
    BY <1>c, <2>1
<1>3. \A k \in Keys : KeepsBase(states[k], states'[k])
  BY <1>d DEF KeepsBase
<1>4. ShapeOK(fl'[p])
  BY <1>0, <1>a, LocalsType DEF ShapeOK
<1>5. ASSUME NEW k \in Keys PROVE BaseOK(now', states'[k], redis'[k])
  <2>1. /\ states[k] \in LocalState \cup {NoState} /\ states'[k] \in LocalState \cup {NoState}
        /\ redis[k] \in [Windows -> Nat] /\ redis'[k] \in [Windows -> Nat]
    BY <1>0 DEF StateTable, Counts
  <2>2. now \in Nat /\ now' \in Nat /\ now <= now'
    BY <1>0, <1>d
  <2>3. \A w \in Windows : Open(now', w) => redis[k][w] <= redis'[k][w]
    BY <1>2
  <2>4. KeepsBase(states[k], states'[k]) /\ BaseOK(now, states[k], redis[k])
    BY <1>3 DEF BaseInv
  <2> QED
    BY <2>1, <2>2, <2>3, <2>4, BaseFrame
<1>6. ASSUME NEW q \in Flushers, q # p PROVE RepliesOK(now', states', redis', fl'[q])
  <2>1. fl[q] \in FlushLocals /\ fl'[q] = fl[q] /\ KeepsReplies(fl[q], fl[q])
    BY <1>0, <1>b, <1>6, SameReplies
  <2>2. now \in Nat /\ now <= now
    BY <1>0
  <2>3. \A k \in Keys, w \in Windows : Open(now, w) => redis[k][w] <= redis'[k][w]
    BY <1>2
  <2>4. \A k \in Keys : KeepsBase(states[k], states[k])
    BY DEF KeepsBase
  <2>5. ShapeOK(fl[q]) /\ RepliesOK(now, states, redis, fl[q])
    BY DEF BaseInv
  <2>6. RepliesOK(now, states, redis', fl[q])
    BY <1>0, <2>1, <2>2, <2>3, <2>4, <2>5, ReplyFrame
  <2> QED
    BY <1>d, <2>1, <2>6
<1>7. RepliesOK(now', states', redis', fl'[p])
  <2> SUFFICES ASSUME NEW i \in 1..n PROVE ReplyOK(now, states, redis', fl'[p], i)
    BY <1>a, <1>d DEF RepliesOK
  <2>1. RepliesOK(now, states, redis, fl[p])
    BY DEF BaseInv
  <2>2. \A j \in 1..n : fl'[p].batch[j] = fl[p].batch[j]
    BY <1>a
  <2>3. CASE i # n
    <3>1. i \in 1..Len(fl[p].res) /\ i \in 1..Len(fl[p].batch) /\ i \in 1..(n - 1)
      BY <1>0, <1>a, <2>3, LocalsType
    <3>2. ReplyOK(now, states, redis, fl[p], i)
      BY <2>1, <3>1 DEF RepliesOK
    <3>3. fl'[p].res[i] = fl[p].res[i] /\ \A j \in 1..(i - 1) : fl'[p].res[j] = fl[p].res[j]
      BY <1>a, <1>b, <3>1
    <3> DEFINE x == fl[p].batch[i]
    <3>4. x.key \in Keys /\ x.ws \in Windows /\ fl[p].res[i].count \in Nat
      BY <1>0, <3>1, EntryType, ReplyType
    <3>5. redis[x.key][x.ws] <= redis'[x.key][x.ws] /\ redis[x.key][x.ws] \in Nat
          /\ redis'[x.key][x.ws] \in Nat
      BY <1>0, <1>2, <3>4 DEF Counts
    <3>6. fl[p].res[i].count <= redis[x.key][x.ws] => fl[p].res[i].count <= redis'[x.key][x.ws]
      BY <3>4, <3>5
    <3> QED
      BY <1>a, <3>2, <3>3, <3>6, Zenon DEF ReplyOK
  <2>4. CASE i = n
    <3>1. redis[e.key][e.ws] \in Nat /\ redis'[e.key][e.ws] = c /\ c \in Nat
          /\ redis[e.key][e.ws] <= c
      BY <1>c, <1>d
    <3>2. fl'[p].batch[n] = e /\ fl'[p].res[n].count = c
      BY <1>a, <1>b
    <3>3. ASSUME NEW j \in 1..(n - 1), Open(now, e.ws), fl[p].res[j].ok, fl[p].batch[j].key = e.key,
                 fl[p].batch[j].ws = e.ws
          PROVE  fl[p].res[j].count <= c
      <4>1. j \in 1..Len(fl[p].res) /\ fl[p].res[j].count \in Nat
        BY <1>0, <1>b, ReplyType
      <4>2. fl[p].res[j].count <= redis[e.key][e.ws]
        BY <2>1, <3>3, <4>1 DEF RepliesOK, ReplyOK
      <4> QED
        BY <3>1, <4>1, <4>2
    <3>4. ASSUME Open(now, e.ws), states[e.key].windowStart = e.ws PROVE states[e.key].globalBase <= c
      <4>1. states[e.key] # NoState /\ states[e.key].globalBase \in Nat
        BY <1>0, <1>d, <3>4, TableType
      <4>2. states[e.key].globalBase <= redis[e.key][e.ws]
        BY <1>d, <3>4, <4>1 DEF BaseInv, BaseOK
      <4> QED
        BY <3>1, <4>1, <4>2
    <3>5. c <= redis'[e.key][e.ws]
      BY <3>1
    <3>6. \A j \in 1..(n - 1) : fl'[p].batch[j] = fl[p].batch[j] /\ fl'[p].res[j] = fl[p].res[j]
      BY <1>a, <1>b
    <3> QED
      BY <2>4, <3>2, <3>3, <3>4, <3>5, <3>6 DEF ReplyOK
  <2> QED
    BY <2>3, <2>4
<1>8. BaseInv'
  <2>1. \A q \in Flushers : ShapeOK(fl'[q])
    BY <1>b, <1>4 DEF BaseInv
  <2> QED
    BY <1>5, <1>6, <1>7, <2>1 DEF BaseInv
<1> QED
  BY <1>3, <1>8, KeptStep

\* Entry i of the batch, e, is applied: an error or a reply for a state that is
\* gone changes no state; any other reply is reconciled.
ApplyEffect(p, i, e, c) ==
    /\ i = fl[p].idx + 1 /\ e = fl[p].batch[i] /\ c = fl[p].res[i].count
    /\ i \in 1..Len(fl[p].batch) /\ i \in 1..Len(fl[p].res) /\ c \in Nat
    /\ e.key \in Keys /\ e.ws \in Windows /\ e.flushN \in Nat
    /\ fl'[p].batch = fl[p].batch /\ fl'[p].res = fl[p].res /\ fl'[p].idx = i
    /\ fl'[p].step = "apply" /\ fl[p].step = "apply"
    /\ \A q \in Flushers : q # p => fl'[q] = fl[q]
    /\ UNCHANGED <<now, redis, admitted, flushCursor>>
    /\ ~e.evicted => evicted' = evicted
    /\ \/ states' = states /\ (~fl[p].res[i].ok \/ states[e.key].windowStart # e.ws)
       \/ /\ fl[p].res[i].ok /\ states[e.key].windowStart = e.ws
          /\ states' = [states EXCEPT ![e.key] = Reconciled(states[e.key], e, c)]

\* What applying an entry does to the locals.
LEMMA ApplyLocals ==
  ASSUME TypeOK, StructInv, NEW p \in Flushers, ApplyEntry(p)
  PROVE  \E i, e, c : ApplyEffect(p, i, e, c)
<1> USE DEF local, wake, health, flush, server, history
<1>0. /\ fl[p] \in FlushLocals /\ fl \in [Flushers -> FlushLocals]
      /\ Len(fl[p].res) \in Nat /\ Len(fl[p].batch) \in Nat /\ fl[p].idx \in Nat
      /\ states \in StateTable
  BY LocalsType DEF TypeOK, StateTable
<1> DEFINE i == fl[p].idx + 1
           e == fl[p].batch[i]
           c == fl[p].res[i].count
<1>1. fl[p].step = "apply" /\ fl[p].idx < Len(fl[p].batch)
      /\ UNCHANGED <<now, redis, admitted, flushCursor>>
  BY DEF ApplyEntry
<1>2. i \in 1..Len(fl[p].batch) /\ i \in 1..Len(fl[p].res)
  BY <1>0, <1>1 DEF StructInv, BatchInv
<1>3. IF fl[p].res[i].ok THEN ApplyReply(p, e, c) ELSE ApplyError(p, e)
  BY DEF ApplyEntry
<1> HIDE DEF i
<1>4. e.key \in Keys /\ e.ws \in Windows /\ e.flushN \in Nat /\ c \in Nat
  BY <1>0, <1>2, EntryType, ReplyType
<1> HIDE DEF e, c
<1>5. Matches(e) <=> states[e.key].windowStart = e.ws
  <2>1. states[e.key].windowStart = e.ws => states[e.key] # NoState
    BY <1>0, <1>4, TableType
  <2> QED
    BY <2>1 DEF Matches, Present
<1>6. /\ \/ states' = states /\ (~fl[p].res[i].ok \/ states[e.key].windowStart # e.ws)
         \/ /\ fl[p].res[i].ok /\ states[e.key].windowStart = e.ws
            /\ states' = [states EXCEPT ![e.key] = Reconciled(states[e.key], e, c)]
      /\ ~e.evicted => evicted' = evicted
  <2>1. CASE fl[p].res[i].ok
    BY <1>3, <1>5, <2>1 DEF ApplyReply
  <2>2. CASE ~fl[p].res[i].ok
    BY <1>3, <2>2 DEF ApplyError
  <2> QED
    BY <2>1, <2>2
<1>7. \E more, err, made : fl' = [fl EXCEPT ![p] = [fl[p] EXCEPT !.idx = fl[p].idx + 1,
                                   !.more = more, !.tickErr = err, !.creators = made]]
  <2>1. CASE fl[p].res[i].ok
    <3>1. \E more, made : fl' = [fl EXCEPT ![p] = [fl[p] EXCEPT !.idx = fl[p].idx + 1,
                                                  !.more = more, !.creators = made]]
      BY <1>3, <2>1, Zenon DEF ApplyReply
    <3>2. fl[p].tickErr = fl[p].tickErr
      OBVIOUS
    <3>3. PICK more, made : fl' = [fl EXCEPT ![p] = [fl[p] EXCEPT !.idx = fl[p].idx + 1,
                                                  !.more = more, !.creators = made]]
      BY <3>1, Zenon
    <3>4. [fl[p] EXCEPT !.idx = fl[p].idx + 1, !.more = more, !.creators = made]
          = [fl[p] EXCEPT !.idx = fl[p].idx + 1, !.more = more, !.tickErr = fl[p].tickErr,
                          !.creators = made]
      BY <1>0 DEF FlushLocals
    <3> QED
      BY <3>3, <3>4, Zenon
  <2>2. CASE ~fl[p].res[i].ok
    <3>1. fl' = [fl EXCEPT ![p] = [fl[p] EXCEPT !.idx = fl[p].idx + 1, !.tickErr = TRUE, !.more = TRUE]]
      BY <1>3, <2>2, Zenon DEF ApplyError
    <3>2. [fl[p] EXCEPT !.idx = fl[p].idx + 1, !.tickErr = TRUE, !.more = TRUE]
          = [fl[p] EXCEPT !.idx = fl[p].idx + 1, !.more = TRUE, !.tickErr = TRUE,
                          !.creators = fl[p].creators]
      BY <1>0 DEF FlushLocals
    <3>3. fl' = [fl EXCEPT ![p] = [fl[p] EXCEPT !.idx = fl[p].idx + 1, !.more = TRUE,
                                     !.tickErr = TRUE, !.creators = fl[p].creators]]
      BY <3>1, <3>2
    <3> QED
      BY <3>3, Zenon
  <2> QED
    BY <2>1, <2>2, Zenon
<1>8. PICK more, err, made : fl' = [fl EXCEPT ![p] = [fl[p] EXCEPT !.idx = fl[p].idx + 1,
                                   !.more = more, !.tickErr = err, !.creators = made]]
  BY <1>7, Zenon
<1>9. fl'[p] = [fl[p] EXCEPT !.idx = fl[p].idx + 1, !.more = more, !.tickErr = err, !.creators = made]
      /\ \A q \in Flushers : q # p => fl'[q] = fl[q]
  BY <1>0, <1>8
<1>10. /\ fl'[p].batch = fl[p].batch /\ fl'[p].res = fl[p].res /\ fl'[p].idx = i
       /\ fl'[p].step = fl[p].step
  BY <1>0, <1>9 DEF FlushLocals, i
<1>11. i = fl[p].idx + 1 /\ e = fl[p].batch[i] /\ c = fl[p].res[i].count
  BY DEF i, e, c
<1>12. ApplyEffect(p, i, e, c)
  BY <1>1, <1>2, <1>4, <1>6, <1>9, <1>10, <1>11, Zenon DEF ApplyEffect
<1> QED
  BY <1>12, Zenon

\* The state of a key after a reply is applied to it.
LEMMA ReconciledType ==
  ASSUME NEW st \in LocalState, NEW e, NEW c
  PROVE  /\ Reconciled(st, e, c).windowStart = st.windowStart
         /\ Reconciled(st, e, c).globalBase = c
         /\ ~e.evicted => Reconciled(st, e, c).localDelta = MaxOf(st.localDelta - e.flushN, 0)
  BY DEF Reconciled, LocalState

\* Applying a reply raises the base, and not above the replies still to be applied.
LEMMA ApplyBase ==
  ASSUME TypeOK, TypeOK', StructInv, BaseInv, NEW p \in Flushers, ApplyEntry(p)
  PROVE  BaseInv' /\ BaseStep
<1>0. /\ fl[p] \in FlushLocals /\ fl \in [Flushers -> FlushLocals] /\ states \in StateTable
      /\ fl'[p] \in FlushLocals /\ ShapeOK(fl[p]) /\ redis \in Counts
      /\ now \in Nat /\ states' \in StateTable
  BY LocalAsyncAssumption DEF TypeOK, BaseInv, StateTable
<1>1. PICK i, e, c : ApplyEffect(p, i, e, c)
  BY ApplyLocals
<1>a. /\ i = fl[p].idx + 1 /\ e = fl[p].batch[i] /\ c = fl[p].res[i].count
      /\ i \in 1..Len(fl[p].batch) /\ i \in 1..Len(fl[p].res) /\ c \in Nat
      /\ e.key \in Keys /\ e.ws \in Windows /\ e.flushN \in Nat
  BY <1>1, Zenon DEF ApplyEffect
<1>b. /\ fl'[p].batch = fl[p].batch /\ fl'[p].res = fl[p].res /\ fl'[p].idx = i
      /\ fl'[p].step = "apply" /\ fl[p].step = "apply"
      /\ \A q \in Flushers : q # p => fl'[q] = fl[q]
  BY <1>1, Zenon DEF ApplyEffect
<1>c. now' = now /\ redis' = redis
  BY <1>1, Zenon DEF ApplyEffect
<1>d. \/ states' = states
      \/ /\ fl[p].res[i].ok /\ states[e.key].windowStart = e.ws
         /\ states' = [states EXCEPT ![e.key] = Reconciled(states[e.key], e, c)]
  BY <1>1, Zenon DEF ApplyEffect
<1>2. ShapeOK(fl'[p]) /\ \A q \in Flushers : ShapeOK(fl'[q])
  <2>1. ShapeOK(fl'[p])
    BY <1>0, <1>b DEF ShapeOK
  <2> QED
    BY <1>b, <2>1 DEF BaseInv
<1>3. CASE states' = states
  <2>1. \A k \in Keys : KeepsBase(states[k], states'[k])
    BY <1>3 DEF KeepsBase
  <2>2. now <= now' /\ \A k \in Keys, w \in Windows : redis[k][w] <= redis'[k][w]
    BY <1>c DEF TypeOK, Counts
  <2>3. KeepsReplies(fl[p], fl'[p])
    <3>1. fl'[p].idx >= fl[p].idx
      BY <1>0, <1>a, <1>b, LocalsType
    <3> QED
      BY <1>b, <3>1 DEF KeepsReplies
  <2>4. \A q \in Flushers : ShapeOK(fl'[q]) /\ KeepsReplies(fl[q], fl'[q])
    BY <1>0, <1>2, <1>b, <2>3, SameReplies
  <2> QED
    BY <2>1, <2>2, <2>4, BaseKept, KeptStep
<1>4. CASE /\ fl[p].res[i].ok /\ states[e.key].windowStart = e.ws
           /\ states' = [states EXCEPT ![e.key] = Reconciled(states[e.key], e, c)]
  <2>1. states[e.key] \in LocalState
    BY <1>0, <1>4, <1>a, TableType
  <2>2. /\ states'[e.key].windowStart = e.ws /\ states'[e.key].globalBase = c
        /\ \A k \in Keys : k # e.key => states'[k] = states[k]
    <3>1. states'[e.key] = Reconciled(states[e.key], e, c)
          /\ \A k \in Keys : k # e.key => states'[k] = states[k]
      BY <1>0, <1>4, <1>a, Zenon DEF StateTable
    <3> QED
      BY <1>4, <2>1, <3>1, ReconciledType
  <2>3. ReplyOK(now, states, redis, fl[p], i)
    BY <1>a DEF BaseInv, RepliesOK
  <2>4. Open(now, e.ws) => c <= redis[e.key][e.ws] /\ states[e.key].globalBase <= c
    <3>1. i > fl[p].idx
      BY <1>0, <1>a, LocalsType
    <3> QED
      BY <1>4, <1>a, <2>3, <3>1, Zenon DEF ReplyOK
  <2>5. ASSUME NEW k \in Keys PROVE BaseOK(now', states'[k], redis'[k])
    <3>1. BaseOK(now, states[k], redis[k])
      BY DEF BaseInv
    <3> QED
      BY <1>c, <2>2, <2>4, <3>1 DEF BaseOK
  <2>6. ASSUME NEW q \in Flushers, q # p PROVE RepliesOK(now', states', redis', fl'[q])
    <3>1. fl[q].step = "none"
      BY <1>b, <2>6 DEF StructInv, LockInv
    <3>2. fl'[q].res = <<>>
      BY <1>b, <2>6, <3>1 DEF BaseInv, ShapeOK
    <3> QED
      BY <3>2 DEF RepliesOK
  <2>7. RepliesOK(now', states', redis', fl'[p])
    <3> SUFFICES ASSUME NEW m \in 1..Len(fl[p].res) PROVE ReplyOK(now, states', redis, fl'[p], m)
      BY <1>b, <1>c DEF RepliesOK
    <3>1. PICK x, y : x = fl[p].batch[m] /\ y = fl[p].res[m].count
      OBVIOUS
    <3>2. ReplyOK(now, states, redis, fl[p], m)
      BY DEF BaseInv, RepliesOK
    <3>3. ASSUME fl[p].res[m].ok, Open(now, x.ws), m > i, states'[x.key].windowStart = x.ws
          PROVE  states'[x.key].globalBase <= y
      <4>1. m \in 1..Len(fl[p].batch) /\ m > fl[p].idx
        BY <1>0, <1>a, <3>3, LocalsType DEF ShapeOK
      <4>2. x.key \in Keys
        BY <1>0, <3>1, <4>1, EntryType
      <4>3. CASE x.key # e.key
        <5>1. states'[x.key] = states[x.key]
          BY <2>2, <4>2, <4>3
        <5> QED
          BY <3>1, <3>2, <3>3, <4>1, <5>1 DEF ReplyOK
      <4>4. CASE x.key = e.key
        <5>1. x.ws = e.ws
          BY <2>2, <3>3, <4>4
        <5>2. i \in 1..(m - 1)
          BY <1>0, <1>a, <3>3, LocalsType
        <5>3. c <= y
          BY <1>4, <1>a, <3>1, <3>2, <3>3, <4>4, <5>1, <5>2, Zenon DEF ReplyOK
        <5> QED
          BY <2>2, <4>4, <5>3
      <4> QED
        BY <4>3, <4>4
    <3> QED
      BY <1>b, <3>1, <3>2, <3>3 DEF ReplyOK
  <2>8. BaseInv'
    BY <1>2, <2>5, <2>6, <2>7 DEF BaseInv
  <2>9. BaseStep
    <3> SUFFICES ASSUME NEW k \in Keys, Present(states, k), now < states[k].windowStart + Duration
                 PROVE  states'[k].globalBase >= states[k].globalBase
      BY DEF BaseStep
    <3>1. states[k].globalBase \in Nat
      BY <1>0, TableType
    <3>2. CASE k # e.key
      BY <2>2, <3>1, <3>2
    <3>3. CASE k = e.key
      <4>1. Open(now, e.ws)
        BY <1>4, <3>3 DEF Open
      <4> QED
        BY <1>a, <2>2, <2>4, <3>1, <3>3, <4>1, Zenon
    <3> QED
      BY <3>2, <3>3
  <2> QED
    BY <2>8, <2>9
<1> QED
  BY <1>3, <1>4, <1>d

-----------------------------------------------------------------------------

\* The invariant holds initially.
LEMMA InitBase == Init => BaseInv
<1> SUFFICES ASSUME Init PROVE BaseInv
  OBVIOUS
<1>1. \A p \in Flushers : fl[p] = NoFlush
  BY DEF Init
<1>2. \A p \in Flushers : ShapeOK(fl[p]) /\ RepliesOK(now, states, redis, fl[p])
  BY <1>1 DEF NoFlush, ShapeOK, RepliesOK
<1>3. \A k \in Keys : BaseOK(now, states[k], redis[k])
  BY DEF Init, BaseOK
<1> QED
  BY <1>2, <1>3 DEF BaseInv

\* Every step keeps the invariant and takes no base back.
LEMMA NextBase ==
  ASSUME TypeOK, TypeOK', StructInv, BaseInv, [Next]_vars PROVE BaseInv' /\ BaseStep
<1> USE DEF local, wake, health, flush, server, history
<1>1. CASE UNCHANGED vars
  BY <1>1, OutsideBase DEF vars
<1>2. CASE Environment
  BY <1>2, EnvironmentBase
<1>3. ASSUME NEW r \in Reqs, Request(r) PROVE BaseInv' /\ BaseStep
  <2>1. CASE AllowNDecide(r)
    BY <2>1, DecideBase
  <2>2. CASE \E k \in Keys, n \in Costs : AllowNReadClock(r, k, n)
    BY <2>2, OutsideBase DEF AllowNReadClock
  <2>3. CASE AllowNEnqueue(r)
    BY <2>3, OutsideBase DEF AllowNEnqueue
  <2>4. CASE AllowNMarkActive(r)
    BY <2>4, OutsideBase DEF AllowNMarkActive
  <2> QED
    BY <1>3, <2>1, <2>2, <2>3, <2>4 DEF Request
<1>4. ASSUME NEW p \in Flushers, FlushStep(p) PROVE BaseInv' /\ BaseStep
  BY <1>4, SnapshotBase, ExecBase, ApplyBase, QuietBase DEF FlushStep, QuietStep
<1>5. CASE Worker
  <2>1. CASE WorkerLock
    BY <2>1, LockBase DEF WorkerLock, Flushers
  <2>2. CASE TickShard \/ WorkerRequeue \/ WorkerMarkActive
    BY <2>2, OutsideBase DEF TickShard, WorkerRequeue, WorkerMarkActive
  <2> QED
    BY <1>5, <2>1, <2>2 DEF Worker
<1>6. CASE Closer
  <2>1. CASE CloserLock
    BY <2>1, LockBase DEF CloserLock, Flushers
  <2>2. CASE Deregister \/ DeregisterClear
    BY <2>2, OutsideBase DEF Deregister, DeregisterClear
  <2> QED
    BY <1>6, <2>1, <2>2 DEF Closer
<1> QED
  BY <1>1, <1>2, <1>3, <1>4, <1>5, <1>6 DEF Next

\* Concurrency invariant 3 of redis_local_async.go: while a window is running, a
\* flush never takes the globalBase of a state of that window back, whichever
\* goroutine flushes and whatever was evicted and recreated meanwhile.
THEOREM BaseNeverFallsBack == Spec => GlobalBaseMonotone
<1>1. Init => BaseInv
  BY InitBase
<1>2. TypeOK /\ StructInv /\ (TypeOK /\ StructInv)' /\ BaseInv /\ [Next]_vars => BaseInv'
  BY NextBase
<1>3. TypeOK /\ StructInv /\ (TypeOK /\ StructInv)' /\ BaseInv /\ [Next]_vars
        => [\A k \in Keys :
              /\ Present(states, k) /\ states'[k].windowStart = states[k].windowStart
              /\ now < states[k].windowStart + Duration
              => states'[k].globalBase >= states[k].globalBase]_vars
  BY NextBase DEF BaseStep
<1> QED
  BY <1>1, <1>2, <1>3, TypeCorrect, PTL DEF Spec, GlobalBaseMonotone

-----------------------------------------------------------------------------
(* One replica in one window.                                               *)

\* While the clock stays in the first window there is no other.
LEMMA OnlyWindow ==
  ASSUME OneWindow
  PROVE  0 \in Windows /\ \A w \in Windows : w = 0
<1>1. ASSUME NEW t \in 0..MaxTime PROVE WindowStart(t) = 0
  <2>1. t \in Nat /\ t < Duration /\ Duration \in Nat \ {0}
    BY LocalAsyncAssumption DEF OneWindow
  <2>2. t % Duration = t
    BY <2>1
  <2> QED
    BY <2>1, <2>2 DEF WindowStart
<1>2. 0 \in 0..MaxTime
  BY LocalAsyncAssumption
<1> QED
  BY <1>1, <1>2 DEF Windows

\* The types of what the limit is about.
LEMMA LimitTypes ==
  ASSUME TypeOK, OneWindow, NEW k \in Keys
  PROVE  /\ states \in StateTable /\ admitted[k][0] \in Nat /\ redis[k][0] \in Nat
         /\ states[k].globalBase \in Nat /\ states[k].localDelta \in Nat
         /\ states[k] # NoState => states[k] \in LocalState /\ states[k].windowStart = 0
<1>1. states \in StateTable /\ redis \in Counts /\ admitted \in Counts
  BY DEF TypeOK, StateTable
<1> QED
  BY <1>1, OnlyWindow, TableType DEF Counts

\* Nothing expires while the clock is in the first window.
LEMMA NothingExpires ==
  ASSUME TypeOK, OneWindow, NEW s, NEW t \in 0..MaxTime
  PROVE  ExpiredStates(states, s, t) = {}
<1> SUFFICES ASSUME NEW k \in ExpiredStates(states, s, t) PROVE FALSE
  OBVIOUS
<1>1. k \in Keys /\ states[k] # NoState /\ t > states[k].windowStart + Duration + Grace
  BY DEF ExpiredStates, KeysOf, Present
<1>2. states[k].windowStart = 0
  BY <1>1, LimitTypes
<1> QED
  BY <1>1, <1>2, LocalAsyncAssumption DEF OneWindow

\* A stripe with room for all its keys evicts nothing to insert one of them.
LEMMA NothingEvicted ==
  ASSUME TypeOK, OneWindow, RoomForAll, NEW k \in Keys, ~Present(states, k), NEW t
  PROVE  Evictions(StripeOf[k], t) = {[gone |-> {}, victim |-> {}]}
<1> DEFINE s == StripeOf[k]
           used == {x \in KeysOf(s) : Present(states, x)}
<1>1. s \in StripeIds /\ k \in KeysOf(s) /\ k \notin used
  BY LocalAsyncAssumption DEF StripeIds, KeysOf
<1>2. IsFiniteSet(KeysOf(s)) /\ used \subseteq KeysOf(s)
  BY FS_Subset, LocalAsyncAssumption DEF KeysOf
<1>3. IsFiniteSet(used) /\ Cardinality(used) <= Cardinality(KeysOf(s))
      /\ Cardinality(used) # Cardinality(KeysOf(s))
      /\ Cardinality(used) \in Nat /\ Cardinality(KeysOf(s)) \in Nat
  BY <1>1, <1>2, FS_Subset, FS_CardinalityType
<1>4. Cardinality(KeysOf(s)) <= StripeCap
  BY <1>1 DEF RoomForAll
<1>5. Cardinality(used) < StripeCap
  BY <1>3, <1>4, LocalAsyncAssumption
<1> QED
  BY <1>5 DEF Evictions

\* A step that leaves the states, the flushes, the counter and the grants alone.
LEMMA OutsideLimit ==
  ASSUME LimitInv, UNCHANGED <<states, evicted, fl, flushCursor, redis, admitted>>
  PROVE  LimitInv'
  BY DEF LimitInv, StripesLeft, Unvisited, StripeAt

\* Nothing is taken from the counter of a key.
LEMMA CountGrows ==
  ASSUME TypeOK, OneWindow, LimitInv, NEW k \in Keys, NEW c \in Nat, redis[k][0] <= c
  PROVE  GrantOK(states[k], admitted[k][0], c)
<1>1. GrantOK(states[k], admitted[k][0], redis[k][0])
  BY DEF LimitInv
<1> QED
  BY <1>1, LimitTypes DEF GrantOK

\* The environment grants nothing and takes nothing from Redis.
LEMMA EnvironmentLimit ==
  ASSUME TypeOK, TypeOK', OneWindow, LimitInv, Environment PROVE LimitInv'
<1> USE DEF local, wake, health, flush, server, history
<1>1. CASE AdvanceClock
  BY <1>1, OutsideLimit DEF AdvanceClock
<1>2. CASE RedisToggle
  BY <1>2, OutsideLimit DEF RedisToggle
<1>3. ASSUME NEW x \in Keys, OtherReplica(x) PROVE LimitInv'
  <2>1. UNCHANGED <<states, evicted, fl, flushCursor, admitted>>
        /\ redis' = [redis EXCEPT ![x][WindowStart(now)] = @ + 1]
    BY <1>3 DEF OtherReplica
  <2>2. ASSUME NEW k \in Keys PROVE GrantOK(states[k], admitted[k][0], redis'[k][0])
    <3>1. redis \in Counts /\ redis' \in Counts
      BY DEF TypeOK
    <3>2. redis[k][0] \in Nat /\ redis'[k][0] \in Nat
      BY <3>1, OnlyWindow DEF Counts
    <3>3. redis[k][0] <= redis'[k][0]
      BY <2>1, <3>1, <3>2, OnlyWindow DEF Counts
    <3> QED
      BY <3>2, <3>3, CountGrows
  <2> QED
    BY <2>1, <2>2 DEF LimitInv, StripesLeft, Unvisited, StripeAt
<1>4. ASSUME NEW k \in Keys, NEW w \in Windows, RedisExpires(k, w) PROVE FALSE
  <2>1. now >= w + Duration /\ w = 0
    BY <1>4, OnlyWindow DEF RedisExpires
  <2> QED
    BY <2>1, LocalAsyncAssumption DEF OneWindow, TypeOK
<1> QED
  BY <1>1, <1>2, <1>3, <1>4 DEF Environment

\* A flush without a batch promises nothing.
LEMMA EmptyBatch ==
  ASSUME NEW f, f.batch = <<>>, NEW table, NEW granted
  PROVE  BatchOK(f) /\ EntriesOK(table, granted, f)
  BY DEF BatchOK, EntriesOK

\* Steps outside Redis and apply move no count.
LEMMA QuietLimit ==
  ASSUME TypeOK, TypeOK', StructInv, BaseInv, LimitInv, NEW p \in Flushers, QuietStep(p)
  PROVE  LimitInv'
<1>1. UNCHANGED <<states, evicted, redis, admitted>> /\ \A q \in Flushers : q # p => fl'[q] = fl[q]
  BY QuietFrame
<1>2. fl[p].step # "none"
  BY DEF QuietStep, SnapshotSpill, SnapshotDone, SnapshotEmpty, ExecChunk, ExecFails,
         ApplyDone, ExecExpire
<1>3. ASSUME NEW q \in Flushers, q # p
      PROVE  BatchOK(fl'[q]) /\ StripesLeft(q)' /\ EntriesOK(states', admitted', fl'[q])
  <2>1. fl[q].step = "none"
    BY <1>2, <1>3 DEF StructInv, LockInv
  <2>2. fl'[q].batch = <<>>
    BY <1>1, <1>3, <2>1 DEF BaseInv, ShapeOK
  <2> QED
    BY <2>2, EmptyBatch DEF StripesLeft
<1>4. BatchOK(fl'[p]) /\ StripesLeft(p)' /\ EntriesOK(states', admitted', fl'[p])
  <2>1. CASE fl'[p] = NoFlush
    <3>1. fl'[p].batch = <<>>
      BY <2>1 DEF NoFlush
    <3> QED
      BY <3>1, EmptyBatch DEF StripesLeft
  <2>2. CASE /\ fl'[p].batch = fl[p].batch /\ fl'[p].idx = fl[p].idx
             /\ fl'[p].step = "snapshot" => fl'[p].i = NumStripes
    <3>1. BatchOK(fl'[p])
      BY <2>2 DEF LimitInv, BatchOK
    <3>2. \A s : ~Unvisited(p, s)'
      BY <2>2, LocalAsyncAssumption DEF Unvisited
    <3>3. StripesLeft(p)'
      BY <3>2 DEF StripesLeft
    <3>4. ASSUME NEW i \in 1..Len(fl'[p].batch) PROVE EntryOK(states', admitted', fl'[p], i)
      <4>1. EntryOK(states, admitted, fl[p], i) /\ KeepsReplies(fl[p], fl'[p])
        BY <2>2, QuietLocals DEF LimitInv, EntriesOK
      <4>2. ASSUME i <= Len(fl'[p].res), fl'[p].res[i].ok
            PROVE  i <= Len(fl[p].res) /\ fl'[p].res[i] = fl[p].res[i]
        <5>1. Len(fl'[p].res) \in Nat /\ Len(fl[p].res) \in Nat
          BY LocalsType DEF TypeOK
        <5>2. i \in 1..Len(fl'[p].res)
          BY <4>2, <5>1
        <5>3. i \in 1..Len(fl[p].res) /\ fl'[p].res[i] = fl[p].res[i]
          BY <4>1, <4>2, <5>2 DEF KeepsReplies
        <5> QED
          BY <5>1, <5>3
      <4> QED
        BY <1>1, <2>2, <4>1, <4>2 DEF EntryOK
    <3> QED
      BY <3>1, <3>3, <3>4 DEF EntriesOK
  <2> QED
    BY <2>1, <2>2, QuietLocals
<1> QED
  BY <1>1, <1>3, <1>4 DEF LimitInv

\* A flush starts with an empty batch.
LEMMA LockLimit ==
  ASSUME TypeOK, LimitInv, NEW p \in Flushers, LockFlush(p),
         UNCHANGED <<states, evicted, flushCursor, redis, admitted>>
  PROVE  LimitInv'
<1>0. fl \in [Flushers -> FlushLocals]
  BY DEF TypeOK
<1>1. fl'[p].batch = <<>> /\ \A q \in Flushers : q # p => fl'[q] = fl[q]
  BY <1>0 DEF LockFlush, NoFlush
<1>2. BatchOK(fl'[p]) /\ StripesLeft(p)' /\ EntriesOK(states', admitted', fl'[p])
  BY <1>1, EmptyBatch DEF StripesLeft
<1>3. ASSUME NEW q \in Flushers, q # p
      PROVE  BatchOK(fl'[q]) /\ StripesLeft(q)' /\ EntriesOK(states', admitted', fl'[q])
  BY <1>1, <1>3 DEF LimitInv, StripesLeft, Unvisited, StripeAt
<1> QED
  BY <1>2, <1>3 DEF LimitInv

\* A reply counts what was granted when it came.
LEMMA ExecLimit ==
  ASSUME TypeOK, TypeOK', StructInv, BaseInv, OneWindow, LimitInv, NEW p \in Flushers, ExecCommand(p)
  PROVE  LimitInv'
<1>0. /\ fl[p] \in FlushLocals /\ fl'[p] \in FlushLocals /\ redis \in Counts
  BY DEF TypeOK
<1>1. PICK n, e, c : ExecEffect(p, n, e, c)
  BY ExecLocals
<1>a. /\ n = Len(fl[p].res) + 1 /\ e = fl[p].batch[n] /\ c = redis[e.key][e.ws] + e.flushN
      /\ n \in 1..Len(fl[p].batch) /\ n \in Nat /\ Len(fl'[p].res) = n
      /\ fl'[p].batch = fl[p].batch /\ fl'[p].idx = fl[p].idx /\ fl'[p].step = "exec"
      /\ fl[p].step = "exec"
  BY <1>1, Zenon DEF ExecEffect
<1>b. /\ fl'[p].res[n] = [ok |-> TRUE, count |-> c]
      /\ \A j \in 1..(n - 1) : fl'[p].res[j] = fl[p].res[j] /\ j \in 1..Len(fl[p].res)
      /\ \A q \in Flushers : q # p => fl'[q] = fl[q]
  BY <1>1, Zenon DEF ExecEffect
<1>c. /\ \A k \in Keys, w \in Windows :
           redis'[k][w] = IF k = e.key /\ w = e.ws THEN c ELSE redis[k][w]
      /\ c \in Nat /\ redis[e.key][e.ws] \in Nat /\ redis[e.key][e.ws] <= c
  BY <1>1, Zenon DEF ExecEffect
<1>d. UNCHANGED <<states, evicted, admitted, flushCursor>>
  BY <1>1, Zenon DEF ExecEffect
<1>e. e.key \in Keys /\ e.ws \in Windows /\ e.flushN \in Nat /\ e.ws = 0
  BY <1>1, OnlyWindow, Zenon DEF ExecEffect
<1>2. ASSUME NEW k \in Keys PROVE GrantOK(states'[k], admitted'[k][0], redis'[k][0])
  <2>1. redis[k][0] <= redis'[k][0] /\ redis'[k][0] \in Nat
    BY <1>c, <1>e, LimitTypes
  <2> QED
    BY <1>d, <2>1, CountGrows
<1>3. ASSUME NEW q \in Flushers PROVE BatchOK(fl'[q]) /\ StripesLeft(q)'
  <2>1. CASE q # p
    BY <1>b, <1>d, <2>1 DEF LimitInv, StripesLeft, Unvisited, StripeAt
  <2>2. CASE q = p
    <3>1. BatchOK(fl'[p])
      BY <1>a, Zenon DEF LimitInv, BatchOK
    <3>2. StripesLeft(p)'
      BY <1>a DEF StripesLeft, Unvisited
    <3> QED
      BY <2>2, <3>1, <3>2
  <2> QED
    BY <2>1, <2>2
<1>4. ASSUME NEW q \in Flushers, q # p PROVE EntriesOK(states', admitted', fl'[q])
  BY <1>b, <1>d, <1>4 DEF LimitInv
<1>5. ASSUME NEW i \in 1..Len(fl'[p].batch) PROVE EntryOK(states', admitted', fl'[p], i)
  <2>1. EntryOK(states, admitted, fl[p], i) /\ i \in 1..Len(fl[p].batch)
    BY <1>a DEF LimitInv, EntriesOK
  <2>2. CASE i = n
    <3>1. fl'[p].batch[i] = e /\ fl'[p].res[i].count = c
      <4>1. fl'[p].batch[n] = e
        BY <1>a
      <4>2. fl'[p].res[n].count = c
        BY <1>b
      <4> QED
        BY <2>2, <4>1, <4>2
    <3>2. admitted[e.key][0] <= redis[e.key][0] + states[e.key].localDelta
      BY <1>e DEF LimitInv, GrantOK
    <3>3. i > fl[p].idx => states[e.key].windowStart = e.ws /\ e.flushN <= states[e.key].localDelta
      BY <1>a, <2>1, <2>2, Zenon DEF EntryOK
    <3>4. admitted[e.key][0] <= c + (states[e.key].localDelta - e.flushN)
      <4>1. c = redis[e.key][0] + e.flushN
        BY <1>a, <1>e
      <4>2. /\ admitted[e.key][0] \in Nat /\ redis[e.key][0] \in Nat
            /\ states[e.key].localDelta \in Nat /\ e.flushN \in Nat
        BY <1>e, LimitTypes
      <4> QED
        BY <3>2, <4>1, <4>2
    <3> QED
      BY <1>a, <1>d, <3>1, <3>3, <3>4, Zenon DEF EntryOK
  <2>3. CASE i # n
    <3>1. i <= Len(fl'[p].res) => i <= Len(fl[p].res) /\ fl'[p].res[i] = fl[p].res[i]
      <4> SUFFICES ASSUME i <= Len(fl'[p].res)
                   PROVE  i <= Len(fl[p].res) /\ fl'[p].res[i] = fl[p].res[i]
        OBVIOUS
      <4>1. i \in 1..(n - 1) /\ Len(fl[p].res) \in Nat
        BY <1>0, <1>a, <2>1, <2>3, LocalsType
      <4> QED
        BY <1>b, <4>1
    <3> QED
      BY <1>a, <1>d, <2>1, <3>1, Zenon DEF EntryOK
  <2> QED
    BY <2>2, <2>3
<1> QED
  BY <1>2, <1>3, <1>4, <1>5, <1>d DEF LimitInv, EntriesOK

\* Applying an entry moves its tokens from the delta to the base.
LEMMA ApplyLimit ==
  ASSUME TypeOK, TypeOK', StructInv, BaseInv, OneWindow, LimitInv, NEW p \in Flushers, ApplyEntry(p)
  PROVE  LimitInv'
<1>0. /\ fl[p] \in FlushLocals /\ states \in StateTable /\ fl[p].idx \in Nat
      /\ Len(fl[p].batch) \in Nat
  BY LocalsType DEF TypeOK, StateTable
<1>1. PICK i, e, c : ApplyEffect(p, i, e, c)
  BY ApplyLocals
<1>a. /\ i = fl[p].idx + 1 /\ e = fl[p].batch[i] /\ c = fl[p].res[i].count
      /\ i \in 1..Len(fl[p].batch) /\ i \in 1..Len(fl[p].res) /\ c \in Nat
      /\ e.key \in Keys /\ e.ws \in Windows /\ e.flushN \in Nat
  BY <1>1, Zenon DEF ApplyEffect
<1>b. /\ fl'[p].batch = fl[p].batch /\ fl'[p].res = fl[p].res /\ fl'[p].idx = i
      /\ fl'[p].step = "apply" /\ fl[p].step = "apply"
      /\ \A q \in Flushers : q # p => fl'[q] = fl[q]
  BY <1>1, Zenon DEF ApplyEffect
<1>c. UNCHANGED <<now, redis, admitted, flushCursor>> /\ (~e.evicted => evicted' = evicted)
  BY <1>1, Zenon DEF ApplyEffect
<1>d. \/ states' = states
      \/ /\ fl[p].res[i].ok /\ states[e.key].windowStart = e.ws
         /\ states' = [states EXCEPT ![e.key] = Reconciled(states[e.key], e, c)]
  BY <1>1, Zenon DEF ApplyEffect
<1>2. ~e.evicted /\ evicted' = evicted
  BY <1>a, <1>c DEF LimitInv, BatchOK
<1>3. ASSUME NEW q \in Flushers, q # p
      PROVE  BatchOK(fl'[q]) /\ StripesLeft(q)' /\ EntriesOK(states', admitted', fl'[q])
  <2>1. fl[q].step = "none"
    BY <1>b, <1>3 DEF StructInv, LockInv
  <2>2. fl'[q].batch = <<>>
    BY <1>b, <1>3, <2>1 DEF BaseInv, ShapeOK
  <2> QED
    BY <2>2, EmptyBatch DEF StripesLeft
<1>4. BatchOK(fl'[p]) /\ StripesLeft(p)'
  <2>1. BatchOK(fl'[p])
    BY <1>b DEF LimitInv, BatchOK
  <2>2. StripesLeft(p)'
    BY <1>b DEF StripesLeft, Unvisited
  <2> QED
    BY <2>1, <2>2
<1>5. ASSUME NEW m \in 1..Len(fl'[p].batch)
      PROVE  /\ EntryOK(states, admitted, fl[p], m) /\ m \in 1..Len(fl[p].batch)
             /\ m > fl'[p].idx => m > fl[p].idx /\ fl[p].batch[m].key # e.key
  <2>1. EntryOK(states, admitted, fl[p], m) /\ m \in 1..Len(fl[p].batch)
    BY <1>b DEF LimitInv, EntriesOK
  <2>2. ASSUME m > fl'[p].idx PROVE m > fl[p].idx /\ m # i
    BY <1>0, <1>a, <1>b, <2>1, <2>2
  <2> QED
    BY <1>a, <2>1, <2>2 DEF LimitInv, BatchOK
<1>6. CASE states' = states
  <2>1. EntriesOK(states', admitted', fl'[p])
    <3> SUFFICES ASSUME NEW m \in 1..Len(fl'[p].batch) PROVE EntryOK(states', admitted', fl'[p], m)
      BY DEF EntriesOK
    <3> QED
      BY <1>5, <1>6, <1>b, <1>c DEF EntryOK
  <2> QED
    BY <1>2, <1>3, <1>4, <1>6, <1>c, <2>1 DEF LimitInv
<1>7. CASE /\ fl[p].res[i].ok /\ states[e.key].windowStart = e.ws
           /\ states' = [states EXCEPT ![e.key] = Reconciled(states[e.key], e, c)]
  <2>1. states[e.key] \in LocalState
    BY <1>0, <1>7, <1>a, TableType
  <2>2. /\ states'[e.key].globalBase = c
        /\ states'[e.key].localDelta = MaxOf(states[e.key].localDelta - e.flushN, 0)
        /\ \A k \in Keys : k # e.key => states'[k] = states[k]
    <3>1. states'[e.key] = Reconciled(states[e.key], e, c)
          /\ \A k \in Keys : k # e.key => states'[k] = states[k]
      BY <1>0, <1>7, <1>a DEF StateTable
    <3> QED
      BY <1>2, <2>1, <3>1, ReconciledType
  <2>3. i > fl[p].idx /\ i <= Len(fl[p].res)
    BY <1>0, <1>a, LocalsType
  <2>4. /\ e.flushN <= states[e.key].localDelta
        /\ admitted[e.key][0] <= c + (states[e.key].localDelta - e.flushN)
    <3>1. EntryOK(states, admitted, fl[p], i)
      BY <1>a DEF LimitInv, EntriesOK
    <3> QED
      BY <1>7, <1>a, <2>3, <3>1, Zenon DEF EntryOK
  <2>5. c <= redis[e.key][0]
    <3>1. ReplyOK(now, states, redis, fl[p], i) /\ e.ws = 0
      BY <1>a, OnlyWindow DEF BaseInv, RepliesOK
    <3>2. Open(now, e.ws)
      BY <3>1, LocalAsyncAssumption DEF Open, OneWindow, TypeOK
    <3> QED
      BY <1>7, <1>a, <3>1, <3>2, Zenon DEF ReplyOK
  <2>6. ASSUME NEW k \in Keys PROVE GrantOK(states'[k], admitted'[k][0], redis'[k][0])
    <3>1. GrantOK(states[k], admitted[k][0], redis[k][0])
      BY DEF LimitInv
    <3>2. CASE k # e.key
      BY <1>c, <2>2, <3>1, <3>2
    <3>3. CASE k = e.key
      <4>1. /\ admitted[e.key][0] \in Nat /\ redis[e.key][0] \in Nat
            /\ states[e.key].localDelta \in Nat /\ e.flushN \in Nat /\ c \in Nat
        BY <1>a, LimitTypes
      <4>2. states'[e.key].localDelta = states[e.key].localDelta - e.flushN
        <5>1. \A a, b \in Nat : b <= a => MaxOf(a - b, 0) = a - b
          BY DEF MaxOf
        <5> QED
          BY <2>2, <2>4, <4>1, <5>1
      <4>3. admitted[e.key][0] <= states'[e.key].globalBase + states'[e.key].localDelta
        BY <2>2, <2>4, <4>2
      <4>4. admitted[e.key][0] <= redis[e.key][0] + states'[e.key].localDelta
        BY <2>4, <2>5, <4>1, <4>2
      <4>5. admitted[e.key][0] <= Limit
        BY <3>1, <3>3 DEF GrantOK
      <4> QED
        BY <1>c, <3>3, <4>3, <4>4, <4>5 DEF GrantOK
    <3> QED
      BY <3>2, <3>3
  <2>7. EntriesOK(states', admitted', fl'[p])
    <3> SUFFICES ASSUME NEW m \in 1..Len(fl'[p].batch), m > fl'[p].idx
                 PROVE  EntryOK(states', admitted', fl'[p], m)
      BY DEF EntriesOK, EntryOK
    <3>1. /\ EntryOK(states, admitted, fl[p], m) /\ m \in 1..Len(fl[p].batch)
          /\ m > fl[p].idx /\ fl[p].batch[m].key # e.key
      BY <1>5
    <3>2. states'[fl[p].batch[m].key] = states[fl[p].batch[m].key]
      BY <1>0, <2>2, <3>1, EntryType
    <3> QED
      BY <1>b, <1>c, <3>1, <3>2 DEF EntryOK
  <2> QED
    BY <1>2, <1>3, <1>4, <2>6, <2>7 DEF LimitInv
<1> QED
  BY <1>6, <1>7, <1>d

\* The stripes a snapshot visits after its i-th are others.
LEMMA StripesDiffer ==
  ASSUME flushCursor \in StripeIds, NEW i \in 0..(NumStripes - 1), NEW j \in 0..(NumStripes - 1),
         i # j
  PROVE  StripeAt(i) # StripeAt(j)
<1>1. /\ NumStripes \in Nat \ {0} /\ flushCursor \in Nat /\ flushCursor < NumStripes
      /\ i \in Nat /\ j \in Nat /\ i < NumStripes /\ j < NumStripes
  BY LocalAsyncAssumption DEF StripeIds
<1>2. \A a \in Nat, b \in Nat \ {0} : a < b => a % b = a /\ (a + b) % b = a
  OBVIOUS
<1>3. ASSUME NEW m \in Nat, m < NumStripes
      PROVE  StripeAt(m) = IF flushCursor + m < NumStripes THEN flushCursor + m
                           ELSE flushCursor + m - NumStripes
  <2>1. CASE flushCursor + m < NumStripes
    BY <1>1, <1>2, <1>3, <2>1 DEF StripeAt
  <2>2. CASE ~(flushCursor + m < NumStripes)
    <3>1. PICK a \in Nat : a = flushCursor + m - NumStripes /\ a < NumStripes
      BY <1>1, <1>3, <2>2
    <3>2. flushCursor + m = a + NumStripes
      BY <1>1, <1>3, <3>1
    <3>3. (a + NumStripes) % NumStripes = a
      BY <1>1, <1>2, <3>1
    <3> QED
      BY <2>2, <3>1, <3>2, <3>3 DEF StripeAt
  <2> QED
    BY <2>1, <2>2
<1>4. /\ StripeAt(i) = IF flushCursor + i < NumStripes THEN flushCursor + i
                       ELSE flushCursor + i - NumStripes
      /\ StripeAt(j) = IF flushCursor + j < NumStripes THEN flushCursor + j
                       ELSE flushCursor + j - NumStripes
  BY <1>1, <1>3
<1> QED
  BY <1>1, <1>4

\* With nothing evicted, a stripe adds the deltas of distinct keys of its own.
Adds(p, order, n, m) ==
    /\ n = Len(fl[p].batch) /\ m = Len(order) /\ n \in Nat /\ m \in Nat
    /\ \A j \in 1..m : order[j] \in Keys /\ StripeOf[order[j]] = StripeAt(fl[p].i)
    /\ \A j, l \in 1..m : order[j] = order[l] => j = l
    /\ Len(fl'[p].batch) = n + m
    /\ \A i \in 1..n : fl'[p].batch[i] = fl[p].batch[i]
    /\ \A j \in 1..m : fl'[p].batch[n + j] = PendingOf(order[j])

\* What a snapshot adds to the batch of its flush.
LEMMA SnapshotAdds ==
  ASSUME TypeOK, LimitInv, NEW p \in Flushers, SnapshotStripe(p)
  PROVE  \E order, n, m : Adds(p, order, n, m)
<1> DEFINE s == StripeAt(fl[p].i)
           take == MinOf(Len(evicted[s]), fl[p].budget)
           n == Len(fl[p].batch)
<1>0. /\ fl[p] \in FlushLocals /\ fl[p].batch \in Seq(PendingFlush) /\ n \in Nat
      /\ fl[p].budget \in Nat /\ fl[p].i \in Nat
  BY LocalsType DEF TypeOK
<1>1. s \in StripeIds
  BY <1>0, StripeAtType DEF TypeOK
<1>2. evicted[s] = <<>>
  BY <1>1 DEF LimitInv
<1>3. PICK V \in SUBSET (dirty \cap KeysOf(s)) :
        \E order \in Orderings({k \in V : states[k].localDelta # 0}) :
          fl'[p].batch = fl[p].batch \o SubSeq(evicted[s], 1, take)
                                     \o [j \in 1..Len(order) |-> PendingOf(order[j])]
  BY SnapshotLocals
<1> DEFINE live == {k \in V : states[k].localDelta # 0}
<1>4. PICK order \in Orderings(live) :
          fl'[p].batch = fl[p].batch \o SubSeq(evicted[s], 1, take)
                                     \o [j \in 1..Len(order) |-> PendingOf(order[j])]
  BY <1>3, Zenon
<1> DEFINE m == Len(order)
           listed == [j \in 1..m |-> PendingOf(order[j])]
<1>5. IsFiniteSet(live) /\ live \subseteq KeysOf(s) /\ live \subseteq Keys
  <2>1. live \subseteq KeysOf(s) /\ KeysOf(s) \subseteq Keys
    BY <1>3 DEF KeysOf
  <2> QED
    BY <2>1, FS_Subset, LocalAsyncAssumption
<1>6. order \in Seq(live) /\ m = Cardinality(live) /\ m \in Nat
  <2> HIDE DEF live
  <2> QED
    BY <1>4, <1>5, OrderingType, FS_CardinalityType
<1>7. \A j \in 1..m : order[j] \in live
  <2> HIDE DEF live
  <2> QED
    BY <1>6, ElementOfSeq
<1>8. \A j \in 1..m : order[j] \in Keys /\ StripeOf[order[j]] = s
  <2>1. \A k \in KeysOf(s) : StripeOf[k] = s
    BY DEF KeysOf
  <2> HIDE DEF live
  <2> QED
    BY <1>5, <1>7, <2>1
<1>9. \A j, l \in 1..m : order[j] = order[l] => j = l
  <2> HIDE DEF live
  <2>1. order \in [1..Cardinality(live) -> live]
        /\ \A j, l \in DOMAIN order : order[j] = order[l] => j = l
    BY <1>4 DEF Orderings
  <2> QED
    BY <1>6, <2>1
<1>10. listed \in Seq(PendingFlush) /\ Len(listed) = m /\ \A j \in 1..m : listed[j] = PendingOf(order[j])
  <2>1. ASSUME NEW j \in 1..m PROVE PendingOf(order[j]) \in PendingFlush
    <3>1. order[j] \in Keys /\ states[order[j]].localDelta # 0
      BY <1>7, <1>8
    <3>2. states[order[j]] \in LocalState
      BY <3>1, StateType DEF TypeOK
    <3> QED
      BY <3>1, <3>2 DEF PendingOf, PendingFlush, LocalState
  <2>2. listed \in [1..m -> PendingFlush] /\ \A j \in 1..m : listed[j] = PendingOf(order[j])
    BY <2>1
  <2> HIDE DEF listed, m
  <2> QED
    BY <1>6, <2>2, FunctionIsSeq
<1>11. fl'[p].batch = fl[p].batch \o listed
  <2>1. SubSeq(evicted[s], 1, take) = <<>>
    <3>1. take = 0
      BY <1>0, <1>2 DEF MinOf
    <3>2. SubSeq(<<>>, 1, 0) = <<>>
      BY SubSeqProperties, EmptySeq
    <3> QED
      BY <1>2, <3>1, <3>2
  <2>2. fl[p].batch \o <<>> = fl[p].batch
    BY <1>0, ConcatEmptySeq
  <2>3. fl'[p].batch = fl[p].batch \o SubSeq(evicted[s], 1, take) \o listed
    BY <1>4
  <2> HIDE DEF listed, take
  <2> QED
    BY <2>1, <2>2, <2>3
<1> HIDE DEF listed
<1>12. /\ Len(fl'[p].batch) = n + m
       /\ \A i \in 1..n : fl'[p].batch[i] = fl[p].batch[i]
       /\ \A j \in 1..m : fl'[p].batch[n + j] = listed[j]
  <2>1. /\ Len(fl[p].batch \o listed) = Len(fl[p].batch) + Len(listed)
        /\ \A i \in 1..(Len(fl[p].batch) + Len(listed)) : (fl[p].batch \o listed)[i] =
             IF i <= Len(fl[p].batch) THEN fl[p].batch[i] ELSE listed[i - Len(fl[p].batch)]
    BY <1>0, <1>10, ConcatProperties
  <2> HIDE DEF n, m
  <2>2. Len(fl[p].batch) = n /\ Len(listed) = m /\ n \in Nat /\ m \in Nat
    BY <1>0, <1>6, <1>10 DEF n
  <2>3. \A i \in 1..n : i \in 1..(n + m) /\ i <= n
    BY <2>2
  <2>4. \A j \in 1..m : n + j \in 1..(n + m) /\ ~(n + j <= n) /\ (n + j) - n = j
    BY <2>2
  <2>5. /\ Len(fl'[p].batch) = n + m
        /\ \A i \in 1..(n + m) : fl'[p].batch[i] = IF i <= n THEN fl[p].batch[i] ELSE listed[i - n]
    BY <1>11, <2>1, <2>2
  <2>6. ASSUME NEW i \in 1..n PROVE fl'[p].batch[i] = fl[p].batch[i]
    BY <2>3, <2>5
  <2>7. ASSUME NEW j \in 1..m PROVE fl'[p].batch[n + j] = listed[j]
    BY <2>4, <2>5
  <2> QED
    BY <2>5, <2>6, <2>7
<1>13. \A j \in 1..m : fl'[p].batch[n + j] = PendingOf(order[j])
  BY <1>10, <1>12
<1>14. Adds(p, order, n, m)
  <2>1. n = Len(fl[p].batch) /\ m = Len(order)
    OBVIOUS
  <2> HIDE DEF n, m, live
  <2> QED
    BY <1>0, <1>6, <1>8, <1>9, <1>12, <1>13, <2>1, Zenon DEF Adds, s
<1> QED
  BY <1>14, Zenon

\* A snapshot carries the deltas of one stripe.
LEMMA SnapshotLimit ==
  ASSUME TypeOK, TypeOK', StructInv, BaseInv, OneWindow, LimitInv, NEW p \in Flushers, SnapshotStripe(p)
  PROVE  LimitInv'
<1> USE DEF local, wake, health, flush, server, history
<1>0. /\ fl[p] \in FlushLocals /\ fl'[p] \in FlushLocals /\ states \in StateTable
      /\ flushCursor \in StripeIds
      /\ evicted \in [StripeIds -> Seq(PendingFlush)] /\ fl[p].i \in Nat /\ fl[p].now \in 0..MaxTime
  BY LocalsType DEF TypeOK, StateTable
<1> DEFINE s == StripeAt(fl[p].i)
<1>1. s \in StripeIds
  BY <1>0, StripeAtType
<1>2. /\ fl'[p].res = fl[p].res /\ fl'[p].idx = fl[p].idx
      /\ fl'[p].step = "snapshot" /\ fl[p].step = "snapshot"
      /\ fl'[p].i = fl[p].i + 1 /\ fl[p].i < NumStripes
      /\ \A q \in Flushers : q # p => fl'[q] = fl[q]
  BY SnapshotLocals
<1>3. UNCHANGED <<redis, admitted, flushCursor, states>>
  <2>1. states' = Remove(states, ExpiredStates(states, s, fl[p].now))
        /\ UNCHANGED <<redis, admitted, flushCursor>>
    BY DEF SnapshotStripe
  <2>2. states' = Remove(states, {})
    BY <1>0, <2>1, NothingExpires
  <2>3. states' = states
    BY <1>0, <2>2 DEF Remove, StateTable
  <2> QED
    BY <2>1, <2>3
<1>4. \A x \in StripeIds : evicted'[x] = <<>>
  <2>1. PICK take : evicted' = [evicted EXCEPT ![s] = SubSeq(evicted[s], take + 1, Len(evicted[s]))]
                    /\ take = MinOf(Len(evicted[s]), fl[p].budget)
    BY DEF SnapshotStripe
  <2>2. evicted[s] = <<>> /\ fl[p].budget \in Nat
    BY <1>0, <1>1, LocalAsyncAssumption DEF LimitInv, FlushLocals
  <2>3. take = 0
    BY <2>1, <2>2 DEF MinOf
  <2>4. SubSeq(<<>>, 1, 0) = <<>>
    BY SubSeqProperties, EmptySeq
  <2>5. evicted'[s] = <<>>
    BY <1>0, <1>1, <2>1, <2>2, <2>3, <2>4
  <2> QED
    BY <1>0, <1>1, <2>1, <2>5 DEF LimitInv
<1>5. fl[p].res = <<>>
  BY <1>2 DEF BaseInv, ShapeOK
<1>6. PICK order, n, m : Adds(p, order, n, m)
  BY SnapshotAdds
<1>a. /\ n = Len(fl[p].batch) /\ n \in Nat /\ m \in Nat /\ Len(fl'[p].batch) = n + m
      /\ \A i \in 1..n : fl'[p].batch[i] = fl[p].batch[i]
      /\ \A j \in 1..m : fl'[p].batch[n + j] = PendingOf(order[j])
  BY <1>6, Zenon DEF Adds
<1>b. /\ \A j \in 1..m : order[j] \in Keys /\ StripeOf[order[j]] = s
      /\ \A j, l \in 1..m : order[j] = order[l] => j = l
  BY <1>6, Zenon DEF Adds
<1> HIDE DEF s
<1>c. \A i \in 1..(n + m) : i \in 1..n \/ \E j \in 1..m : i = n + j
  <2> SUFFICES ASSUME NEW i \in 1..(n + m), i \notin 1..n PROVE \E j \in 1..m : i = n + j
    OBVIOUS
  <2>1. i - n \in 1..m /\ i = n + (i - n)
    BY <1>a
  <2> QED
    BY <2>1
<1>7. ASSUME NEW j \in 1..m
      PROVE  /\ fl'[p].batch[n + j].key = order[j] /\ ~fl'[p].batch[n + j].evicted
             /\ fl'[p].batch[n + j].ws = states[order[j]].windowStart
             /\ fl'[p].batch[n + j].flushN = states[order[j]].localDelta
             /\ order[j] \in Keys /\ StripeOf[order[j]] = s
  <2>1. fl'[p].batch[n + j] = PendingOf(order[j])
    BY <1>a
  <2> QED
    BY <1>b, <2>1 DEF PendingOf
<1>8. \A i \in 1..n : StripeOf[fl[p].batch[i].key] # s
  <2> SUFFICES ASSUME NEW i \in 1..n, StripeOf[fl[p].batch[i].key] = s PROVE FALSE
    OBVIOUS
  <2>1. ~Unvisited(p, s)
    BY <1>a DEF LimitInv, StripesLeft
  <2>2. fl[p].i \in fl[p].i..(NumStripes - 1)
    BY <1>0, <1>2, LocalAsyncAssumption
  <2> QED
    BY <1>2, <2>1, <2>2 DEF Unvisited, s
<1>9. ASSUME NEW x, Unvisited(p, x)' PROVE Unvisited(p, x) /\ x # s
  <2>1. PICK j \in fl'[p].i..(NumStripes - 1) : StripeAt(j)' = x
    BY <1>9 DEF Unvisited
  <2>2. StripeAt(j) = x
    BY <1>3, <2>1 DEF StripeAt
  <2>3. j \in fl[p].i..(NumStripes - 1) /\ j # fl[p].i /\ j \in 0..(NumStripes - 1)
        /\ fl[p].i \in 0..(NumStripes - 1)
    BY <1>0, <1>2, <2>1, LocalAsyncAssumption
  <2>4. StripeAt(fl[p].i) # StripeAt(j)
    BY <1>0, <2>3, StripesDiffer
  <2> QED
    BY <1>2, <2>2, <2>3, <2>4 DEF Unvisited, s
<1>10. BatchOK(fl'[p])
  <2>1. ASSUME NEW i \in 1..Len(fl'[p].batch) PROVE ~fl'[p].batch[i].evicted
    <3>1. CASE i \in 1..n
      BY <1>a, <3>1 DEF LimitInv, BatchOK
    <3>2. CASE \E j \in 1..m : i = n + j
      BY <1>7, <3>2
    <3> QED
      BY <1>a, <1>c, <3>1, <3>2
  <2>2. ASSUME NEW i \in 1..n, NEW j \in 1..m PROVE fl'[p].batch[i].key # fl'[p].batch[n + j].key
    <3>1. fl'[p].batch[i] = fl[p].batch[i] /\ StripeOf[fl[p].batch[i].key] # s
      BY <1>8, <1>a
    <3>2. fl'[p].batch[n + j].key = order[j] /\ StripeOf[order[j]] = s
      BY <1>7
    <3> QED
      BY <3>1, <3>2
  <2>3. ASSUME NEW i \in 1..Len(fl'[p].batch), NEW l \in 1..Len(fl'[p].batch),
               fl'[p].batch[i].key = fl'[p].batch[l].key
        PROVE  i = l
    <3>1. CASE i \in 1..n /\ l \in 1..n
      BY <1>a, <2>3, <3>1 DEF LimitInv, BatchOK
    <3>0. i \in 1..(n + m) /\ l \in 1..(n + m)
      BY <1>a
    <3>2. CASE i \in 1..n /\ l \notin 1..n
      <4>1. PICK j \in 1..m : l = n + j
        BY <1>c, <3>0, <3>2
      <4> QED
        BY <2>2, <2>3, <3>2, <4>1
    <3>3. CASE i \notin 1..n /\ l \in 1..n
      <4>1. PICK j \in 1..m : i = n + j
        BY <1>c, <3>0, <3>3
      <4> QED
        BY <2>2, <2>3, <3>3, <4>1
    <3>4. CASE i \notin 1..n /\ l \notin 1..n
      <4>1. PICK j \in 1..m : i = n + j
        BY <1>c, <3>0, <3>4
      <4>2. PICK h \in 1..m : l = n + h
        BY <1>c, <3>0, <3>4
      <4>3. order[j] = order[h]
        BY <1>7, <2>3, <4>1, <4>2
      <4> QED
        BY <1>b, <4>1, <4>2, <4>3
    <3> QED
      BY <3>1, <3>2, <3>3, <3>4
  <2> QED
    BY <2>1, <2>3 DEF BatchOK
<1>11. StripesLeft(p)'
  <2> SUFFICES ASSUME NEW i \in 1..Len(fl'[p].batch), NEW x, x = StripeOf[fl'[p].batch[i].key],
                      Unvisited(p, x)'
               PROVE  FALSE
    BY DEF StripesLeft, Unvisited, StripeAt
  <2>1. Unvisited(p, x) /\ x # s
    BY <1>9
  <2>2. CASE i \in 1..n
    BY <1>a, <2>1, <2>2 DEF LimitInv, StripesLeft
  <2>3. CASE \E j \in 1..m : i = n + j
    <3>1. PICK j \in 1..m : i = n + j
      BY <2>3
    <3>2. x = s
      BY <1>7, <3>1
    <3> QED
      BY <2>1, <3>2
  <2> QED
    BY <1>a, <1>c, <2>2, <2>3
<1>12. ASSUME NEW i \in 1..Len(fl'[p].batch) PROVE EntryOK(states', admitted', fl'[p], i)
  <2>1. Len(fl'[p].res) = 0 /\ ~(i <= Len(fl'[p].res))
    BY <1>2, <1>5
  <2>2. CASE i \in 1..n
    <3>1. EntryOK(states, admitted, fl[p], i)
      BY <1>a, <2>2 DEF LimitInv, EntriesOK
    <3> QED
      BY <1>2, <1>3, <1>a, <2>1, <2>2, <3>1 DEF EntryOK
  <2>3. CASE \E j \in 1..m : i = n + j
    <3>1. PICK j \in 1..m : i = n + j
      BY <2>3
    <3>2. /\ fl'[p].batch[i].key = order[j] /\ order[j] \in Keys
          /\ fl'[p].batch[i].ws = states[order[j]].windowStart
          /\ fl'[p].batch[i].flushN = states[order[j]].localDelta
      BY <1>7, <3>1
    <3>3. states[order[j]].localDelta <= states[order[j]].localDelta
      BY <3>2, LimitTypes
    <3> QED
      BY <1>3, <2>1, <3>2, <3>3 DEF EntryOK
  <2> QED
    BY <1>a, <1>c, <2>2, <2>3
<1>13. ASSUME NEW q \in Flushers, q # p
       PROVE  BatchOK(fl'[q]) /\ StripesLeft(q)' /\ EntriesOK(states', admitted', fl'[q])
  BY <1>2, <1>3, <1>13 DEF LimitInv, StripesLeft, Unvisited, StripeAt
<1> QED
  BY <1>3, <1>4, <1>10, <1>11, <1>12, <1>13 DEF LimitInv, EntriesOK

\* A decision on key k for n tokens: granted within the limit, or not at all.
Decides(k, n) ==
    /\ k \in Keys /\ n \in Nat
    /\ \A x \in Keys : x # k => states'[x] = states[x] /\ admitted'[x][0] = admitted[x][0]
    /\ states'[k].windowStart = 0 /\ states'[k].globalBase = states[k].globalBase
    /\ \/ /\ states'[k].localDelta = states[k].localDelta + n
          /\ admitted'[k][0] = admitted[k][0] + n
          /\ states[k].globalBase + states[k].localDelta + n <= Limit
       \/ /\ states'[k].localDelta = states[k].localDelta
          /\ admitted'[k][0] = admitted[k][0]

\* A fresh state has a type.
LEMMA FreshType ==
  ASSUME NEW w \in Windows
  PROVE  /\ FreshState(w) \in LocalState /\ FreshState(w).windowStart = w
         /\ FreshState(w).globalBase = 0 /\ FreshState(w).localDelta = 0
  BY DEF FreshState, NoState, LocalState

\* What AllowN does to a key that is not evicted.
LEMMA DecideEffect ==
  ASSUME TypeOK, OneWindow, RoomForAll, LimitInv, NEW r \in Reqs, AllowNDecide(r)
  PROVE  (\E k, n : Decides(k, n)) /\ \A s \in StripeIds : evicted'[s] = <<>>
<1> DEFINE k == req[r].key
           n == req[r].n
           ws == req[r].ws
           s == StripeOf[k]
           found == Present(states, k)
           same == found /\ states[k].windowStart = ws
           st == IF same THEN states[k] ELSE FreshState(ws)
           decision == Decision(st, n)
           new == IF decision = "allow" THEN [st EXCEPT !.localDelta = @ + n]
                  ELSE IF decision = "latch-deny" THEN [st EXCEPT !.blocked = TRUE]
                  ELSE st
           none == [gone |-> {}, victim |-> {}]
<1>1. k \in Keys /\ n \in Nat /\ ws \in Windows /\ s \in StripeIds /\ ws = 0
  <2>1. req[r] \in RequestState
    BY DEF TypeOK
  <2> QED
    BY <2>1, OnlyWindow, LocalAsyncAssumption DEF StripeIds, RequestState
<1>2. (IF found THEN {none} ELSE Evictions(s, req[r].now)) = {none}
  BY <1>1, NothingEvicted
<1>3. /\ evicted' = [evicted EXCEPT ![s] = CarryOut(evicted[s], none)]
      /\ states' = [Remove(states, none.gone) EXCEPT ![k] = new]
      /\ admitted' = IF decision = "allow" THEN [admitted EXCEPT ![k][ws] = @ + n] ELSE admitted
  <2>1. \E e \in IF found THEN {none} ELSE Evictions(s, req[r].now) :
          /\ evicted' = [evicted EXCEPT ![s] = CarryOut(evicted[s], e)]
          /\ states' = [Remove(states, e.gone) EXCEPT ![k] = new]
          /\ admitted' = IF decision = "allow" THEN [admitted EXCEPT ![k][ws] = @ + n] ELSE admitted
    BY Zenon DEF AllowNDecide
  <2> HIDE DEF found, none, new, decision, k, s, n, ws
  <2> QED
    BY <1>2, <2>1, Zenon
<1>4. \A x \in StripeIds : evicted'[x] = <<>>
  <2>1. CarryOut(evicted[s], none) = evicted[s]
    BY DEF CarryOut
  <2>2. evicted \in [StripeIds -> Seq(PendingFlush)]
    BY DEF TypeOK
  <2> HIDE DEF none, new, decision, k
  <2> QED
    BY <1>1, <1>3, <2>1, <2>2 DEF LimitInv
<1>5. /\ states[k].globalBase \in Nat /\ states[k].localDelta \in Nat /\ states \in StateTable
      /\ states[k] # NoState => states[k] \in LocalState /\ states[k].windowStart = 0
  BY <1>1, LimitTypes
<1>6. st \in LocalState /\ st.windowStart = 0 /\ st.globalBase = states[k].globalBase
      /\ st.localDelta = states[k].localDelta
  <2>1. CASE found
    BY <1>1, <1>5, <2>1 DEF Present
  <2>2. CASE ~found
    <3>1. st = FreshState(ws) /\ states[k] = NoState
      BY <2>2 DEF Present
    <3>2. states[k].globalBase = 0 /\ states[k].localDelta = 0
      BY <3>1 DEF NoState
    <3> HIDE DEF st, ws, k
    <3> QED
      BY <1>1, <3>1, <3>2, FreshType
  <2> QED
    BY <2>1, <2>2
<1> HIDE DEF st
<1>7. /\ new.windowStart = 0 /\ new.globalBase = states[k].globalBase
      /\ decision = "allow" => new.localDelta = states[k].localDelta + n
      /\ decision # "allow" => new.localDelta = states[k].localDelta
  BY <1>6 DEF LocalState
<1>8. decision = "allow" => states[k].globalBase + states[k].localDelta + n <= Limit
  <2> SUFFICES ASSUME decision = "allow"
               PROVE  states[k].globalBase + states[k].localDelta + n <= Limit
    OBVIOUS
  <2>1. ~(st.globalBase + st.localDelta + n > Limit)
    BY DEF Decision
  <2>2. Limit \in Nat
    BY LocalAsyncAssumption
  <2> QED
    BY <1>1, <1>5, <1>6, <2>1, <2>2
<1> HIDE DEF new, decision, k, n
<1>9. states'[k] = new /\ \A x \in Keys : x # k => states'[x] = states[x]
  BY <1>1, <1>3 DEF Remove
<1>10. /\ \A x \in Keys : x # k => admitted'[x][0] = admitted[x][0]
       /\ admitted'[k][0] = IF decision = "allow" THEN admitted[k][0] + n ELSE admitted[k][0]
  <2>1. admitted \in Counts /\ 0 \in Windows
    BY OnlyWindow DEF TypeOK
  <2>2. CASE decision = "allow"
    <3>1. admitted' = [admitted EXCEPT ![k][0] = @ + n]
      BY <1>1, <1>3, <2>2
    <3> QED
      BY <1>1, <2>1, <2>2, <3>1 DEF Counts
  <2>3. CASE decision # "allow"
    BY <1>3, <2>3
  <2> QED
    BY <2>2, <2>3
<1>11. Decides(k, n)
  BY <1>1, <1>7, <1>8, <1>9, <1>10 DEF Decides
<1> QED
  BY <1>4, <1>11

\* AllowN grants within the limit.
LEMMA DecideLimit ==
  ASSUME TypeOK, TypeOK', StructInv, BaseInv, OneWindow, RoomForAll, LimitInv,
         NEW r \in Reqs, AllowNDecide(r)
  PROVE  LimitInv'
<1> USE DEF local, wake, health, flush, server, history
<1>1. UNCHANGED <<fl, flushCursor, redis>>
  BY DEF AllowNDecide
<1>2. PICK k, n : Decides(k, n)
  BY DecideEffect
<1>3. \A s \in StripeIds : evicted'[s] = <<>>
  BY DecideEffect
<1>a. /\ k \in Keys /\ n \in Nat
      /\ \A x \in Keys : x # k => states'[x] = states[x] /\ admitted'[x][0] = admitted[x][0]
  BY <1>2 DEF Decides
<1>b. /\ states'[k].windowStart = 0 /\ states'[k].globalBase = states[k].globalBase
      /\ \/ /\ states'[k].localDelta = states[k].localDelta + n
            /\ admitted'[k][0] = admitted[k][0] + n
            /\ states[k].globalBase + states[k].localDelta + n <= Limit
         \/ /\ states'[k].localDelta = states[k].localDelta
            /\ admitted'[k][0] = admitted[k][0]
  BY <1>2 DEF Decides
<1>c. /\ admitted[k][0] \in Nat /\ redis[k][0] \in Nat /\ Limit \in Nat
      /\ states[k].globalBase \in Nat /\ states[k].localDelta \in Nat
  BY <1>a, LimitTypes, LocalAsyncAssumption
<1>4. ASSUME NEW x \in Keys PROVE GrantOK(states'[x], admitted'[x][0], redis'[x][0])
  <2>1. GrantOK(states[x], admitted[x][0], redis[x][0])
    BY DEF LimitInv
  <2>2. CASE x # k
    BY <1>1, <1>a, <2>1, <2>2
  <2>3. CASE x = k
    <3>1. /\ admitted[k][0] <= states[k].globalBase + states[k].localDelta
          /\ admitted[k][0] <= redis[k][0] + states[k].localDelta
          /\ admitted[k][0] <= Limit
      BY <2>1, <2>3 DEF GrantOK
    <3>2. /\ admitted'[k][0] <= states'[k].globalBase + states'[k].localDelta
          /\ admitted'[k][0] <= redis[k][0] + states'[k].localDelta
          /\ admitted'[k][0] <= Limit
      BY <1>a, <1>b, <1>c, <3>1
    <3> QED
      BY <1>1, <2>3, <3>2 DEF GrantOK
  <2> QED
    BY <2>2, <2>3
<1>5. ASSUME NEW p \in Flushers, NEW i \in 1..Len(fl[p].batch)
      PROVE  EntryOK(states', admitted', fl[p], i)
  <2>1. EntryOK(states, admitted, fl[p], i)
    BY DEF LimitInv, EntriesOK
  <2>2. PICK e : e = fl[p].batch[i]
    OBVIOUS
  <2>3. e.key \in Keys /\ e.ws = 0 /\ e.flushN \in Nat
    BY <2>2, EntryType, OnlyWindow DEF TypeOK
  <2>4. CASE e.key # k
    BY <1>a, <2>1, <2>2, <2>3, <2>4 DEF EntryOK
  <2>5. CASE e.key = k
    <3> SUFFICES ASSUME i > fl[p].idx
                 PROVE  /\ e.flushN <= states'[k].localDelta
                        /\ i <= Len(fl[p].res) /\ fl[p].res[i].ok =>
                             admitted'[k][0] <= fl[p].res[i].count + (states'[k].localDelta - e.flushN)
      BY <1>b, <2>2, <2>3, <2>5 DEF EntryOK
    <3>1. /\ e.flushN <= states[k].localDelta
          /\ i <= Len(fl[p].res) /\ fl[p].res[i].ok =>
               admitted[k][0] <= fl[p].res[i].count + (states[k].localDelta - e.flushN)
      BY <2>1, <2>2, <2>5 DEF EntryOK
    <3>2. e.flushN <= states'[k].localDelta
      BY <1>a, <1>b, <1>c, <2>3, <3>1
    <3>3. ASSUME i <= Len(fl[p].res), fl[p].res[i].ok
          PROVE  admitted'[k][0] <= fl[p].res[i].count + (states'[k].localDelta - e.flushN)
      <4>1. Len(fl[p].res) \in Nat /\ fl[p] \in FlushLocals
        BY LocalsType DEF TypeOK
      <4>2. i \in 1..Len(fl[p].res)
        BY <3>3, <4>1
      <4>3. PICK c \in Nat : c = fl[p].res[i].count
        BY <4>1, <4>2, ReplyType
      <4>4. admitted[k][0] <= c + (states[k].localDelta - e.flushN)
        BY <3>1, <3>3, <4>3
      <4>5. admitted'[k][0] <= c + (states'[k].localDelta - e.flushN)
        <5>1. CASE /\ states'[k].localDelta = states[k].localDelta + n
                   /\ admitted'[k][0] = admitted[k][0] + n
          <6>1. \A a, b, d, f \in Nat : a <= c + (d - f) => a + b <= c + ((d + b) - f)
            OBVIOUS
          <6>2. admitted[k][0] + n <= c + ((states[k].localDelta + n) - e.flushN)
            BY <1>a, <1>c, <2>3, <4>4, <6>1
          <6> QED
            BY <5>1, <6>2, Zenon
        <5>2. CASE /\ states'[k].localDelta = states[k].localDelta
                   /\ admitted'[k][0] = admitted[k][0]
          BY <4>4, <5>2
        <5> QED
          BY <1>b, <5>1, <5>2
      <4> QED
        BY <4>3, <4>5
    <3> QED
      BY <3>2, <3>3
  <2> QED
    BY <2>4, <2>5
<1>6. ASSUME NEW p \in Flushers PROVE BatchOK(fl'[p]) /\ StripesLeft(p)'
  BY <1>1 DEF LimitInv, StripesLeft, Unvisited, StripeAt
<1> QED
  BY <1>1, <1>3, <1>4, <1>5, <1>6 DEF LimitInv, EntriesOK

\* The invariant holds initially.
LEMMA InitLimit == ASSUME OneWindow, Init PROVE LimitInv
<1>1. \A p \in Flushers : fl[p].batch = <<>>
  BY DEF Init, NoFlush
<1>2. \A p \in Flushers : BatchOK(fl[p]) /\ StripesLeft(p) /\ EntriesOK(states, admitted, fl[p])
  BY <1>1, EmptyBatch DEF StripesLeft
<1>3. \A k \in Keys : GrantOK(states[k], admitted[k][0], redis[k][0])
  BY OnlyWindow, LocalAsyncAssumption DEF Init, GrantOK, NoState
<1> QED
  BY <1>2, <1>3 DEF Init, LimitInv

\* Every step keeps the invariant.
LEMMA NextLimit ==
  ASSUME TypeOK, TypeOK', StructInv, BaseInv, OneWindow, RoomForAll, LimitInv, [Next]_vars
  PROVE  LimitInv'
<1> USE DEF local, wake, health, flush, server, history
<1>1. CASE UNCHANGED vars
  BY <1>1, OutsideLimit DEF vars
<1>2. CASE Environment
  BY <1>2, EnvironmentLimit
<1>3. ASSUME NEW r \in Reqs, Request(r) PROVE LimitInv'
  <2>1. CASE AllowNDecide(r)
    BY <2>1, DecideLimit
  <2>2. CASE \E k \in Keys, n \in Costs : AllowNReadClock(r, k, n)
    BY <2>2, OutsideLimit DEF AllowNReadClock
  <2>3. CASE AllowNEnqueue(r)
    BY <2>3, OutsideLimit DEF AllowNEnqueue
  <2>4. CASE AllowNMarkActive(r)
    BY <2>4, OutsideLimit DEF AllowNMarkActive
  <2> QED
    BY <1>3, <2>1, <2>2, <2>3, <2>4 DEF Request
<1>4. ASSUME NEW p \in Flushers, FlushStep(p) PROVE LimitInv'
  BY <1>4, SnapshotLimit, ExecLimit, ApplyLimit, QuietLimit DEF FlushStep, QuietStep
<1>5. CASE Worker
  <2>1. CASE WorkerLock
    BY <2>1, LockLimit DEF WorkerLock, Flushers
  <2>2. CASE TickShard \/ WorkerRequeue \/ WorkerMarkActive
    BY <2>2, OutsideLimit DEF TickShard, WorkerRequeue, WorkerMarkActive
  <2> QED
    BY <1>5, <2>1, <2>2 DEF Worker
<1>6. CASE Closer
  <2>1. CASE CloserLock
    BY <2>1, LockLimit DEF CloserLock, Flushers
  <2>2. CASE Deregister \/ DeregisterClear
    BY <2>2, OutsideLimit DEF Deregister, DeregisterClear
  <2> QED
    BY <1>6, <2>1, <2>2 DEF Closer
<1> QED
  BY <1>1, <1>2, <1>3, <1>4, <1>5, <1>6 DEF Next

\* Per-replica enforcement: while nothing of a window is evicted, one replica
\* grants no more than the limit in it, whatever its flushes lose, retry or hear
\* back late, and whoever flushes.
THEOREM ReplicaLimitKept ==
  ASSUME OneWindow, RoomForAll
  PROVE  Spec => []PerReplicaLimit
<1>1. Init => BaseInv /\ LimitInv
  BY InitBase, InitLimit
<1>2. TypeOK /\ StructInv /\ (TypeOK /\ StructInv)' /\ BaseInv /\ LimitInv /\ [Next]_vars
        => BaseInv' /\ LimitInv'
  BY NextBase, NextLimit
<1>3. LimitInv => PerReplicaLimit
  BY OnlyWindow DEF LimitInv, GrantOK, PerReplicaLimit
<1> QED
  BY <1>1, <1>2, <1>3, TypeCorrect, PTL DEF Spec

-----------------------------------------------------------------------------
(* Induction.  A set of finite sets without a smallest member is empty.     *)

\* Induction on finite sets, for a set Good of them.
LEMMA FiniteInduction ==
  ASSUME NEW U, NEW Good, {} \in Good,
         \A V \in SUBSET U : \A x \in U :
           IsFiniteSet(V) /\ V \in Good /\ x \notin V => V \cup {x} \in Good
  PROVE  \A V \in SUBSET U : IsFiniteSet(V) => V \in Good
<1> DEFINE Bad == {V \in SUBSET U : IsFiniteSet(V) /\ V \notin Good}
<1>1. SUFFICES ASSUME Bad # {} PROVE FALSE
  OBVIOUS
<1>2. PICK W \in Bad : \A V \in Bad : <<V, W>> \notin StrictSubsetOrdering(U)
  <2>1. Bad \subseteq FiniteSubsetsOf(U)
    BY DEF FiniteSubsetsOf
  <2> HIDE DEF Bad
  <2> QED
    BY <1>1, <2>1, WFMin, FS_StrictSubsetOrderingWellFounded
<1>3. W \in SUBSET U /\ IsFiniteSet(W) /\ W \notin Good /\ W # {}
  OBVIOUS
<1>4. PICK x \in W : TRUE
  BY <1>3
<1>5. IsFiniteSet(W \ {x})
  BY <1>3, FS_RemoveElement
<1>6. W \ {x} \in Good
  <2>1. SUFFICES ASSUME W \ {x} \notin Good PROVE FALSE
    OBVIOUS
  <2>2. W \ {x} \in Bad
    BY <1>3, <1>5, <2>1
  <2>3. <<W \ {x}, W>> \in StrictSubsetOrdering(U)
    BY <1>3, <1>4 DEF StrictSubsetOrdering
  <2> QED
    BY <1>2, <2>2, <2>3
<1>7. (W \ {x}) \cup {x} \in Good /\ (W \ {x}) \cup {x} = W
  BY <1>3, <1>4, <1>5, <1>6
<1> QED
  BY <1>3, <1>7

\* Induction on the naturals, for a set S of them.
LEMMA CountingInduction ==
  ASSUME NEW S, 0 \in S, \A n \in Nat : n \in S => n + 1 \in S
  PROVE  \A n \in Nat : n \in S
<1> DEFINE Good == {V \in SUBSET Nat : \A n \in Nat : Cardinality(V) = n => n \in S}
<1>1. {} \in Good
  BY FS_EmptySet
<1>2. \A V \in SUBSET Nat : \A x \in Nat :
        IsFiniteSet(V) /\ V \in Good /\ x \notin V => V \cup {x} \in Good
  <2> SUFFICES ASSUME NEW V \in SUBSET Nat, NEW x \in Nat, IsFiniteSet(V), V \in Good, x \notin V
               PROVE  V \cup {x} \in Good
    OBVIOUS
  <2>1. Cardinality(V) \in Nat /\ Cardinality(V \cup {x}) = Cardinality(V) + 1
    BY FS_AddElement, FS_CardinalityType
  <2> QED
    BY <2>1
<1>3. \A V \in SUBSET Nat : IsFiniteSet(V) => V \in Good
  <2> HIDE DEF Good
  <2> QED
    BY <1>1, <1>2, FiniteInduction
<1>4. SUFFICES ASSUME NEW n \in Nat PROVE n \in S
  OBVIOUS
<1>5. IsFiniteSet(1..n) /\ Cardinality(1..n) = n /\ (1..n) \in SUBSET Nat
  BY FS_Interval
<1> QED
  BY <1>3, <1>5

-----------------------------------------------------------------------------
(* Sums of the first n values of a function.                                *)

Values == [Nat -> Nat]

\* s holds the partial sums of g up to n.
IsSum(s, g, n) ==
    /\ s \in [0..n -> Nat]
    /\ s[0] = 0
    /\ \A j \in 1..n : s[j] = s[j - 1] + g[j]

Total(g, n) == CHOOSE t \in Nat : \E s : IsSum(s, g, n) /\ t = s[n]

\* Partial sums exist.
LEMMA SumExists ==
  ASSUME NEW g \in Values
  PROVE  \A n \in Nat : \E s : IsSum(s, g, n)
<1> DEFINE S == {n \in Nat : \E s : IsSum(s, g, n)}
<1>1. 0 \in S
  <2>1. IsSum([j \in 0..0 |-> 0], g, 0)
    BY DEF IsSum
  <2> QED
    BY <2>1
<1>2. ASSUME NEW n \in Nat, n \in S PROVE n + 1 \in S
  <2>1. PICK s : IsSum(s, g, n)
    BY <1>2
  <2> DEFINE t == [j \in 0..(n + 1) |-> IF j = n + 1 THEN s[n] + g[n + 1] ELSE s[j]]
  <2>2. /\ \A j \in 0..n : s[j] \in Nat
        /\ s[0] = 0 /\ \A j \in 1..n : s[j] = s[j - 1] + g[j]
    BY <2>1 DEF IsSum
  <2>3. n \in 0..n /\ g[n + 1] \in Nat
    BY DEF Values
  <2>4. s[n] + g[n + 1] \in Nat
    BY <2>2, <2>3
  <2>5. t \in [0..(n + 1) -> Nat]
    <3>1. ASSUME NEW j \in 0..(n + 1) PROVE (IF j = n + 1 THEN s[n] + g[n + 1] ELSE s[j]) \in Nat
      <4>1. j # n + 1 => j \in 0..n
        OBVIOUS
      <4> QED
        BY <2>2, <2>4, <4>1
    <3> QED
      BY <3>1
  <2>6. t[0] = 0
    BY <2>2
  <2>7. ASSUME NEW j \in 1..(n + 1) PROVE t[j] = t[j - 1] + g[j]
    <3>1. CASE j = n + 1
      <4>1. (n + 1) - 1 = n /\ n # n + 1 /\ n \in 0..(n + 1) /\ n + 1 \in 0..(n + 1)
        OBVIOUS
      <4>2. t[n + 1] = s[n] + g[n + 1] /\ t[n] = s[n]
        BY <4>1
      <4> QED
        BY <3>1, <4>1, <4>2
    <3>2. CASE j # n + 1
      <4>1. j \in 1..n /\ j \in 0..(n + 1) /\ j - 1 \in 0..(n + 1) /\ j - 1 # n + 1
        BY <3>2
      <4>2. t[j] = s[j] /\ t[j - 1] = s[j - 1]
        BY <3>2, <4>1
      <4> QED
        BY <2>2, <4>1, <4>2
    <3> QED
      BY <3>1, <3>2
  <2> HIDE DEF t
  <2>8. IsSum(t, g, n + 1)
    BY <2>5, <2>6, <2>7 DEF IsSum
  <2> QED
    BY <2>8
<1>3. \A n \in Nat : n \in S
  <2> HIDE DEF S
  <2> QED
    BY <1>1, <1>2, CountingInduction
<1> QED
  BY <1>3

\* Partial sums of the same values agree, however far each goes.
LEMMA SumUnique ==
  ASSUME NEW g, NEW n \in Nat, NEW m \in Nat, NEW s, NEW t, IsSum(s, g, n), IsSum(t, g, m)
  PROVE  \A j \in Nat : j <= n /\ j <= m => s[j] = t[j]
<1> DEFINE S == {j \in Nat : j <= n /\ j <= m => s[j] = t[j]}
<1>1. 0 \in S
  BY DEF IsSum
<1>2. ASSUME NEW j \in Nat, j \in S PROVE j + 1 \in S
  <2> SUFFICES ASSUME j + 1 <= n, j + 1 <= m PROVE s[j + 1] = t[j + 1]
    OBVIOUS
  <2>1. s[j] = t[j]
    BY <1>2
  <2>2. j + 1 \in 1..n /\ j + 1 \in 1..m /\ (j + 1) - 1 = j
    OBVIOUS
  <2>3. s[j + 1] = s[(j + 1) - 1] + g[j + 1] /\ t[j + 1] = t[(j + 1) - 1] + g[j + 1]
    BY <2>2 DEF IsSum
  <2> QED
    BY <2>1, <2>2, <2>3
<1>3. \A j \in Nat : j \in S
  <2> HIDE DEF S
  <2> QED
    BY <1>1, <1>2, CountingInduction
<1> QED
  BY <1>3

\* The total is the last partial sum.
LEMMA TotalIsSum ==
  ASSUME NEW g \in Values, NEW n \in Nat, NEW s, IsSum(s, g, n)
  PROVE  Total(g, n) = s[n] /\ Total(g, n) \in Nat
<1>1. s[n] \in Nat
  BY DEF IsSum
<1>2. Total(g, n) \in Nat /\ \E t : IsSum(t, g, n) /\ Total(g, n) = t[n]
  BY <1>1 DEF Total
<1>3. PICK t : IsSum(t, g, n) /\ Total(g, n) = t[n]
  BY <1>2
<1>4. s[n] = t[n]
  BY <1>3, SumUnique
<1> QED
  BY <1>2, <1>3, <1>4

\* The recursion of the total.
LEMMA TotalStep ==
  ASSUME NEW g \in Values
  PROVE  /\ \A n \in Nat : Total(g, n) \in Nat
         /\ Total(g, 0) = 0
         /\ \A n \in Nat : Total(g, n + 1) = Total(g, n) + g[n + 1]
<1>1. \A n \in Nat : Total(g, n) \in Nat
  BY SumExists, TotalIsSum
<1>2. Total(g, 0) = 0
  <2>1. PICK s : IsSum(s, g, 0)
    BY SumExists
  <2> QED
    BY <2>1, TotalIsSum DEF IsSum
<1>3. ASSUME NEW n \in Nat PROVE Total(g, n + 1) = Total(g, n) + g[n + 1]
  <2>1. PICK s : IsSum(s, g, n + 1)
    BY SumExists
  <2>2. PICK t : IsSum(t, g, n)
    BY SumExists
  <2>3. s[n] = t[n]
    BY <2>1, <2>2, SumUnique
  <2>4. Total(g, n + 1) = s[n + 1] /\ Total(g, n) = t[n]
    BY <2>1, <2>2, TotalIsSum
  <2>5. n + 1 \in 1..(n + 1) /\ (n + 1) - 1 = n
    OBVIOUS
  <2>6. s[n + 1] = s[n] + g[n + 1]
    BY <2>1, <2>5 DEF IsSum
  <2> QED
    BY <2>3, <2>4, <2>6
<1> QED
  BY <1>1, <1>2, <1>3

\* Values that are the sum of two others add up to the sum of the totals.
LEMMA TotalPlus ==
  ASSUME NEW f \in Values, NEW g \in Values, NEW h \in Values
  PROVE  \A n \in Nat : (\A j \in 1..n : f[j] = g[j] + h[j]) => Total(f, n) = Total(g, n) + Total(h, n)
<1> DEFINE S == {n \in Nat : (\A j \in 1..n : f[j] = g[j] + h[j]) => Total(f, n) = Total(g, n) + Total(h, n)}
<1>1. 0 \in S
  BY TotalStep
<1>2. ASSUME NEW n \in Nat, n \in S PROVE n + 1 \in S
  <2> SUFFICES ASSUME \A j \in 1..(n + 1) : f[j] = g[j] + h[j]
               PROVE  Total(f, n + 1) = Total(g, n + 1) + Total(h, n + 1)
    OBVIOUS
  <2>1. \A j \in 1..n : j \in 1..(n + 1)
    OBVIOUS
  <2>2. Total(f, n) = Total(g, n) + Total(h, n)
    BY <1>2, <2>1
  <2>3. n + 1 \in 1..(n + 1)
    OBVIOUS
  <2>4. f[n + 1] = g[n + 1] + h[n + 1] /\ g[n + 1] \in Nat /\ h[n + 1] \in Nat
    BY <2>3 DEF Values
  <2>5. /\ Total(f, n + 1) = Total(f, n) + f[n + 1] /\ Total(g, n + 1) = Total(g, n) + g[n + 1]
        /\ Total(h, n + 1) = Total(h, n) + h[n + 1] /\ Total(g, n) \in Nat /\ Total(h, n) \in Nat
    BY TotalStep
  <2> QED
    BY <2>2, <2>4, <2>5
<1>3. \A n \in Nat : n \in S
  <2> HIDE DEF S
  <2> QED
    BY <1>1, <1>2, CountingInduction
<1> QED
  BY <1>3

\* Smaller values have a smaller total.
LEMMA TotalMost ==
  ASSUME NEW f \in Values, NEW g \in Values
  PROVE  \A n \in Nat : (\A j \in 1..n : f[j] <= g[j]) => Total(f, n) <= Total(g, n)
<1> DEFINE S == {n \in Nat : (\A j \in 1..n : f[j] <= g[j]) => Total(f, n) <= Total(g, n)}
<1>1. 0 \in S
  BY TotalStep
<1>2. ASSUME NEW n \in Nat, n \in S PROVE n + 1 \in S
  <2> SUFFICES ASSUME \A j \in 1..(n + 1) : f[j] <= g[j] PROVE Total(f, n + 1) <= Total(g, n + 1)
    OBVIOUS
  <2>1. \A j \in 1..n : j \in 1..(n + 1)
    OBVIOUS
  <2>2. Total(f, n) <= Total(g, n)
    BY <1>2, <2>1
  <2>3. n + 1 \in 1..(n + 1)
    OBVIOUS
  <2>4. f[n + 1] <= g[n + 1] /\ f[n + 1] \in Nat /\ g[n + 1] \in Nat
    BY <2>3 DEF Values
  <2>5. /\ Total(f, n + 1) = Total(f, n) + f[n + 1] /\ Total(g, n + 1) = Total(g, n) + g[n + 1]
        /\ Total(f, n) \in Nat /\ Total(g, n) \in Nat
    BY TotalStep
  <2> QED
    BY <2>2, <2>4, <2>5
<1>3. \A n \in Nat : n \in S
  <2> HIDE DEF S
  <2> QED
    BY <1>1, <1>2, CountingInduction
<1> QED
  BY <1>3

\* The same values have the same total.
LEMMA TotalSame ==
  ASSUME NEW f \in Values, NEW g \in Values, NEW n \in Nat, \A j \in 1..n : f[j] = g[j]
  PROVE  Total(f, n) = Total(g, n)
<1>1. \A j \in 1..n : f[j] \in Nat /\ g[j] \in Nat
  BY DEF Values
<1>2. (\A j \in 1..n : f[j] <= g[j]) /\ (\A j \in 1..n : g[j] <= f[j])
  BY <1>1
<1>3. Total(f, n) <= Total(g, n) /\ Total(g, n) <= Total(f, n)
  BY <1>2, TotalMost
<1>4. Total(f, n) \in Nat /\ Total(g, n) \in Nat
  BY TotalStep
<1> QED
  BY <1>3, <1>4

\* Values that are zero add up to zero.
LEMMA TotalZero ==
  ASSUME NEW f \in Values
  PROVE  \A n \in Nat : (\A j \in 1..n : f[j] = 0) => Total(f, n) = 0
<1> DEFINE S == {n \in Nat : (\A j \in 1..n : f[j] = 0) => Total(f, n) = 0}
<1>1. 0 \in S
  BY TotalStep
<1>2. ASSUME NEW n \in Nat, n \in S PROVE n + 1 \in S
  <2> SUFFICES ASSUME \A j \in 1..(n + 1) : f[j] = 0 PROVE Total(f, n + 1) = 0
    OBVIOUS
  <2>1. (\A j \in 1..n : j \in 1..(n + 1)) /\ n + 1 \in 1..(n + 1)
    OBVIOUS
  <2>2. Total(f, n) = 0 /\ f[n + 1] = 0
    BY <1>2, <2>1
  <2>3. Total(f, n + 1) = Total(f, n) + f[n + 1]
    BY TotalStep
  <2> QED
    BY <2>2, <2>3
<1>3. \A n \in Nat : n \in S
  <2> HIDE DEF S
  <2> QED
    BY <1>1, <1>2, CountingInduction
<1> QED
  BY <1>3

\* Values that differ in one place differ by that much in total.
LEMMA TotalPoint ==
  ASSUME NEW f \in Values, NEW g \in Values, NEW i \in Nat
  PROVE  \A n \in Nat : i \in 1..n /\ (\A j \in 1..n : j # i => f[j] = g[j])
           => Total(f, n) + g[i] = Total(g, n) + f[i]
<1> DEFINE S == {n \in Nat : i \in 1..n /\ (\A j \in 1..n : j # i => f[j] = g[j])
                              => Total(f, n) + g[i] = Total(g, n) + f[i]}
<1>1. 0 \in S
  OBVIOUS
<1>2. ASSUME NEW n \in Nat, n \in S PROVE n + 1 \in S
  <2> SUFFICES ASSUME i \in 1..(n + 1), \A j \in 1..(n + 1) : j # i => f[j] = g[j]
               PROVE  Total(f, n + 1) + g[i] = Total(g, n + 1) + f[i]
    OBVIOUS
  <2>1. (\A j \in 1..n : j \in 1..(n + 1)) /\ n + 1 \in 1..(n + 1)
    OBVIOUS
  <2>2. /\ Total(f, n + 1) = Total(f, n) + f[n + 1] /\ Total(g, n + 1) = Total(g, n) + g[n + 1]
        /\ Total(f, n) \in Nat /\ Total(g, n) \in Nat
    BY TotalStep
  <2>3. f[n + 1] \in Nat /\ g[n + 1] \in Nat /\ f[i] \in Nat /\ g[i] \in Nat
    BY DEF Values
  <2>4. CASE i = n + 1
    <3>1. \A j \in 1..n : f[j] = g[j]
      <4>1. \A j \in 1..n : j # n + 1
        OBVIOUS
      <4> QED
        BY <2>1, <2>4, <4>1
    <3>2. Total(f, n) = Total(g, n)
      BY <3>1, TotalSame
    <3> QED
      BY <2>2, <2>3, <2>4, <3>2
  <2>5. CASE i # n + 1
    <3>1. i \in 1..n
      BY <2>5
    <3>2. Total(f, n) + g[i] = Total(g, n) + f[i]
      BY <1>2, <2>1, <3>1
    <3>3. f[n + 1] = g[n + 1]
      BY <2>1, <2>5
    <3> QED
      BY <2>2, <2>3, <3>2, <3>3
  <2> QED
    BY <2>4, <2>5
<1>3. \A n \in Nat : n \in S
  <2> HIDE DEF S
  <2> QED
    BY <1>1, <1>2, CountingInduction
<1> QED
  BY <1>3

\* The total of values that continue with others.
LEMMA TotalConcat ==
  ASSUME NEW f \in Values, NEW g \in Values, NEW n \in Nat
  PROVE  \A m \in Nat : (\A j \in 1..m : f[n + j] = g[j]) => Total(f, n + m) = Total(f, n) + Total(g, m)
<1> DEFINE S == {m \in Nat : (\A j \in 1..m : f[n + j] = g[j]) => Total(f, n + m) = Total(f, n) + Total(g, m)}
<1>1. 0 \in S
  <2>1. n + 0 = n
    OBVIOUS
  <2> QED
    BY <2>1, TotalStep
<1>2. ASSUME NEW m \in Nat, m \in S PROVE m + 1 \in S
  <2> SUFFICES ASSUME \A j \in 1..(m + 1) : f[n + j] = g[j]
               PROVE  Total(f, n + (m + 1)) = Total(f, n) + Total(g, m + 1)
    OBVIOUS
  <2>1. (\A j \in 1..m : j \in 1..(m + 1)) /\ m + 1 \in 1..(m + 1)
    OBVIOUS
  <2>2. Total(f, n + m) = Total(f, n) + Total(g, m) /\ f[n + (m + 1)] = g[m + 1]
    BY <1>2, <2>1
  <2>3. n + m \in Nat /\ n + (m + 1) = (n + m) + 1
    OBVIOUS
  <2>4. /\ Total(f, (n + m) + 1) = Total(f, n + m) + f[(n + m) + 1]
        /\ Total(g, m + 1) = Total(g, m) + g[m + 1]
        /\ Total(f, n) \in Nat /\ Total(g, m) \in Nat
    BY <2>3, TotalStep
  <2>5. g[m + 1] \in Nat
    BY DEF Values
  <2> QED
    BY <2>2, <2>3, <2>4, <2>5
<1>3. \A m \in Nat : m \in S
  <2> HIDE DEF S
  <2> QED
    BY <1>1, <1>2, CountingInduction
<1> QED
  BY <1>3

-----------------------------------------------------------------------------
(* What the entries of a batch add to a window key.                         *)

Terms(batch, J, k, w) ==
    [j \in Nat |-> IF j \in 1..Len(batch) /\ j \in J /\ batch[j].key = k /\ batch[j].ws = w
                   THEN batch[j].flushN ELSE 0]

\* The recursive function of Increment is the total of the terms.
LEMMA IncrementTotal ==
  ASSUME NEW batch \in Seq(PendingFlush), NEW J, NEW k, NEW w
  PROVE  /\ Terms(batch, J, k, w) \in Values
         /\ Increment(batch, J, k, w) = Total(Terms(batch, J, k, w), Len(batch))
<1> DEFINE g == Terms(batch, J, k, w)
           n == Len(batch)
           sum[j \in 0..Len(batch)] ==
             IF j = 0 THEN 0
             ELSE sum[j - 1] + (IF j \in J /\ batch[j].key = k /\ batch[j].ws = w
                                THEN batch[j].flushN ELSE 0)
<1>1. n \in Nat
  OBVIOUS
<1>2. g \in Values
  <2>1. ASSUME NEW j \in 1..Len(batch) PROVE batch[j].flushN \in Nat
    <3>1. batch[j] \in PendingFlush
      BY ElementOfSeq
    <3> QED
      BY <3>1 DEF PendingFlush
  <2> QED
    BY <2>1 DEF Terms, Values
<1>3. \A j \in 1..n : g[j] = IF j \in J /\ batch[j].key = k /\ batch[j].ws = w
                             THEN batch[j].flushN ELSE 0
  BY DEF Terms
<1>4. Increment(batch, J, k, w) = sum[n]
  BY DEF Increment
<1>5. PICK s : IsSum(s, g, n)
  BY <1>1, <1>2, SumExists
<1>6. s = [j \in 0..Len(batch) |->
             IF j = 0 THEN 0
             ELSE s[j - 1] + (IF j \in J /\ batch[j].key = k /\ batch[j].ws = w
                              THEN batch[j].flushN ELSE 0)]
  <2>1. \A j \in 0..n : j # 0 => j \in 1..n
    BY <1>1
  <2>2. s \in [0..n -> Nat] /\ s[0] = 0 /\ \A j \in 1..n : s[j] = s[j - 1] + g[j]
    BY <1>5 DEF IsSum
  <2> HIDE DEF g
  <2> QED
    BY <1>3, <2>1, <2>2
<1>7. sum = [j \in 0..Len(batch) |->
             IF j = 0 THEN 0
             ELSE sum[j - 1] + (IF j \in J /\ batch[j].key = k /\ batch[j].ws = w
                              THEN batch[j].flushN ELSE 0)]
  BY <1>6, Zenon DEF sum
<1> HIDE DEF sum, g, n
<1>8. \A j \in 0..n : sum[j] = IF j = 0 THEN 0 ELSE sum[j - 1] + g[j]
  <2>1. \A j \in 0..n : j # 0 => j \in 1..n
    BY <1>1
  <2> QED
    BY <1>3, <1>7, <2>1 DEF n
<1> DEFINE S == {j \in Nat : j <= n => sum[j] = s[j]}
<1>9. 0 \in S
  BY <1>1, <1>5, <1>8 DEF IsSum
<1>10. ASSUME NEW j \in Nat, j \in S PROVE j + 1 \in S
  <2> SUFFICES ASSUME j + 1 <= n PROVE sum[j + 1] = s[j + 1]
    OBVIOUS
  <2>1. j + 1 \in 0..n /\ j + 1 \in 1..n /\ j + 1 # 0 /\ (j + 1) - 1 = j /\ j <= n
    BY <1>1
  <2>2. sum[j + 1] = sum[j] + g[j + 1] /\ sum[j] = s[j]
    BY <1>8, <1>10, <2>1
  <2>3. s[j + 1] = s[j] + g[j + 1]
    BY <1>5, <2>1 DEF IsSum
  <2> QED
    BY <2>2, <2>3
<1>11. \A j \in Nat : j \in S
  <2> HIDE DEF S
  <2> QED
    BY <1>9, <1>10, CountingInduction
<1>12. sum[n] = s[n]
  BY <1>1, <1>11
<1>13. Total(g, n) = s[n]
  BY <1>1, <1>2, <1>5, TotalIsSum
<1> QED
  BY <1>2, <1>4, <1>12, <1>13 DEF g, n
Amount(e, k, w) == IF e.key = k /\ e.ws = w THEN e.flushN ELSE 0

\* The value of one term.
LEMMA TermValue ==
  ASSUME NEW batch \in Seq(PendingFlush), NEW J, NEW k, NEW w, NEW j \in 1..Len(batch)
  PROVE  /\ Terms(batch, J, k, w)[j] = IF j \in J THEN Amount(batch[j], k, w) ELSE 0
         /\ Amount(batch[j], k, w) \in Nat
<1>1. j \in Nat /\ batch[j] \in PendingFlush
  BY ElementOfSeq
<1> QED
  BY <1>1 DEF Terms, Amount, PendingFlush

\* What entries add is a number.
LEMMA IncrementType ==
  ASSUME NEW batch \in Seq(PendingFlush), NEW J, NEW k, NEW w
  PROVE  Increment(batch, J, k, w) \in Nat
  BY IncrementTotal, TotalStep, LenProperties

\* The entries that count decide.
LEMMA IncrementSame ==
  ASSUME NEW batch \in Seq(PendingFlush), NEW J, NEW L, NEW k, NEW w,
         \A j \in 1..Len(batch) : j \in J <=> j \in L
  PROVE  Increment(batch, J, k, w) = Increment(batch, L, k, w)
<1>1. \A j \in 1..Len(batch) : Terms(batch, J, k, w)[j] = Terms(batch, L, k, w)[j]
  BY TermValue
<1>2. Len(batch) \in Nat
  OBVIOUS
<1> QED
  BY <1>1, <1>2, IncrementTotal, TotalSame

\* More entries add more.
LEMMA IncrementMost ==
  ASSUME NEW batch \in Seq(PendingFlush), NEW J, NEW L, NEW k, NEW w,
         \A j \in 1..Len(batch) : j \in J => j \in L
  PROVE  Increment(batch, J, k, w) <= Increment(batch, L, k, w)
<1>1. ASSUME NEW j \in 1..Len(batch) PROVE Terms(batch, J, k, w)[j] <= Terms(batch, L, k, w)[j]
  <2>1. /\ Terms(batch, J, k, w)[j] = IF j \in J THEN Amount(batch[j], k, w) ELSE 0
        /\ Terms(batch, L, k, w)[j] = IF j \in L THEN Amount(batch[j], k, w) ELSE 0
        /\ Amount(batch[j], k, w) \in Nat
    BY TermValue
  <2> QED
    BY <2>1
<1>2. Len(batch) \in Nat
  OBVIOUS
<1> QED
  BY <1>1, <1>2, IncrementTotal, TotalMost

\* No entry adds nothing.
LEMMA IncrementNone ==
  ASSUME NEW batch \in Seq(PendingFlush), NEW J, NEW k, NEW w, \A j \in 1..Len(batch) : j \notin J
  PROVE  Increment(batch, J, k, w) = 0
<1>1. \A j \in 1..Len(batch) : Terms(batch, J, k, w)[j] = 0
  BY TermValue
<1>2. Len(batch) \in Nat
  OBVIOUS
<1> QED
  BY <1>1, <1>2, IncrementTotal, TotalZero

\* One entry more adds its amount.
LEMMA IncrementPoint ==
  ASSUME NEW batch \in Seq(PendingFlush), NEW J, NEW L, NEW k, NEW w, NEW i \in 1..Len(batch),
         i \in J, i \notin L, \A j \in 1..Len(batch) : j # i => (j \in J <=> j \in L)
  PROVE  Increment(batch, J, k, w) = Increment(batch, L, k, w) + Amount(batch[i], k, w)
<1>1. \A j \in 1..Len(batch) : j # i => Terms(batch, J, k, w)[j] = Terms(batch, L, k, w)[j]
  BY TermValue
<1>2. /\ Terms(batch, J, k, w)[i] = Amount(batch[i], k, w) /\ Terms(batch, L, k, w)[i] = 0
      /\ Amount(batch[i], k, w) \in Nat
  BY TermValue
<1>3. Len(batch) \in Nat /\ i \in Nat
  OBVIOUS
<1>4. Total(Terms(batch, J, k, w), Len(batch)) + Terms(batch, L, k, w)[i]
        = Total(Terms(batch, L, k, w), Len(batch)) + Terms(batch, J, k, w)[i]
  BY <1>1, <1>3, IncrementTotal, TotalPoint
<1>5. Increment(batch, J, k, w) + 0 = Increment(batch, L, k, w) + Amount(batch[i], k, w)
  BY <1>2, <1>4, IncrementTotal
<1>6. Increment(batch, J, k, w) \in Nat
  BY IncrementType
<1> QED
  BY <1>5, <1>6

\* A batch that continues with another.
LEMMA IncrementConcat ==
  ASSUME NEW a \in Seq(PendingFlush), NEW b \in Seq(PendingFlush), NEW J, NEW L, NEW M,
         NEW k, NEW w,
         \A j \in 1..Len(a) : j \in J <=> j \in L,
         \A j \in 1..Len(b) : Len(a) + j \in J <=> j \in M
  PROVE  Increment(a \o b, J, k, w) = Increment(a, L, k, w) + Increment(b, M, k, w)
<1> DEFINE c == a \o b
<1>1. /\ c \in Seq(PendingFlush) /\ Len(c) = Len(a) + Len(b) /\ Len(a) \in Nat /\ Len(b) \in Nat
      /\ \A j \in 1..Len(a) : c[j] = a[j]
      /\ \A j \in 1..Len(b) : c[Len(a) + j] = b[j]
  <2>1. \A j \in 1..Len(a) + Len(b) : c[j] = IF j <= Len(a) THEN a[j] ELSE b[j - Len(a)]
    BY ConcatProperties
  <2>2. c \in Seq(PendingFlush) /\ Len(c) = Len(a) + Len(b) /\ Len(a) \in Nat /\ Len(b) \in Nat
    BY ConcatProperties
  <2>3. ASSUME NEW j \in 1..Len(a) PROVE c[j] = a[j]
    <3>1. j \in 1..Len(a) + Len(b) /\ j <= Len(a)
      BY <2>2
    <3> QED
      BY <2>1, <3>1
  <2>4. ASSUME NEW j \in 1..Len(b) PROVE c[Len(a) + j] = b[j]
    <3>1. Len(a) + j \in 1..Len(a) + Len(b) /\ ~(Len(a) + j <= Len(a)) /\ (Len(a) + j) - Len(a) = j
      BY <2>2
    <3> QED
      BY <2>1, <3>1
  <2> QED
    BY <2>2, <2>3, <2>4
<1> HIDE DEF c
<1>2. ASSUME NEW j \in 1..Len(a) PROVE Terms(c, J, k, w)[j] = Terms(a, L, k, w)[j]
  <2>1. j \in 1..Len(c)
    BY <1>1
  <2>2. Amount(c[j], k, w) = Amount(a[j], k, w)
    BY <1>1
  <2> QED
    BY <1>1, <2>1, <2>2, TermValue
<1>3. ASSUME NEW j \in 1..Len(b) PROVE Terms(c, J, k, w)[Len(a) + j] = Terms(b, M, k, w)[j]
  <2> DEFINE i == Len(a) + j
  <2>1. i \in 1..Len(c) /\ c[i] = b[j] /\ (i \in J <=> j \in M)
    BY <1>1
  <2> HIDE DEF i
  <2>2. Terms(c, J, k, w)[i] = IF i \in J THEN Amount(c[i], k, w) ELSE 0
    BY <1>1, <2>1, TermValue
  <2>3. Terms(c, J, k, w)[i] = IF j \in M THEN Amount(b[j], k, w) ELSE 0
    BY <2>1, <2>2
  <2>4. Terms(b, M, k, w)[j] = IF j \in M THEN Amount(b[j], k, w) ELSE 0
    BY TermValue
  <2> QED
    BY <2>3, <2>4 DEF i
<1>4. /\ Terms(c, J, k, w) \in Values /\ Terms(a, L, k, w) \in Values /\ Terms(b, M, k, w) \in Values
      /\ Increment(c, J, k, w) = Total(Terms(c, J, k, w), Len(c))
      /\ Increment(a, L, k, w) = Total(Terms(a, L, k, w), Len(a))
      /\ Increment(b, M, k, w) = Total(Terms(b, M, k, w), Len(b))
  BY <1>1, IncrementTotal
<1>5. Total(Terms(c, J, k, w), Len(a) + Len(b))
        = Total(Terms(c, J, k, w), Len(a)) + Total(Terms(b, M, k, w), Len(b))
  BY <1>1, <1>3, <1>4, TotalConcat
<1>6. Total(Terms(c, J, k, w), Len(a)) = Total(Terms(a, L, k, w), Len(a))
  BY <1>1, <1>2, <1>4, TotalSame
<1> QED
  BY <1>1, <1>4, <1>5, <1>6 DEF c

\* A batch with one entry more at its end, all entries counting.
LEMMA IncrementAppend ==
  ASSUME NEW a \in Seq(PendingFlush), NEW e \in PendingFlush, NEW k, NEW w
  PROVE  Increment(Append(a, e), DOMAIN Append(a, e), k, w)
           = Increment(a, DOMAIN a, k, w) + Amount(e, k, w)
<1> DEFINE c == Append(a, e)
           n == Len(a)
<1>1. /\ c \in Seq(PendingFlush) /\ Len(c) = n + 1 /\ n \in Nat /\ c[n + 1] = e
      /\ \A j \in 1..n : c[j] = a[j]
  BY AppendProperties
<1>2. DOMAIN c = 1..Len(c) /\ DOMAIN a = 1..n
  BY <1>1, LenProperties
<1> HIDE DEF c, n
<1>3. ASSUME NEW j \in 1..n PROVE Terms(c, DOMAIN c, k, w)[j] = Terms(a, DOMAIN a, k, w)[j]
  <2>1. j \in 1..Len(c) /\ j \in 1..Len(a)
    BY <1>1 DEF n
  <2>2. Amount(c[j], k, w) = Amount(a[j], k, w)
    BY <1>1
  <2>3. Terms(c, DOMAIN c, k, w)[j] = Amount(c[j], k, w)
    BY <1>1, <1>2, <2>1, TermValue
  <2>4. Terms(a, DOMAIN a, k, w)[j] = Amount(a[j], k, w)
    BY <1>2, <2>1, TermValue
  <2> QED
    BY <2>2, <2>3, <2>4
<1>4. Terms(c, DOMAIN c, k, w)[n + 1] = Amount(e, k, w)
  <2>1. n + 1 \in 1..Len(c)
    BY <1>1
  <2>2. Terms(c, DOMAIN c, k, w)[n + 1] = Amount(c[n + 1], k, w)
    BY <1>1, <1>2, <2>1, TermValue
  <2> QED
    BY <1>1, <2>2
<1>5. /\ Terms(c, DOMAIN c, k, w) \in Values /\ Terms(a, DOMAIN a, k, w) \in Values
      /\ Increment(c, DOMAIN c, k, w) = Total(Terms(c, DOMAIN c, k, w), n + 1)
      /\ Increment(a, DOMAIN a, k, w) = Total(Terms(a, DOMAIN a, k, w), n)
  BY <1>1, IncrementTotal DEF n
<1>6. Total(Terms(c, DOMAIN c, k, w), n + 1)
        = Total(Terms(c, DOMAIN c, k, w), n) + Terms(c, DOMAIN c, k, w)[n + 1]
  BY <1>1, <1>5, TotalStep
<1>7. Total(Terms(c, DOMAIN c, k, w), n) = Total(Terms(a, DOMAIN a, k, w), n)
  BY <1>1, <1>3, <1>5, TotalSame
<1> QED
  BY <1>4, <1>5, <1>6, <1>7 DEF c

-----------------------------------------------------------------------------
(* The balance of a window key.                                             *)

\* What a state, a stripe's evictedPending and a flush owe Redis.
Left(st, w) == IF st.windowStart = w THEN st.localDelta ELSE 0
InStripe(ev, k, w) == Increment(ev[StripeOf[k]], DOMAIN ev[StripeOf[k]], k, w)
SentIn(f) == {i \in {i \in (f.idx + 1)..Len(f.res) : f.res[i].ok} : ~f.batch[i].evicted}
CarriedIn(f) ==
    {i \in (f.idx + 1)..Len(f.batch) : f.batch[i].evicted /\ (i > Len(f.res) \/ ~f.res[i].ok)}
Worth(f, k, w) == Increment(f.batch, CarriedIn(f), k, w) - Increment(f.batch, SentIn(f), k, w)

\* What is counted or owed beyond what was granted; f is one of the two flushes.
Surplus(count, st, ev, f, lost, granted, others, k, w) ==
    count + Left(st, w) + InStripe(ev, k, w) + Worth(f, k, w) + lost - granted - others

SurplusOf(p, k, w) ==
    Surplus(redis[k][w], states[k], evicted, fl[p], dropped[k][w], admitted[k][w], other[k][w], k, w)

\* Deltas set aside for evicted states are marked as such.
Marked(pending) == \A i \in 1..Len(pending) : pending[i].evicted

\* Until a window ends, what Redis counted for this replica and what the replica
\* owes Redis make up what it granted.
CountOK(k, w) == 0 <= SurplusOf("worker", k, w) + Worth(fl["closer"], k, w)

\* A flush that comes to its EXPIREs has applied all its entries.
Finished(f) == f.step = "expire" => f.idx = Len(f.batch)

SumInv ==
    /\ \A p \in Flushers : Finished(fl[p])
    /\ \A s \in StripeIds : Marked(evicted[s])
    /\ \A k \in Keys, w \in Windows : Open(now, w) => CountOK(k, w)

\* One marked entry more.
LEMMA MarkedAppend ==
  ASSUME NEW pending \in Seq(PendingFlush), NEW e \in PendingFlush, Marked(pending), e.evicted
  PROVE  Marked(Append(pending, e))
<1> SUFFICES ASSUME NEW j \in 1..Len(Append(pending, e)) PROVE Append(pending, e)[j].evicted
  BY DEF Marked
<1>1. Len(Append(pending, e)) = Len(pending) + 1 /\ Len(pending) \in Nat
  BY AppendProperties
<1>2. CASE j = Len(pending) + 1
  BY <1>2, AppendProperties
<1>3. CASE j \in 1..Len(pending)
  <2>1. Append(pending, e)[j] = pending[j]
    BY <1>3, AppendProperties
  <2> QED
    BY <1>3, <2>1 DEF Marked
<1> QED
  BY <1>1, <1>2, <1>3

\* The parts of the balance are numbers.
LEMMA BalanceTypes ==
  ASSUME NEW f \in FlushLocals, NEW k, NEW w
  PROVE  /\ Increment(f.batch, CarriedIn(f), k, w) \in Nat
         /\ Increment(f.batch, SentIn(f), k, w) \in Nat
         /\ Worth(f, k, w) \in Int
<1>1. f.batch \in Seq(PendingFlush)
  BY LocalsType
<1> QED
  BY <1>1, IncrementType DEF Worth

\* What a state and a stripe owe is a number.
LEMMA OwedTypes ==
  ASSUME NEW table \in StateTable, NEW ev \in [StripeIds -> Seq(PendingFlush)],
         NEW k \in Keys, NEW w \in Windows
  PROVE  Left(table[k], w) \in Nat /\ InStripe(ev, k, w) \in Nat
<1>1. StripeOf[k] \in StripeIds
  BY LocalAsyncAssumption DEF StripeIds
<1>2. ev[StripeOf[k]] \in Seq(PendingFlush)
  BY <1>1
<1>3. InStripe(ev, k, w) \in Nat
  BY <1>2, IncrementType DEF InStripe
<1>4. Left(table[k], w) \in Nat
  BY TableType DEF Left
<1> QED
  BY <1>3, <1>4

\* The parts of a state that the balance adds up are numbers.
LEMMA SurplusTypes ==
  ASSUME NEW table \in StateTable, NEW ev \in [StripeIds -> Seq(PendingFlush)],
         NEW f \in FlushLocals, NEW count \in Counts, NEW lost \in Counts, NEW granted \in Counts,
         NEW others \in Counts, NEW k \in Keys, NEW w \in Windows
  PROVE  /\ Left(table[k], w) \in Nat /\ InStripe(ev, k, w) \in Nat /\ Worth(f, k, w) \in Int
         /\ count[k][w] \in Nat /\ lost[k][w] \in Nat /\ granted[k][w] \in Nat
         /\ others[k][w] \in Nat
         /\ Surplus(count[k][w], table[k], ev, f, lost[k][w], granted[k][w], others[k][w], k, w) \in Int
<1>1. Left(table[k], w) \in Nat /\ InStripe(ev, k, w) \in Nat
  BY OwedTypes
<1>2. count[k][w] \in Nat /\ lost[k][w] \in Nat /\ granted[k][w] \in Nat /\ others[k][w] \in Nat
  BY DEF Counts
<1>3. Worth(f, k, w) \in Int
  BY BalanceTypes
<1> QED
  BY <1>1, <1>2, <1>3 DEF Surplus

\* The surplus can be seen from either flush.
LEMMA SurplusSwap ==
  ASSUME NEW table \in StateTable, NEW ev \in [StripeIds -> Seq(PendingFlush)],
         NEW f \in FlushLocals, NEW g \in FlushLocals, NEW count \in Counts, NEW lost \in Counts,
         NEW granted \in Counts, NEW others \in Counts, NEW k \in Keys, NEW w \in Windows
  PROVE  Surplus(count[k][w], table[k], ev, f, lost[k][w], granted[k][w], others[k][w], k, w)
             + Worth(g, k, w)
           = Surplus(count[k][w], table[k], ev, g, lost[k][w], granted[k][w], others[k][w], k, w)
             + Worth(f, k, w)
<1>1. /\ Worth(f, k, w) \in Int /\ Worth(g, k, w) \in Int
      /\ Left(table[k], w) \in Nat /\ InStripe(ev, k, w) \in Nat
      /\ count[k][w] \in Nat /\ lost[k][w] \in Nat /\ granted[k][w] \in Nat /\ others[k][w] \in Nat
  BY SurplusTypes
<1> DEFINE a == count[k][w]
           b == Left(table[k], w)
           c == InStripe(ev, k, w)
           x == Worth(f, k, w)
           y == Worth(g, k, w)
           l == lost[k][w]
           d == granted[k][w]
           o == others[k][w]
<1>2. /\ a \in Nat /\ b \in Nat /\ c \in Nat /\ l \in Nat /\ d \in Nat /\ o \in Nat
      /\ x \in Int /\ y \in Int
  BY <1>1
<1>3. SUFFICES (a + b + c + x + l - d - o) + y = (a + b + c + y + l - d - o) + x
  BY DEF Surplus
<1> HIDE DEF a, b, c, x, y, l, d, o
<1> QED
  BY <1>2

\* The types of the variables of the balance.
LEMMA StateTypes ==
  ASSUME TypeOK
  PROVE  /\ states \in StateTable /\ evicted \in [StripeIds -> Seq(PendingFlush)]
         /\ fl \in [Flushers -> FlushLocals] /\ \A p \in Flushers : fl[p] \in FlushLocals
         /\ redis \in Counts /\ dropped \in Counts /\ admitted \in Counts /\ other \in Counts
         /\ now \in Nat
  BY LocalAsyncAssumption DEF TypeOK, StateTable

\* The same after a step.
LEMMA NextStateTypes ==
  ASSUME TypeOK'
  PROVE  /\ states' \in StateTable /\ evicted' \in [StripeIds -> Seq(PendingFlush)]
         /\ fl' \in [Flushers -> FlushLocals] /\ \A p \in Flushers : fl'[p] \in FlushLocals
         /\ redis' \in Counts /\ dropped' \in Counts /\ admitted' \in Counts /\ other' \in Counts
         /\ now' \in Nat
  BY LocalAsyncAssumption DEF TypeOK, StateTable

\* What a step of flush p leaves of the surplus.
Keeps(p, k, w) ==
    Surplus(redis[k][w], states[k], evicted, fl[p], dropped[k][w], admitted[k][w], other[k][w], k, w)
      <= Surplus(redis'[k][w], states'[k], evicted', fl'[p], dropped'[k][w], admitted'[k][w],
                 other'[k][w], k, w)

\* A step of one flush that takes nothing from the surplus keeps the balance.
LEMMA BalanceKept ==
  ASSUME TypeOK, TypeOK', SumInv, NEW p \in Flushers,
         \A q \in Flushers : q # p => fl'[q] = fl[q], now <= now',
         Finished(fl'[p]), \A s \in StripeIds : Marked(evicted'[s]),
         \A k \in Keys, w \in Windows : Open(now, w) => Keeps(p, k, w)
  PROVE  SumInv'
<1>0. PICK q \in Flushers : q # p /\ fl'[q] = fl[q]
  BY DEF Flushers
<1>00. (p = "worker" /\ q = "closer") \/ (p = "closer" /\ q = "worker")
  BY <1>0 DEF Flushers
<1>1. ASSUME NEW k \in Keys, NEW w \in Windows, Open(now', w)
      PROVE  0 <= Surplus(redis'[k][w], states'[k], evicted', fl'["worker"], dropped'[k][w],
                          admitted'[k][w], other'[k][w], k, w) + Worth(fl'["closer"], k, w)
  <2> DEFINE A(f) == Surplus(redis[k][w], states[k], evicted, f, dropped[k][w], admitted[k][w],
                             other[k][w], k, w)
             B(f) == Surplus(redis'[k][w], states'[k], evicted', f, dropped'[k][w], admitted'[k][w],
                             other'[k][w], k, w)
  <2>1. Open(now, w)
    <3>1. now \in Nat /\ now' \in Nat /\ w \in Nat
      BY WindowNat, StateTypes, NextStateTypes
    <3> QED
      BY <1>1, <3>1, LocalAsyncAssumption DEF Open
  <2>2. 0 <= A(fl["worker"]) + Worth(fl["closer"], k, w)
    BY <2>1 DEF SumInv, CountOK, SurplusOf
  <2>3. A(fl["worker"]) + Worth(fl["closer"], k, w) = A(fl["closer"]) + Worth(fl["worker"], k, w)
    BY StateTypes, SurplusSwap DEF Flushers
  <2>4. B(fl'["worker"]) + Worth(fl'["closer"], k, w) = B(fl'["closer"]) + Worth(fl'["worker"], k, w)
    BY NextStateTypes, SurplusSwap DEF Flushers
  <2>5. A(fl[p]) \in Int /\ Worth(fl[q], k, w) \in Int
    BY StateTypes, SurplusTypes
  <2>6. B(fl'[p]) \in Int
    BY NextStateTypes, SurplusTypes
  <2>7. A(fl[p]) <= B(fl'[p])
    BY <2>1 DEF Keeps
  <2> HIDE DEF A, B
  <2>8. 0 <= A(fl[p]) + Worth(fl[q], k, w)
    BY <1>00, <2>2, <2>3
  <2>9. 0 <= B(fl'[p]) + Worth(fl'[q], k, w)
    BY <1>0, <2>5, <2>6, <2>7, <2>8
  <2>10. 0 <= B(fl'["worker"]) + Worth(fl'["closer"], k, w)
    BY <1>00, <2>4, <2>9
  <2> QED
    BY <2>10 DEF B
<1>2. \A x \in Flushers : Finished(fl'[x])
  BY DEF SumInv
<1> QED
  BY <1>1, <1>2 DEF SumInv, CountOK, SurplusOf

\* A flush whose entries are all applied owes nothing.
LEMMA WorthNone ==
  ASSUME NEW f \in FlushLocals, Len(f.batch) <= f.idx, NEW k, NEW w
  PROVE  Worth(f, k, w) = 0
<1>1. f.batch \in Seq(PendingFlush) /\ Len(f.batch) \in Nat /\ f.idx \in Nat /\ Len(f.res) \in Nat
  BY LocalsType
<1>2. \A j \in 1..Len(f.batch) : j \notin CarriedIn(f) /\ j \notin SentIn(f)
  BY <1>1 DEF CarriedIn, SentIn
<1>3. Increment(f.batch, CarriedIn(f), k, w) = 0 /\ Increment(f.batch, SentIn(f), k, w) = 0
  BY <1>1, <1>2, IncrementNone
<1> QED
  BY <1>3 DEF Worth

\* Replies that are taken back make a flush owe more.
LEMMA WorthGrows ==
  ASSUME NEW f \in FlushLocals, NEW g \in FlushLocals, g.batch = f.batch, g.idx = f.idx,
         KeepsReplies(f, g), NEW k, NEW w
  PROVE  Worth(f, k, w) <= Worth(g, k, w)
<1>1. /\ f.batch \in Seq(PendingFlush) /\ Len(f.batch) \in Nat /\ f.idx \in Nat
      /\ Len(f.res) \in Nat /\ Len(g.res) \in Nat
  BY LocalsType
<1>2. \A i \in 1..Len(g.res) : g.res[i].ok => i \in 1..Len(f.res) /\ f.res[i].ok
  BY DEF KeepsReplies
<1>3. ASSUME NEW j \in 1..Len(f.batch), j \in CarriedIn(f) PROVE j \in CarriedIn(g)
  <2>1. j \in (g.idx + 1)..Len(g.batch) /\ g.batch[j].evicted
    BY <1>3 DEF CarriedIn
  <2>2. j > Len(f.res) \/ ~f.res[j].ok
    BY <1>3 DEF CarriedIn
  <2>3. j > Len(g.res) \/ ~g.res[j].ok
    BY <1>1, <1>2, <2>2
  <2> QED
    BY <2>1, <2>3 DEF CarriedIn
<1>4. ASSUME NEW j \in 1..Len(f.batch), j \in SentIn(g) PROVE j \in SentIn(f)
  <2>1. j \in (g.idx + 1)..Len(g.res) /\ g.res[j].ok /\ ~g.batch[j].evicted
    BY <1>4 DEF SentIn
  <2>2. j \in 1..Len(g.res)
    BY <1>1, <2>1
  <2>3. j \in 1..Len(f.res) /\ f.res[j].ok
    BY <1>2, <2>1, <2>2
  <2>4. j \in (f.idx + 1)..Len(f.res)
    BY <1>1, <2>1, <2>3
  <2> QED
    BY <2>1, <2>3, <2>4 DEF SentIn
<1>5. /\ Increment(f.batch, CarriedIn(f), k, w) <= Increment(f.batch, CarriedIn(g), k, w)
      /\ Increment(f.batch, SentIn(g), k, w) <= Increment(f.batch, SentIn(f), k, w)
  BY <1>1, <1>3, <1>4, IncrementMost
<1>6. /\ Increment(f.batch, CarriedIn(f), k, w) \in Nat /\ Increment(f.batch, CarriedIn(g), k, w) \in Nat
      /\ Increment(f.batch, SentIn(f), k, w) \in Nat /\ Increment(f.batch, SentIn(g), k, w) \in Nat
  BY <1>1, IncrementType
<1> QED
  BY <1>5, <1>6 DEF Worth

\* What must be shown of a step: the parts of the balance before and after it.
LEMMA KeepsParts ==
  ASSUME TypeOK, TypeOK', NEW p \in Flushers, NEW k \in Keys, NEW w \in Windows,
         redis[k][w] + Left(states[k], w) + InStripe(evicted, k, w) + Worth(fl[p], k, w)
           + dropped[k][w] + admitted'[k][w] + other'[k][w]
         <= redis'[k][w] + Left(states'[k], w) + InStripe(evicted', k, w) + Worth(fl'[p], k, w)
           + dropped'[k][w] + admitted[k][w] + other[k][w]
  PROVE  Keeps(p, k, w)
<1> DEFINE a == redis[k][w]
           b == Left(states[k], w)
           c == InStripe(evicted, k, w)
           x == Worth(fl[p], k, w)
           l == dropped[k][w]
           d == admitted[k][w]
           o == other[k][w]
           a1 == redis'[k][w]
           b1 == Left(states'[k], w)
           c1 == InStripe(evicted', k, w)
           x1 == Worth(fl'[p], k, w)
           l1 == dropped'[k][w]
           d1 == admitted'[k][w]
           o1 == other'[k][w]
<1>1. /\ a \in Nat /\ b \in Nat /\ c \in Nat /\ x \in Int /\ l \in Nat /\ d \in Nat /\ o \in Nat
  <2>1. /\ states \in StateTable /\ evicted \in [StripeIds -> Seq(PendingFlush)]
        /\ fl[p] \in FlushLocals
        /\ redis \in Counts /\ dropped \in Counts /\ admitted \in Counts /\ other \in Counts
    BY StateTypes
  <2> QED
    BY <2>1, OwedTypes, BalanceTypes DEF Counts
<1>2. /\ a1 \in Nat /\ b1 \in Nat /\ c1 \in Nat /\ x1 \in Int /\ l1 \in Nat /\ d1 \in Nat
      /\ o1 \in Nat
  <2>1. /\ states' \in StateTable /\ evicted' \in [StripeIds -> Seq(PendingFlush)]
        /\ fl'[p] \in FlushLocals
        /\ redis' \in Counts /\ dropped' \in Counts /\ admitted' \in Counts /\ other' \in Counts
    BY NextStateTypes
  <2> QED
    BY <2>1, OwedTypes, BalanceTypes DEF Counts
<1>3. a + b + c + x + l + d1 + o1 <= a1 + b1 + c1 + x1 + l1 + d + o
  OBVIOUS
<1>4. SUFFICES a + b + c + x + l - d - o <= a1 + b1 + c1 + x1 + l1 - d1 - o1
  BY Zenon DEF Keeps, Surplus
<1> HIDE DEF a, b, c, x, l, d, o, a1, b1, c1, x1, l1, d1, o1
<1> QED
  BY <1>1, <1>2, <1>3

\* When an entry of a batch counts as carried or as sent.
LEMMA CarriedOrSent ==
  ASSUME NEW f \in FlushLocals, NEW j \in 1..Len(f.batch)
  PROVE  /\ j \in CarriedIn(f)
             <=> f.idx < j /\ f.batch[j].evicted /\ (j > Len(f.res) \/ ~f.res[j].ok)
         /\ j \in SentIn(f)
             <=> f.idx < j /\ j <= Len(f.res) /\ f.res[j].ok /\ ~f.batch[j].evicted
<1>1. Len(f.batch) \in Nat /\ f.idx \in Nat /\ Len(f.res) \in Nat
  BY LocalsType
<1>2. f.idx < j <=> j \in (f.idx + 1)..Len(f.batch)
  BY <1>1
<1>3. f.idx < j /\ j <= Len(f.res) <=> j \in (f.idx + 1)..Len(f.res)
  BY <1>1
<1>4. j \in CarriedIn(f)
        <=> j \in (f.idx + 1)..Len(f.batch) /\ f.batch[j].evicted /\ (j > Len(f.res) \/ ~f.res[j].ok)
  BY Zenon DEF CarriedIn
<1>5. j \in SentIn(f) <=> j \in (f.idx + 1)..Len(f.res) /\ f.res[j].ok /\ ~f.batch[j].evicted
  BY Zenon DEF SentIn
<1> QED
  BY <1>2, <1>3, <1>4, <1>5, Zenon

\* An INCRBY: the flush owes the amount of its entry less.
LEMMA WorthSent ==
  ASSUME NEW f \in FlushLocals, NEW g \in FlushLocals, NEW n \in 1..Len(f.batch),
         g.batch = f.batch, g.idx = f.idx, f.idx < n, Len(f.res) + 1 = n, Len(g.res) = n,
         g.res[n].ok, \A j \in 1..(n - 1) : g.res[j] = f.res[j], NEW k, NEW w
  PROVE  Worth(f, k, w) = Worth(g, k, w) + Amount(f.batch[n], k, w)
<1>1. /\ f.batch \in Seq(PendingFlush) /\ Len(f.batch) \in Nat /\ f.idx \in Nat
      /\ Len(f.res) \in Nat /\ Len(g.res) \in Nat
  BY LocalsType
<1>2. ASSUME NEW j \in 1..Len(f.batch), j # n
      PROVE  (j \in CarriedIn(f) <=> j \in CarriedIn(g)) /\ (j \in SentIn(f) <=> j \in SentIn(g))
  <2>1. CASE j < n
    <3>1. g.res[j] = f.res[j] /\ j <= Len(f.res) /\ j <= Len(g.res) /\ ~(j > Len(f.res))
          /\ ~(j > Len(g.res))
      BY <1>1, <2>1
    <3> QED
      BY <3>1, CarriedOrSent, Zenon
  <2>2. CASE j > n
    <3>1. j > Len(f.res) /\ j > Len(g.res) /\ ~(j <= Len(f.res)) /\ ~(j <= Len(g.res))
      BY <1>1, <2>2
    <3> QED
      BY <3>1, CarriedOrSent, Zenon
  <2> QED
    BY <1>2, <2>1, <2>2
<1>3. /\ n > Len(f.res) /\ ~(n <= Len(f.res)) /\ n <= Len(g.res) /\ ~(n > Len(g.res))
  BY <1>1
<1>4. /\ n \notin CarriedIn(g) /\ n \notin SentIn(f)
      /\ n \in CarriedIn(f) <=> f.batch[n].evicted
      /\ n \in SentIn(g) <=> ~f.batch[n].evicted
  BY <1>3, CarriedOrSent, Zenon
<1>5. /\ Increment(f.batch, CarriedIn(f), k, w) \in Nat /\ Increment(f.batch, CarriedIn(g), k, w) \in Nat
      /\ Increment(f.batch, SentIn(f), k, w) \in Nat /\ Increment(f.batch, SentIn(g), k, w) \in Nat
  BY <1>1, IncrementType
<1>6. Amount(f.batch[n], k, w) \in Nat
  BY <1>1, TermValue
<1>7. CASE f.batch[n].evicted
  <2>1. Increment(f.batch, CarriedIn(f), k, w)
          = Increment(f.batch, CarriedIn(g), k, w) + Amount(f.batch[n], k, w)
    BY <1>1, <1>2, <1>4, <1>7, IncrementPoint
  <2>2. Increment(f.batch, SentIn(f), k, w) = Increment(f.batch, SentIn(g), k, w)
    BY <1>1, <1>2, <1>4, <1>7, IncrementSame
  <2> QED
    BY <1>5, <1>6, <2>1, <2>2 DEF Worth
<1>8. CASE ~f.batch[n].evicted
  <2>1. Increment(f.batch, SentIn(g), k, w)
          = Increment(f.batch, SentIn(f), k, w) + Amount(f.batch[n], k, w)
    BY <1>1, <1>2, <1>4, <1>8, IncrementPoint
  <2>2. Increment(f.batch, CarriedIn(f), k, w) = Increment(f.batch, CarriedIn(g), k, w)
    BY <1>1, <1>2, <1>4, <1>8, IncrementSame
  <2> QED
    BY <1>5, <1>6, <2>1, <2>2 DEF Worth
<1> QED
  BY <1>7, <1>8

\* An entry is applied: a carried one is owed by the flush no more, a sent one is
\* taken off the delta of its state no more.
LEMMA WorthApplied ==
  ASSUME NEW f \in FlushLocals, NEW g \in FlushLocals, NEW i \in 1..Len(f.batch),
         i <= Len(f.res), g.batch = f.batch, g.res = f.res, f.idx + 1 = i, g.idx = i, NEW k, NEW w
  PROVE  /\ f.res[i].ok /\ ~f.batch[i].evicted
             => Worth(g, k, w) = Worth(f, k, w) + Amount(f.batch[i], k, w)
         /\ ~f.res[i].ok /\ f.batch[i].evicted
             => Worth(f, k, w) = Worth(g, k, w) + Amount(f.batch[i], k, w)
         /\ (f.res[i].ok <=> f.batch[i].evicted) => Worth(g, k, w) = Worth(f, k, w)
<1>1. /\ f.batch \in Seq(PendingFlush) /\ Len(f.batch) \in Nat /\ f.idx \in Nat
      /\ Len(f.res) \in Nat
  BY LocalsType
<1>2. ASSUME NEW j \in 1..Len(f.batch), j # i
      PROVE  (j \in CarriedIn(f) <=> j \in CarriedIn(g)) /\ (j \in SentIn(f) <=> j \in SentIn(g))
  <2>1. f.idx < j <=> g.idx < j
    BY <1>1, <1>2
  <2> QED
    BY <2>1, CarriedOrSent, Zenon
<1>3. f.idx < i /\ ~(g.idx < i) /\ ~(i > Len(f.res))
  BY <1>1
<1>4. /\ i \notin CarriedIn(g) /\ i \notin SentIn(g)
      /\ i \in CarriedIn(f) <=> f.batch[i].evicted /\ ~f.res[i].ok
      /\ i \in SentIn(f) <=> ~f.batch[i].evicted /\ f.res[i].ok
  BY <1>3, CarriedOrSent, Zenon
<1>5. /\ Increment(f.batch, CarriedIn(f), k, w) \in Nat /\ Increment(f.batch, CarriedIn(g), k, w) \in Nat
      /\ Increment(f.batch, SentIn(f), k, w) \in Nat /\ Increment(f.batch, SentIn(g), k, w) \in Nat
  BY <1>1, IncrementType
<1>6. Amount(f.batch[i], k, w) \in Nat
  BY <1>1, TermValue
<1>7. IF i \in CarriedIn(f)
      THEN Increment(f.batch, CarriedIn(f), k, w)
             = Increment(f.batch, CarriedIn(g), k, w) + Amount(f.batch[i], k, w)
      ELSE Increment(f.batch, CarriedIn(f), k, w) = Increment(f.batch, CarriedIn(g), k, w)
  <2>1. CASE i \in CarriedIn(f)
    BY <1>1, <1>2, <1>4, <2>1, IncrementPoint
  <2>2. CASE i \notin CarriedIn(f)
    BY <1>1, <1>2, <1>4, <2>2, IncrementSame
  <2> QED
    BY <2>1, <2>2
<1>8. IF i \in SentIn(f)
      THEN Increment(f.batch, SentIn(f), k, w)
             = Increment(f.batch, SentIn(g), k, w) + Amount(f.batch[i], k, w)
      ELSE Increment(f.batch, SentIn(f), k, w) = Increment(f.batch, SentIn(g), k, w)
  <2>1. CASE i \in SentIn(f)
    BY <1>1, <1>2, <1>4, <2>1, IncrementPoint
  <2>2. CASE i \notin SentIn(f)
    BY <1>1, <1>2, <1>4, <2>2, IncrementSame
  <2> QED
    BY <2>1, <2>2
<1>9. ASSUME f.res[i].ok /\ ~f.batch[i].evicted
      PROVE  Worth(g, k, w) = Worth(f, k, w) + Amount(f.batch[i], k, w)
  <2>1. i \notin CarriedIn(f) /\ i \in SentIn(f)
    BY <1>4, <1>9, Zenon
  <2> QED
    BY <1>5, <1>6, <1>7, <1>8, <2>1 DEF Worth
<1>10. ASSUME ~f.res[i].ok /\ f.batch[i].evicted
       PROVE  Worth(f, k, w) = Worth(g, k, w) + Amount(f.batch[i], k, w)
  <2>1. i \in CarriedIn(f) /\ i \notin SentIn(f)
    BY <1>4, <1>10, Zenon
  <2> QED
    BY <1>5, <1>6, <1>7, <1>8, <2>1 DEF Worth
<1>11. ASSUME f.res[i].ok <=> f.batch[i].evicted PROVE Worth(g, k, w) = Worth(f, k, w)
  <2>1. i \notin CarriedIn(f) /\ i \notin SentIn(f)
    BY <1>4, <1>11, Zenon
  <2> QED
    BY <1>5, <1>6, <1>7, <1>8, <2>1 DEF Worth
<1> QED
  BY <1>9, <1>10, <1>11, Zenon

\* A step that leaves the local counts alone.
LEMMA KeepsFlush ==
  ASSUME TypeOK, TypeOK', NEW p \in Flushers, NEW k \in Keys, NEW w \in Windows,
         UNCHANGED <<states, evicted, dropped, admitted>>,
         redis[k][w] + Worth(fl[p], k, w) + other'[k][w]
           <= redis'[k][w] + Worth(fl'[p], k, w) + other[k][w]
  PROVE  Keeps(p, k, w)
<1> DEFINE a == redis[k][w]
           b == Left(states[k], w)
           c == InStripe(evicted, k, w)
           x == Worth(fl[p], k, w)
           l == dropped[k][w]
           d == admitted[k][w]
           o == other[k][w]
           a1 == redis'[k][w]
           x1 == Worth(fl'[p], k, w)
           o1 == other'[k][w]
<1>1. /\ a \in Nat /\ b \in Nat /\ c \in Nat /\ x \in Int /\ l \in Nat /\ d \in Nat /\ o \in Nat
  BY StateTypes, OwedTypes, BalanceTypes DEF Counts
<1>2. a1 \in Nat /\ x1 \in Int /\ o1 \in Nat
  BY NextStateTypes, BalanceTypes DEF Counts
<1>3. a + x + o1 <= a1 + x1 + o
  OBVIOUS
<1>4. SUFFICES a + b + c + x + l + d + o1 <= a1 + b + c + x1 + l + d + o
  BY KeepsParts
<1> HIDE DEF a, b, c, x, l, d, o, a1, x1, o1
<1> QED
  BY <1>1, <1>2, <1>3

\* A step outside the counts.
LEMMA OutsideSum ==
  ASSUME SumInv, UNCHANGED <<now, states, evicted, fl, redis, admitted, other, dropped>>
  PROVE  SumInv'
  BY DEF SumInv, CountOK, SurplusOf

\* The other replicas add what they count; Redis drops only windows that ended.
LEMMA EnvironmentSum ==
  ASSUME TypeOK, TypeOK', SumInv, Environment PROVE SumInv'
<1> USE DEF local, wake, health, flush, server, history
<1>1. UNCHANGED <<states, evicted, fl, admitted, dropped>> /\ now <= now'
  <2>1. now \in Nat
    BY StateTypes
  <2>2. CASE AdvanceClock
    BY <2>1, <2>2 DEF AdvanceClock
  <2>3. CASE RedisToggle
    BY <2>1, <2>3 DEF RedisToggle
  <2>4. CASE \E k \in Keys : OtherReplica(k)
    BY <2>1, <2>4 DEF OtherReplica
  <2>5. CASE \E k \in Keys, w \in Windows : RedisExpires(k, w)
    BY <2>1, <2>5 DEF RedisExpires
  <2> QED
    BY <2>2, <2>3, <2>4, <2>5 DEF Environment
<1>2. ASSUME NEW k \in Keys, NEW w \in Windows, Open(now, w)
      PROVE  redis[k][w] + other'[k][w] <= redis'[k][w] + other[k][w]
  <2>0. redis \in Counts /\ redis[k][w] \in Nat /\ other \in Counts /\ other[k][w] \in Nat
    BY DEF TypeOK, Counts
  <2>1. CASE UNCHANGED <<redis, other>>
    BY <2>0, <2>1
  <2>2. ASSUME NEW x \in Keys, OtherReplica(x)
        PROVE  redis[k][w] + other'[k][w] <= redis'[k][w] + other[k][w]
    <3>1. /\ redis' = [redis EXCEPT ![x][WindowStart(now)] = @ + 1]
          /\ other' = [other EXCEPT ![x][WindowStart(now)] = @ + 1]
      BY <2>2 DEF OtherReplica
    <3> QED
      BY <2>0, <3>1 DEF Counts
  <2>3. ASSUME NEW x \in Keys, NEW v \in Windows, RedisExpires(x, v)
        PROVE  redis[k][w] + other'[k][w] <= redis'[k][w] + other[k][w]
    <3>1. redis' = [redis EXCEPT ![x][v] = 0] /\ now >= v + Duration /\ other' = other
      BY <2>3 DEF RedisExpires
    <3>2. now \in Nat /\ v \in Nat /\ w \in Nat
      BY WindowNat, StateTypes
    <3>3. w # v
      BY <1>2, <3>1, <3>2, LocalAsyncAssumption DEF Open
    <3> QED
      BY <2>0, <3>1, <3>3 DEF Counts
  <2> QED
    BY <2>1, <2>2, <2>3 DEF Environment, AdvanceClock, RedisToggle
<1>3. ASSUME NEW k \in Keys, NEW w \in Windows, Open(now, w) PROVE Keeps("worker", k, w)
  <2>1. redis[k][w] \in Nat /\ redis'[k][w] \in Nat /\ other[k][w] \in Nat /\ other'[k][w] \in Nat
    BY StateTypes, NextStateTypes DEF Counts
  <2>2. Worth(fl["worker"], k, w) \in Int /\ fl' = fl
    BY <1>1, StateTypes, BalanceTypes DEF Flushers
  <2>3. redis[k][w] + other'[k][w] <= redis'[k][w] + other[k][w]
    BY <1>2, <1>3
  <2> DEFINE x == Worth(fl["worker"], k, w)
  <2>4. redis[k][w] + x + other'[k][w] <= redis'[k][w] + x + other[k][w]
    <3>1. x \in Int
      BY <2>2
    <3> HIDE DEF x
    <3> QED
      BY <2>1, <2>3, <3>1
  <2> QED
    BY <1>1, <2>2, <2>4, KeepsFlush DEF Flushers
<1>4. /\ "worker" \in Flushers /\ \A q \in Flushers : q # "worker" => fl'[q] = fl[q]
      /\ Finished(fl'["worker"]) /\ \A s \in StripeIds : Marked(evicted'[s])
  BY <1>1 DEF Flushers, SumInv
<1> QED
  BY <1>1, <1>3, <1>4, BalanceKept

\* flushMu is taken when no flush is under way.
LEMMA LockSum ==
  ASSUME TypeOK, TypeOK', StructInv, BaseInv, SumInv, NEW p \in Flushers, LockFlush(p),
         UNCHANGED <<now, states, evicted, redis, admitted, other, dropped>>
  PROVE  SumInv'
<1>0. fl \in [Flushers -> FlushLocals] /\ fl[p] \in FlushLocals /\ fl'[p] \in FlushLocals
  BY StateTypes, NextStateTypes
<1>1. /\ fl'[p].batch = <<>> /\ fl'[p].step = "snapshot" /\ fl'[p].idx = 0
      /\ \A q \in Flushers : q # p => fl'[q] = fl[q]
  BY <1>0 DEF LockFlush, NoFlush
<1>2. fl[p].step = "none"
  BY DEF LockFlush, StructInv, LockInv, Flushers
<1>3. fl[p].batch = <<>> /\ fl[p].idx = 0
  BY <1>2 DEF BaseInv, ShapeOK
<1>4. Len(fl[p].batch) <= fl[p].idx /\ Len(fl'[p].batch) <= fl'[p].idx
  BY <1>1, <1>3
<1>5. ASSUME NEW k \in Keys, NEW w \in Windows, Open(now, w) PROVE Keeps(p, k, w)
  <2>1. Worth(fl[p], k, w) = 0 /\ Worth(fl'[p], k, w) = 0
    BY <1>0, <1>4, WorthNone
  <2>2. redis[k][w] \in Nat /\ other[k][w] \in Nat
    BY StateTypes DEF Counts
  <2> QED
    BY <2>1, <2>2, KeepsFlush
<1>6. /\ Finished(fl'[p]) /\ now <= now' /\ \A s \in StripeIds : Marked(evicted'[s])
  BY <1>1, StateTypes DEF Finished, SumInv
<1> QED
  BY <1>1, <1>5, <1>6, BalanceKept

\* A flush that comes to its EXPIREs, or ends, has applied all its entries.
LEMMA QuietEnds ==
  ASSUME TypeOK, TypeOK', BaseInv, SumInv, NEW p \in Flushers, QuietStep(p)
  PROVE  /\ Finished(fl'[p])
         /\ fl'[p] = NoFlush => Len(fl[p].batch) <= fl[p].idx
<1>0. /\ fl \in [Flushers -> FlushLocals] /\ fl[p] \in FlushLocals /\ fl'[p] \in FlushLocals
      /\ ShapeOK(fl[p]) /\ Finished(fl[p]) /\ Len(fl[p].batch) \in Nat /\ fl[p].idx \in Nat
  BY StateTypes, NextStateTypes, LocalsType DEF BaseInv, SumInv
<1>1. CASE SnapshotSpill(p)
  <2>1. fl'[p] = [fl[p] EXCEPT !.i = NumStripes, !.more = TRUE] /\ fl[p].step = "snapshot"
    BY <1>0, <1>1 DEF SnapshotSpill, Spill
  <2>2. fl'[p].step = "snapshot"
    BY <1>0, <2>1 DEF FlushLocals
  <2> QED
    BY <2>2 DEF Finished, NoFlush
<1>2. CASE SnapshotDone(p)
  <2>1. fl'[p] = [fl[p] EXCEPT !.step = "exec"]
    BY <1>0, <1>2 DEF SnapshotDone
  <2>2. fl'[p].step = "exec"
    BY <1>0, <2>1 DEF FlushLocals
  <2> QED
    BY <2>2 DEF Finished, NoFlush
<1>3. CASE SnapshotEmpty(p)
  <2>1. fl[p].batch = <<>> /\ fl'[p] = NoFlush
    BY <1>0, <1>3 DEF SnapshotEmpty, Unlock
  <2> QED
    BY <1>0, <2>1 DEF Finished, NoFlush
<1>4. CASE ExecChunk(p)
  <2>1. fl'[p] = [fl[p] EXCEPT !.sent = ChunkEnd(p),
                    !.step = IF ChunkEnd(p) = Len(fl[p].batch) THEN "apply" ELSE "exec"]
    BY <1>0, <1>4 DEF ExecChunk
  <2>2. fl'[p].step \in {"apply", "exec"}
    BY <1>0, <2>1 DEF FlushLocals
  <2> QED
    BY <2>2 DEF Finished, NoFlush
<1>5. CASE ExecFails(p)
  <2>1. fl'[p] = [fl[p] EXCEPT !.res = TailFailed(p), !.step = "apply"]
    BY <1>0, <1>5 DEF ExecFails
  <2>2. fl'[p].step = "apply"
    BY <1>0, <2>1 DEF FlushLocals
  <2> QED
    BY <2>2 DEF Finished, NoFlush
<1>6. CASE ApplyDone(p)
  <2>1. fl'[p] = [fl[p] EXCEPT !.step = "expire"] /\ fl[p].idx = Len(fl[p].batch)
    BY <1>0, <1>6 DEF ApplyDone
  <2>2. fl'[p].step = "expire" /\ fl'[p].idx = fl[p].idx /\ fl'[p].batch = fl[p].batch
    BY <1>0, <2>1 DEF FlushLocals
  <2> QED
    BY <2>1, <2>2 DEF Finished, NoFlush
<1>7. CASE ExecExpire(p)
  <2>1. fl[p].step = "expire" /\ fl'[p] = NoFlush
    BY <1>0, <1>7 DEF ExecExpire, Unlock
  <2> QED
    BY <1>0, <2>1 DEF Finished, NoFlush
<1> QED
  BY <1>1, <1>2, <1>3, <1>4, <1>5, <1>6, <1>7 DEF QuietStep

\* The steps of a flush between its commands: a failed pipeline takes replies back.
LEMMA QuietSum ==
  ASSUME TypeOK, TypeOK', StructInv, BaseInv, SumInv, NEW p \in Flushers, QuietStep(p)
  PROVE  SumInv'
<1>0. fl \in [Flushers -> FlushLocals] /\ fl[p] \in FlushLocals /\ fl'[p] \in FlushLocals
  BY StateTypes, NextStateTypes
<1>1. /\ UNCHANGED <<now, states, evicted, redis, admitted, other, dropped>>
      /\ \A q \in Flushers : q # p => fl'[q] = fl[q]
  BY QuietFrame
<1>2. ASSUME NEW k \in Keys, NEW w \in Windows PROVE Worth(fl[p], k, w) <= Worth(fl'[p], k, w)
  <2>1. CASE fl'[p] = NoFlush
    <3>1. Len(fl[p].batch) <= fl[p].idx
      BY <2>1, QuietEnds
    <3>2. Len(fl'[p].batch) <= fl'[p].idx
      BY <2>1 DEF NoFlush
    <3>3. Worth(fl[p], k, w) = 0 /\ Worth(fl'[p], k, w) = 0
      BY <1>0, <3>1, <3>2, WorthNone
    <3> QED
      BY <3>3
  <2>2. CASE fl'[p].batch = fl[p].batch /\ fl'[p].idx = fl[p].idx
    <3>1. KeepsReplies(fl[p], fl'[p])
      BY QuietLocals
    <3> QED
      BY <1>0, <2>2, <3>1, WorthGrows
  <2> QED
    BY <2>1, <2>2, QuietLocals
<1>3. ASSUME NEW k \in Keys, NEW w \in Windows, Open(now, w) PROVE Keeps(p, k, w)
  <2> DEFINE x == Worth(fl[p], k, w)
             y == Worth(fl'[p], k, w)
  <2>1. redis[k][w] \in Nat /\ other[k][w] \in Nat /\ x \in Int /\ y \in Int /\ x <= y
    BY <1>0, <1>2, StateTypes, BalanceTypes DEF Counts
  <2> HIDE DEF x, y
  <2>2. redis[k][w] + x + other[k][w] <= redis[k][w] + y + other[k][w]
    BY <2>1
  <2> QED
    BY <1>1, <2>2, KeepsFlush DEF x, y
<1>4. Finished(fl'[p]) /\ now <= now' /\ \A s \in StripeIds : Marked(evicted'[s])
  BY <1>1, QuietEnds, StateTypes DEF SumInv
<1> QED
  BY <1>1, <1>3, <1>4, BalanceKept

\* One INCRBY moves the amount of its entry from the flush to Redis.
LEMMA ExecMoves ==
  ASSUME TypeOK, TypeOK', BaseInv, NEW p \in Flushers, ExecCommand(p), NEW k \in Keys, NEW w \in Windows
  PROVE  redis[k][w] + Worth(fl[p], k, w) = redis'[k][w] + Worth(fl'[p], k, w)
<1>0. /\ fl[p] \in FlushLocals /\ fl'[p] \in FlushLocals /\ ShapeOK(fl[p])
      /\ Len(fl[p].res) \in Nat /\ fl[p].batch \in Seq(PendingFlush)
  BY StateTypes, NextStateTypes, LocalsType DEF BaseInv
<1>1. PICK n, e, c : ExecEffect(p, n, e, c)
  BY ExecLocals
<1>a. /\ n = Len(fl[p].res) + 1 /\ e = fl[p].batch[n] /\ c = redis[e.key][e.ws] + e.flushN
      /\ n \in 1..Len(fl[p].batch) /\ n \in Nat /\ Len(fl'[p].res) = n
      /\ fl'[p].batch = fl[p].batch /\ fl'[p].idx = fl[p].idx /\ fl'[p].step = "exec"
  BY <1>1, Zenon DEF ExecEffect
<1>b. /\ fl'[p].res[n] = [ok |-> TRUE, count |-> c]
      /\ \A j \in 1..(n - 1) : fl'[p].res[j] = fl[p].res[j]
  BY <1>1, Zenon DEF ExecEffect
<1>c. /\ \A j \in Keys, v \in Windows :
           redis'[j][v] = IF j = e.key /\ v = e.ws THEN c ELSE redis[j][v]
      /\ e.key \in Keys /\ e.ws \in Windows /\ e.flushN \in Nat
      /\ fl[p].step = "exec"
  BY <1>1, Zenon DEF ExecEffect
<1>3. fl[p].idx < n /\ fl'[p].res[n].ok
  <2>1. fl[p].idx = 0
    BY <1>0, <1>c DEF ShapeOK
  <2>2. n \in Nat /\ n >= 1
    BY <1>0, <1>a
  <2>3. fl'[p].res[n] = [ok |-> TRUE, count |-> c]
    BY <1>b
  <2>4. fl'[p].res[n].ok
    BY <2>3
  <2> QED
    BY <2>1, <2>2, <2>4
<1> DEFINE x == Worth(fl[p], k, w)
           y == Worth(fl'[p], k, w)
           m == Amount(e, k, w)
           a == redis[k][w]
           b == redis'[k][w]
<1>4. x = y + m
  <2>1. Len(fl[p].res) + 1 = n /\ fl[p].batch[n] = e
    BY <1>a
  <2>2. Worth(fl[p], k, w) = Worth(fl'[p], k, w) + Amount(fl[p].batch[n], k, w)
    <3> DEFINE f == fl[p]
               g == fl'[p]
    <3>1. /\ f \in FlushLocals /\ g \in FlushLocals /\ n \in 1..Len(f.batch)
          /\ g.batch = f.batch /\ g.idx = f.idx /\ f.idx < n /\ Len(f.res) + 1 = n
          /\ Len(g.res) = n /\ g.res[n].ok
      BY <1>0, <1>3, <1>a, <2>1
    <3>2. \A j \in 1..(n - 1) : g.res[j] = f.res[j]
      BY <1>b
    <3> HIDE DEF f, g
    <3>3. Worth(f, k, w) = Worth(g, k, w) + Amount(f.batch[n], k, w)
      BY <3>1, <3>2, WorthSent
    <3> QED
      BY <3>3 DEF f, g
  <2> QED
    BY <2>1, <2>2
<1>5. b = a + m
  <2>1. a \in Nat /\ e.flushN \in Nat
    BY <1>c, StateTypes DEF Counts
  <2>2. CASE k = e.key /\ w = e.ws
    <3>1. b = c /\ c = a + e.flushN
      BY <1>a, <1>c, <2>2
    <3>2. m = e.flushN
      BY <2>2 DEF Amount
    <3> QED
      BY <3>1, <3>2
  <2>3. CASE ~(k = e.key /\ w = e.ws)
    <3>1. b = a
      BY <1>c, <2>3
    <3>2. m = 0
      BY <2>3 DEF Amount
    <3> HIDE DEF a, b, m
    <3> QED
      BY <2>1, <3>1, <3>2
  <2> QED
    BY <2>2, <2>3
<1>6. x \in Int /\ y \in Int /\ a \in Nat /\ b \in Nat /\ m \in Nat
  <2>1. m \in Nat
    BY <1>0, <1>a, TermValue
  <2> QED
    BY <1>0, <2>1, StateTypes, NextStateTypes, BalanceTypes DEF Counts
<1>7. SUFFICES a + x = b + y
  OBVIOUS
<1> HIDE DEF x, y, m, a, b
<1> QED
  BY <1>4, <1>5, <1>6

\* A command of the pipeline keeps the balance.
LEMMA ExecSum ==
  ASSUME TypeOK, TypeOK', BaseInv, SumInv, NEW p \in Flushers, ExecCommand(p)
  PROVE  SumInv'
<1>0. fl[p] \in FlushLocals /\ fl'[p] \in FlushLocals
  BY StateTypes, NextStateTypes
<1>1. PICK n, e, c : ExecEffect(p, n, e, c)
  BY ExecLocals
<1>2. UNCHANGED <<other, dropped>>
  BY DEF ExecCommand, history
<1>3. /\ fl'[p].step = "exec" /\ UNCHANGED <<now, states, evicted, admitted>>
      /\ \A q \in Flushers : q # p => fl'[q] = fl[q]
  BY <1>1, Zenon DEF ExecEffect
<1>4. ASSUME NEW k \in Keys, NEW w \in Windows PROVE Keeps(p, k, w)
  <2> DEFINE x == Worth(fl[p], k, w)
             y == Worth(fl'[p], k, w)
             a == redis[k][w]
             b == redis'[k][w]
             o == other[k][w]
  <2>1. /\ x \in Int /\ y \in Int /\ a \in Nat /\ b \in Nat /\ o \in Nat
    BY <1>0, StateTypes, NextStateTypes, BalanceTypes DEF Counts
  <2>2. a + x = b + y
    BY ExecMoves
  <2>3. SUFFICES a + x + o <= b + y + o
    BY <1>2, <1>3, KeepsFlush
  <2> HIDE DEF x, y, a, b, o
  <2> QED
    BY <2>1, <2>2
<1>5. Finished(fl'[p]) /\ now <= now' /\ \A s \in StripeIds : Marked(evicted'[s])
  <2>1. Finished(fl'[p])
    BY <1>3 DEF Finished
  <2>2. now' = now /\ evicted' = evicted /\ now \in Nat
    BY <1>3, StateTypes
  <2> QED
    BY <2>1, <2>2 DEF SumInv
<1> QED
  BY <1>3, <1>4, <1>5, BalanceKept

\* A step that leaves Redis and the grants alone.
LEMMA KeepsLocal ==
  ASSUME TypeOK, TypeOK', NEW p \in Flushers, NEW k \in Keys, NEW w \in Windows,
         UNCHANGED <<redis, admitted, other>>,
         Left(states[k], w) + InStripe(evicted, k, w) + Worth(fl[p], k, w) + dropped[k][w]
           <= Left(states'[k], w) + InStripe(evicted', k, w) + Worth(fl'[p], k, w) + dropped'[k][w]
  PROVE  Keeps(p, k, w)
<1> DEFINE a == redis[k][w]
           b == Left(states[k], w)
           c == InStripe(evicted, k, w)
           x == Worth(fl[p], k, w)
           l == dropped[k][w]
           d == admitted[k][w]
           o == other[k][w]
           b1 == Left(states'[k], w)
           c1 == InStripe(evicted', k, w)
           x1 == Worth(fl'[p], k, w)
           l1 == dropped'[k][w]
<1>1. /\ a \in Nat /\ b \in Nat /\ c \in Nat /\ x \in Int /\ l \in Nat /\ d \in Nat /\ o \in Nat
  BY StateTypes, OwedTypes, BalanceTypes DEF Counts
<1>2. b1 \in Nat /\ c1 \in Nat /\ x1 \in Int /\ l1 \in Nat
  BY NextStateTypes, OwedTypes, BalanceTypes DEF Counts
<1>3. b + c + x + l <= b1 + c1 + x1 + l1
  OBVIOUS
<1>4. SUFFICES a + b + c + x + l + d + o <= a + b1 + c1 + x1 + l1 + d + o
  BY KeepsParts
<1> HIDE DEF a, b, c, x, l, d, o, b1, c1, x1, l1
<1> QED
  BY <1>1, <1>2, <1>3

\* A reply takes from the delta of its state at most what its entry added to Redis.
LEMMA LeftAfterReply ==
  ASSUME NEW st \in LocalState, NEW e \in PendingFlush, NEW c, st.windowStart = e.ws, NEW w
  PROVE  /\ Left(Reconciled(st, e, c), w) \in Nat
         /\ e.evicted => Left(Reconciled(st, e, c), w) = Left(st, w)
         /\ Left(st, w) <= Left(Reconciled(st, e, c), w) + (IF e.ws = w THEN e.flushN ELSE 0)
<1>1. st.localDelta \in Nat /\ e.flushN \in Nat
  BY DEF LocalState, PendingFlush
<1>2. /\ Reconciled(st, e, c).windowStart = st.windowStart
      /\ Reconciled(st, e, c).localDelta
           = IF e.evicted THEN st.localDelta ELSE MaxOf(st.localDelta - e.flushN, 0)
  BY DEF Reconciled, LocalState
<1> QED
  BY <1>1, <1>2 DEF Left, MaxOf

\* An entry set aside in its stripe, or given up.
LEMMA SetAside ==
  ASSUME NEW ev \in [StripeIds -> Seq(PendingFlush)], NEW e \in PendingFlush,
         NEW k \in Keys, NEW w \in Windows
  PROVE  InStripe([ev EXCEPT ![StripeOf[e.key]] = Append(@, e)], k, w)
           = InStripe(ev, k, w) + Amount(e, k, w)
<1> DEFINE s == StripeOf[e.key]
           new == [ev EXCEPT ![s] = Append(@, e)]
<1>1. e.key \in Keys /\ e.flushN \in Nat
  BY DEF PendingFlush
<1>2. s \in StripeIds /\ StripeOf[k] \in StripeIds
  BY <1>1, LocalAsyncAssumption DEF StripeIds
<1>3. ev[s] \in Seq(PendingFlush) /\ ev[StripeOf[k]] \in Seq(PendingFlush)
  BY <1>2
<1>4. CASE StripeOf[k] = s
  <2>1. new[StripeOf[k]] = Append(ev[s], e)
    BY <1>2, <1>4
  <2>2. Increment(Append(ev[s], e), DOMAIN Append(ev[s], e), k, w)
          = Increment(ev[s], DOMAIN ev[s], k, w) + Amount(e, k, w)
    BY <1>3, IncrementAppend
  <2> HIDE DEF new, s
  <2> QED
    BY <1>4, <2>1, <2>2 DEF InStripe, new, s
<1>5. CASE StripeOf[k] # s
  <2>1. new[StripeOf[k]] = ev[StripeOf[k]]
    BY <1>2, <1>5
  <2>2. Amount(e, k, w) = 0
    BY <1>5 DEF Amount
  <2>3. InStripe(ev, k, w) \in Nat
    BY <1>3, IncrementType DEF InStripe
  <2>4. InStripe(new, k, w) = InStripe(ev, k, w)
    BY <2>1 DEF InStripe
  <2> HIDE DEF new
  <2> QED
    BY <2>2, <2>3, <2>4 DEF new
<1> QED
  BY <1>4, <1>5

\* What is given up is counted.
LEMMA GivenUp ==
  ASSUME NEW drops \in Counts, NEW x \in Keys, NEW v, NEW n \in Nat, NEW k \in Keys, NEW w \in Windows
  PROVE  AddDropped(drops, x, v, n)[k][w] = drops[k][w] + (IF x = k /\ v = w THEN n ELSE 0)
<1>1. drops[k] \in [Windows -> Nat] /\ drops[k][w] \in Nat
  BY DEF Counts
<1>2. AddDropped(drops, x, v, n)[k] = IF x = k THEN [drops[k] EXCEPT ![v] = @ + n] ELSE drops[k]
  BY DEF AddDropped, Counts
<1> QED
  BY <1>1, <1>2

\* What applying entry i, e, of p's batch sets aside or gives up.
Settles(p, i, e) ==
    \/ fl[p].res[i].ok /\ UNCHANGED <<evicted, dropped>>
    \/ ~fl[p].res[i].ok /\ ~e.evicted /\ UNCHANGED <<states, evicted, dropped>>
    \/ /\ ~fl[p].res[i].ok /\ e.evicted /\ UNCHANGED <<states, dropped>>
       /\ evicted' = [evicted EXCEPT ![StripeOf[e.key]] = Append(@, e)]
    \/ /\ ~fl[p].res[i].ok /\ e.evicted /\ UNCHANGED <<states, evicted>>
       /\ dropped' = AddDropped(dropped, e.key, e.ws, e.flushN)

\* The two outcomes of applyResultsLocked.
LEMMA ApplySettles ==
  ASSUME NEW p \in Flushers, ApplyEntry(p), NEW i, i = fl[p].idx + 1, NEW e, e = fl[p].batch[i]
  PROVE  Settles(p, i, e) /\ UNCHANGED other
<1>1. CASE fl[p].res[i].ok
  <2>1. ApplyReply(p, e, fl[p].res[i].count)
    BY <1>1 DEF ApplyEntry
  <2>2. UNCHANGED <<evicted, dropped>>
    BY <2>1, Zenon DEF ApplyReply
  <2> QED
    BY <1>1, <2>2 DEF ApplyEntry, Settles
<1>2. CASE ~fl[p].res[i].ok
  <2> DEFINE room == Len(evicted[StripeOf[e.key]]) < 2 * StripeCap
  <2>1. ApplyError(p, e)
    BY <1>2 DEF ApplyEntry
  <2>2. /\ states' = states
        /\ evicted' = IF e.evicted /\ room THEN [evicted EXCEPT ![StripeOf[e.key]] = Append(@, e)]
                      ELSE evicted
        /\ dropped' = IF e.evicted /\ ~room THEN AddDropped(dropped, e.key, e.ws, e.flushN) ELSE dropped
    BY <2>1, Zenon DEF ApplyError, room
  <2> HIDE DEF room
  <2>3. Settles(p, i, e)
    BY <1>2, <2>2, Zenon DEF Settles
  <2> QED
    BY <2>3 DEF ApplyEntry
<1> QED
  BY <1>1, <1>2

\* What applying entry i does to what its flush owes.
LEMMA ApplyWorth ==
  ASSUME TypeOK, TypeOK', NEW p \in Flushers, NEW i, NEW e, NEW c, ApplyEffect(p, i, e, c), NEW k, NEW w
  PROVE  /\ fl[p].res[i].ok /\ ~e.evicted => Worth(fl'[p], k, w) = Worth(fl[p], k, w) + Amount(e, k, w)
         /\ ~fl[p].res[i].ok /\ e.evicted => Worth(fl[p], k, w) = Worth(fl'[p], k, w) + Amount(e, k, w)
         /\ (fl[p].res[i].ok <=> e.evicted) => Worth(fl'[p], k, w) = Worth(fl[p], k, w)
<1>1. /\ i = fl[p].idx + 1 /\ e = fl[p].batch[i]
      /\ i \in 1..Len(fl[p].batch) /\ i \in 1..Len(fl[p].res)
      /\ fl'[p].batch = fl[p].batch /\ fl'[p].res = fl[p].res /\ fl'[p].idx = i
  BY Zenon DEF ApplyEffect
<1> DEFINE f == fl[p]
           g == fl'[p]
<1>2. /\ f \in FlushLocals /\ g \in FlushLocals /\ i \in 1..Len(f.batch) /\ i <= Len(f.res)
      /\ g.batch = f.batch /\ g.res = f.res /\ f.idx + 1 = i /\ g.idx = i /\ f.batch[i] = e
  BY <1>1, StateTypes, NextStateTypes, LocalsType
<1> HIDE DEF f, g
<1>3. /\ f.res[i].ok /\ ~e.evicted => Worth(g, k, w) = Worth(f, k, w) + Amount(e, k, w)
      /\ ~f.res[i].ok /\ e.evicted => Worth(f, k, w) = Worth(g, k, w) + Amount(e, k, w)
      /\ (f.res[i].ok <=> e.evicted) => Worth(g, k, w) = Worth(f, k, w)
  BY <1>2, WorthApplied
<1> QED
  BY <1>3 DEF f, g

\* Applying an entry moves what it owes: an acknowledged delta is taken off its
\* state, a failed one stays there or goes back to its stripe.
LEMMA ApplySum ==
  ASSUME TypeOK, TypeOK', StructInv, SumInv, NEW p \in Flushers, ApplyEntry(p)
  PROVE  SumInv'
<1>0. /\ fl[p] \in FlushLocals /\ fl'[p] \in FlushLocals /\ states \in StateTable
      /\ Len(fl[p].res) \in Nat /\ fl[p].batch \in Seq(PendingFlush) /\ Len(fl[p].batch) \in Nat
      /\ evicted \in [StripeIds -> Seq(PendingFlush)] /\ dropped \in Counts
  BY StateTypes, NextStateTypes, LocalsType
<1>1. PICK i, e, c : ApplyEffect(p, i, e, c)
  BY ApplyLocals
<1>a. /\ i = fl[p].idx + 1 /\ e = fl[p].batch[i]
      /\ i \in 1..Len(fl[p].batch) /\ i \in 1..Len(fl[p].res)
      /\ e.key \in Keys /\ e.ws \in Windows /\ e.flushN \in Nat
  BY <1>1, Zenon DEF ApplyEffect
<1>b. /\ fl'[p].batch = fl[p].batch /\ fl'[p].res = fl[p].res /\ fl'[p].idx = i
      /\ fl'[p].step = "apply"
      /\ \A q \in Flushers : q # p => fl'[q] = fl[q]
  BY <1>1, Zenon DEF ApplyEffect
<1>c. UNCHANGED <<now, redis, admitted>>
  BY <1>1, Zenon DEF ApplyEffect
<1>d. \/ states' = states
      \/ /\ states[e.key].windowStart = e.ws
         /\ states' = [states EXCEPT ![e.key] = Reconciled(states[e.key], e, c)]
  BY <1>1, Zenon DEF ApplyEffect
<1>e. Settles(p, i, e) /\ UNCHANGED other
  BY <1>a, ApplySettles
<1>2. e \in PendingFlush
  BY <1>0, <1>a, ElementOfSeq
<1>3. ASSUME NEW k \in Keys, NEW w \in Windows
      PROVE  /\ fl[p].res[i].ok /\ ~e.evicted => Worth(fl'[p], k, w) = Worth(fl[p], k, w) + Amount(e, k, w)
             /\ ~fl[p].res[i].ok /\ e.evicted => Worth(fl[p], k, w) = Worth(fl'[p], k, w) + Amount(e, k, w)
             /\ (fl[p].res[i].ok <=> e.evicted) => Worth(fl'[p], k, w) = Worth(fl[p], k, w)
  BY <1>1, ApplyWorth
<1>4. ASSUME NEW k \in Keys, NEW w \in Windows
      PROVE  /\ Left(states[k], w) <= Left(states'[k], w) + Amount(e, k, w)
             /\ e.evicted => Left(states[k], w) = Left(states'[k], w)
  <2>1. Left(states[k], w) \in Nat /\ Amount(e, k, w) \in Nat
    BY <1>0, <1>a, OwedTypes DEF Amount
  <2>2. CASE states' = states
    BY <2>1, <2>2
  <2>3. CASE /\ states[e.key].windowStart = e.ws
             /\ states' = [states EXCEPT ![e.key] = Reconciled(states[e.key], e, c)]
    <3>1. states[e.key] \in LocalState
      BY <1>0, <1>a, <2>3, TableType
    <3>2. CASE k = e.key
      <4>1. states'[k] = Reconciled(states[k], e, c)
        BY <1>0, <2>3, <3>2 DEF StateTable
      <4>2. /\ e.evicted => Left(Reconciled(states[k], e, c), w) = Left(states[k], w)
            /\ Left(states[k], w) <= Left(Reconciled(states[k], e, c), w)
                                       + (IF e.ws = w THEN e.flushN ELSE 0)
        BY <1>2, <2>3, <3>1, <3>2, LeftAfterReply
      <4>3. Amount(e, k, w) = IF e.ws = w THEN e.flushN ELSE 0
        BY <3>2 DEF Amount
      <4> QED
        BY <4>1, <4>2, <4>3
    <3>3. CASE k # e.key
      <4>1. states'[k] = states[k]
        BY <1>0, <2>3, <3>3 DEF StateTable
      <4> QED
        BY <2>1, <4>1
    <3> QED
      BY <3>2, <3>3
  <2> QED
    BY <1>d, <2>2, <2>3
<1>5. ASSUME NEW k \in Keys, NEW w \in Windows, Open(now, w) PROVE Keeps(p, k, w)
  <2> DEFINE b == Left(states[k], w)
             d == InStripe(evicted, k, w)
             x == Worth(fl[p], k, w)
             l == dropped[k][w]
             b1 == Left(states'[k], w)
             d1 == InStripe(evicted', k, w)
             x1 == Worth(fl'[p], k, w)
             l1 == dropped'[k][w]
             m == Amount(e, k, w)
  <2>1. b \in Nat /\ d \in Nat /\ x \in Int /\ l \in Nat
    BY StateTypes, OwedTypes, BalanceTypes DEF Counts
  <2>2. b1 \in Nat /\ d1 \in Nat /\ x1 \in Int /\ l1 \in Nat /\ m \in Nat
    <3>1. m \in Nat
      BY <1>a DEF Amount
    <3> QED
      BY <3>1, NextStateTypes, OwedTypes, BalanceTypes DEF Counts
  <2>3. SUFFICES b + d + x + l <= b1 + d1 + x1 + l1
    BY <1>c, <1>e, KeepsLocal
  <2>4. /\ fl[p].res[i].ok /\ ~e.evicted => x1 = x + m
        /\ ~fl[p].res[i].ok /\ e.evicted => x = x1 + m
        /\ (fl[p].res[i].ok <=> e.evicted) => x1 = x
    BY <1>3
  <2>5. b <= b1 + m /\ (e.evicted => b = b1)
    BY <1>4
  <2>6. CASE fl[p].res[i].ok /\ UNCHANGED <<evicted, dropped>>
    <3>1. d1 = d /\ l1 = l
      BY <2>6
    <3>2. CASE e.evicted
      <4>1. x1 = x /\ b = b1
        BY <2>4, <2>5, <2>6, <3>2, Zenon
      <4> HIDE DEF b, d, x, l, b1, d1, x1, l1, m
      <4> QED
        BY <2>1, <2>2, <3>1, <4>1
    <3>3. CASE ~e.evicted
      <4>1. x1 = x + m /\ b <= b1 + m
        BY <2>4, <2>5, <2>6, <3>3, Zenon
      <4> HIDE DEF b, d, x, l, b1, d1, x1, l1, m
      <4> QED
        BY <2>1, <2>2, <3>1, <4>1
    <3> QED
      BY <3>2, <3>3
  <2>7. CASE ~fl[p].res[i].ok /\ ~e.evicted /\ UNCHANGED <<states, evicted, dropped>>
    <3>1. d1 = d /\ l1 = l /\ b1 = b
      BY <2>7
    <3>2. x1 = x
      BY <2>4, <2>7, Zenon
    <3> HIDE DEF b, d, x, l, b1, d1, x1, l1, m
    <3> QED
      BY <2>1, <2>2, <3>1, <3>2
  <2>8. CASE /\ ~fl[p].res[i].ok /\ e.evicted /\ UNCHANGED <<states, dropped>>
             /\ evicted' = [evicted EXCEPT ![StripeOf[e.key]] = Append(@, e)]
    <3>1. l1 = l /\ b1 = b
      BY <2>8
    <3>2. x = x1 + m
      BY <2>4, <2>8, Zenon
    <3>3. d1 = d + m
      BY <1>0, <1>2, <2>8, SetAside
    <3> HIDE DEF b, d, x, l, b1, d1, x1, l1, m
    <3> QED
      BY <2>1, <2>2, <3>1, <3>2, <3>3
  <2>9. CASE /\ ~fl[p].res[i].ok /\ e.evicted /\ UNCHANGED <<states, evicted>>
             /\ dropped' = AddDropped(dropped, e.key, e.ws, e.flushN)
    <3>1. d1 = d /\ b1 = b
      BY <2>9
    <3>2. x = x1 + m
      BY <2>4, <2>9, Zenon
    <3>3. l1 = l + m
      <4> DEFINE y == e.key
                 v == e.ws
                 n == e.flushN
      <4>1. y \in Keys /\ n \in Nat /\ dropped' = AddDropped(dropped, y, v, n)
        BY <1>a, <2>9
      <4>2. m = IF y = k /\ v = w THEN n ELSE 0
        BY DEF Amount
      <4> HIDE DEF y, v, n, m
      <4>3. AddDropped(dropped, y, v, n)[k][w] = l + (IF y = k /\ v = w THEN n ELSE 0)
        BY <1>0, <4>1, GivenUp
      <4> QED
        BY <4>1, <4>2, <4>3
    <3> HIDE DEF b, d, x, l, b1, d1, x1, l1, m
    <3> QED
      BY <2>1, <2>2, <3>1, <3>2, <3>3
  <2> QED
    BY <1>e, <2>6, <2>7, <2>8, <2>9, Zenon DEF Settles
<1>6. \A s \in StripeIds : Marked(evicted'[s])
  <2>1. CASE evicted' = evicted
    BY <2>1 DEF SumInv
  <2>2. CASE e.evicted /\ evicted' = [evicted EXCEPT ![StripeOf[e.key]] = Append(@, e)]
    <3> SUFFICES ASSUME NEW s \in StripeIds PROVE Marked(evicted'[s])
      OBVIOUS
    <3>1. Marked(evicted[s]) /\ evicted[s] \in Seq(PendingFlush)
      BY <1>0 DEF SumInv
    <3>2. evicted'[s] = evicted[s] \/ evicted'[s] = Append(evicted[s], e)
      BY <1>0, <2>2
    <3>3. Marked(Append(evicted[s], e))
      BY <1>2, <2>2, <3>1, MarkedAppend
    <3> QED
      BY <3>1, <3>2, <3>3
  <2> QED
    BY <1>e, <2>1, <2>2 DEF Settles
<1>7. Finished(fl'[p]) /\ now <= now'
  BY <1>b, <1>c, StateTypes DEF Finished
<1> QED
  BY <1>b, <1>5, <1>6, <1>7, BalanceKept

\* Before a flush sends anything it owes its evicted entries.
LEMMA WorthUnsent ==
  ASSUME NEW f \in FlushLocals, f.res = <<>>, f.idx = 0, NEW k, NEW w
  PROVE  /\ Worth(f, k, w) = Increment(f.batch, CarriedIn(f), k, w)
         /\ \A j \in 1..Len(f.batch) : j \in CarriedIn(f) <=> f.batch[j].evicted
<1>1. f.batch \in Seq(PendingFlush) /\ Len(f.batch) \in Nat /\ Len(f.res) = 0
  BY LocalsType
<1>2. \A j \in 1..Len(f.batch) : f.idx < j /\ j > Len(f.res) /\ ~(j <= Len(f.res))
  BY <1>1
<1>3. \A j \in 1..Len(f.batch) : (j \in CarriedIn(f) <=> f.batch[j].evicted) /\ j \notin SentIn(f)
  BY <1>2, CarriedOrSent, Zenon
<1>4. Increment(f.batch, SentIn(f), k, w) = 0
  BY <1>1, <1>3, IncrementNone
<1>5. Increment(f.batch, CarriedIn(f), k, w) \in Nat
  BY <1>1, IncrementType
<1>6. Worth(f, k, w) = Increment(f.batch, CarriedIn(f), k, w)
  BY <1>4, <1>5 DEF Worth
<1> QED
  BY <1>3, <1>6

\* A batch that is extended by evicted entries, then by live ones.
Extended(batch, a, taken, listed) == batch = (a \o taken) \o listed
Picks(J, batch) == \A j \in 1..Len(batch) : j \in J <=> batch[j].evicted
Live(listed) == \A j \in 1..Len(listed) : ~listed[j].evicted

\* What the marked entries of an extended batch add.
LEMMA EvictedAmount ==
  ASSUME NEW batch, NEW a \in Seq(PendingFlush), NEW taken \in Seq(PendingFlush),
         NEW listed \in Seq(PendingFlush), Marked(taken),
         Live(listed), NEW J, NEW C, NEW k, NEW w,
         Extended(batch, a, taken, listed),
         Picks(J, batch), Picks(C, a)
  PROVE  Increment(batch, J, k, w)
           = Increment(a, C, k, w) + Increment(taken, DOMAIN taken, k, w)
<1> DEFINE ab == a \o taken
           abc == ab \o listed
           L == {j \in 1..Len(ab) : ab[j].evicted}
<1>1. /\ Len(a) \in Nat /\ Len(taken) \in Nat /\ Len(listed) \in Nat
      /\ ab \in Seq(PendingFlush) /\ Len(ab) = Len(a) + Len(taken)
      /\ DOMAIN taken = 1..Len(taken)
  BY ConcatProperties, LenProperties
<1>2. \A j \in 1..Len(ab) : ab[j] = IF j <= Len(a) THEN a[j] ELSE taken[j - Len(a)]
  BY <1>1, ConcatProperties
<1>3. /\ Len(abc) = Len(ab) + Len(listed)
      /\ \A j \in 1..Len(ab) + Len(listed) :
           abc[j] = IF j <= Len(ab) THEN ab[j] ELSE listed[j - Len(ab)]
  <2>1. ab \in Seq(PendingFlush)
    BY <1>1
  <2> HIDE DEF ab
  <2> QED
    BY <2>1, ConcatProperties
<1>4. batch = abc
  BY DEF Extended
<1> HIDE DEF abc
<1>5. \A j \in 1..Len(abc) : j \in J <=> abc[j].evicted
  BY <1>4 DEF Picks
<1>6. \A j \in 1..Len(a) : j \in C <=> a[j].evicted
  BY DEF Picks
<1> HIDE DEF abc, ab
<1>7. ASSUME NEW j \in 1..Len(ab) PROVE j \in J <=> j \in L
  <2>1. j \in 1..Len(ab) + Len(listed) /\ j <= Len(ab)
    BY <1>1
  <2>2. abc[j] = ab[j] /\ j \in 1..Len(abc)
    BY <1>3, <2>1
  <2> QED
    BY <1>5, <2>2
<1>8. ASSUME NEW j \in 1..Len(listed) PROVE Len(ab) + j \in J <=> j \in {}
  <2> DEFINE i == Len(ab) + j
  <2>1. i \in 1..Len(ab) + Len(listed) /\ ~(i <= Len(ab)) /\ i - Len(ab) = j
    BY <1>1
  <2> HIDE DEF i
  <2>2. abc[i] = listed[j] /\ i \in 1..Len(abc)
    BY <1>3, <2>1
  <2>3. ~abc[i].evicted
    BY <2>2 DEF Live
  <2>4. i \notin J
    BY <1>5, <2>2, <2>3
  <2> QED
    BY <2>4 DEF i
<1>9. Increment(ab \o listed, J, k, w) = Increment(ab, L, k, w) + Increment(listed, {}, k, w)
  <2> HIDE DEF L
  <2>1. ab \in Seq(PendingFlush) /\ listed \in Seq(PendingFlush)
    BY <1>1
  <2>2. \A j \in 1..Len(ab) : j \in J <=> j \in L
    BY <1>7
  <2> DEFINE N == {}
  <2>3. \A j \in 1..Len(listed) : Len(ab) + j \in J <=> j \in N
    BY <1>8
  <2> HIDE DEF N
  <2>4. Increment(ab \o listed, J, k, w) = Increment(ab, L, k, w) + Increment(listed, N, k, w)
    BY <2>1, <2>2, <2>3, IncrementConcat
  <2> QED
    BY <2>4 DEF N
<1>10. ASSUME NEW j \in 1..Len(a) PROVE j \in L <=> j \in C
  <2>1. j \in 1..Len(ab) /\ j <= Len(a)
    BY <1>1
  <2>2. ab[j] = a[j]
    BY <1>2, <2>1
  <2> QED
    BY <1>6, <2>1, <2>2
<1>11. ASSUME NEW j \in 1..Len(taken) PROVE Len(a) + j \in L <=> j \in DOMAIN taken
  <2> DEFINE i == Len(a) + j
  <2>1. i \in 1..Len(ab) /\ ~(i <= Len(a)) /\ i - Len(a) = j
    BY <1>1
  <2> HIDE DEF i
  <2>2. ab[i] = taken[j]
    BY <1>2, <2>1
  <2>3. ab[i].evicted
    BY <2>2 DEF Marked
  <2>4. i \in L
    BY <2>1, <2>3
  <2> QED
    BY <1>1, <2>4 DEF i
<1>12. Increment(a \o taken, L, k, w)
         = Increment(a, C, k, w) + Increment(taken, DOMAIN taken, k, w)
  <2> HIDE DEF L
  <2>1. a \in Seq(PendingFlush) /\ taken \in Seq(PendingFlush)
    BY <1>1
  <2>2. \A j \in 1..Len(a) : j \in L <=> j \in C
    BY <1>10
  <2>3. \A j \in 1..Len(taken) : Len(a) + j \in L <=> j \in DOMAIN taken
    BY <1>11
  <2> QED
    BY <2>1, <2>2, <2>3, IncrementConcat
<1>13. Increment(listed, {}, k, w) = 0
  BY IncrementNone
<1>14. Increment(ab, L, k, w) \in Nat /\ ab = a \o taken /\ abc = ab \o listed
  BY <1>1, IncrementType DEF ab, abc
<1> HIDE DEF L
<1>15. /\ Increment(abc, J, k, w) = Increment(ab, L, k, w) + 0
       /\ Increment(ab, L, k, w) = Increment(a, C, k, w) + Increment(taken, DOMAIN taken, k, w)
  BY <1>9, <1>12, <1>13, <1>14
<1>16. Increment(abc, J, k, w) = Increment(a, C, k, w) + Increment(taken, DOMAIN taken, k, w)
  BY <1>14, <1>15
<1> QED
  BY <1>4, <1>16

\* A snapshot adds what it takes from evictedPending to what its flush owes; the
\* deltas it lists stay in their states.
LEMMA WorthTaken ==
  ASSUME NEW f \in FlushLocals, NEW g \in FlushLocals, f.res = <<>>, f.idx = 0, g.res = <<>>,
         g.idx = 0, NEW taken \in Seq(PendingFlush), NEW listed \in Seq(PendingFlush),
         Marked(taken), Live(listed),
         Extended(g.batch, f.batch, taken, listed), NEW k, NEW w
  PROVE  Worth(g, k, w) = Worth(f, k, w) + Increment(taken, DOMAIN taken, k, w)
<1>1. f.batch \in Seq(PendingFlush)
  BY LocalsType
<1>2. Worth(f, k, w) = Increment(f.batch, CarriedIn(f), k, w) /\ Picks(CarriedIn(f), f.batch)
  BY WorthUnsent DEF Picks
<1>3. Worth(g, k, w) = Increment(g.batch, CarriedIn(g), k, w) /\ Picks(CarriedIn(g), g.batch)
  BY WorthUnsent DEF Picks
<1>4. Increment(g.batch, CarriedIn(g), k, w)
        = Increment(f.batch, CarriedIn(f), k, w) + Increment(taken, DOMAIN taken, k, w)
  BY <1>1, <1>2, <1>3, EvictedAmount
<1> QED
  BY <1>2, <1>3, <1>4

\* A stripe's entries split in two.
LEMMA StripeSplit ==
  ASSUME NEW pending \in Seq(PendingFlush), NEW n \in 0..Len(pending), Marked(pending), NEW k, NEW w
  PROVE  LET taken == SubSeq(pending, 1, n)
             rest  == SubSeq(pending, n + 1, Len(pending))
         IN  /\ taken \in Seq(PendingFlush) /\ rest \in Seq(PendingFlush)
             /\ Marked(taken) /\ Marked(rest)
             /\ Increment(pending, DOMAIN pending, k, w)
                  = Increment(taken, DOMAIN taken, k, w) + Increment(rest, DOMAIN rest, k, w)
<1> DEFINE taken == SubSeq(pending, 1, n)
           m == Len(pending)
           rest == SubSeq(pending, n + 1, m)
<1>0. m \in Nat /\ n \in Nat /\ n <= m
  BY LenProperties
<1>1. \A i \in 1..m : pending[i] \in PendingFlush
  BY ElementOfSeq
<1>2. /\ taken \in Seq(PendingFlush) /\ Len(taken) = n
      /\ \A i \in 1..n : taken[i] = pending[i]
  <2>1. \A i \in 1..n : pending[i] \in PendingFlush
    BY <1>0, <1>1
  <2>2. /\ taken \in Seq(PendingFlush) /\ Len(taken) = IF 1 <= n THEN n - 1 + 1 ELSE 0
        /\ \A i \in 1..(n - 1 + 1) : taken[i] = pending[1 + i - 1]
    BY <1>0, <2>1, SubSeqProperties
  <2>3. /\ (IF 1 <= n THEN n - 1 + 1 ELSE 0) = n /\ n - 1 + 1 = n
        /\ \A i \in 1..n : 1 + i - 1 = i
    BY <1>0
  <2> HIDE DEF taken
  <2> QED
    BY <2>2, <2>3
<1>3. /\ rest \in Seq(PendingFlush) /\ Len(rest) = m - n
      /\ \A i \in 1..(m - n) : rest[i] = pending[n + i]
  <2>1. \A i \in (n + 1)..m : pending[i] \in PendingFlush
    BY <1>0, <1>1
  <2>2. /\ rest \in Seq(PendingFlush) /\ Len(rest) = IF n + 1 <= m THEN m - (n + 1) + 1 ELSE 0
        /\ \A i \in 1..(m - (n + 1) + 1) : rest[i] = pending[(n + 1) + i - 1]
    BY <1>0, <2>1, SubSeqProperties
  <2>3. /\ (IF n + 1 <= m THEN m - (n + 1) + 1 ELSE 0) = m - n /\ m - (n + 1) + 1 = m - n
        /\ \A i \in 1..(m - n) : (n + 1) + i - 1 = n + i
    BY <1>0
  <2> HIDE DEF rest
  <2> QED
    BY <2>2, <2>3
<1> HIDE DEF taken, rest
<1>4. Marked(taken)
  <2> SUFFICES ASSUME NEW i \in 1..n PROVE taken[i].evicted
    BY <1>2 DEF Marked
  <2>1. i \in 1..m
    BY <1>0
  <2> QED
    BY <1>2, <2>1 DEF Marked
<1>5. Marked(rest)
  <2> SUFFICES ASSUME NEW i \in 1..(m - n) PROVE rest[i].evicted
    BY <1>3 DEF Marked
  <2>1. n + i \in 1..m
    BY <1>0
  <2> QED
    BY <1>3, <2>1 DEF Marked
<1>6. taken \o rest = pending
  <2>1. /\ taken \o rest \in Seq(PendingFlush) /\ Len(taken \o rest) = n + (m - n)
        /\ \A i \in 1..(n + (m - n)) :
             (taken \o rest)[i] = IF i <= n THEN taken[i] ELSE rest[i - n]
    <3>1. taken \in Seq(PendingFlush) /\ rest \in Seq(PendingFlush)
      BY <1>2, <1>3
    <3>2. /\ taken \o rest \in Seq(PendingFlush) /\ Len(taken \o rest) = Len(taken) + Len(rest)
          /\ \A i \in 1..Len(taken) + Len(rest) :
               (taken \o rest)[i] = IF i <= Len(taken) THEN taken[i] ELSE rest[i - Len(taken)]
      BY <3>1, ConcatProperties
    <3> QED
      BY <1>2, <1>3, <3>2
  <2>2. n + (m - n) = m
    BY <1>0
  <2>3. ASSUME NEW i \in 1..m PROVE (taken \o rest)[i] = pending[i]
    <3>1. CASE i <= n
      BY <1>2, <2>1, <2>2, <3>1
    <3>2. CASE ~(i <= n)
      <4>1. i - n \in 1..(m - n) /\ n + (i - n) = i
        BY <1>0, <3>2
      <4> QED
        BY <1>3, <2>1, <2>2, <3>2, <4>1
    <3> QED
      BY <3>1, <3>2
  <2> QED
    BY <2>1, <2>2, <2>3, SeqEqual
<1>7. ASSUME NEW j \in 1..Len(taken) PROVE j \in DOMAIN pending <=> j \in DOMAIN taken
  BY <1>0, <1>2, LenProperties
<1>8. ASSUME NEW j \in 1..Len(rest) PROVE Len(taken) + j \in DOMAIN pending <=> j \in DOMAIN rest
  <2>1. DOMAIN pending = 1..m /\ DOMAIN rest = 1..Len(rest) /\ n + j \in 1..m
    BY <1>0, <1>3, LenProperties
  <2> QED
    BY <1>2, <2>1
<1>9. Increment(taken \o rest, DOMAIN pending, k, w)
        = Increment(taken, DOMAIN taken, k, w) + Increment(rest, DOMAIN rest, k, w)
  BY <1>2, <1>3, <1>7, <1>8, IncrementConcat
<1>10. Increment(pending, DOMAIN pending, k, w)
        = Increment(taken, DOMAIN taken, k, w) + Increment(rest, DOMAIN rest, k, w)
  BY <1>6, <1>9
<1> QED
  BY <1>2, <1>3, <1>4, <1>5, <1>10, Zenon DEF taken, rest, m

\* What the snapshot of stripe s takes from evictedPending, and the live entries
\* it lists.
Takes(p, s, n, listed) ==
    /\ s \in StripeIds /\ n \in 0..Len(evicted[s]) /\ listed \in Seq(PendingFlush) /\ Live(listed)
    /\ Extended(fl'[p].batch, fl[p].batch, SubSeq(evicted[s], 1, n), listed)
    /\ evicted' = [evicted EXCEPT ![s] = SubSeq(@, n + 1, Len(@))]

\* A snapshot takes the pending entries of its stripe and lists its deltas.
LEMMA SnapshotTakes ==
  ASSUME TypeOK, NEW p \in Flushers, SnapshotStripe(p)
  PROVE  \E s, n, listed : Takes(p, s, n, listed)
<1> DEFINE s == StripeAt(fl[p].i)
           take == MinOf(Len(evicted[s]), fl[p].budget)
<1>0. /\ fl[p] \in FlushLocals /\ fl[p].batch \in Seq(PendingFlush)
      /\ fl[p].budget \in Nat /\ fl[p].i \in Nat
  BY LocalsType DEF TypeOK
<1>1. s \in StripeIds
  BY <1>0, StripeAtType DEF TypeOK
<1>2. evicted' = [evicted EXCEPT ![s] = SubSeq(@, take + 1, Len(@))]
  BY DEF SnapshotStripe
<1>3. PICK V \in SUBSET (dirty \cap KeysOf(s)) :
        \E order \in Orderings({k \in V : states[k].localDelta # 0}) :
          fl'[p].batch = fl[p].batch \o SubSeq(evicted[s], 1, take)
                                     \o [j \in 1..Len(order) |-> PendingOf(order[j])]
  BY SnapshotLocals
<1> DEFINE live == {k \in V : states[k].localDelta # 0}
<1>4. PICK order \in Orderings(live) :
          fl'[p].batch = fl[p].batch \o SubSeq(evicted[s], 1, take)
                                     \o [j \in 1..Len(order) |-> PendingOf(order[j])]
  BY <1>3
<1> DEFINE m == Len(order)
           listed == [j \in 1..m |-> PendingOf(order[j])]
<1>5. IsFiniteSet(live) /\ live \subseteq Keys
  <2>1. live \subseteq Keys
    BY <1>3 DEF KeysOf
  <2> QED
    BY <2>1, FS_Subset, LocalAsyncAssumption
<1>6. order \in Seq(live) /\ m \in Nat
  <2> HIDE DEF live
  <2> QED
    BY <1>4, <1>5, OrderingType, FS_CardinalityType
<1>7. \A j \in 1..m : order[j] \in live
  <2> HIDE DEF live
  <2> QED
    BY <1>6, ElementOfSeq
<1>8. listed \in Seq(PendingFlush) /\ Live(listed)
  <2>1. ASSUME NEW j \in 1..m
        PROVE  PendingOf(order[j]) \in PendingFlush /\ ~PendingOf(order[j]).evicted
    <3>1. order[j] \in Keys /\ states[order[j]].localDelta # 0
      BY <1>5, <1>7
    <3>2. states[order[j]] \in LocalState
      BY <3>1, StateType DEF TypeOK
    <3> QED
      BY <3>1, <3>2 DEF PendingOf, PendingFlush, LocalState
  <2>2. listed \in [1..m -> PendingFlush] /\ \A j \in 1..m : listed[j] = PendingOf(order[j])
    BY <2>1
  <2> HIDE DEF listed, m
  <2>3. listed \in Seq(PendingFlush) /\ Len(listed) = m
    BY <1>6, <2>2, FunctionIsSeq
  <2>4. ASSUME NEW j \in 1..Len(listed) PROVE ~listed[j].evicted
    BY <2>1, <2>2, <2>3
  <2> QED
    BY <2>3, <2>4 DEF Live
<1>9. take \in 0..Len(evicted[s])
  <2>1. Len(evicted[s]) \in Nat
    BY <1>1, LenProperties DEF TypeOK
  <2> HIDE DEF s
  <2> QED
    BY <1>0, <2>1 DEF MinOf
<1>10. Extended(fl'[p].batch, fl[p].batch, SubSeq(evicted[s], 1, take), listed)
  BY <1>4, Zenon DEF Extended, listed
<1> HIDE DEF s, take, listed
<1>11. Takes(p, s, take, listed)
  BY <1>1, <1>2, <1>8, <1>9, <1>10, Zenon DEF Takes
<1> QED
  BY <1>11, Zenon

\* The snapshot of one stripe: evicted entries move from the stripe to the flush;
\* the states it removes owe nothing.
LEMMA SnapshotSum ==
  ASSUME TypeOK, TypeOK', BaseInv, SumInv, NEW p \in Flushers, SnapshotStripe(p)
  PROVE  SumInv'
<1> USE DEF local, wake, health, flush, server, history
<1>0. /\ fl[p] \in FlushLocals /\ fl'[p] \in FlushLocals /\ states \in StateTable
      /\ evicted \in [StripeIds -> Seq(PendingFlush)] /\ ShapeOK(fl[p])
  BY StateTypes, NextStateTypes DEF BaseInv
<1>1. /\ fl'[p].res = fl[p].res /\ fl'[p].idx = fl[p].idx /\ fl'[p].step = "snapshot"
      /\ fl[p].step = "snapshot" /\ \A q \in Flushers : q # p => fl'[q] = fl[q]
  BY SnapshotLocals
<1>2. fl[p].res = <<>> /\ fl[p].idx = 0 /\ fl'[p].res = <<>> /\ fl'[p].idx = 0
  BY <1>0, <1>1 DEF ShapeOK
<1>3. UNCHANGED <<now, redis, admitted, other, dropped>>
  BY DEF SnapshotStripe
<1>4. PICK s, n, listed : Takes(p, s, n, listed)
  BY SnapshotTakes
<1> DEFINE pending == evicted[s]
           taken == SubSeq(pending, 1, n)
           rest == SubSeq(pending, n + 1, Len(pending))
<1>a. s \in StripeIds /\ n \in 0..Len(pending) /\ listed \in Seq(PendingFlush) /\ Live(listed)
  BY <1>4, Zenon DEF Takes
<1>b. Extended(fl'[p].batch, fl[p].batch, taken, listed)
  BY <1>4, Zenon DEF Takes
<1>c. evicted' = [evicted EXCEPT ![s] = rest]
  BY <1>4 DEF Takes
<1>5. pending \in Seq(PendingFlush) /\ Marked(pending)
  BY <1>0, <1>a DEF SumInv
<1>6. taken \in Seq(PendingFlush) /\ rest \in Seq(PendingFlush) /\ Marked(taken) /\ Marked(rest)
  <2>1. n \in 0..Len(pending)
    BY <1>a
  <2> HIDE DEF pending
  <2> QED
    BY <1>5, <2>1, StripeSplit
<1>7. ASSUME NEW k \in Keys, NEW w \in Windows
      PROVE  Worth(fl'[p], k, w) = Worth(fl[p], k, w) + Increment(taken, DOMAIN taken, k, w)
  <2>1. Marked(taken) /\ taken \in Seq(PendingFlush)
    BY <1>6
  <2> HIDE DEF taken
  <2> QED
    BY <1>0, <1>2, <1>a, <1>b, <2>1, WorthTaken
<1>8. ASSUME NEW k \in Keys, NEW w \in Windows
      PROVE  InStripe(evicted, k, w) <= InStripe(evicted', k, w) + Increment(taken, DOMAIN taken, k, w)
  <2>1. CASE StripeOf[k] = s
    <3>1. evicted'[StripeOf[k]] = rest /\ evicted[StripeOf[k]] = pending
      BY <1>0, <1>a, <1>c, <2>1
    <3>2. Increment(pending, DOMAIN pending, k, w)
            = Increment(taken, DOMAIN taken, k, w) + Increment(rest, DOMAIN rest, k, w)
      <4>1. n \in 0..Len(pending)
        BY <1>a
      <4> HIDE DEF pending
      <4> QED
        BY <1>5, <4>1, StripeSplit
    <3> HIDE DEF pending, taken, rest
    <3>3. /\ Increment(pending, DOMAIN pending, k, w) \in Nat
          /\ Increment(taken, DOMAIN taken, k, w) \in Nat
          /\ Increment(rest, DOMAIN rest, k, w) \in Nat
      BY <1>5, <1>6, IncrementType
    <3> QED
      BY <3>1, <3>2, <3>3 DEF InStripe
  <2>2. CASE StripeOf[k] # s
    <3>1. evicted'[StripeOf[k]] = evicted[StripeOf[k]]
      <4>1. StripeOf[k] \in StripeIds
        BY LocalAsyncAssumption DEF StripeIds
      <4> HIDE DEF rest
      <4> QED
        BY <1>0, <1>a, <1>c, <2>2, <4>1
    <3>2. InStripe(evicted', k, w) = InStripe(evicted, k, w)
      BY <3>1 DEF InStripe
    <3>3. InStripe(evicted, k, w) \in Nat
      BY <1>0, OwedTypes
    <3> HIDE DEF taken
    <3>4. Increment(taken, DOMAIN taken, k, w) \in Nat
      BY <1>6, IncrementType
    <3> QED
      BY <3>2, <3>3, <3>4
  <2> QED
    BY <2>1, <2>2
<1>9. ASSUME NEW k \in Keys, NEW w \in Windows PROVE Left(states'[k], w) = Left(states[k], w)
  <2>1. states' = Remove(states, ExpiredStates(states, StripeAt(fl[p].i), fl[p].now))
    BY DEF SnapshotStripe
  <2>2. states'[k] = IF k \in ExpiredStates(states, StripeAt(fl[p].i), fl[p].now) THEN NoState
                     ELSE states[k]
    BY <2>1 DEF Remove
  <2>3. k \in ExpiredStates(states, StripeAt(fl[p].i), fl[p].now) => states[k].localDelta = 0
    BY DEF ExpiredStates
  <2>4. Left(NoState, w) = 0
    BY DEF Left, NoState
  <2> QED
    BY <2>2, <2>3, <2>4 DEF Left
<1>10. ASSUME NEW k \in Keys, NEW w \in Windows, Open(now, w) PROVE Keeps(p, k, w)
  <2> DEFINE b == Left(states[k], w)
             d == InStripe(evicted, k, w)
             x == Worth(fl[p], k, w)
             l == dropped[k][w]
             b1 == Left(states'[k], w)
             d1 == InStripe(evicted', k, w)
             x1 == Worth(fl'[p], k, w)
             l1 == dropped'[k][w]
             m == Increment(taken, DOMAIN taken, k, w)
  <2>1. b \in Nat /\ d \in Nat /\ x \in Int /\ l \in Nat
    BY StateTypes, OwedTypes, BalanceTypes DEF Counts
  <2>2. d1 \in Nat /\ x1 \in Int /\ m \in Nat
    <3>1. m \in Nat
      <4> HIDE DEF taken
      <4> QED
        BY <1>6, IncrementType
    <3> HIDE DEF m
    <3> QED
      BY <3>1, NextStateTypes, OwedTypes, BalanceTypes
  <2>3. SUFFICES b + d + x + l <= b1 + d1 + x1 + l1
    BY <1>3, KeepsLocal
  <2>4. b1 = b /\ l1 = l
    BY <1>3, <1>9
  <2>5. x1 = x + m
    BY <1>7
  <2>6. d <= d1 + m
    BY <1>8
  <2> HIDE DEF b, d, x, l, b1, d1, x1, l1, m
  <2> QED
    BY <2>1, <2>2, <2>4, <2>5, <2>6
<1>11. \A x \in StripeIds : Marked(evicted'[x])
  <2> HIDE DEF rest
  <2> QED
    BY <1>0, <1>6, <1>a, <1>c DEF SumInv
<1>12. Finished(fl'[p]) /\ now <= now'
  BY <1>1, <1>3, StateTypes DEF Finished
<1> QED
  BY <1>1, <1>10, <1>11, <1>12, BalanceKept

\* What making room in stripe s removes: flushed states, and at most one victim.
MakesRoom(e, s, k) ==
    /\ \A x \in Keys : x \in e.gone /\ x \notin e.victim => states[x].localDelta = 0
    /\ e.victim = {} \/ \E v \in Keys : e.victim = {v} /\ StripeOf[v] = s
    /\ k \notin e.gone

\* How room is made for a key.
LEMMA EvictionsShape ==
  ASSUME NEW k \in Keys, NEW s, NEW t,
         NEW e \in IF Present(states, k) THEN {[gone |-> {}, victim |-> {}]} ELSE Evictions(s, t)
  PROVE  MakesRoom(e, s, k)
<1> DEFINE used == {x \in KeysOf(s) : Present(states, x)}
           old == ExpiredStates(states, s, t)
           left == used \ old
<1>1. CASE Present(states, k) \/ Cardinality(used) < StripeCap
  <2>1. e = [gone |-> {}, victim |-> {}]
    BY <1>1 DEF Evictions
  <2>2. e.gone = {} /\ e.victim = {}
    BY <2>1
  <2> QED
    BY <2>2 DEF MakesRoom
<1>2. \A x \in old : states[x].localDelta = 0 /\ x \in Keys /\ Present(states, x)
  BY DEF ExpiredStates, KeysOf
<1>3. \A x \in left : x \in Keys /\ StripeOf[x] = s /\ Present(states, x)
  BY DEF KeysOf
<1>4. CASE ~Present(states, k) /\ ~(Cardinality(used) < StripeCap) /\ Cardinality(left) < StripeCap
  <2>1. e = [gone |-> old, victim |-> {}]
    BY <1>4 DEF Evictions
  <2> HIDE DEF old
  <2>2. e.gone = old /\ e.victim = {}
    BY <2>1
  <2> QED
    BY <1>2, <1>4, <2>2 DEF MakesRoom
<1>5. CASE ~Present(states, k) /\ ~(Cardinality(used) < StripeCap) /\ ~(Cardinality(left) < StripeCap)
  <2>1. e \in {[gone |-> old \cup {v}, victim |-> {v}] : v \in Victims(states, left)}
    BY <1>5 DEF Evictions
  <2>2. Victims(states, left) \subseteq left
    BY DEF Victims
  <2> HIDE DEF old, left
  <2>3. PICK v \in left : e = [gone |-> old \cup {v}, victim |-> {v}]
    BY <2>1, <2>2
  <2>4. e.gone = old \cup {v} /\ e.victim = {v}
    BY <2>3
  <2> QED
    BY <1>2, <1>3, <1>5, <2>3, <2>4 DEF MakesRoom
<1> QED
  BY <1>1, <1>4, <1>5

\* The deltas that make room give up.
LEMMA VictimDropped ==
  ASSUME TypeOK, NEW pending, NEW e
  PROVE  /\ DropVictim(pending, e) \in Counts
         /\ \A x \in Keys, w \in Windows : DropVictim(pending, e)[x][w] =
              dropped[x][w] + (IF Len(pending) < 2 * StripeCap \/ x \notin e.victim THEN 0
                               ELSE Left(states[x], w))
<1>1. dropped \in Counts /\ \A x \in Keys, w \in Windows : dropped[x][w] \in Nat
  BY DEF TypeOK, Counts
<1>2. \A x \in Keys : states[x].localDelta \in Nat
  BY DeltaType DEF TypeOK
<1>3. CASE Len(pending) < 2 * StripeCap
  <2>1. DropVictim(pending, e) = dropped
    BY <1>3 DEF DropVictim
  <2> QED
    BY <1>1, <1>3, <2>1
<1>4. CASE ~(Len(pending) < 2 * StripeCap)
  <2>1. DropVictim(pending, e) = [x \in Keys |-> [w \in Windows |->
            IF x \in e.victim /\ states[x].windowStart = w
            THEN dropped[x][w] + states[x].localDelta ELSE dropped[x][w]]]
    BY <1>4 DEF DropVictim
  <2>2. \A x \in Keys, w \in Windows :
          (IF x \in e.victim /\ states[x].windowStart = w
           THEN dropped[x][w] + states[x].localDelta ELSE dropped[x][w]) \in Nat
    BY <1>1, <1>2
  <2>3. DropVictim(pending, e) \in Counts
    BY <2>1, <2>2 DEF Counts
  <2>4. ASSUME NEW x \in Keys, NEW w \in Windows
        PROVE  DropVictim(pending, e)[x][w] = dropped[x][w] + (IF x \notin e.victim THEN 0
                                                               ELSE Left(states[x], w))
    BY <1>1, <1>2, <2>1 DEF Left
  <2> QED
    BY <1>4, <2>3, <2>4
<1> QED
  BY <1>3, <1>4

\* The victim's unflushed delta as an entry of evictedPending.
Owing(v) == [key |-> v, flushN |-> states[v].localDelta, ws |-> states[v].windowStart, evicted |-> TRUE]

\* The parts of the entry set aside for a state.
LEMMA OwingType ==
  ASSUME TypeOK, NEW v \in Keys, states[v].localDelta # 0
  PROVE  /\ Owing(v) \in PendingFlush /\ Owing(v).evicted /\ Owing(v).key = v
         /\ \A x \in Keys, w \in Windows :
              Amount(Owing(v), x, w) = IF x = v THEN Left(states[x], w) ELSE 0
<1>1. states[v] \in LocalState
  BY StateType DEF TypeOK
<1> QED
  BY <1>1 DEF Owing, PendingFlush, LocalState, Amount, Left

\* What evictLocked does with the victim.
LEMMA CarriedOut ==
  ASSUME TypeOK, NEW s \in StripeIds, NEW k, NEW e, MakesRoom(e, s, k)
  PROVE  \/ /\ CarryOut(evicted[s], e) = evicted[s]
            /\ \A x \in Keys, w \in Windows : x \in e.victim /\ Len(evicted[s]) < 2 * StripeCap
                                              => Left(states[x], w) = 0
         \/ \E v \in Keys : /\ e.victim = {v} /\ StripeOf[v] = s /\ states[v].localDelta # 0
                            /\ Len(evicted[s]) < 2 * StripeCap
                            /\ CarryOut(evicted[s], e) = Append(evicted[s], Owing(v))
<1> DEFINE owing == {v \in e.victim : states[v].localDelta > 0}
           v == CHOOSE x \in owing : TRUE
<1>0. Len(evicted[s]) \in Nat /\ 2 * StripeCap \in Nat
  BY LocalAsyncAssumption, LenProperties DEF TypeOK
<1>1. CASE Len(evicted[s]) >= 2 * StripeCap
  <2>1. ~(Len(evicted[s]) < 2 * StripeCap)
    BY <1>0, <1>1
  <2> QED
    BY <1>1, <2>1 DEF CarryOut
<1>2. CASE owing = {}
  <2>1. CarryOut(evicted[s], e) = evicted[s]
    BY <1>2 DEF CarryOut
  <2>2. ASSUME NEW x \in Keys, x \in e.victim PROVE states[x].localDelta = 0
    <3>1. states[x].localDelta \in Nat /\ ~(states[x].localDelta > 0)
      BY <1>2, <2>2, DeltaType DEF TypeOK
    <3> QED
      BY <3>1
  <2> QED
    BY <2>1, <2>2 DEF Left
<1>3. CASE owing # {} /\ ~(Len(evicted[s]) >= 2 * StripeCap)
  <2>1. v \in owing
    BY <1>3
  <2>2. CarryOut(evicted[s], e) = Append(evicted[s], Owing(v))
    BY <1>3 DEF CarryOut, Owing
  <2>3. PICK u \in Keys : e.victim = {u} /\ StripeOf[u] = s
    BY <2>1 DEF MakesRoom
  <2>4. v = u /\ states[v].localDelta # 0
    <3>1. v = u /\ states[u].localDelta > 0
      BY <2>1, <2>3
    <3>2. states[u].localDelta \in Nat
      BY DeltaType DEF TypeOK
    <3> HIDE DEF v, owing
    <3> QED
      BY <3>1, <3>2
  <2>5. Len(evicted[s]) < 2 * StripeCap
    BY <1>0, <1>3
  <2> HIDE DEF v, owing
  <2> QED
    BY <2>2, <2>3, <2>4, <2>5
<1> QED
  BY <1>1, <1>2, <1>3

\* Making room loses nothing that is not counted as given up.
LEMMA RoomKeeps ==
  ASSUME TypeOK, NEW s \in StripeIds, NEW k, NEW e, MakesRoom(e, s, k), NEW x \in Keys, NEW w \in Windows
  PROVE  Left(states[x], w) + InStripe(evicted, x, w) + dropped[x][w]
           <= Left(Remove(states, e.gone)[x], w)
              + InStripe([evicted EXCEPT ![s] = CarryOut(evicted[s], e)], x, w)
              + DropVictim(evicted[s], e)[x][w]
<1> DEFINE b == Left(states[x], w)
           d == InStripe(evicted, x, w)
           l == dropped[x][w]
           b1 == Left(Remove(states, e.gone)[x], w)
           d1 == InStripe([evicted EXCEPT ![s] = CarryOut(evicted[s], e)], x, w)
           l1 == DropVictim(evicted[s], e)[x][w]
           room == Len(evicted[s]) < 2 * StripeCap
<1>a. SUFFICES b + d + l <= b1 + d1 + l1
  OBVIOUS
<1>0. evicted \in [StripeIds -> Seq(PendingFlush)]
  BY DEF TypeOK
<1>1. b \in Nat /\ d \in Nat /\ l \in Nat
  BY StateTypes, OwedTypes DEF Counts
<1>2. l1 = l + (IF room \/ x \notin e.victim THEN 0 ELSE b)
  BY VictimDropped
<1>3. b1 = IF x \in e.victim /\ x \in e.gone THEN 0 ELSE b
  <2>1. Remove(states, e.gone)[x] = IF x \in e.gone THEN NoState ELSE states[x]
    BY DEF Remove
  <2>2. Left(NoState, w) = 0
    BY DEF Left, NoState
  <2>3. x \in e.gone /\ x \notin e.victim => Left(states[x], w) = 0
    BY DEF MakesRoom, Left
  <2> QED
    BY <2>1, <2>2, <2>3
<1>4. CASE CarryOut(evicted[s], e) = evicted[s] /\ (x \in e.victim /\ room => b = 0)
  <2>1. d1 = d
    <3>1. [evicted EXCEPT ![s] = CarryOut(evicted[s], e)] = evicted
      BY <1>0, <1>4
    <3> QED
      BY <3>1
  <2> HIDE DEF b, d, l, b1, d1, l1, room
  <2> QED
    BY <1>1, <1>2, <1>3, <1>4, <2>1
<1>5. ASSUME NEW v \in Keys, e.victim = {v}, StripeOf[v] = s, states[v].localDelta # 0, room,
             CarryOut(evicted[s], e) = Append(evicted[s], Owing(v))
      PROVE  b + d + l <= b1 + d1 + l1
  <2>1. /\ Owing(v) \in PendingFlush /\ StripeOf[Owing(v).key] = s
        /\ Amount(Owing(v), x, w) = IF x = v THEN b ELSE 0
    BY <1>5, OwingType
  <2>2. InStripe([evicted EXCEPT ![StripeOf[Owing(v).key]] = Append(@, Owing(v))], x, w)
          = d + Amount(Owing(v), x, w)
    BY <1>0, <2>1, SetAside
  <2>3. d1 = d + (IF x = v THEN b ELSE 0)
    BY <1>5, <2>1, <2>2
  <2>4. x \in e.victim <=> x = v
    BY <1>5
  <2> HIDE DEF b, d, l, b1, d1, l1, room
  <2> QED
    BY <1>1, <1>2, <1>3, <1>5, <2>3, <2>4
<1>6. \/ CarryOut(evicted[s], e) = evicted[s] /\ (x \in e.victim /\ room => b = 0)
      \/ \E v \in Keys : /\ e.victim = {v} /\ StripeOf[v] = s /\ states[v].localDelta # 0 /\ room
                         /\ CarryOut(evicted[s], e) = Append(evicted[s], Owing(v))
  BY CarriedOut
<1> HIDE DEF b, d, l, b1, d1, l1, room
<1> QED
  BY <1>4, <1>5, <1>6

\* A step that decides a request: flushes, Redis and the other replicas are left alone.
LEMMA KeepsGrant ==
  ASSUME TypeOK, TypeOK', NEW p \in Flushers, NEW k \in Keys, NEW w \in Windows,
         UNCHANGED <<fl, redis, other>>,
         Left(states[k], w) + InStripe(evicted, k, w) + dropped[k][w] + admitted'[k][w]
           <= Left(states'[k], w) + InStripe(evicted', k, w) + dropped'[k][w] + admitted[k][w]
  PROVE  Keeps(p, k, w)
<1> DEFINE a == redis[k][w]
           b == Left(states[k], w)
           c == InStripe(evicted, k, w)
           x == Worth(fl[p], k, w)
           l == dropped[k][w]
           d == admitted[k][w]
           o == other[k][w]
           b1 == Left(states'[k], w)
           c1 == InStripe(evicted', k, w)
           l1 == dropped'[k][w]
           d1 == admitted'[k][w]
<1>1. /\ a \in Nat /\ b \in Nat /\ c \in Nat /\ x \in Int /\ l \in Nat /\ d \in Nat /\ o \in Nat
  BY StateTypes, OwedTypes, BalanceTypes DEF Counts
<1>2. b1 \in Nat /\ c1 \in Nat /\ l1 \in Nat /\ d1 \in Nat
  BY NextStateTypes, OwedTypes DEF Counts
<1>3. b + c + l + d1 <= b1 + c1 + l1 + d
  OBVIOUS
<1>4. SUFFICES a + b + c + x + l + d1 + o <= a + b1 + c1 + x + l1 + d + o
  BY KeepsParts
<1> HIDE DEF a, b, c, x, l, d, o, b1, c1, l1, d1
<1> QED
  BY <1>1, <1>2, <1>3

\* The part of a decision on key k that the balance sees: st is the state it starts
\* from, granted what it grants, forgotten what a rollover drops.
GrantEffect(k, ws, s, e, granted, forgotten) ==
    /\ k \in Keys /\ ws \in Windows /\ s \in StripeIds /\ MakesRoom(e, s, k)
    /\ granted \in Nat
    /\ evicted' = [evicted EXCEPT ![s] = CarryOut(evicted[s], e)]
    /\ \A x \in Keys : x # k => states'[x] = Remove(states, e.gone)[x]
    /\ states'[k].windowStart = ws
    /\ \A x \in Keys, w \in Windows :
         admitted'[x][w] = admitted[x][w] + (IF x = k /\ w = ws THEN granted ELSE 0)
    /\ \A x \in Keys, w \in Windows :
         dropped'[x][w] = DropVictim(evicted[s], e)[x][w]
                          + (IF x = k /\ forgotten THEN Left(states[x], w) ELSE 0)
    /\ IF states[k].windowStart = ws
       THEN states'[k].localDelta = states[k].localDelta + granted
       ELSE states'[k].localDelta = granted /\ (states[k] # NoState => forgotten)
    /\ UNCHANGED <<now, fl, redis, other>>

\* What AllowN does to states, stripes and ghost counters.
LEMMA DecideGrants ==
  ASSUME TypeOK, NEW r \in Reqs, AllowNDecide(r)
  PROVE  \E k, ws, s, e, granted, forgotten : GrantEffect(k, ws, s, e, granted, forgotten)
<1> USE DEF local, wake, health, flush, server, history
<1> DEFINE k == req[r].key
           n == req[r].n
           ws == req[r].ws
           s == StripeOf[k]
           found == Present(states, k)
           same == found /\ states[k].windowStart = ws
           st == IF same THEN states[k] ELSE FreshState(ws)
           decision == Decision(st, n)
           new == IF decision = "allow" THEN [st EXCEPT !.localDelta = @ + n]
                  ELSE IF decision = "latch-deny" THEN [st EXCEPT !.blocked = TRUE]
                  ELSE st
           granted == IF decision = "allow" THEN n ELSE 0
           none == [gone |-> {}, victim |-> {}]
<1>1. k \in Keys /\ n \in Nat /\ ws \in Windows /\ s \in StripeIds
  BY LocalAsyncAssumption DEF TypeOK, StripeIds, RequestState
<1>2. PICK e \in IF found THEN {none} ELSE Evictions(s, req[r].now) :
        /\ evicted' = [evicted EXCEPT ![s] = CarryOut(evicted[s], e)]
        /\ states' = [Remove(states, e.gone) EXCEPT ![k] = new]
        /\ admitted' = IF decision = "allow" THEN [admitted EXCEPT ![k][ws] = @ + n] ELSE admitted
        /\ dropped' = IF found /\ ~same
                      THEN AddDropped(DropVictim(evicted[s], e), k, states[k].windowStart,
                                      states[k].localDelta)
                      ELSE DropVictim(evicted[s], e)
  BY DEF AllowNDecide
<1>3. MakesRoom(e, s, k)
  <2> HIDE DEF s, k
  <2> QED
    BY <1>1, EvictionsShape
<1>4. /\ states[k].localDelta \in Nat /\ (found => states[k] \in LocalState)
      /\ (~found => states[k] = NoState)
  BY <1>1, StateType, DeltaType DEF TypeOK, Present
<1>5. st \in LocalState /\ st.windowStart = ws
      /\ st.localDelta = IF same THEN states[k].localDelta ELSE 0
  <2>1. CASE same
    BY <1>4, <2>1
  <2>2. CASE ~same
    <3>1. st = FreshState(ws)
      BY <2>2
    <3> HIDE DEF st, ws, same
    <3> QED
      BY <1>1, <2>2, <3>1, FreshType
  <2> QED
    BY <2>1, <2>2
<1> HIDE DEF st
<1>6. new.windowStart = ws /\ new.localDelta = st.localDelta + granted /\ granted \in Nat
  BY <1>1, <1>5 DEF LocalState
<1>7. ~found => ~same /\ states[k].windowStart # ws
  <2>1. ~found => states[k].windowStart = -1
    BY <1>4 DEF NoState
  <2>2. ws \in Nat
    BY <1>1, WindowNat
  <2> QED
    BY <2>1, <2>2
<1> HIDE DEF new, decision, granted
<1>8. states'[k] = new /\ \A x \in Keys : x # k => states'[x] = Remove(states, e.gone)[x]
  <2> HIDE DEF k
  <2> QED
    BY <1>1, <1>2 DEF Remove
<1>9. ASSUME NEW x \in Keys, NEW w \in Windows
      PROVE  admitted'[x][w] = admitted[x][w] + (IF x = k /\ w = ws THEN granted ELSE 0)
  <2>1. admitted \in Counts /\ admitted[x][w] \in Nat
    BY DEF TypeOK, Counts
  <2> HIDE DEF k, n, ws
  <2> QED
    BY <1>1, <1>2, <2>1 DEF granted, Counts
<1> DEFINE forgotten == found /\ ~same
<1>10. ASSUME NEW x \in Keys, NEW w \in Windows
       PROVE  dropped'[x][w] = DropVictim(evicted[s], e)[x][w]
                               + (IF x = k /\ forgotten THEN Left(states[x], w) ELSE 0)
  <2> DEFINE drops == DropVictim(evicted[s], e)
             delta == states[k].localDelta
             v == states[k].windowStart
  <2>1. drops \in Counts /\ drops[x][w] \in Nat
    <3>1. drops \in Counts
      BY VictimDropped
    <3> HIDE DEF drops
    <3> QED
      BY <3>1 DEF Counts
  <2>2. CASE forgotten
    <3>1. dropped' = AddDropped(drops, k, v, delta)
      BY <1>2, <2>2
    <3> HIDE DEF drops
    <3>2. AddDropped(drops, k, v, delta)[x][w] = drops[x][w] + (IF k = x /\ v = w THEN delta ELSE 0)
      BY <1>1, <1>4, <2>1, GivenUp
    <3>3. x = k => Left(states[x], w) = IF v = w THEN delta ELSE 0
      BY DEF Left
    <3> HIDE DEF k, v, delta, forgotten
    <3>4. dropped'[x][w] = drops[x][w] + (IF x = k /\ forgotten THEN Left(states[x], w) ELSE 0)
      BY <2>1, <2>2, <3>1, <3>2, <3>3
    <3> QED
      BY <3>4 DEF drops
  <2>3. CASE ~forgotten
    <3>1. dropped' = drops
      BY <1>2, <2>3
    <3> HIDE DEF drops, forgotten, k
    <3>2. dropped'[x][w] = drops[x][w] + (IF x = k /\ forgotten THEN Left(states[x], w) ELSE 0)
      BY <2>1, <2>3, <3>1
    <3> QED
      BY <3>2 DEF drops
  <2> QED
    BY <2>2, <2>3
<1>11. IF states[k].windowStart = ws
       THEN states'[k].localDelta = states[k].localDelta + granted
       ELSE states'[k].localDelta = granted /\ (states[k] # NoState => forgotten)
  <2>1. CASE same
    BY <1>5, <1>6, <1>8, <2>1
  <2>2. CASE ~same
    <3>1. states[k].windowStart # ws
      BY <1>7, <2>2
    <3>2. states'[k].localDelta = granted
      BY <1>5, <1>6, <1>8, <2>2
    <3>3. states[k] # NoState => forgotten
      BY <1>4, <2>2
    <3> QED
      BY <3>1, <3>2, <3>3
  <2> QED
    BY <2>1, <2>2
<1>12. UNCHANGED <<now, fl, redis, other>>
  BY DEF AllowNDecide
<1>13. states'[k].windowStart = ws /\ granted \in Nat
  BY <1>6, <1>8
<1>14. evicted' = [evicted EXCEPT ![s] = CarryOut(evicted[s], e)]
  BY <1>2
<1> HIDE DEF k, ws, s, forgotten
<1>15. GrantEffect(k, ws, s, e, granted, forgotten)
  BY <1>1, <1>3, <1>8, <1>9, <1>10, <1>11, <1>12, <1>13, <1>14, Zenon DEF GrantEffect
<1> QED
  BY <1>15, Zenon

\* AllowN grants what it adds to a delta; an evicted or replaced state's delta is set
\* aside or counted as given up.
LEMMA DecideSum ==
  ASSUME TypeOK, TypeOK', SumInv, NEW r \in Reqs, AllowNDecide(r) PROVE SumInv'
<1>1. PICK k, ws, s, e, granted, forgotten : GrantEffect(k, ws, s, e, granted, forgotten)
  BY DecideGrants
<1>a. /\ k \in Keys /\ ws \in Windows /\ s \in StripeIds /\ MakesRoom(e, s, k) /\ granted \in Nat
      /\ evicted' = [evicted EXCEPT ![s] = CarryOut(evicted[s], e)]
      /\ states'[k].windowStart = ws
  BY <1>1, Zenon DEF GrantEffect
<1>b. \A x \in Keys : x # k => states'[x] = Remove(states, e.gone)[x]
  BY <1>1, Zenon DEF GrantEffect
<1>c. \A x \in Keys, w \in Windows :
        admitted'[x][w] = admitted[x][w] + (IF x = k /\ w = ws THEN granted ELSE 0)
  BY <1>1, Zenon DEF GrantEffect
<1>d. \A x \in Keys, w \in Windows :
         dropped'[x][w] = DropVictim(evicted[s], e)[x][w]
                          + (IF x = k /\ forgotten THEN Left(states[x], w) ELSE 0)
  BY <1>1, Zenon DEF GrantEffect
<1>e. IF states[k].windowStart = ws
      THEN states'[k].localDelta = states[k].localDelta + granted
      ELSE states'[k].localDelta = granted /\ (states[k] # NoState => forgotten)
  BY <1>1, Zenon DEF GrantEffect
<1>f. now' = now /\ fl' = fl /\ redis' = redis /\ other' = other
  BY <1>1 DEF GrantEffect
<1>2. ASSUME NEW x \in Keys, NEW w \in Windows, Open(now, w) PROVE Keeps("worker", x, w)
  <2> DEFINE b == Left(states[x], w)
             d == InStripe(evicted, x, w)
             l == dropped[x][w]
             g == admitted[x][w]
             bk == Left(Remove(states, e.gone)[x], w)
             lk == DropVictim(evicted[s], e)[x][w]
             b1 == Left(states'[x], w)
             d1 == InStripe(evicted', x, w)
             l1 == dropped'[x][w]
             g1 == admitted'[x][w]
  <2>1. b \in Nat /\ d \in Nat /\ l \in Nat /\ g \in Nat
    BY StateTypes, OwedTypes DEF Counts
  <2>2. b1 \in Nat /\ d1 \in Nat /\ l1 \in Nat /\ g1 \in Nat
    BY NextStateTypes, OwedTypes DEF Counts
  <2>3. lk \in Nat
    <3>1. DropVictim(evicted[s], e) \in Counts
      BY VictimDropped
    <3> QED
      BY <3>1 DEF Counts
  <2>4. b + d + l <= bk + d1 + lk
    BY <1>a, RoomKeeps
  <2>5. SUFFICES b + d + l + g1 <= b1 + d1 + l1 + g
    BY <1>f, KeepsGrant DEF Flushers
  <2>6. CASE x # k
    <3>1. b1 = bk /\ l1 = lk + 0 /\ g1 = g + 0
      BY <1>b, <1>c, <1>d, <2>6
    <3> HIDE DEF b, d, l, g, bk, lk, b1, d1, l1, g1
    <3> QED
      BY <2>1, <2>2, <2>3, <2>4, <3>1
  <2>7. CASE x = k
    <3>1. bk = b
      BY <1>a, <2>7 DEF Remove, MakesRoom
    <3>2. l1 = lk + (IF forgotten THEN b ELSE 0)
      BY <1>d, <2>7
    <3>3. CASE w = ws
      <4>1. g1 = g + granted
        BY <1>c, <2>7, <3>3
      <4>2. b1 = b + granted
        <5>1. CASE states[k].windowStart = ws
          BY <1>a, <1>e, <2>7, <3>3, <5>1 DEF Left
        <5>2. CASE states[k].windowStart # ws
          <6>1. b = 0 /\ b1 = granted
            BY <1>a, <1>e, <2>7, <3>3, <5>2 DEF Left
          <6> HIDE DEF b, b1
          <6> QED
            BY <1>a, <6>1
        <5> QED
          BY <5>1, <5>2
      <4> HIDE DEF b, d, l, g, bk, lk, b1, d1, l1, g1
      <4> QED
        BY <1>a, <2>1, <2>2, <2>3, <2>4, <3>1, <3>2, <4>1, <4>2
    <3>4. CASE w # ws
      <4>1. g1 = g + 0
        BY <1>c, <2>7, <3>4
      <4>2. forgotten \/ b = 0
        <5>1. CASE states[k].windowStart = w
          <6>1. states[k] # NoState
            BY <5>1, WindowNat DEF NoState
          <6> QED
            BY <1>e, <3>4, <5>1, <6>1
        <5>2. CASE states[k].windowStart # w
          BY <2>7, <5>2 DEF Left
        <5> QED
          BY <5>1, <5>2
      <4> HIDE DEF b, d, l, g, bk, lk, b1, d1, l1, g1
      <4> QED
        BY <2>1, <2>2, <2>3, <2>4, <3>1, <3>2, <4>1, <4>2
    <3> QED
      BY <3>3, <3>4
  <2> QED
    BY <2>6, <2>7
<1>3. \A x \in StripeIds : Marked(evicted'[x])
  <2> SUFFICES ASSUME NEW x \in StripeIds PROVE Marked(evicted'[x])
    OBVIOUS
  <2>1. evicted[x] \in Seq(PendingFlush) /\ Marked(evicted[x]) /\ evicted \in [StripeIds -> Seq(PendingFlush)]
    BY DEF TypeOK, SumInv
  <2>2. evicted'[x] = evicted[x] \/ (x = s /\ evicted'[x] = CarryOut(evicted[s], e))
    BY <1>a, <2>1
  <2>3. ASSUME x = s, NEW v \in Keys, states[v].localDelta # 0,
               CarryOut(evicted[s], e) = Append(evicted[s], Owing(v))
        PROVE  Marked(CarryOut(evicted[s], e))
    <3>1. Owing(v) \in PendingFlush /\ Owing(v).evicted
      BY <2>3, OwingType
    <3> QED
      BY <2>1, <2>3, <3>1, MarkedAppend
  <2>4. \/ CarryOut(evicted[s], e) = evicted[s]
        \/ \E v \in Keys : /\ states[v].localDelta # 0
                           /\ CarryOut(evicted[s], e) = Append(evicted[s], Owing(v))
    BY <1>a, CarriedOut
  <2> QED
    BY <2>1, <2>2, <2>3, <2>4
<1>4. /\ "worker" \in Flushers /\ \A q \in Flushers : q # "worker" => fl'[q] = fl[q]
      /\ Finished(fl'["worker"]) /\ now <= now'
  BY <1>f, StateTypes DEF Flushers, SumInv
<1> QED
  BY <1>2, <1>3, <1>4, BalanceKept

\* Nothing is granted or owed initially.
LEMMA InitSum == Init => SumInv
<1> SUFFICES ASSUME Init PROVE SumInv
  OBVIOUS
<1>1. TypeOK
  BY InitOK
<1>2. /\ \A p \in Flushers : fl[p] = NoFlush /\ fl[p] \in FlushLocals
      /\ \A s \in StripeIds : evicted[s] = <<>>
  BY <1>1, StateTypes DEF Init
<1>3. \A p \in Flushers : Finished(fl[p])
  BY <1>2 DEF NoFlush, Finished
<1>4. \A s \in StripeIds : Marked(evicted[s])
  BY <1>2 DEF Marked
<1>5. ASSUME NEW k \in Keys, NEW w \in Windows PROVE CountOK(k, w)
  <2>1. /\ redis[k][w] = 0 /\ dropped[k][w] = 0 /\ admitted[k][w] = 0 /\ other[k][w] = 0
        /\ Left(states[k], w) = 0
    BY DEF Init, NoState, Left
  <2>2. Worth(fl["worker"], k, w) = 0 /\ Worth(fl["closer"], k, w) = 0
    <3>1. ASSUME NEW p \in Flushers PROVE Worth(fl[p], k, w) = 0
      <4>1. fl[p] \in FlushLocals /\ Len(fl[p].batch) <= fl[p].idx
        BY <1>2 DEF NoFlush
      <4> QED
        BY <4>1, WorthNone
    <3> QED
      BY <3>1 DEF Flushers
  <2>3. InStripe(evicted, k, w) \in Nat
    BY <1>1, StateTypes, OwedTypes
  <2> QED
    BY <2>1, <2>2, <2>3 DEF CountOK, SurplusOf, Surplus
<1> QED
  BY <1>3, <1>4, <1>5 DEF SumInv

\* Every step keeps the balance.
LEMMA NextSum ==
  ASSUME TypeOK, TypeOK', StructInv, BaseInv, SumInv, [Next]_vars PROVE SumInv'
<1> USE DEF local, wake, health, flush, server, history
<1>1. CASE UNCHANGED vars
  BY <1>1, OutsideSum DEF vars
<1>2. CASE Environment
  BY <1>2, EnvironmentSum
<1>3. ASSUME NEW r \in Reqs, Request(r) PROVE SumInv'
  <2>1. CASE AllowNDecide(r)
    BY <2>1, DecideSum
  <2>2. CASE \E k \in Keys, n \in Costs : AllowNReadClock(r, k, n)
    BY <2>2, OutsideSum DEF AllowNReadClock
  <2>3. CASE AllowNEnqueue(r)
    BY <2>3, OutsideSum DEF AllowNEnqueue
  <2>4. CASE AllowNMarkActive(r)
    BY <2>4, OutsideSum DEF AllowNMarkActive
  <2> QED
    BY <1>3, <2>1, <2>2, <2>3, <2>4 DEF Request
<1>4. ASSUME NEW p \in Flushers, FlushStep(p) PROVE SumInv'
  BY <1>4, SnapshotSum, ExecSum, ApplySum, QuietSum DEF FlushStep, QuietStep
<1>5. CASE Worker
  <2>1. CASE WorkerLock
    BY <2>1, LockSum DEF WorkerLock, Flushers
  <2>2. CASE TickShard \/ WorkerRequeue \/ WorkerMarkActive
    BY <2>2, OutsideSum DEF TickShard, WorkerRequeue, WorkerMarkActive
  <2> QED
    BY <1>5, <2>1, <2>2 DEF Worker
<1>6. CASE Closer
  <2>1. CASE CloserLock
    BY <2>1, LockSum DEF CloserLock, Flushers
  <2>2. CASE Deregister \/ DeregisterClear
    BY <2>2, OutsideSum DEF Deregister, DeregisterClear
  <2> QED
    BY <1>6, <2>1, <2>2 DEF Closer
<1> QED
  BY <1>1, <1>2, <1>3, <1>4, <1>5, <1>6 DEF Next

-----------------------------------------------------------------------------
(* The count of a running window.                                           *)

\* What the key's state, its stripe and the two flushes owe is what the replica holds.
LEMMA HeldIsOwed ==
  ASSUME TypeOK, NEW k \in Keys, NEW w \in Windows
  PROVE  Held(k, w) = Left(states[k], w) + InStripe(evicted, k, w)
                      + Worth(fl["worker"], k, w) + Worth(fl["closer"], k, w)
<1> DEFINE b == Left(states[k], w)
           d == InStripe(evicted, k, w)
           cw == Increment(fl["worker"].batch, CarriedIn(fl["worker"]), k, w)
           cc == Increment(fl["closer"].batch, CarriedIn(fl["closer"]), k, w)
           sw == Increment(fl["worker"].batch, SentIn(fl["worker"]), k, w)
           sc == Increment(fl["closer"].batch, SentIn(fl["closer"]), k, w)
<1>1. b \in Nat /\ d \in Nat
  BY StateTypes, OwedTypes
<1>2. fl["worker"].batch \in Seq(PendingFlush) /\ fl["closer"].batch \in Seq(PendingFlush)
  BY StateTypes, LocalsType DEF Flushers
<1>3. cw \in Nat /\ cc \in Nat /\ sw \in Nat /\ sc \in Nat
  BY <1>2, IncrementType
<1>4. Worth(fl["worker"], k, w) = cw - sw /\ Worth(fl["closer"], k, w) = cc - sc
  BY DEF Worth
<1>5. Held(k, w) = b + d + cw + cc - sw - sc
  <2>1. /\ UnsentEvicted("worker") = CarriedIn(fl["worker"])
        /\ UnsentEvicted("closer") = CarriedIn(fl["closer"])
    BY DEF UnsentEvicted, CarriedIn
  <2>2. /\ {i \in UnappliedOk("worker") : ~fl["worker"].batch[i].evicted} = SentIn(fl["worker"])
        /\ {i \in UnappliedOk("closer") : ~fl["closer"].batch[i].evicted} = SentIn(fl["closer"])
    BY Zenon DEF UnappliedOk, SentIn
  <2>3. Unflushed(k, w) = b
    BY DEF Unflushed, Left
  <2>4. Increment(evicted[StripeOf[k]], DOMAIN evicted[StripeOf[k]], k, w) = d
    BY DEF InStripe
  <2>5. Held(k, w) = b + d + Increment(fl["worker"].batch, UnsentEvicted("worker"), k, w)
                       + Increment(fl["closer"].batch, UnsentEvicted("closer"), k, w)
                       - Increment(fl["worker"].batch, {i \in UnappliedOk("worker") :
                                     ~fl["worker"].batch[i].evicted}, k, w)
                       - Increment(fl["closer"].batch, {i \in UnappliedOk("closer") :
                                     ~fl["closer"].batch[i].evicted}, k, w)
    <3> HIDE DEF b, d
    <3> QED
      BY <2>3, <2>4, Zenon DEF Held
  <2> QED
    BY <2>1, <2>2, <2>5, Zenon
<1>6. Held(k, w) = b + d + (cw - sw) + (cc - sc)
  <2> HIDE DEF b, d, cw, cc, sw, sc
  <2> QED
    BY <1>1, <1>3, <1>5
<1> QED
  BY <1>4, <1>6, Zenon

\* The balance of a running window covers its grants.
LEMMA SumCounts == TypeOK /\ SumInv => NoLostCount
<1> SUFFICES ASSUME TypeOK, SumInv, NEW k \in Keys, NEW w \in Windows, Running(w)
             PROVE  admitted[k][w] <= Delivered(k, w) + Held(k, w) + dropped[k][w]
  BY DEF NoLostCount
<1> DEFINE b == Left(states[k], w)
           d == InStripe(evicted, k, w)
           ww == Worth(fl["worker"], k, w)
           wc == Worth(fl["closer"], k, w)
           h == Held(k, w)
           c == redis[k][w]
           o == other[k][w]
           l == dropped[k][w]
           g == admitted[k][w]
<1>1. b \in Nat /\ d \in Nat /\ c \in Nat /\ o \in Nat /\ l \in Nat /\ g \in Nat
  BY StateTypes, OwedTypes DEF Counts
<1>2. ww \in Int /\ wc \in Int
  BY StateTypes, LocalsType, IncrementType DEF Worth, Flushers
<1>3. h = b + d + ww + wc
  BY HeldIsOwed
<1>4. 0 <= c + b + d + ww + l - g - o + wc
  <2>1. Open(now, w)
    BY DEF Running, Open
  <2>2. CountOK(k, w)
    BY <2>1 DEF SumInv
  <2> QED
    BY <2>2 DEF CountOK, SurplusOf, Surplus
<1>5. Delivered(k, w) = c - o
  BY DEF Delivered
<1> HIDE DEF b, d, ww, wc, h, c, o, l, g
<1>6. g <= (c - o) + h + l
  BY <1>1, <1>2, <1>3, <1>4
<1> QED
  BY <1>5, <1>6 DEF h, c, o, l, g

\* As long as a window runs, what Redis counted for this replica (executePipeline
\* adds each entry's delta), what the replica still owes (a state's localDelta, the
\* stripe's evictedPending, the entries of a flush no reply settled) and what the
\* code gives up (a full evictedPending, a replaced state) cover every token that
\* AllowN granted: eviction, rollover, failed and half-applied pipelines, retries
\* and the two flushes running side by side lose nothing else.
THEOREM NoTokenLost == Spec => []NoLostCount
<1>1. Init => BaseInv /\ SumInv
  BY InitBase, InitSum
<1>2. TypeOK /\ StructInv /\ (TypeOK /\ StructInv)' /\ BaseInv /\ SumInv /\ [Next]_vars
        => BaseInv' /\ SumInv'
  BY NextBase, NextSum
<1>3. TypeOK /\ SumInv => NoLostCount
  BY SumCounts
<1> QED
  BY <1>1, <1>2, <1>3, TypeCorrect, PTL DEF Spec

-----------------------------------------------------------------------------
(* Tokens counted once: one replica in one window, no half-applied pipeline. *)

\* Every granted token is in Redis, in its state's delta, or sent and not yet taken
\* off that delta, and in one of them only.
OnceInv ==
    \A k \in Keys :
        redis[k][0] + Left(states[k], 0) + Worth(fl["worker"], k, 0) + Worth(fl["closer"], k, 0)
          = admitted[k][0] + other[k][0]

\* What a step of flush p leaves of that balance.
Balanced(p, k) ==
    redis[k][0] + Left(states[k], 0) + Worth(fl[p], k, 0) + admitted'[k][0] + other'[k][0]
      = redis'[k][0] + Left(states'[k], 0) + Worth(fl'[p], k, 0) + admitted[k][0] + other[k][0]

\* A step of one flush that neither adds nor takes anything keeps the balance.
LEMMA OnceKept ==
  ASSUME TypeOK, TypeOK', OneWindow, OnceInv, NEW p \in Flushers,
         \A q \in Flushers : q # p => fl'[q] = fl[q], \A k \in Keys : Balanced(p, k)
  PROVE  OnceInv'
<1> SUFFICES ASSUME NEW k \in Keys
             PROVE  redis'[k][0] + Left(states'[k], 0) + Worth(fl'["worker"], k, 0)
                      + Worth(fl'["closer"], k, 0) = admitted'[k][0] + other'[k][0]
  BY DEF OnceInv
<1> DEFINE a == redis[k][0]
           b == Left(states[k], 0)
           x == Worth(fl["worker"], k, 0)
           y == Worth(fl["closer"], k, 0)
           g == admitted[k][0]
           o == other[k][0]
           a1 == redis'[k][0]
           b1 == Left(states'[k], 0)
           x1 == Worth(fl'["worker"], k, 0)
           y1 == Worth(fl'["closer"], k, 0)
           g1 == admitted'[k][0]
           o1 == other'[k][0]
<1>0. 0 \in Windows
  BY OnlyWindow
<1>1. a \in Nat /\ b \in Nat /\ x \in Int /\ y \in Int /\ g \in Nat /\ o \in Nat
  BY <1>0, StateTypes, OwedTypes, BalanceTypes DEF Counts, Flushers
<1>2. a1 \in Nat /\ b1 \in Nat /\ x1 \in Int /\ y1 \in Int /\ g1 \in Nat /\ o1 \in Nat
  BY <1>0, NextStateTypes, OwedTypes, BalanceTypes DEF Counts, Flushers
<1>3. a + b + x + y = g + o
  BY DEF OnceInv
<1>4. CASE p = "worker"
  <2>1. y1 = y
    BY <1>4 DEF Flushers
  <2>2. a + b + x + g1 + o1 = a1 + b1 + x1 + g + o
    BY <1>4 DEF Balanced
  <2>3. SUFFICES a1 + b1 + x1 + y1 = g1 + o1
    OBVIOUS
  <2> HIDE DEF a, b, x, y, g, o, a1, b1, x1, y1, g1, o1
  <2> QED
    BY <1>1, <1>2, <1>3, <2>1, <2>2
<1>5. CASE p = "closer"
  <2>1. x1 = x
    BY <1>5 DEF Flushers
  <2>2. a + b + y + g1 + o1 = a1 + b1 + y1 + g + o
    BY <1>5 DEF Balanced
  <2>3. SUFFICES a1 + b1 + x1 + y1 = g1 + o1
    OBVIOUS
  <2> HIDE DEF a, b, x, y, g, o, a1, b1, x1, y1, g1, o1
  <2> QED
    BY <1>1, <1>2, <1>3, <2>1, <2>2
<1> QED
  BY <1>4, <1>5 DEF Flushers

\* A step that leaves the states and the grants alone.
LEMMA BalancedFlush ==
  ASSUME TypeOK, TypeOK', OneWindow, NEW p \in Flushers, NEW k \in Keys,
         UNCHANGED <<states, admitted, other>>,
         redis[k][0] + Worth(fl[p], k, 0) = redis'[k][0] + Worth(fl'[p], k, 0)
  PROVE  Balanced(p, k)
<1> DEFINE a == redis[k][0]
           b == Left(states[k], 0)
           x == Worth(fl[p], k, 0)
           g == admitted[k][0]
           o == other[k][0]
           a1 == redis'[k][0]
           x1 == Worth(fl'[p], k, 0)
<1>0. 0 \in Windows
  BY OnlyWindow
<1>1. a \in Nat /\ b \in Nat /\ x \in Int /\ g \in Nat /\ o \in Nat
  BY <1>0, StateTypes, OwedTypes, BalanceTypes DEF Counts
<1>2. a1 \in Nat /\ x1 \in Int
  BY <1>0, NextStateTypes, BalanceTypes DEF Counts
<1>3. a + x = a1 + x1
  OBVIOUS
<1>4. SUFFICES a + b + x + g + o = a1 + b + x1 + g + o
  BY DEF Balanced
<1> HIDE DEF a, b, x, g, o, a1, x1
<1> QED
  BY <1>1, <1>2, <1>3

\* A step outside the counts.
LEMMA OutsideOnce ==
  ASSUME OnceInv, UNCHANGED <<states, fl, redis, admitted, other>>
  PROVE  OnceInv'
  BY DEF OnceInv

\* What the other replicas count is counted for them; the window does not end.
LEMMA EnvironmentOnce ==
  ASSUME TypeOK, TypeOK', OneWindow, OnceInv, Environment PROVE OnceInv'
<1> USE DEF local, wake, health, flush, server, history
<1>1. CASE AdvanceClock
  BY <1>1, OutsideOnce DEF AdvanceClock
<1>2. CASE RedisToggle
  BY <1>2, OutsideOnce DEF RedisToggle
<1>3. ASSUME NEW k \in Keys, NEW w \in Windows, RedisExpires(k, w) PROVE FALSE
  <2>1. now >= w + Duration /\ w = 0
    BY <1>3, OnlyWindow DEF RedisExpires
  <2> QED
    BY <2>1, LocalAsyncAssumption DEF OneWindow, TypeOK
<1>4. ASSUME NEW x \in Keys, OtherReplica(x) PROVE OnceInv'
  <2>1. /\ UNCHANGED <<states, fl, admitted>>
        /\ redis' = [redis EXCEPT ![x][WindowStart(now)] = @ + 1]
        /\ other' = [other EXCEPT ![x][WindowStart(now)] = @ + 1]
    BY <1>4 DEF OtherReplica
  <2>2. ASSUME NEW k \in Keys PROVE redis'[k][0] + other[k][0] = redis[k][0] + other'[k][0]
    <3>1. redis \in Counts /\ other \in Counts /\ 0 \in Windows
      BY OnlyWindow DEF TypeOK
    <3>2. redis[k][0] \in Nat /\ other[k][0] \in Nat
      BY <3>1 DEF Counts
    <3>3. CASE k = x /\ WindowStart(now) = 0
      <4>1. redis'[k][0] = redis[k][0] + 1 /\ other'[k][0] = other[k][0] + 1
        BY <2>1, <3>1, <3>3 DEF Counts
      <4> QED
        BY <3>2, <4>1
    <3>4. CASE ~(k = x /\ WindowStart(now) = 0)
      <4>1. redis'[k][0] = redis[k][0] /\ other'[k][0] = other[k][0]
        BY <2>1, <3>1, <3>4 DEF Counts
      <4> QED
        BY <3>2, <4>1
    <3> QED
      BY <3>3, <3>4
  <2>3. ASSUME NEW k \in Keys PROVE Balanced("worker", k)
    <3> DEFINE a == redis[k][0]
               b == Left(states[k], 0)
               y == Worth(fl["worker"], k, 0)
               g == admitted[k][0]
               o == other[k][0]
               a1 == redis'[k][0]
               o1 == other'[k][0]
    <3>0. 0 \in Windows
      BY OnlyWindow
    <3>1. a \in Nat /\ b \in Nat /\ y \in Int /\ g \in Nat /\ o \in Nat
      BY <3>0, StateTypes, OwedTypes, BalanceTypes DEF Counts, Flushers
    <3>2. a1 \in Nat /\ o1 \in Nat
      BY <3>0, NextStateTypes DEF Counts
    <3>3. a1 + o = a + o1
      BY <2>2
    <3>4. SUFFICES a + b + y + g + o1 = a1 + b + y + g + o
      BY <2>1 DEF Balanced
    <3> HIDE DEF a, b, y, g, o, a1, o1
    <3> QED
      BY <3>1, <3>2, <3>3
  <2> QED
    BY <2>1, <2>3, OnceKept DEF Flushers
<1> QED
  BY <1>1, <1>2, <1>3, <1>4 DEF Environment

\* A flush starts without entries.
LEMMA LockOnce ==
  ASSUME TypeOK, TypeOK', StructInv, BaseInv, OneWindow, OnceInv, NEW p \in Flushers, LockFlush(p),
         UNCHANGED <<states, redis, admitted, other>>
  PROVE  OnceInv'
<1>0. fl \in [Flushers -> FlushLocals] /\ fl[p] \in FlushLocals /\ fl'[p] \in FlushLocals
  BY StateTypes, NextStateTypes
<1>1. /\ fl'[p].batch = <<>> /\ fl'[p].idx = 0 /\ \A q \in Flushers : q # p => fl'[q] = fl[q]
  BY <1>0 DEF LockFlush, NoFlush
<1>2. fl[p].step = "none"
  BY DEF LockFlush, StructInv, LockInv, Flushers
<1>3. fl[p].batch = <<>> /\ fl[p].idx = 0
  BY <1>2 DEF BaseInv, ShapeOK
<1>4. Len(fl[p].batch) <= fl[p].idx /\ Len(fl'[p].batch) <= fl'[p].idx
  BY <1>1, <1>3
<1>5. ASSUME NEW k \in Keys PROVE Balanced(p, k)
  <2>1. Worth(fl[p], k, 0) = 0 /\ Worth(fl'[p], k, 0) = 0
    BY <1>0, <1>4, WorthNone
  <2> QED
    BY <2>1, BalancedFlush
<1> QED
  BY <1>1, <1>5, OnceKept

\* With no half-applied pipeline, a failed one takes back no reply of a command that
\* Redis executed.
LEMMA RepliesKept ==
  ASSUME TypeOK, TypeOK', StructInv, BaseInv, OneWindow, MaxAmbiguous = 0,
         NEW p \in Flushers, QuietStep(p), fl'[p] # NoFlush
  PROVE  KeepsReplies(fl'[p], fl[p])
<1>0. /\ fl \in [Flushers -> FlushLocals] /\ fl[p] \in FlushLocals /\ fl'[p] \in FlushLocals
      /\ fl[p].idx \in Nat /\ Len(fl[p].res) \in Nat /\ Len(fl'[p].res) \in Nat
  BY StateTypes, NextStateTypes, LocalsType
<1>1. fl'[p].batch = fl[p].batch /\ fl'[p].idx = fl[p].idx
  BY QuietLocals
<1>2. CASE fl'[p].res = fl[p].res
  BY <1>0, <1>1, <1>2 DEF KeepsReplies
<1>3. CASE ExecFails(p)
  <2>1. /\ fl'[p] = [fl[p] EXCEPT !.res = TailFailed(p), !.step = "apply"] /\ fl[p].step = "exec"
        /\ Len(fl[p].res) > fl[p].sent => \A k \in Keys, w \in Windows : redis[k][w] < MaxAmbiguous
    BY <1>0, <1>3 DEF ExecFails
  <2>2. fl'[p].res = TailFailed(p)
    BY <1>0, <2>1 DEF FlushLocals
  <2>3. Len(fl[p].res) <= fl[p].sent
    <3>1. PICK k \in Keys : TRUE
      BY LocalAsyncAssumption
    <3>2. redis[k][0] \in Nat /\ 0 \in Windows
      BY <3>1, StateTypes, OnlyWindow DEF Counts
    <3>3. ~(redis[k][0] < MaxAmbiguous)
      BY <3>2
    <3> QED
      BY <1>0, <2>1, <3>1, <3>2, <3>3, LocalsType DEF FlushLocals
  <2>4. ASSUME NEW i \in 1..Len(fl[p].res)
        PROVE  i \in 1..Len(fl'[p].res) /\ fl'[p].res[i] = fl[p].res[i]
    <3>1. Len(fl[p].res) <= Len(fl[p].batch) /\ Len(fl[p].batch) \in Nat /\ fl[p].sent \in Nat
      BY <1>0, LocalsType DEF BaseInv, ShapeOK, FlushLocals
    <3>2. i \in 1..Len(fl[p].batch) /\ i <= fl[p].sent
      BY <1>0, <2>3, <3>1
    <3>3. TailFailed(p)[i] = fl[p].res[i]
      BY <3>2 DEF TailFailed
    <3>4. DOMAIN TailFailed(p) = 1..Len(fl[p].batch) /\ TailFailed(p) \in Seq(Reply)
      BY <1>0, <2>2, LocalsType DEF TailFailed
    <3>5. Len(TailFailed(p)) = Len(fl[p].batch)
      BY <3>1, <3>4, LenProperties
    <3> QED
      BY <2>2, <3>2, <3>3, <3>5
  <2> QED
    BY <1>0, <1>1, <2>4 DEF KeepsReplies
<1>4. fl'[p].res = fl[p].res \/ ExecFails(p)
  <2>1. CASE SnapshotSpill(p)
    BY <1>0, <2>1 DEF SnapshotSpill, Spill, FlushLocals
  <2>2. CASE SnapshotDone(p)
    BY <1>0, <2>2 DEF SnapshotDone, FlushLocals
  <2>3. CASE ExecChunk(p)
    BY <1>0, <2>3 DEF ExecChunk, FlushLocals
  <2>4. CASE ApplyDone(p)
    BY <1>0, <2>4 DEF ApplyDone, FlushLocals
  <2>5. CASE SnapshotEmpty(p) \/ ExecExpire(p)
    BY <1>0, <2>5 DEF SnapshotEmpty, ExecExpire, Unlock
  <2> QED
    BY <2>1, <2>2, <2>3, <2>4, <2>5 DEF QuietStep
<1> QED
  BY <1>2, <1>3, <1>4

\* A flush between its commands owes what it owed.
LEMMA QuietOnce ==
  ASSUME TypeOK, TypeOK', StructInv, BaseInv, SumInv, OneWindow, MaxAmbiguous = 0, OnceInv,
         NEW p \in Flushers, QuietStep(p)
  PROVE  OnceInv'
<1>0. fl[p] \in FlushLocals /\ fl'[p] \in FlushLocals
  BY StateTypes, NextStateTypes
<1>1. /\ UNCHANGED <<now, states, evicted, redis, admitted, other, dropped>>
      /\ \A q \in Flushers : q # p => fl'[q] = fl[q]
  BY QuietFrame
<1>2. ASSUME NEW k \in Keys PROVE Worth(fl[p], k, 0) = Worth(fl'[p], k, 0)
  <2>1. CASE fl'[p] = NoFlush
    <3>1. Len(fl[p].batch) <= fl[p].idx
      BY <2>1, QuietEnds
    <3>2. Len(fl'[p].batch) <= fl'[p].idx
      BY <2>1 DEF NoFlush
    <3> QED
      BY <1>0, <3>1, <3>2, WorthNone
  <2>2. CASE fl'[p] # NoFlush
    <3>1. /\ fl'[p].batch = fl[p].batch /\ fl'[p].idx = fl[p].idx
          /\ KeepsReplies(fl[p], fl'[p]) /\ KeepsReplies(fl'[p], fl[p])
      BY <2>2, QuietLocals, RepliesKept
    <3>2. Worth(fl[p], k, 0) <= Worth(fl'[p], k, 0) /\ Worth(fl'[p], k, 0) <= Worth(fl[p], k, 0)
      BY <1>0, <3>1, WorthGrows
    <3>3. Worth(fl[p], k, 0) \in Int /\ Worth(fl'[p], k, 0) \in Int
      BY <1>0, BalanceTypes
    <3> QED
      BY <3>2, <3>3
  <2> QED
    BY <2>1, <2>2
<1>3. ASSUME NEW k \in Keys PROVE Balanced(p, k)
  <2>1. redis'[k][0] = redis[k][0] /\ Worth(fl[p], k, 0) = Worth(fl'[p], k, 0)
    BY <1>1, <1>2
  <2> QED
    BY <1>1, <2>1, BalancedFlush
<1> QED
  BY <1>1, <1>3, OnceKept

\* A command of the pipeline moves its tokens from the flush to Redis.
LEMMA ExecOnce ==
  ASSUME TypeOK, TypeOK', BaseInv, OneWindow, OnceInv, NEW p \in Flushers, ExecCommand(p)
  PROVE  OnceInv'
<1>1. PICK n, e, c : ExecEffect(p, n, e, c)
  BY ExecLocals
<1>2. UNCHANGED <<states, admitted, other>> /\ \A q \in Flushers : q # p => fl'[q] = fl[q]
  <2>1. UNCHANGED other
    BY DEF ExecCommand, history
  <2>2. UNCHANGED <<now, states, evicted, admitted>> /\ \A q \in Flushers : q # p => fl'[q] = fl[q]
    BY <1>1, Zenon DEF ExecEffect
  <2> QED
    BY <2>1, <2>2
<1>3. ASSUME NEW k \in Keys PROVE Balanced(p, k)
  <2>1. redis[k][0] + Worth(fl[p], k, 0) = redis'[k][0] + Worth(fl'[p], k, 0)
    BY OnlyWindow, ExecMoves
  <2> QED
    BY <1>2, <2>1, BalancedFlush
<1> QED
  BY <1>2, <1>3, OnceKept

\* Before it sends anything, a flush that carries nothing evicted owes nothing.
LEMMA NothingSent ==
  ASSUME NEW f \in FlushLocals, f.res = <<>>, f.idx = 0, BatchOK(f), NEW k
  PROVE  Worth(f, k, 0) = 0
<1>1. /\ Worth(f, k, 0) = Increment(f.batch, CarriedIn(f), k, 0)
      /\ \A j \in 1..Len(f.batch) : j \in CarriedIn(f) <=> f.batch[j].evicted
  BY WorthUnsent
<1>2. f.batch \in Seq(PendingFlush) /\ \A j \in 1..Len(f.batch) : j \notin CarriedIn(f)
  BY <1>1, LocalsType DEF BatchOK
<1>3. Increment(f.batch, CarriedIn(f), k, 0) = 0
  BY <1>2, IncrementNone
<1> QED
  BY <1>1, <1>3

\* A snapshot copies deltas and takes none.
LEMMA SnapshotOnce ==
  ASSUME TypeOK, TypeOK', BaseInv, LimitInv, LimitInv', OneWindow, OnceInv, NEW p \in Flushers,
         SnapshotStripe(p)
  PROVE  OnceInv'
<1>0. fl[p] \in FlushLocals /\ fl'[p] \in FlushLocals /\ ShapeOK(fl[p])
  BY StateTypes, NextStateTypes DEF BaseInv
<1>1. /\ fl'[p].res = fl[p].res /\ fl'[p].idx = fl[p].idx
      /\ fl[p].step = "snapshot" /\ \A q \in Flushers : q # p => fl'[q] = fl[q]
  BY SnapshotLocals
<1>2. fl[p].res = <<>> /\ fl[p].idx = 0
  BY <1>0, <1>1 DEF ShapeOK
<1>3. BatchOK(fl[p]) /\ BatchOK(fl'[p])
  BY DEF LimitInv
<1>4. UNCHANGED <<redis, admitted, other>> /\ states' = states
  <2>1. /\ states' = Remove(states, ExpiredStates(states, StripeAt(fl[p].i), fl[p].now))
        /\ UNCHANGED <<redis, admitted, other>>
    BY DEF SnapshotStripe, server, history
  <2>2. fl[p].now \in 0..MaxTime
    BY <1>0, LocalsType
  <2>3. states' = Remove(states, {})
    BY <2>1, <2>2, NothingExpires
  <2>4. states' = states
    BY <2>3, StateTypes DEF Remove, StateTable
  <2> QED
    BY <2>1, <2>4
<1>5. ASSUME NEW k \in Keys PROVE Balanced(p, k)
  <2>1. Worth(fl[p], k, 0) = 0 /\ Worth(fl'[p], k, 0) = 0
    BY <1>0, <1>1, <1>2, <1>3, NothingSent
  <2> QED
    BY <1>4, <2>1, BalancedFlush
<1> QED
  BY <1>1, <1>5, OnceKept

\* Applying an acknowledged entry takes it off the delta of its state; any other
\* entry leaves its tokens where they are.
LEMMA ApplyOnce ==
  ASSUME TypeOK, TypeOK', StructInv, BaseInv, LimitInv, OneWindow, OnceInv, NEW p \in Flushers,
         ApplyEntry(p)
  PROVE  OnceInv'
<1>0. /\ fl[p] \in FlushLocals /\ fl'[p] \in FlushLocals /\ states \in StateTable
      /\ fl[p].idx \in Nat /\ 0 \in Windows
  BY StateTypes, NextStateTypes, LocalsType, OnlyWindow
<1>1. PICK i, e, c : ApplyEffect(p, i, e, c)
  BY ApplyLocals
<1>a. /\ i = fl[p].idx + 1 /\ e = fl[p].batch[i] /\ i \in 1..Len(fl[p].batch)
      /\ e.key \in Keys /\ e.ws \in Windows /\ e.flushN \in Nat
  BY <1>1, Zenon DEF ApplyEffect
<1>b. UNCHANGED <<now, redis, admitted>> /\ \A q \in Flushers : q # p => fl'[q] = fl[q]
  BY <1>1, Zenon DEF ApplyEffect
<1>c. \/ states' = states /\ (~fl[p].res[i].ok \/ states[e.key].windowStart # e.ws)
      \/ /\ fl[p].res[i].ok /\ states[e.key].windowStart = e.ws
         /\ states' = [states EXCEPT ![e.key] = Reconciled(states[e.key], e, c)]
  BY <1>1, Zenon DEF ApplyEffect
<1>2. UNCHANGED other
  BY <1>a, ApplySettles
<1>3. ~e.evicted
  BY <1>a DEF LimitInv, BatchOK
<1>4. states[e.key].windowStart = e.ws /\ e.flushN <= states[e.key].localDelta /\ e.ws = 0
  <2>1. i > fl[p].idx /\ EntryOK(states, admitted, fl[p], i)
    BY <1>0, <1>a DEF LimitInv, EntriesOK
  <2> QED
    BY <1>a, <2>1, OnlyWindow DEF EntryOK
<1>5. ASSUME NEW k \in Keys
      PROVE  /\ fl[p].res[i].ok => Worth(fl'[p], k, 0) = Worth(fl[p], k, 0) + Amount(e, k, 0)
             /\ ~fl[p].res[i].ok => Worth(fl'[p], k, 0) = Worth(fl[p], k, 0)
  BY <1>1, <1>3, ApplyWorth
<1>6. ASSUME NEW k \in Keys
      PROVE  /\ fl[p].res[i].ok => Left(states'[k], 0) + Amount(e, k, 0) = Left(states[k], 0)
             /\ ~fl[p].res[i].ok => states'[k] = states[k]
  <2>1. CASE ~fl[p].res[i].ok
    BY <1>c, <2>1
  <2>2. CASE fl[p].res[i].ok
    <3>1. states' = [states EXCEPT ![e.key] = Reconciled(states[e.key], e, c)]
      BY <1>4, <1>c, <2>2
    <3>2. CASE k # e.key
      <4>1. states'[k] = states[k] /\ Amount(e, k, 0) = 0
        BY <1>0, <3>1, <3>2 DEF StateTable, Amount
      <4>2. Left(states[k], 0) \in Nat
        BY <1>0, StateTypes, OwedTypes
      <4> QED
        BY <2>2, <4>1, <4>2
    <3>3. CASE k = e.key
      <4>1. states'[k] = Reconciled(states[k], e, c) /\ Amount(e, k, 0) = e.flushN
        BY <1>0, <1>4, <3>1, <3>3 DEF StateTable, Amount
      <4>2. states[k] \in LocalState /\ states[k].localDelta \in Nat
        <5>1. states[k] \in LocalState
          BY <1>0, <1>4, <1>a, <3>3, TableType
        <5> QED
          BY <5>1 DEF LocalState
      <4>3. /\ states'[k].windowStart = 0 /\ states[k].windowStart = 0
            /\ states'[k].localDelta = MaxOf(states[k].localDelta - e.flushN, 0)
        BY <1>3, <1>4, <3>3, <4>1, <4>2 DEF Reconciled, LocalState
      <4>4. MaxOf(states[k].localDelta - e.flushN, 0) = states[k].localDelta - e.flushN
        <5>1. \A x, y \in Nat : y <= x => MaxOf(x - y, 0) = x - y
          BY DEF MaxOf
        <5> QED
          BY <1>4, <1>a, <3>3, <4>2, <5>1
      <4>5. Left(states'[k], 0) = states[k].localDelta - e.flushN /\ Left(states[k], 0) = states[k].localDelta
        BY <4>3, <4>4 DEF Left
      <4> QED
        BY <1>a, <2>2, <4>1, <4>2, <4>5
    <3> QED
      BY <3>2, <3>3
  <2> QED
    BY <2>1, <2>2
<1>7. ASSUME NEW k \in Keys PROVE Balanced(p, k)
  <2> DEFINE a == redis[k][0]
             b == Left(states[k], 0)
             x == Worth(fl[p], k, 0)
             g == admitted[k][0]
             o == other[k][0]
             m == Amount(e, k, 0)
             b1 == Left(states'[k], 0)
             x1 == Worth(fl'[p], k, 0)
  <2>1. a \in Nat /\ b \in Nat /\ x \in Int /\ g \in Nat /\ o \in Nat /\ m \in Nat
    BY <1>0, <1>a, StateTypes, OwedTypes, BalanceTypes DEF Counts, Amount
  <2>2. b1 \in Nat /\ x1 \in Int
    BY <1>0, NextStateTypes, OwedTypes, BalanceTypes
  <2>3. b + x = b1 + x1
    <3>1. CASE fl[p].res[i].ok
      <4>1. b1 + m = b /\ x1 = x + m
        BY <1>5, <1>6, <3>1
      <4> HIDE DEF b, x, m, b1, x1
      <4> QED
        BY <2>1, <2>2, <4>1
    <3>2. CASE ~fl[p].res[i].ok
      BY <1>5, <1>6, <3>2
    <3> QED
      BY <3>1, <3>2
  <2>4. SUFFICES a + b + x + g + o = a + b1 + x1 + g + o
    BY <1>2, <1>b DEF Balanced
  <2> HIDE DEF a, b, x, g, o, m, b1, x1
  <2> QED
    BY <2>1, <2>2, <2>3
<1> QED
  BY <1>7, <1>b, OnceKept

\* AllowN adds to a delta exactly what it grants.
LEMMA DecideOnce ==
  ASSUME TypeOK, TypeOK', OneWindow, RoomForAll, LimitInv, OnceInv, NEW r \in Reqs, AllowNDecide(r)
  PROVE  OnceInv'
<1> USE DEF local, wake, health, flush, server, history
<1>1. PICK k, n : Decides(k, n)
  BY DecideEffect
<1>2. UNCHANGED <<fl, redis, other>>
  BY DEF AllowNDecide
<1>3. /\ k \in Keys /\ n \in Nat
      /\ \A x \in Keys : x # k => states'[x] = states[x] /\ admitted'[x][0] = admitted[x][0]
      /\ states'[k].windowStart = 0
      /\ \/ states'[k].localDelta = states[k].localDelta + n /\ admitted'[k][0] = admitted[k][0] + n
         \/ states'[k].localDelta = states[k].localDelta /\ admitted'[k][0] = admitted[k][0]
  BY <1>1, Zenon DEF Decides
<1>4. ASSUME NEW x \in Keys
      PROVE  Left(states[x], 0) + admitted'[x][0] = Left(states'[x], 0) + admitted[x][0]
  <2>1. admitted[x][0] \in Nat /\ states[x].localDelta \in Nat /\ 0 \in Windows
    BY OnlyWindow, LimitTypes
  <2>2. CASE x # k
    BY <1>3, <2>2
  <2>3. CASE x = k
    <3>1. Left(states[k], 0) = states[k].localDelta
      <4>1. CASE states[k] = NoState
        BY <4>1 DEF NoState, Left
      <4>2. CASE states[k] # NoState
        BY <1>3, <4>2, LimitTypes DEF Left
      <4> QED
        BY <4>1, <4>2
    <3>2. Left(states'[k], 0) = states'[k].localDelta
      BY <1>3 DEF Left
    <3> QED
      BY <1>3, <2>1, <2>3, <3>1, <3>2
  <2> QED
    BY <2>2, <2>3
<1>5. ASSUME NEW x \in Keys PROVE Balanced("worker", x)
  <2> DEFINE a == redis[x][0]
             b == Left(states[x], 0)
             y == Worth(fl["worker"], x, 0)
             g == admitted[x][0]
             o == other[x][0]
             b1 == Left(states'[x], 0)
             g1 == admitted'[x][0]
  <2>0. 0 \in Windows
    BY OnlyWindow
  <2>1. a \in Nat /\ b \in Nat /\ y \in Int /\ g \in Nat /\ o \in Nat
    BY <2>0, StateTypes, OwedTypes, BalanceTypes DEF Counts, Flushers
  <2>2. b1 \in Nat /\ g1 \in Nat
    BY <2>0, NextStateTypes, OwedTypes DEF Counts
  <2>3. b + g1 = b1 + g
    BY <1>4
  <2>4. SUFFICES a + b + y + g1 + o = a + b1 + y + g + o
    BY <1>2 DEF Balanced
  <2> HIDE DEF a, b, y, g, o, b1, g1
  <2> QED
    BY <2>1, <2>2, <2>3
<1> QED
  BY <1>2, <1>5, OnceKept DEF Flushers

\* Nothing is granted, sent or counted initially.
LEMMA InitOnce == ASSUME OneWindow, Init PROVE OnceInv
<1> SUFFICES ASSUME NEW k \in Keys
             PROVE  redis[k][0] + Left(states[k], 0) + Worth(fl["worker"], k, 0)
                      + Worth(fl["closer"], k, 0) = admitted[k][0] + other[k][0]
  BY DEF OnceInv
<1>1. TypeOK /\ 0 \in Windows
  BY InitOK, OnlyWindow
<1>2. ASSUME NEW p \in Flushers PROVE Worth(fl[p], k, 0) = 0
  <2>1. fl[p] = NoFlush /\ fl[p] \in FlushLocals
    BY <1>1, StateTypes DEF Init
  <2>2. fl[p] \in FlushLocals /\ Len(fl[p].batch) <= fl[p].idx
    BY <2>1 DEF NoFlush
  <2> QED
    BY <2>2, WorthNone
<1>3. redis[k][0] = 0 /\ admitted[k][0] = 0 /\ other[k][0] = 0 /\ Left(states[k], 0) = 0
  BY <1>1 DEF Init, NoState, Left
<1>4. Worth(fl["worker"], k, 0) = 0 /\ Worth(fl["closer"], k, 0) = 0
  BY <1>2 DEF Flushers
<1> QED
  BY <1>3, <1>4

\* Every step keeps the tokens counted once.
LEMMA NextOnce ==
  ASSUME TypeOK, TypeOK', StructInv, BaseInv, SumInv, OneWindow, RoomForAll, MaxAmbiguous = 0,
         LimitInv, LimitInv', OnceInv, [Next]_vars
  PROVE  OnceInv'
<1> USE DEF local, wake, health, flush, server, history
<1>1. CASE UNCHANGED vars
  BY <1>1, OutsideOnce DEF vars
<1>2. CASE Environment
  BY <1>2, EnvironmentOnce
<1>3. ASSUME NEW r \in Reqs, Request(r) PROVE OnceInv'
  <2>1. CASE AllowNDecide(r)
    BY <2>1, DecideOnce
  <2>2. CASE \E k \in Keys, n \in Costs : AllowNReadClock(r, k, n)
    BY <2>2, OutsideOnce DEF AllowNReadClock
  <2>3. CASE AllowNEnqueue(r)
    BY <2>3, OutsideOnce DEF AllowNEnqueue
  <2>4. CASE AllowNMarkActive(r)
    BY <2>4, OutsideOnce DEF AllowNMarkActive
  <2> QED
    BY <1>3, <2>1, <2>2, <2>3, <2>4 DEF Request
<1>4. ASSUME NEW p \in Flushers, FlushStep(p) PROVE OnceInv'
  BY <1>4, SnapshotOnce, ExecOnce, ApplyOnce, QuietOnce DEF FlushStep, QuietStep
<1>5. CASE Worker
  <2>1. CASE WorkerLock
    BY <2>1, LockOnce DEF WorkerLock, Flushers
  <2>2. CASE TickShard \/ WorkerRequeue \/ WorkerMarkActive
    BY <2>2, OutsideOnce DEF TickShard, WorkerRequeue, WorkerMarkActive
  <2> QED
    BY <1>5, <2>1, <2>2 DEF Worker
<1>6. CASE Closer
  <2>1. CASE CloserLock
    BY <2>1, LockOnce DEF CloserLock, Flushers
  <2>2. CASE Deregister \/ DeregisterClear
    BY <2>2, OutsideOnce DEF Deregister, DeregisterClear
  <2> QED
    BY <1>6, <2>1, <2>2 DEF Closer
<1> QED
  BY <1>1, <1>2, <1>3, <1>4, <1>5, <1>6 DEF Next

\* The balance is what the property counts.
LEMMA OnceCounts == ASSUME OneWindow, TypeOK, LimitInv, OnceInv PROVE CountedOnce
<1> SUFFICES ASSUME NEW k \in Keys, NEW w \in Windows
             PROVE  admitted[k][w] = Delivered(k, w) + Held(k, w)
  BY DEF CountedOnce
<1> DEFINE a == redis[k][0]
           b == Left(states[k], 0)
           d == InStripe(evicted, k, 0)
           x == Worth(fl["worker"], k, 0)
           y == Worth(fl["closer"], k, 0)
           g == admitted[k][0]
           o == other[k][0]
<1>1. w = 0
  BY OnlyWindow
<1>2. a \in Nat /\ b \in Nat /\ x \in Int /\ y \in Int /\ g \in Nat /\ o \in Nat
  BY <1>1, StateTypes, OwedTypes, BalanceTypes DEF Counts, Flushers
<1>3. d = 0
  <2>1. evicted[StripeOf[k]] = <<>> /\ <<>> \in Seq(PendingFlush)
    BY LocalAsyncAssumption DEF LimitInv, StripeIds
  <2>2. \A j \in 1..Len(<<>>) : j \notin DOMAIN <<>>
    OBVIOUS
  <2>3. Increment(<<>>, DOMAIN <<>>, k, 0) = 0
    BY <2>1, <2>2, IncrementNone
  <2> QED
    BY <2>1, <2>3 DEF InStripe
<1>4. a + b + x + y = g + o
  BY DEF OnceInv
<1>5. Held(k, 0) = b + d + x + y
  BY <1>1, HeldIsOwed
<1>6. Held(k, 0) = b + x + y
  <2> HIDE DEF b, d, x, y
  <2> QED
    BY <1>2, <1>3, <1>5
<1>7. Delivered(k, 0) = a - o
  BY DEF Delivered
<1>8. g = (a - o) + (b + x + y)
  <2> HIDE DEF a, b, x, y, g, o
  <2> QED
    BY <1>2, <1>4
<1> QED
  BY <1>1, <1>6, <1>7, <1>8

\* In one window whose keys are never evicted, and while no pipeline fails half-way,
\* every token AllowN granted is counted exactly once: in Redis, in the localDelta of
\* its state, or on its way from one to the other.  A chunk that fails is sent again
\* without counting twice, and a reply is taken off a delta once, whoever flushes.
THEOREM EachTokenOnce ==
  ASSUME OneWindow, RoomForAll, MaxAmbiguous = 0
  PROVE  Spec => []CountedOnce
<1> DEFINE Inv == BaseInv /\ SumInv /\ LimitInv /\ OnceInv
<1>1. Init => Inv
  BY InitBase, InitSum, InitLimit, InitOnce
<1>2. TypeOK /\ StructInv /\ (TypeOK /\ StructInv)' /\ Inv /\ [Next]_vars => Inv'
  <2> SUFFICES ASSUME TypeOK, TypeOK', StructInv, BaseInv, SumInv, LimitInv, OnceInv, [Next]_vars
               PROVE  BaseInv' /\ SumInv' /\ LimitInv' /\ OnceInv'
    OBVIOUS
  <2>1. BaseInv' /\ SumInv' /\ LimitInv'
    BY NextBase, NextSum, NextLimit
  <2>2. OnceInv'
    BY <2>1, NextOnce
  <2> QED
    BY <2>1, <2>2
<1>3. TypeOK /\ Inv => CountedOnce
  BY OnceCounts
<1> QED
  BY <1>1, <1>2, <1>3, TypeCorrect, PTL DEF Spec

=============================================================================
