---------------------------- MODULE MessageProofs ----------------------------
(***************************************************************************)
(* Proofs about ModelRouting and SemanticCache.  A model that failed rests,*)
(* for rotations of any length and any number of concurrent requests; a    *)
(* request reaches the upstream with the model and the provider of its     *)
(* target, and the cost of an answer is charged to the budget of its       *)
(* model.  For any configurations, requests, responses and replies, and    *)
(* any number of calls at the same time: what is answered from the cache   *)
(* is due to the caller who asks.                                          *)
(***************************************************************************)
EXTENDS ModelRouting, SemanticCache, FiniteSetTheorems, SequenceTheorems, WellFoundedInduction, TLAPS

(***************************************************************************)
(* ModelRouting                                                            *)
(***************************************************************************)
Fields == {"phase", "pos", "msg", "model", "upstream", "routing", "selected", "at", "rested",
           "budget", "charged", "billed", "cost", "answer"}

\* A request has its fields and stands at a policy of the chain.
RequestOK(q) == DOMAIN q = Fields /\ q.pos \in DOMAIN chain /\ q.rested

\* A suspension says when the target last failed, or the failure is long over.
RestOK(until, failed, pause) ==
    /\ until \in Int /\ failed \in Int
    /\ until = failed + pause \/ (until <= now /\ failed + pause <= now)
    /\ pause = 0 => until <= now

RotationOK(p) ==
    /\ index[p] \in 0 .. Len(chain[p].models) - 1
    /\ DOMAIN suspended[p] = Targets(chain[p]) /\ DOMAIN lastFail[p] = Targets(chain[p])
    /\ \A t \in Targets(chain[p]) : RestOK(suspended[p][t], lastFail[p][t], chain[p].suspendDuration)

ChainOK ==
    /\ DOMAIN chain = 1 .. Len(chain) /\ Len(chain) \in Nat \ {0}
    /\ \A p \in DOMAIN chain : chain[p].kind = "rotation" =>
         /\ chain[p].models \in Seq(Targets(chain[p])) /\ Len(chain[p].models) > 0
         /\ chain[p].suspendDuration \in Nat

RestInv ==
    /\ ChainOK /\ now \in Nat
    /\ DOMAIN index = DOMAIN chain /\ DOMAIN suspended = DOMAIN chain /\ DOMAIN lastFail = DOMAIN chain
    /\ \A p \in DOMAIN chain : chain[p].kind = "rotation" => RotationOK(p)
    /\ DOMAIN req = Requests /\ \A r \in Requests : RequestOK(req[r])

-----------------------------------------------------------------------------
(* Requests.                                                                *)

\* The next policy is one of the chain.
LEMMA NextPosOK ==
  ASSUME ChainOK, NEW q, RequestOK(q), NEW after
  PROVE  RequestOK(NextPos(q, after))
<1>1. CASE q.pos < Len(chain)
  <2>1. NextPos(q, after) = [q EXCEPT !.pos = q.pos + 1]
    BY <1>1 DEF NextPos
  <2>2. q.pos + 1 \in DOMAIN chain
    BY <1>1 DEF ChainOK, RequestOK
  <2> QED
    BY <2>1, <2>2 DEF RequestOK, Fields
<1>2. CASE ~(q.pos < Len(chain))
  <2>1. NextPos(q, after) = [q EXCEPT !.pos = 1, !.phase = after]
    BY <1>2 DEF NextPos
  <2>2. 1 \in DOMAIN chain
    BY DEF ChainOK
  <2> QED
    BY <2>1, <2>2 DEF RequestOK, Fields
<1> QED
  BY <1>1, <1>2

\* Requests step one at a time.
Moves(r) == \E q : RequestOK(q) /\ req' = [req EXCEPT ![r] = q]

\* A request goes on, is refused, or is forwarded.
LEMMA PassMoves ==
  ASSUME RestInv, NEW r \in Requests, Pass(r)
  PROVE  Moves(r)
<1>1. RequestOK(NextPos(req[r], After(req[r].phase)))
  BY NextPosOK DEF RestInv
<1>2. req' = [req EXCEPT ![r] = NextPos(req[r], After(req[r].phase))]
  BY DEF Pass, RestInv
<1> QED
  BY <1>1, <1>2 DEF Moves

\* A request turned away by a policy.
LEMMA RefuseMoves ==
  ASSUME RestInv, NEW r \in Requests, NEW status, Refuse(r, status)
  PROVE  Moves(r)
<1> DEFINE q == [req[r] EXCEPT !.phase = "refused", !.answer = status]
<1>1. RequestOK(q)
  BY DEF RestInv, RequestOK, Fields
<1>2. req' = [req EXCEPT ![r] = q]
  BY DEF Refuse, RestInv
<1> QED
  BY <1>1, <1>2 DEF Moves

\* A request sent on to a target.
LEMMA ForwardMoves ==
  ASSUME RestInv, NEW r \in Requests, NEW t, NEW written, NEW b, Forward(r, t, written, b)
  PROVE  Moves(r)
<1> DEFINE provider == IF t.provider # "" THEN t.provider ELSE req[r].upstream
           routing == IF t.provider # "" THEN t.provider ELSE IF Here(r).kind = "cost" THEN "" ELSE req[r].routing
           q == [req[r] EXCEPT !.model = IF written THEN t.model ELSE req[r].model, !.upstream = provider,
                               !.routing = routing, !.selected[req[r].pos] = t, !.budget[req[r].pos] = b, !.at = now]
           s == NextPos(q, After(req[r].phase))
<1>1. RequestOK(q)
  BY DEF RestInv, RequestOK, Fields
<1>2. RequestOK(s)
  <2> HIDE DEF q
  <2> QED
    BY <1>1, NextPosOK DEF RestInv
<1>3. req' = [req EXCEPT ![r] = s]
  BY DEF Forward, RestInv
<1> QED
  BY <1>2, <1>3 DEF Moves

\* Whatever fields of a request are set, it goes on.
LEMMA GoesOn ==
  ASSUME RestInv, NEW r \in Requests, NEW q, NEW after,
         DOMAIN q = Fields, q.pos = req[r].pos, q.rested,
         req' = [req EXCEPT ![r] = NextPos(q, after)]
  PROVE  Moves(r)
<1>1. RequestOK(q)
  BY DEF RestInv, RequestOK
<1>2. RequestOK(NextPos(q, after))
  BY <1>1, NextPosOK DEF RestInv
<1> QED
  BY <1>2 DEF Moves

Still == UNCHANGED <<chain, now, index, suspended, lastFail>>

\* The handlers of a rotation that leave its suspensions alone.
LEMMA RotationBodyMoves ==
  ASSUME RestInv, NEW r \in Requests, RotationOnRequestBody(r)
  PROVE  Moves(r) /\ Still
<1>1. Still
  BY DEF RotationOnRequestBody, Still
<1>2. CASE Pass(r) \/ Refuse(r, 400)
  BY <1>1, <1>2, PassMoves, RefuseMoves
<1>3. CASE ~(Pass(r) \/ Refuse(r, 400))
  <2> DEFINE q == [req[r] EXCEPT !.model = req[r].selected[req[r].pos].model]
  <2>1. req' = [req EXCEPT ![r] = NextPos(q, "upstream")]
    BY <1>3 DEF RotationOnRequestBody, RestInv
  <2>2. DOMAIN q = Fields /\ q.pos = req[r].pos /\ q.rested
    BY DEF RestInv, RequestOK, Fields
  <2> HIDE DEF q
  <2>3. Moves(r)
    BY <2>1, <2>2, GoesOn
  <2> QED
    BY <1>1, <2>3
<1> QED
  BY <1>2, <1>3

\* The handlers of cost-based routing.
LEMMA CostMoves ==
  ASSUME RestInv, NEW r \in Requests,
         (\E errs : CostOnRequest(r, errs)) \/ \E err \in BOOLEAN : ChargeOnce(r, err)
  PROVE  Moves(r) /\ Still
<1>1. ASSUME NEW errs, CostOnRequest(r, errs) PROVE Moves(r) /\ Still
  <2> DEFINE pick == CheckBudget(r, SelectTarget(Here(r), req[r].msg.model), errs)
  <2>1. Still
    BY <1>1 DEF CostOnRequest, Still
  <2>2. \/ Pass(r) \/ Refuse(r, 400) \/ Refuse(r, pick.status)
        \/ Forward(r, pick.target, TRUE, pick.budget)
    BY <1>1, Zenon DEF CostOnRequest
  <2> HIDE DEF pick
  <2>3. Moves(r)
    BY <2>2, PassMoves, RefuseMoves, ForwardMoves
  <2> QED
    BY <2>1, <2>3
<1>2. ASSUME NEW err \in BOOLEAN, ChargeOnce(r, err) PROVE Moves(r) /\ Still
  <2> DEFINE claim == ~req[r].charged /\ req[r].budget[req[r].pos] # 0
             lost == \/ err
                     \/ /\ Here(r).backend # "memory"
                        /\ spent[req[r].pos][req[r].budget[req[r].pos]] + ScaleCost(req[r].cost, Here(r).scale) > MaxScaled
             q == IF claim THEN [req[r] EXCEPT !.charged = TRUE, !.billed = ~lost] ELSE req[r]
  <2>1. Still
    BY <1>2 DEF ChargeOnce, Still
  <2>2. req' = [req EXCEPT ![r] = NextPos(q, "done")]
    BY <1>2 DEF ChargeOnce, RestInv
  <2>3. DOMAIN q = Fields /\ q.pos = req[r].pos /\ q.rested
    BY DEF RestInv, RequestOK, Fields
  <2> HIDE DEF q
  <2>4. Moves(r)
    BY <2>2, <2>3, GoesOn
  <2> QED
    BY <2>1, <2>4
<1> QED
  BY <1>1, <1>2

\* The classifiers.
LEMMA ClassifierMoves ==
  ASSUME RestInv, NEW r \in Requests, NEW reply,
         SemanticOnRequestBody(r, reply) \/ IntelligentOnRequestBody(r, reply) \/ JevOnRequestBody(r, reply)
  PROVE  Moves(r) /\ Still
<1>1. Still
  BY DEF SemanticOnRequestBody, IntelligentOnRequestBody, JevOnRequestBody, Still
<1>2. \E t : ModifyRequestModel(r, t)
  BY Zenon DEF SemanticOnRequestBody, IntelligentOnRequestBody, JevOnRequestBody
<1>3. \E t : Pass(r) \/ Forward(r, t, TRUE, 0)
  BY <1>2, Zenon DEF ModifyRequestModel
<1> QED
  BY <1>1, <1>3, PassMoves, ForwardMoves

\* time-based-model-routing.
LEMMA TimeMoves ==
  ASSUME RestInv, NEW r \in Requests, TimeOnRequestBody(r)
  PROVE  Moves(r) /\ Still
<1> DEFINE t == SelectScheduled(Here(r), now % (DaysPerWeek * MinutesPerDay))
           q == [req[r] EXCEPT !.at = now]
<1>1. Still
  BY DEF TimeOnRequestBody, Still
<1>2. \/ req' = [req EXCEPT ![r] = NextPos([@ EXCEPT !.at = now], "upstream")]
      \/ Refuse(r, 400) \/ Forward(r, t, TRUE, 0)
  BY Zenon DEF TimeOnRequestBody
<1>3. DOMAIN q = Fields /\ q.pos = req[r].pos /\ q.rested
  BY DEF RestInv, RequestOK, Fields
<1>4. \/ req' = [req EXCEPT ![r] = NextPos(q, "upstream")]
      \/ Refuse(r, 400) \/ Forward(r, t, TRUE, 0)
  <2> HIDE DEF t
  <2> QED
    BY <1>2 DEF RestInv
<1> HIDE DEF t, q
<1>5. Moves(r)
  BY <1>3, <1>4, GoesOn, RefuseMoves, ForwardMoves
<1> QED
  BY <1>1, <1>5

\* llm-header-router, and the policies without a handler.
LEMMA HeaderMoves ==
  ASSUME RestInv, NEW r \in Requests, HeaderOnRequest(r) \/ NoHandler(r)
  PROVE  Moves(r) /\ Still
<1> DEFINE provider == SelectProvider(Here(r), req[r].msg.header)
<1>1. Still
  BY DEF HeaderOnRequest, NoHandler, Still
<1>2. CASE Pass(r)
  BY <1>1, <1>2, PassMoves
<1>3. CASE HeaderOnRequest(r) /\ ~Pass(r)
  <2> HIDE DEF provider
  <2> DEFINE upstream == IF provider # "" /\ req[r].phase = "headers" THEN provider ELSE req[r].upstream
             q == [req[r] EXCEPT !.routing = provider, !.upstream = upstream]
  <2>1. req' = [req EXCEPT ![r] = NextPos(q, After(req[r].phase))]
    BY <1>3 DEF HeaderOnRequest, provider
  <2>2. DOMAIN q = Fields /\ q.pos = req[r].pos /\ q.rested
    BY DEF RestInv, RequestOK, Fields
  <2> HIDE DEF q
  <2>3. Moves(r)
    BY <2>1, <2>2, GoesOn
  <2> QED
    BY <1>1, <2>3
<1> QED
  BY <1>2, <1>3 DEF NoHandler

\* A request arrives, and the upstream answers it.
LEMMA EngineMoves ==
  ASSUME RestInv, NEW r \in Requests,
         (\E m : Arrive(r, m)) \/ \E s, c : Upstream(r, s, c)
  PROVE  Moves(r) /\ Still
<1>1. Still
  BY DEF Arrive, Upstream, Still
<1>2. ASSUME NEW m, Arrive(r, m) PROVE Moves(r)
  <2> DEFINE q == [req[r] EXCEPT !.phase = "headers", !.msg = m, !.model = m.model]
  <2>1. req' = [req EXCEPT ![r] = q]
    BY <1>2 DEF Arrive, RestInv
  <2>2. RequestOK(q)
    BY DEF RestInv, RequestOK, Fields
  <2> QED
    BY <2>1, <2>2 DEF Moves
<1>3. ASSUME NEW s, NEW c, Upstream(r, s, c) PROVE Moves(r)
  <2> DEFINE q == [req[r] EXCEPT !.phase = "response", !.answer = s, !.cost = c]
  <2>1. req' = [req EXCEPT ![r] = q]
    BY <1>3 DEF Upstream, RestInv
  <2>2. RequestOK(q)
    BY DEF RestInv, RequestOK, Fields
  <2> QED
    BY <2>1, <2>2 DEF Moves
<1> QED
  BY <1>1, <1>2, <1>3

\* They preserve the invariant.
LEMMA StillKeeps ==
  ASSUME RestInv, NEW r \in Requests, Moves(r), Still
  PROVE  RestInv'
<1>1. PICK q : RequestOK(q) /\ req' = [req EXCEPT ![r] = q]
  BY DEF Moves
<1>2. DOMAIN req' = Requests /\ \A x \in Requests : RequestOK(req'[x])
  BY <1>1 DEF RestInv
<1>3. \A x \in Requests : RequestOK(req[x])'
  BY <1>2 DEF Still, RequestOK
<1>4. ChainOK'
  BY DEF RestInv, Still, ChainOK, Targets
<1>5. ASSUME NEW p \in DOMAIN chain, RotationOK(p) PROVE RotationOK(p)'
  BY <1>5 DEF Still, RotationOK, RestOK, Targets
<1>6. /\ now' = now /\ chain' = chain /\ index' = index /\ suspended' = suspended /\ lastFail' = lastFail
  BY DEF Still
<1> QED
  BY <1>2, <1>3, <1>4, <1>5, <1>6 DEF RestInv

-----------------------------------------------------------------------------
(* Rotations.                                                               *)

\* A set of naturals up to n that has a member has a least one.
LEMMA LeastMember ==
  ASSUME NEW n \in Nat, NEW S \in SUBSET (0 .. n), S # {}
  PROVE  \E x \in S : \A y \in S : x <= y
<1> DEFINE U == 0 .. n
           Below == {0 .. x : x \in S}
<1>1. Below \subseteq FiniteSubsetsOf(U) /\ Below # {}
  <2>1. \A x \in S : 0 .. x \subseteq U /\ IsFiniteSet(0 .. x)
    BY FS_Interval
  <2> QED
    BY <2>1 DEF FiniteSubsetsOf
<1>2. PICK W \in Below : \A V \in Below : <<V, W>> \notin StrictSubsetOrdering(U)
  <2> HIDE DEF Below, U
  <2> QED
    BY <1>1, WFMin, FS_StrictSubsetOrderingWellFounded
<1>3. PICK x \in S : W = 0 .. x
  OBVIOUS
<1>4. ASSUME NEW y \in S, y < x PROVE FALSE
  <2>1. 0 .. y \in Below /\ 0 .. y \subseteq U /\ W \subseteq U
    BY <1>3
  <2>2. 0 .. y \subseteq W /\ x \in W /\ x \notin 0 .. y
    BY <1>3, <1>4
  <2>3. <<0 .. y, W>> \in StrictSubsetOrdering(U)
    <3>1. 0 .. y \subseteq W /\ 0 .. y # W
      BY <2>2
    <3> HIDE DEF U
    <3> QED
      BY <2>1, <3>1 DEF StrictSubsetOrdering
  <2> QED
    BY <1>2, <2>1, <2>3
<1> QED
  BY <1>4

\* The position k steps on from index, and the k that leads to a position.
LEMMA Around ==
  ASSUME NEW n \in Nat \ {0}, NEW i \in 0 .. n - 1
  PROVE  /\ \A k \in 0 .. n - 1 : (i + k) % n \in 0 .. n - 1
         /\ \A j \in 0 .. n - 1 : \E k \in 0 .. n - 1 : (i + k) % n = j
<1>1. ASSUME NEW m \in Int PROVE m % n \in 0 .. n - 1
  BY Z3
<1>2. ASSUME NEW m \in 0 .. n - 1 PROVE m % n = m /\ (m + n) % n = m
  BY Z3
<1>3. ASSUME NEW j \in 0 .. n - 1 PROVE \E k \in 0 .. n - 1 : (i + k) % n = j
  <2>1. CASE i <= j
    <3>1. j - i \in 0 .. n - 1 /\ i + (j - i) = j
      BY <2>1
    <3> QED
      BY <3>1, <1>2
  <2>2. CASE j < i
    <3>1. j - i + n \in 0 .. n - 1 /\ i + (j - i + n) = j + n
      BY <2>2
    <3> QED
      BY <3>1, <1>2
  <2> QED
    BY <2>1, <2>2
<1> QED
  BY <1>1, <1>3

\* What selectNextAvailableModel finds, and what it means that it finds none.
LEMMA PickFacts ==
  ASSUME RestInv, NEW r \in Requests, Here(r).kind = "rotation",
         NEW p, p = req[r].pos, NEW pick, pick = SelectNextAvailable(r)
  PROVE  /\ pick.index \in 0 .. Len(Here(r).models) - 1
         /\ pick.found => pick.target \in Targets(Here(r)) /\ ~(now < suspended[p][pick.target])
         /\ ~pick.found => \A t \in Targets(Here(r)) : now < suspended[p][t]
<1> DEFINE models == Here(r).models
<1>1. p \in DOMAIN chain /\ Here(r) = chain[p]
  BY DEF RestInv, RequestOK, Here
<1>2. /\ models \in Seq(Targets(Here(r))) /\ Len(models) \in Nat \ {0}
      /\ DOMAIN models = 1 .. Len(models) /\ index[p] \in 0 .. Len(models) - 1
  BY <1>1 DEF RestInv, ChainOK, RotationOK
<1>a. PICK n \in Nat \ {0} : n = Len(models)
  BY <1>2
<1>b. PICK i \in 0 .. n - 1 : i = index[p]
  BY <1>2, <1>a
<1>3. n = Len(models) /\ i = index[p]
  BY <1>a, <1>b
<1> DEFINE at(k) == models[((i + k) % n) + 1]
           free == {k \in 0 .. n - 1 : ~(now < suspended[p][at(k)])}
<1>4. Targets(Here(r)) = {models[j] : j \in 1 .. n}
  BY <1>2, <1>3 DEF Targets
<1>5. pick = IF free = {} THEN [found |-> FALSE, target |-> NoTarget, index |-> i % n]
             ELSE [found |-> TRUE, target |-> at(Min(free)), index |-> (i + Min(free) + 1) % n]
  BY <1>3, Zenon DEF SelectNextAvailable
<1> HIDE DEF models
<1>6. ASSUME NEW m \in Int PROVE m % n \in 0 .. n - 1
  BY Z3
<1>7. CASE free = {}
  <2>1. ASSUME NEW j \in 1 .. n PROVE now < suspended[p][models[j]]
    <3>1. PICK k \in 0 .. n - 1 : (i + k) % n = j - 1
      <4>1. j - 1 \in 0 .. n - 1
        OBVIOUS
      <4> QED
        BY <4>1, Around
    <3>2. at(k) = models[j]
      BY <3>1
    <3> QED
      BY <1>7, <3>2
  <2>2. i % n \in 0 .. n - 1
    BY <1>6
  <2>3. pick.found = FALSE /\ pick.index = i % n
    <3> HIDE DEF free
    <3> QED
      BY <1>5, <1>7
  <2> QED
    BY <1>3, <1>4, <2>1, <2>2, <2>3 DEF models
<1>8. CASE free # {}
  <2>1. Min(free) \in free
    <3>1. \E x \in free : \A y \in free : x <= y
      <4>1. n - 1 \in Nat /\ free \in SUBSET (0 .. n - 1)
        OBVIOUS
      <4> HIDE DEF free
      <4> QED
        BY <1>8, <4>1, LeastMember
    <3> HIDE DEF free
    <3> QED
      BY <3>1 DEF Min
  <2>2. Min(free) \in 0 .. n - 1 /\ ~(now < suspended[p][at(Min(free))])
    BY <2>1
  <2>3. pick.found = TRUE /\ pick.index = (i + Min(free) + 1) % n /\ pick.target = at(Min(free))
    <3> HIDE DEF free, at
    <3> QED
      BY <1>5, <1>8
  <2> HIDE DEF free
  <2>4. PICK k \in 0 .. n - 1 : k = Min(free)
    BY <2>2
  <2>5. at(k) \in {models[j] : j \in 1 .. n}
    <3>1. (i + k) % n \in 0 .. n - 1
      BY <1>6
    <3>2. ((i + k) % n) + 1 \in 1 .. n
      BY <3>1
    <3> QED
      BY <3>2
  <2>6. (i + k + 1) % n \in 0 .. n - 1
    BY <1>6
  <2> HIDE DEF at
  <2> QED
    BY <1>3, <1>4, <2>2, <2>3, <2>4, <2>5, <2>6 DEF models
<1> QED
  BY <1>7, <1>8

\* The target failed less than the suspend duration ago.
Resting(p, pause, t) == pause > 0 /\ now - lastFail[p][t] < pause

\* A target is suspended exactly while it rests from its last failure.
LEMMA SuspendedRests ==
  ASSUME now \in Nat, NEW until, NEW failed, NEW pause \in Nat, RestOK(until, failed, pause)
  PROVE  now < until <=> pause > 0 /\ now - failed < pause
  BY DEF RestOK

\* A selection in the header phase, of policy p: what it finds, and the request after it.
HeadersEffect(r, p, pause, pick, q) ==
  /\ pick = SelectNextAvailable(r)
  /\ index' = [index EXCEPT ![p] = pick.index] /\ UNCHANGED <<chain, now, lastFail>>
  /\ DOMAIN q = Fields /\ q.pos = p
  /\ IF pick.found
     THEN /\ suspended' = [suspended EXCEPT ![p][pick.target] = 0]
          /\ q.rested = ~Resting(p, pause, pick.target)
          /\ req' = [req EXCEPT ![r] = NextPos(q, "body")]
     ELSE /\ suspended' = suspended
          /\ q.rested = \A t \in Targets(chain[p]) : Resting(p, pause, t)
          /\ req' = [req EXCEPT ![r] = q]

\* The handler has that effect.
LEMMA HeadersStep ==
  ASSUME RestInv, NEW r \in Requests, RotationOnRequestHeaders(r),
         NEW p, p = req[r].pos, NEW pause, pause = Here(r).suspendDuration
  PROVE  \E pick, q : HeadersEffect(r, p, pause, pick, q)
<1> DEFINE pick == SelectNextAvailable(r)
           provider == pick.target.provider
           model == IF Here(r).location = "header" \/ PathModified(r) THEN pick.target.model ELSE req[r].model
           chosen == [req[r] EXCEPT !.model = model,
                            !.upstream = IF provider # "" THEN provider ELSE req[r].upstream,
                            !.routing = IF provider # "" THEN provider ELSE req[r].routing,
                            !.selected[p] = pick.target, !.at = now, !.rested = ~Resting(p, pause, pick.target)]
           none == \A t \in Targets(Here(r)) : Resting(p, pause, t)
           refused == [req[r] EXCEPT !.phase = "refused", !.answer = 503, !.rested = none]
<1>1. /\ index' = [index EXCEPT ![p] = pick.index]
      /\ UNCHANGED <<chain, now, lastFail>>
      /\ IF ~pick.found
         THEN /\ req' = [req EXCEPT ![r] = refused]
              /\ UNCHANGED suspended
         ELSE /\ suspended' = [suspended EXCEPT ![p][pick.target] = 0]
              /\ req' = [req EXCEPT ![r] = NextPos(chosen, "body")]
  BY Zenon DEF RotationOnRequestHeaders, Resting
<1>2. DOMAIN req = Requests /\ DOMAIN req[r] = Fields /\ Here(r) = chain[p]
  BY DEF RestInv, RequestOK, Here
<1>3. DOMAIN chosen = Fields /\ chosen.pos = p /\ chosen.rested = ~Resting(p, pause, pick.target)
  <2> HIDE DEF pick
  <2> QED
    BY <1>2 DEF Fields
<1>4. DOMAIN refused = Fields /\ refused.pos = p /\ refused.rested = none
  <2> HIDE DEF none
  <2> QED
    BY <1>2 DEF Fields
<1>5. CASE pick.found
  <2>1. /\ pick = SelectNextAvailable(r)
        /\ index' = [index EXCEPT ![p] = pick.index] /\ UNCHANGED <<chain, now, lastFail>>
        /\ DOMAIN chosen = Fields /\ chosen.pos = p
        /\ suspended' = [suspended EXCEPT ![p][pick.target] = 0]
        /\ chosen.rested = ~Resting(p, pause, pick.target)
        /\ req' = [req EXCEPT ![r] = NextPos(chosen, "body")]
    <3>1. pick = SelectNextAvailable(r)
      OBVIOUS
    <3> HIDE DEF pick, chosen
    <3> QED
      BY <1>1, <1>3, <1>5, <3>1
  <2> HIDE DEF pick, chosen
  <2> QED
    BY <1>5, <2>1 DEF HeadersEffect
<1>6. CASE ~pick.found
  <2>1. req' = [req EXCEPT ![r] = refused] /\ suspended' = suspended
    <3> HIDE DEF pick, refused, chosen
    <3> QED
      BY <1>1, <1>6
  <2>2. /\ pick = SelectNextAvailable(r)
        /\ index' = [index EXCEPT ![p] = pick.index] /\ UNCHANGED <<chain, now, lastFail>>
    <3>1. pick = SelectNextAvailable(r)
      OBVIOUS
    <3> HIDE DEF pick, chosen
    <3> QED
      BY <1>1, <3>1
  <2>3. DOMAIN refused = Fields /\ refused.pos = p
        /\ refused.rested = \A t \in Targets(chain[p]) : Resting(p, pause, t)
    <3> HIDE DEF refused
    <3> QED
      BY <1>2, <1>4
  <2> HIDE DEF pick, refused, none
  <2> QED
    BY <1>6, <2>1, <2>2, <2>3 DEF HeadersEffect
<1> QED
  BY <1>5, <1>6

\* It leaves the suspensions true to the failures, and the request well rested.
LEMMA HeadersKeep ==
  ASSUME RestInv, NEW r \in Requests, RotationOnRequestHeaders(r)
  PROVE  RestInv'
<1>1. PICK p : p = req[r].pos
  OBVIOUS
<1>2. PICK pause : pause = Here(r).suspendDuration
  OBVIOUS
<1>3. Here(r).kind = "rotation" /\ p \in DOMAIN chain /\ Here(r) = chain[p]
  BY <1>1 DEF RotationOnRequestHeaders, RestInv, RequestOK, Here
<1>4. RotationOK(p) /\ pause \in Nat /\ now \in Nat
  BY <1>2, <1>3 DEF RestInv, ChainOK
<1>5. PICK pick, q : HeadersEffect(r, p, pause, pick, q)
  BY <1>1, <1>2, HeadersStep
<1>e. /\ pick = SelectNextAvailable(r)
      /\ index' = [index EXCEPT ![p] = pick.index] /\ UNCHANGED <<chain, now, lastFail>>
      /\ DOMAIN q = Fields /\ q.pos = p
      /\ pick.found => /\ suspended' = [suspended EXCEPT ![p][pick.target] = 0]
                       /\ q.rested = ~Resting(p, pause, pick.target)
      /\ ~pick.found => /\ suspended' = suspended
                        /\ q.rested = \A t \in Targets(chain[p]) : Resting(p, pause, t)
      /\ req' = [req EXCEPT ![r] = NextPos(q, "body")] \/ req' = [req EXCEPT ![r] = q]
  BY <1>5, Zenon DEF HeadersEffect
<1>6. /\ pick.index \in 0 .. Len(chain[p].models) - 1
      /\ pick.found => pick.target \in Targets(chain[p]) /\ ~(now < suspended[p][pick.target])
      /\ ~pick.found => \A t \in Targets(chain[p]) : now < suspended[p][t]
  BY <1>1, <1>3, <1>e, PickFacts
<1>7. ASSUME NEW t \in Targets(chain[p]) PROVE now < suspended[p][t] <=> Resting(p, pause, t)
  BY <1>2, <1>3, <1>4, SuspendedRests DEF RotationOK, Resting
<1>8. RequestOK(q)
  BY <1>3, <1>e, <1>6, <1>7 DEF RequestOK
<1>9. DOMAIN req' = Requests /\ \A x \in Requests : RequestOK(req'[x])
  <2>1. RequestOK(NextPos(q, "body"))
    BY <1>8, NextPosOK DEF RestInv
  <2>2. req' = [req EXCEPT ![r] = NextPos(q, "body")] \/ req' = [req EXCEPT ![r] = q]
    BY <1>e
  <2> QED
    BY <1>8, <2>1, <2>2 DEF RestInv
<1>10. \A x \in Requests : RequestOK(req[x])'
  BY <1>e, <1>9 DEF RequestOK
<1>11. DOMAIN suspended = DOMAIN chain /\ DOMAIN suspended[p] = Targets(chain[p]) /\ DOMAIN index = DOMAIN chain
  BY <1>3, <1>4 DEF RestInv, RotationOK
<1>12. /\ DOMAIN suspended' = DOMAIN suspended
       /\ DOMAIN suspended'[p] = Targets(chain[p])
       /\ \A x \in DOMAIN chain : x # p => suspended'[x] = suspended[x] /\ index'[x] = index[x]
       /\ \A t \in Targets(chain[p]) :
            \/ suspended'[p][t] = suspended[p][t]
            \/ suspended'[p][t] = 0 /\ ~(now < suspended[p][t])
  <2>1. CASE ~pick.found
    BY <1>e, <1>11, <2>1
  <2>2. CASE pick.found
    <3>1. suspended' = [suspended EXCEPT ![p][pick.target] = 0] /\ ~(now < suspended[p][pick.target])
      BY <1>e, <1>6, <2>2
    <3> QED
      BY <1>3, <1>e, <1>11, <3>1
  <2> QED
    BY <2>1, <2>2
<1>13. now' = now /\ chain' = chain /\ lastFail' = lastFail
  BY <1>e
<1>14. RotationOK(p)'
  <2>1. index'[p] \in 0 .. Len(chain[p].models) - 1
    BY <1>3, <1>e, <1>6, <1>11
  <2>2. ASSUME NEW t \in Targets(chain[p])
        PROVE  RestOK(suspended'[p][t], lastFail[p][t], pause)
    <3>1. RestOK(suspended[p][t], lastFail[p][t], pause)
      BY <1>2, <1>3, <1>4 DEF RotationOK
    <3> QED
      BY <1>4, <1>12, <3>1 DEF RestOK
  <2>3. DOMAIN lastFail[p] = Targets(chain[p])
    BY <1>4 DEF RotationOK
  <2> QED
    BY <1>2, <1>3, <1>12, <1>13, <2>1, <2>2, <2>3 DEF RotationOK, RestOK, Targets
<1>15. ASSUME NEW x \in DOMAIN chain, x # p, RotationOK(x) PROVE RotationOK(x)'
  BY <1>12, <1>13, <1>15 DEF RotationOK, RestOK, Targets
<1>16. ChainOK'
  BY <1>13 DEF RestInv, ChainOK, Targets
<1>17. DOMAIN index' = DOMAIN chain /\ DOMAIN suspended' = DOMAIN chain /\ DOMAIN lastFail' = DOMAIN chain
  BY <1>e, <1>12, <1>13 DEF RestInv
<1> QED
  BY <1>3, <1>9, <1>10, <1>13, <1>14, <1>15, <1>16, <1>17 DEF RestInv

\* A response: a failure starts the rest of the model that was selected anew.
LEMMA ResponseKeeps ==
  ASSUME RestInv, NEW r \in Requests, RotationOnResponseHeaders(r)
  PROVE  RestInv'
<1>1. PICK p : p = req[r].pos
  OBVIOUS
<1>2. PICK t : t = req[r].selected[p]
  OBVIOUS
<1>3. Here(r).kind = "rotation" /\ p \in DOMAIN chain /\ Here(r) = chain[p]
  BY <1>1 DEF RotationOnResponseHeaders, RestInv, RequestOK, Here
<1>4. PICK pause \in Nat : pause = chain[p].suspendDuration
  BY <1>3 DEF RestInv, ChainOK
<1>5. RotationOK(p) /\ now \in Nat
  BY <1>3 DEF RestInv
<1>6. PICK failing \in BOOLEAN : failing = (req[r].answer >= 500 \/ req[r].answer = 429)
  OBVIOUS
<1>7. /\ IF failing /\ pause > 0 THEN suspended' = [suspended EXCEPT ![p][t] = now + pause]
         ELSE UNCHANGED suspended
      /\ lastFail' = IF failing THEN [lastFail EXCEPT ![p][t] = now] ELSE lastFail
      /\ Pass(r) /\ UNCHANGED <<chain, now, index>>
  BY <1>1, <1>2, <1>3, <1>4, <1>6 DEF RotationOnResponseHeaders, Suspend
<1>8. DOMAIN suspended = DOMAIN chain /\ DOMAIN lastFail = DOMAIN chain
  BY DEF RestInv
<1>9. DOMAIN suspended[p] = Targets(chain[p]) /\ DOMAIN lastFail[p] = Targets(chain[p])
  BY <1>5 DEF RotationOK
<1>10. /\ DOMAIN suspended' = DOMAIN chain /\ DOMAIN lastFail' = DOMAIN chain
       /\ DOMAIN suspended'[p] = Targets(chain[p]) /\ DOMAIN lastFail'[p] = Targets(chain[p])
       /\ \A x \in DOMAIN chain : x # p => suspended'[x] = suspended[x] /\ lastFail'[x] = lastFail[x]
  BY <1>3, <1>7, <1>8, <1>9
<1>11. ASSUME NEW x \in Targets(chain[p])
       PROVE  RestOK(suspended'[p][x], lastFail'[p][x], pause)
  <2>1. RestOK(suspended[p][x], lastFail[p][x], pause)
    BY <1>4, <1>5 DEF RotationOK
  <2>2. CASE failing /\ x = t
    <3>1. lastFail'[p][x] = now
      BY <1>3, <1>7, <1>8, <1>9, <2>2
    <3>2. IF pause > 0 THEN suspended'[p][x] = now + pause ELSE suspended'[p][x] = suspended[p][x]
      BY <1>3, <1>7, <1>8, <1>9, <2>2
    <3> QED
      BY <1>4, <1>5, <2>1, <3>1, <3>2 DEF RestOK
  <2>3. CASE ~(failing /\ x = t)
    <3>1. suspended'[p][x] = suspended[p][x] /\ lastFail'[p][x] = lastFail[p][x]
      BY <1>3, <1>7, <1>8, <1>9, <2>3
    <3> QED
      BY <2>1, <3>1
  <2> QED
    BY <2>2, <2>3
<1>12. now' = now /\ chain' = chain /\ index' = index
  BY <1>7
<1>13. RotationOK(p)'
  <2>1. index[p] \in 0 .. Len(chain[p].models) - 1
    BY <1>5 DEF RotationOK
  <2> QED
    BY <1>4, <1>10, <1>11, <1>12, <2>1 DEF RotationOK, RestOK, Targets
<1>14. ASSUME NEW x \in DOMAIN chain, x # p, RotationOK(x) PROVE RotationOK(x)'
  BY <1>10, <1>12, <1>14 DEF RotationOK, RestOK, Targets
<1>15. ChainOK'
  BY <1>12 DEF RestInv, ChainOK, Targets
<1>16. DOMAIN req' = Requests /\ \A x \in Requests : RequestOK(req[x])'
  <2>1. PICK q : RequestOK(q) /\ req' = [req EXCEPT ![r] = q]
    BY <1>7, PassMoves DEF Moves
  <2>2. DOMAIN req' = Requests /\ \A x \in Requests : RequestOK(req'[x])
    BY <2>1 DEF RestInv
  <2> QED
    BY <1>12, <2>2 DEF RequestOK
<1> QED
  BY <1>3, <1>10, <1>12, <1>13, <1>14, <1>15, <1>16 DEF RestInv

\* Time passes.
LEMMA TickKeeps == RestInv /\ Tick => RestInv'
<1> SUFFICES ASSUME RestInv, Tick PROVE RestInv'
  OBVIOUS
<1>1. now \in Nat /\ now' = now + 1 /\ UNCHANGED <<chain, index, suspended, req, lastFail>>
  BY DEF RestInv, Tick
<1>2. ASSUME NEW p \in DOMAIN chain, chain[p].kind = "rotation" PROVE RotationOK(p)'
  <2>1. RotationOK(p)
    BY <1>2 DEF RestInv
  <2>2. ASSUME NEW t \in Targets(chain[p])
        PROVE  RestOK(suspended[p][t], lastFail[p][t], chain[p].suspendDuration)'
    <3>1. RestOK(suspended[p][t], lastFail[p][t], chain[p].suspendDuration)
      BY <2>1 DEF RotationOK
    <3>2. chain[p].suspendDuration \in Nat
      BY <1>2 DEF RestInv, ChainOK
    <3> QED
      BY <1>1, <3>1, <3>2 DEF RestOK
  <2>3. Targets(chain[p])' = Targets(chain[p])
    BY <1>1 DEF Targets
  <2> QED
    BY <1>1, <2>1, <2>2, <2>3 DEF RotationOK
<1>3. ChainOK'
  BY <1>1 DEF RestInv, ChainOK, Targets
<1>4. \A x \in Requests : RequestOK(req[x])'
  BY <1>1 DEF RestInv, RequestOK
<1> QED
  BY <1>1, <1>2, <1>3, <1>4 DEF RestInv

\* A policy is of the kind of its parameters.
LEMMA ParsedKind ==
  ASSUME NEW raw
  PROVE  ParsePolicy(raw).kind = raw.kind
<1>1. CASE raw.kind = "rotation"
  BY <1>1 DEF ParsePolicy
<1>2. CASE raw.kind = "cost"
  BY <1>2 DEF ParsePolicy
<1>3. CASE raw.kind = "time"
  BY <1>3 DEF ParsePolicy
<1>4. CASE raw.kind = "header"
  BY <1>4 DEF ParsePolicy
<1>5. CASE raw.kind \notin {"rotation", "cost", "time", "header"}
  BY <1>5 DEF ParsePolicy
<1> QED
  BY <1>1, <1>2, <1>3, <1>4, <1>5

\* The invariant holds initially.
LEMMA InitRest == Init => RestInv
<1> SUFFICES ASSUME Init PROVE RestInv
  OBVIOUS
<1>1. PICK c \in Chains : chain = [p \in DOMAIN c |-> ParsePolicy(c[p])]
  BY Zenon DEF Init
<1>2. Len(c) \in Nat \ {0} /\ DOMAIN c = 1 .. Len(c)
  BY RoutingAssumption
<1>3. DOMAIN chain = 1 .. Len(c) /\ Len(chain) = Len(c)
  <2> DEFINE S == {ParsePolicy(c[p]) : p \in DOMAIN c}
  <2>1. chain \in [1 .. Len(c) -> S]
    BY <1>1, <1>2
  <2> HIDE DEF S
  <2> QED
    BY <1>2, <2>1
<1>4. ASSUME NEW p \in DOMAIN chain, chain[p].kind = "rotation"
      PROVE  /\ chain[p].models \in Seq(Targets(chain[p])) /\ Len(chain[p].models) > 0
             /\ chain[p].suspendDuration \in Nat
  <2>1. p \in DOMAIN c /\ chain[p] = ParsePolicy(c[p])
    BY <1>1
  <2>2. c[p].kind = "rotation"
    BY <1>4, <2>1, ParsedKind
  <2>4. IsRotation(ParsePolicy(c[p]))
    BY <2>1, <2>2, RoutingAssumption
  <2>3. chain[p].ok
    BY DEF Init
  <2> QED
    BY <2>1, <2>3, <2>4 DEF IsRotation
<1>5. ChainOK
  BY <1>2, <1>3, <1>4 DEF ChainOK
<1>6. now = StartTime /\ now \in Nat
  BY RoutingAssumption DEF Init
<1>7. ASSUME NEW p \in DOMAIN chain, chain[p].kind = "rotation" PROVE RotationOK(p)
  <2>1. /\ index[p] = 0
        /\ suspended[p] = [t \in Targets(chain[p]) |-> 0]
        /\ lastFail[p] = [t \in Targets(chain[p]) |-> StartTime - chain[p].suspendDuration]
    BY DEF Init
  <2>2. Len(chain[p].models) \in Nat \ {0} /\ chain[p].suspendDuration \in Nat
    BY <1>4, <1>7
  <2>3. ASSUME NEW t \in Targets(chain[p])
        PROVE  RestOK(0, StartTime - chain[p].suspendDuration, chain[p].suspendDuration)
    BY <1>6, <2>2 DEF RestOK
  <2>4. \A t \in Targets(chain[p]) :
           /\ suspended[p][t] = 0 /\ lastFail[p][t] = StartTime - chain[p].suspendDuration
    BY <2>1
  <2>5. /\ DOMAIN suspended[p] = Targets(chain[p]) /\ DOMAIN lastFail[p] = Targets(chain[p])
    BY <2>1
  <2> QED
    BY <2>1, <2>2, <2>3, <2>4, <2>5 DEF RotationOK
<1>8. DOMAIN index = DOMAIN chain /\ DOMAIN suspended = DOMAIN chain /\ DOMAIN lastFail = DOMAIN chain
  BY DEF Init
<1>9. DOMAIN req = Requests /\ \A r \in Requests : RequestOK(req[r])
  <2>1. RequestOK(Fresh)
    BY <1>2, <1>3 DEF Fresh, RequestOK, Fields
  <2> QED
    BY <2>1 DEF Init
<1> QED
  BY <1>5, <1>6, <1>7, <1>8, <1>9 DEF RestInv

\* Every step preserves the invariant.
LEMMA NextRest == RestInv /\ [Next]_vars => RestInv'
<1> SUFFICES ASSUME RestInv, [Next]_vars PROVE RestInv'
  OBVIOUS
<1>1. CASE Tick
  BY <1>1, TickKeeps
<1>2. ASSUME NEW r \in Requests,
             \/ \E m \in Messages : Arrive(r, m)
             \/ \E s \in Statuses, c \in Costs : Upstream(r, s, c)
      PROVE  RestInv'
  BY <1>2, EngineMoves, StillKeeps
<1>3. ASSUME NEW r \in Requests, RotationOnRequestHeaders(r) PROVE RestInv'
  BY <1>3, HeadersKeep
<1>4. ASSUME NEW r \in Requests, RotationOnRequestBody(r) PROVE RestInv'
  BY <1>4, RotationBodyMoves, StillKeeps
<1>5. ASSUME NEW r \in Requests, RotationOnResponseHeaders(r) PROVE RestInv'
  BY <1>5, ResponseKeeps
<1>6. ASSUME NEW r \in Requests,
             (\E errs \in SUBSET (1 .. 2) : CostOnRequest(r, errs)) \/ \E err \in BOOLEAN : ChargeOnce(r, err)
      PROVE  RestInv'
  BY <1>6, CostMoves, StillKeeps
<1>7. ASSUME NEW r \in Requests, NEW reply \in Replies,
             SemanticOnRequestBody(r, reply) \/ IntelligentOnRequestBody(r, reply) \/ JevOnRequestBody(r, reply)
      PROVE  RestInv'
  BY <1>7, ClassifierMoves, StillKeeps
<1>8. ASSUME NEW r \in Requests, TimeOnRequestBody(r) PROVE RestInv'
  BY <1>8, TimeMoves, StillKeeps
<1>9. ASSUME NEW r \in Requests, HeaderOnRequest(r) \/ NoHandler(r) PROVE RestInv'
  BY <1>9, HeaderMoves, StillKeeps
<1>10. CASE UNCHANGED vars
  <2>1. UNCHANGED <<chain, now, index, suspended, req, lastFail>>
    BY <1>10 DEF vars
  <2>2. ChainOK'
    BY <2>1 DEF RestInv, ChainOK, Targets
  <2>3. ASSUME NEW p \in DOMAIN chain, RotationOK(p) PROVE RotationOK(p)'
    BY <2>1, <2>3 DEF RotationOK, RestOK, Targets
  <2>4. \A x \in Requests : RequestOK(req[x])'
    BY <2>1 DEF RestInv, RequestOK
  <2> QED
    BY <2>1, <2>2, <2>3, <2>4 DEF RestInv
<1> QED
  BY <1>1, <1>2, <1>3, <1>4, <1>5, <1>6, <1>7, <1>8, <1>9, <1>10 DEF Next

\* SuspendModel and selectNextAvailableModel: a request is never sent to a model
\* that failed less than the suspend duration ago, nor turned away while a model
\* may be used, in whatever order concurrent selections and failures come.
THEOREM FailedModelsRest == Spec => []RotationRests
<1>1. RestInv => RotationRests
  BY DEF RestInv, RequestOK, RotationRests
<1> QED
  BY <1>1, InitRest, NextRest, PTL DEF Spec

-----------------------------------------------------------------------------
(* A route's model and provider.                                            *)

Week == DaysPerWeek * MinutesPerDay

\* A day of the week ends within it.
LEMMA DayFits ==
  ASSUME NEW n \in Nat \ {0}, NEW m \in Nat \ {0}, NEW d \in 0 .. n - 1
  PROVE  d * m \in Nat /\ n * m \in Nat \ {0} /\ d * m + m <= n * m
<1>1. PICK k \in Nat : n = d + 1 + k
  <2>1. n - d - 1 \in Nat /\ n = d + 1 + (n - d - 1)
    OBVIOUS
  <2> QED
    BY <2>1
<1>2. d * m \in Nat /\ k * m \in Nat
  OBVIOUS
<1>3. n * m = d * m + m + k * m
  BY <1>1
<1> QED
  BY <1>2, <1>3

\* The remainder of a number less than one turn below, or above, zero.
LEMMA OneTurn ==
  ASSUME NEW w \in Nat \ {0}, NEW x \in Int, -w < x, x < w
  PROVE  x % w = IF x >= 0 THEN x ELSE x + w
<1>1. CASE x >= 0
  BY <1>1, Z3
<1>2. CASE x < 0
  <2>1. x + w \in 0 .. w - 1
    BY <1>2
  <2> QED
    BY <1>2, <2>1, Z3
<1> QED
  BY <1>1, <1>2

\* expandWeekRanges and matches: a schedule matches in the minutes in which it is due.
LEMMA MatchesWhenDue ==
  ASSUME MinutesPerDay \in Nat \ {0}, DaysPerWeek \in Nat \ {0},
         NEW s, s.from \in 0 .. MinutesPerDay - 1, s.to \in 0 .. MinutesPerDay - 1, s.from # s.to,
         NEW minute \in 0 .. Week - 1
  PROVE  ScheduleMatches(s, minute) <=> Due(s, minute)
<1> DEFINE start(d) == d * MinutesPerDay + s.from
           end(d) == d * MinutesPerDay + s.to + IF s.from > s.to THEN MinutesPerDay ELSE 0
           In(d) == \/ end(d) <= Week /\ start(d) <= minute /\ minute < end(d)
                    \/ end(d) > Week /\ start(d) <= minute /\ minute < Week
                    \/ end(d) > Week /\ 0 <= minute /\ minute < end(d) - Week
           Turn(d) == ((minute - d * MinutesPerDay - s.from) % Week) < ((s.to - s.from) % MinutesPerDay)
           ranges(d) == IF end(d) <= Week THEN {<<start(d), end(d)>>}
                        ELSE {<<start(d), Week>>, <<0, end(d) - Week>>}
           days == {d \in 0 .. DaysPerWeek - 1 : ScheduleStartAppliesOn(s, d)}
<1>1. ExpandWeekRanges(s) = UNION {ranges(d) : d \in days}
  BY Zenon DEF ExpandWeekRanges, Week
<1>2. ASSUME NEW d \in days
      PROVE  (\E a \in ranges(d) : a[1] <= minute /\ minute < a[2]) <=> In(d)
  <2>1. PICK u \in Int : u = start(d)
    OBVIOUS
  <2>2. PICK v \in Int : v = end(d)
    OBVIOUS
  <2>3. PICK w \in Int : w = Week
    BY DEF Week
  <2>4. ranges(d) = IF v <= w THEN {<<u, v>>} ELSE {<<u, w>>, <<0, v - w>>}
    BY <2>1, <2>2, <2>3, Zenon
  <2>5. In(d) <=> \/ v <= w /\ u <= minute /\ minute < v
                  \/ v > w /\ u <= minute /\ minute < w
                  \/ v > w /\ 0 <= minute /\ minute < v - w
    BY <2>1, <2>2, <2>3, Zenon
  <2> HIDE DEF In, ranges
  <2>6. minute \in Int
    BY DEF Week
  <2>7. CASE v <= w
    <3>0. ranges(d) = {<<u, v>>}
      BY <2>4, <2>7
    <3>1. (\E a \in ranges(d) : a[1] <= minute /\ minute < a[2]) <=> (u <= minute /\ minute < v)
      BY <3>0
    <3> QED
      BY <2>5, <2>7, <3>1
  <2>8. CASE ~(v <= w)
    <3>1. ranges(d) = {<<u, w>>, <<0, v - w>>}
      BY <2>4, <2>8
    <3>2. (\E a \in ranges(d) : a[1] <= minute /\ minute < a[2])
            <=> (u <= minute /\ minute < w) \/ (0 <= minute /\ minute < v - w)
      BY <3>1
    <3> QED
      BY <2>5, <2>8, <3>2
  <2> QED
    BY <2>7, <2>8
<1>3. ScheduleMatches(s, minute) <=> \E d \in days : In(d)
  <2> HIDE DEF In, ranges, days
  <2> QED
    BY <1>1, <1>2 DEF ScheduleMatches
<1>4. ASSUME NEW d \in 0 .. DaysPerWeek - 1 PROVE In(d) <=> Turn(d)
  <2>1. PICK day \in Nat : day = d * MinutesPerDay
    BY DayFits
  <2>2. PICK w \in Nat \ {0} : w = Week /\ day + MinutesPerDay <= w
    BY <2>1, DayFits DEF Week
  <2>3. PICK a \in 0 .. MinutesPerDay - 1 : a = s.from
    OBVIOUS
  <2>4. PICK b \in 0 .. MinutesPerDay - 1 : b = s.to /\ a # b
    BY <2>3
  <2>5. (b - a) % MinutesPerDay = IF b - a >= 0 THEN b - a ELSE b - a + MinutesPerDay
    <3>1. b - a \in Int /\ -MinutesPerDay < b - a /\ b - a < MinutesPerDay
      OBVIOUS
    <3> QED
      BY <3>1, OneTurn
  <2>6. (minute - day - a) % w = IF minute - day - a >= 0 THEN minute - day - a ELSE minute - day - a + w
    <3>1. minute - day - a \in Int /\ -w < minute - day - a /\ minute - day - a < w
      BY <2>2
    <3> QED
      BY <3>1, OneTurn
  <2>7. PICK x \in Int : x = minute - day - a
    OBVIOUS
  <2>8. PICK e \in Int : e = day + b + IF a > b THEN MinutesPerDay ELSE 0
    OBVIOUS
  <2>9. Turn(d) <=> (IF x >= 0 THEN x ELSE x + w) < (IF b - a >= 0 THEN b - a ELSE b - a + MinutesPerDay)
    BY <2>1, <2>2, <2>3, <2>4, <2>5, <2>6, <2>7
  <2>10. In(d) <=> \/ e <= w /\ day + a <= minute /\ minute < e
                   \/ e > w /\ day + a <= minute /\ minute < w
                   \/ e > w /\ 0 <= minute /\ minute < e - w
    BY <2>1, <2>2, <2>3, <2>4, <2>8
  <2> QED
    BY <2>2, <2>7, <2>8, <2>9, <2>10
<1>5. Due(s, minute) <=> \E d \in days : Turn(d)
  BY Zenon DEF Due, ScheduleStartAppliesOn, Week
<1> QED
  <2> HIDE DEF In, Turn
  <2> QED
    BY <1>3, <1>4, <1>5

\* What parseConfig makes sure of.
SchedulesOK(c) ==
  /\ AreSchedules(c.schedules)
  /\ \A i \in DOMAIN c.schedules : c.schedules[i].from # c.schedules[i].to
  /\ \A i, j \in DOMAIN c.schedules : i # j => ~SchedulesOverlap(c.schedules[i], c.schedules[j])

\* The target is that of the schedule in force.
InForce(c, t, minute) ==
  LET due == {i \in DOMAIN c.schedules : Due(c.schedules[i], minute)}
  IN IF due = {} THEN t = c.fallback ELSE due = {i \in due : c.schedules[i].target = t}

\* Ranges are pairs of numbers.
LEMMA RangeTypes ==
  ASSUME MinutesPerDay \in Nat \ {0}, DaysPerWeek \in Nat \ {0},
         NEW s, s.from \in 0 .. MinutesPerDay - 1, s.to \in 0 .. MinutesPerDay - 1,
         NEW a \in ExpandWeekRanges(s)
  PROVE  a[1] \in Int /\ a[2] \in Int
<1> DEFINE start(d) == d * MinutesPerDay + s.from
           end(d) == d * MinutesPerDay + s.to + IF s.from > s.to THEN MinutesPerDay ELSE 0
<1>1. PICK d \in 0 .. DaysPerWeek - 1 :
        a \in IF end(d) <= Week THEN {<<start(d), end(d)>>} ELSE {<<start(d), Week>>, <<0, end(d) - Week>>}
  BY DEF ExpandWeekRanges, Week
<1>2. start(d) \in Int /\ end(d) \in Int /\ Week \in Int
  BY DayFits DEF Week
<1> HIDE DEF start, end
<1>3. a = <<start(d), end(d)>> \/ a = <<start(d), Week>> \/ a = <<0, end(d) - Week>>
  BY <1>1
<1>4. end(d) - Week \in Int
  BY <1>2
<1> QED
  BY <1>2, <1>3, <1>4

\* Two schedules that are due in the same minute are one.
LEMMA DueAlone ==
  ASSUME MinutesPerDay \in Nat \ {0}, DaysPerWeek \in Nat \ {0},
         NEW c, SchedulesOK(c), NEW minute \in 0 .. Week - 1,
         NEW i \in DOMAIN c.schedules, NEW j \in DOMAIN c.schedules,
         Due(c.schedules[i], minute), Due(c.schedules[j], minute)
  PROVE  i = j
<1>1. /\ c.schedules[i].from \in 0 .. MinutesPerDay - 1 /\ c.schedules[i].to \in 0 .. MinutesPerDay - 1
      /\ c.schedules[j].from \in 0 .. MinutesPerDay - 1 /\ c.schedules[j].to \in 0 .. MinutesPerDay - 1
      /\ c.schedules[i].from # c.schedules[i].to /\ c.schedules[j].from # c.schedules[j].to
  BY DEF SchedulesOK, AreSchedules
<1>2. ScheduleMatches(c.schedules[i], minute) /\ ScheduleMatches(c.schedules[j], minute)
  BY <1>1, MatchesWhenDue
<1>3. PICK a \in ExpandWeekRanges(c.schedules[i]) : a[1] <= minute /\ minute < a[2]
  BY <1>2 DEF ScheduleMatches
<1>4. PICK b \in ExpandWeekRanges(c.schedules[j]) : b[1] <= minute /\ minute < b[2]
  BY <1>2 DEF ScheduleMatches
<1>5. a[1] \in Int /\ a[2] \in Int /\ b[1] \in Int /\ b[2] \in Int /\ minute \in Int
  BY <1>1, RangeTypes DEF Week
<1>6. SchedulesOverlap(c.schedules[i], c.schedules[j])
  BY <1>3, <1>4, <1>5 DEF SchedulesOverlap
<1> QED
  BY <1>6 DEF SchedulesOK

\* selectTarget of time-based routing: the schedule that is due, else the fallback.
LEMMA SelectedInForce ==
  ASSUME MinutesPerDay \in Nat \ {0}, DaysPerWeek \in Nat \ {0},
         NEW c, SchedulesOK(c), NEW minute \in 0 .. Week - 1
  PROVE  InForce(c, SelectScheduled(c, minute), minute)
<1> DEFINE found == {i \in DOMAIN c.schedules : ScheduleMatches(c.schedules[i], minute)}
           due == {i \in DOMAIN c.schedules : Due(c.schedules[i], minute)}
           first == IF found = {} THEN 0 ELSE Min(found)
           t == IF first # 0 THEN c.schedules[first].target ELSE c.fallback
<1>1. ASSUME NEW i \in DOMAIN c.schedules
      PROVE  ScheduleMatches(c.schedules[i], minute) <=> Due(c.schedules[i], minute)
  BY MatchesWhenDue DEF SchedulesOK, AreSchedules
<1>2. found = due
  BY <1>1
<1>3. SelectScheduled(c, minute) = t
  BY Zenon DEF SelectScheduled, FirstIndex
<1>4. DOMAIN c.schedules \subseteq Nat \ {0}
  BY DEF SchedulesOK, AreSchedules
<1>5. CASE due = {}
  <2>1. first = 0
    BY <1>2, <1>5
  <2> HIDE DEF first, found
  <2>2. t = c.fallback
    BY <2>1
  <2> HIDE DEF t
  <2> QED
    BY <1>3, <1>5, <2>2 DEF InForce
<1>6. ASSUME NEW i \in due PROVE InForce(c, SelectScheduled(c, minute), minute)
  <2>1. due = {i}
    BY <1>6, DueAlone
  <2>2. i \in Nat \ {0}
    BY <1>4
  <2>3. Min({i}) = i
    BY <2>2 DEF Min
  <2>4. first = i
    BY <1>2, <2>1, <2>3
  <2>5. t = c.schedules[i].target
    BY <2>2, <2>4
  <2> HIDE DEF t, found, first
  <2>6. due = {k \in due : c.schedules[k].target = t} /\ due # {}
    BY <2>1, <2>5
  <2> QED
    BY <1>3, <2>6 DEF InForce
<1> QED
  BY <1>5, <1>6

-----------------------------------------------------------------------------
(* A request with its target.                                               *)

\* One policy of the route chooses the target; llm-header-router only names the
\* upstream of what was not routed.
OneRouter ==
  \A c \in Chains : \A p, q \in DOMAIN c : c[p].kind # "header" /\ c[q].kind # "header" => p = q

Locations == {"payload", "header", "queryParam", "pathParam"}

RoutersOK ==
  /\ MinutesPerDay \in Nat \ {0} /\ DaysPerWeek \in Nat \ {0}
  /\ \A p, q \in DOMAIN chain : chain[p].kind # "header" /\ chain[q].kind # "header" => p = q
  /\ \A p \in DOMAIN chain : /\ chain[p].kind = "rotation" => chain[p].location \in Locations
                             /\ chain[p].kind = "time" => SchedulesOK(chain[p])

Phases == {"idle", "headers", "body", "upstream", "response", "done", "refused"}

\* The request has left policy p behind on its way to the upstream.
Passed(q, p) == q.phase \in {"upstream", "response", "done"} \/ (q.phase = "body" /\ q.pos > p)

\* The model is not in the request: the path could not be rewritten, or it is
\* written in the body phase.
PathLeft(q, c) == c.kind = "rotation" /\ c.location \in {"queryParam", "pathParam"} /\ ~q.msg.settable
PayloadDue(c, passed) == c.kind = "rotation" /\ c.location = "payload" /\ ~passed

RoutedAs(q, p, passed) ==
  LET t == q.selected[p]
      c == chain[p]
  IN /\ q.phase = "idle" \/ c.kind = "header" => t = NoTarget
     /\ t # NoTarget /\ t.provider # "" => q.upstream = t.provider /\ q.routing = t.provider
     /\ t # NoTarget /\ ~PathLeft(q, c) /\ ~PayloadDue(c, passed) => q.model = t.model
     /\ c.kind = "time" => IF passed THEN InForce(c, t, q.at % Week) ELSE t = NoTarget

RoutedOK(q) ==
  /\ DOMAIN q.selected = DOMAIN chain /\ q.phase \in Phases
  /\ q.phase # "refused" => \A p \in DOMAIN chain : RoutedAs(q, p, Passed(q, p))

RoutedInv == RestInv /\ RoutersOK /\ \A r \in Requests : RoutedOK(req[r])

\* What a request takes along to the next policy.
LEMMA NextPosKeeps ==
  ASSUME ChainOK, NEW q, DOMAIN q = Fields, q.pos \in DOMAIN chain, NEW after, NEW x, x = NextPos(q, after)
  PROVE  /\ x.msg = q.msg /\ x.model = q.model /\ x.upstream = q.upstream /\ x.routing = q.routing
         /\ x.selected = q.selected /\ x.at = q.at
         /\ x.budget = q.budget /\ x.charged = q.charged /\ x.billed = q.billed /\ x.cost = q.cost
         /\ \/ q.pos < Len(chain) /\ x.pos = q.pos + 1 /\ x.phase = q.phase
            \/ q.pos = Len(chain) /\ x.pos = 1 /\ x.phase = after
<1>1. q.pos \in 1 .. Len(chain) /\ Len(chain) \in Nat
  BY DEF ChainOK
<1>2. CASE q.pos < Len(chain)
  <2>1. x = [q EXCEPT !.pos = q.pos + 1]
    BY <1>2 DEF NextPos
  <2> QED
    BY <1>2, <2>1 DEF Fields
<1>3. CASE ~(q.pos < Len(chain))
  <2>1. x = [q EXCEPT !.pos = 1, !.phase = after]
    BY <1>3 DEF NextPos
  <2>2. q.pos = Len(chain)
    BY <1>1, <1>3
  <2> QED
    BY <2>1, <2>2 DEF Fields
<1> QED
  BY <1>2, <1>3

\* The fields the invariant speaks of decide it.
LEMMA RoutedSame ==
  ASSUME NEW q, NEW x, NEW p, NEW passed,
         x.msg = q.msg, x.model = q.model, x.upstream = q.upstream, x.routing = q.routing,
         x.selected = q.selected, x.at = q.at, x.phase # "idle",
         RoutedAs(q, p, passed)
  PROVE  RoutedAs(x, p, passed)
BY DEF RoutedAs, PathLeft

\* A request that is true to its target as the policy leaves it goes on so.
LEMMA RoutedOn ==
  ASSUME ChainOK, NEW q, DOMAIN q = Fields, q.pos \in DOMAIN chain, DOMAIN q.selected = DOMAIN chain,
         q.phase \in {"headers", "body", "response"},
         \A p \in DOMAIN chain : RoutedAs(q, p, IF p = q.pos THEN q.phase # "headers" ELSE Passed(q, p))
  PROVE  RoutedOK(NextPos(q, After(q.phase)))
<1>1. PICK x : x = NextPos(q, After(q.phase))
  OBVIOUS
<1>2. /\ x.msg = q.msg /\ x.model = q.model /\ x.upstream = q.upstream /\ x.routing = q.routing
      /\ x.selected = q.selected /\ x.at = q.at
      /\ \/ q.pos < Len(chain) /\ x.pos = q.pos + 1 /\ x.phase = q.phase
         \/ q.pos = Len(chain) /\ x.pos = 1 /\ x.phase = After(q.phase)
  BY <1>1, NextPosKeeps
<1>3. /\ q.phase = "headers" => After(q.phase) = "body"
      /\ q.phase = "body" => After(q.phase) = "upstream"
      /\ q.phase = "response" => After(q.phase) = "done"
  BY DEF After
<1>4. x.phase \in {"headers", "body", "upstream", "response", "done"}
  BY <1>2, <1>3
<1>5. ASSUME NEW p \in DOMAIN chain
      PROVE  Passed(x, p) = IF p = q.pos THEN q.phase # "headers" ELSE Passed(q, p)
  <2>1. p \in 1 .. Len(chain) /\ q.pos \in 1 .. Len(chain) /\ Len(chain) \in Nat
    BY DEF ChainOK
  <2>2. CASE q.phase = "headers"
    BY <1>2, <1>3, <2>1, <2>2 DEF Passed
  <2>3. CASE q.phase = "body"
    BY <1>2, <1>3, <2>1, <2>3 DEF Passed
  <2>4. CASE q.phase = "response"
    BY <1>2, <1>3, <2>1, <2>4 DEF Passed
  <2> QED
    BY <2>2, <2>3, <2>4
<1>6. ASSUME NEW p \in DOMAIN chain PROVE RoutedAs(x, p, Passed(x, p))
  <2> DEFINE passed == IF p = q.pos THEN q.phase # "headers" ELSE Passed(q, p)
  <2>1. RoutedAs(q, p, passed)
    OBVIOUS
  <2>2. Passed(x, p) = passed
    BY <1>5
  <2> HIDE DEF passed
  <2>3. x.phase # "idle"
    BY <1>4
  <2>4. RoutedAs(x, p, passed)
    BY <1>2, <2>1, <2>3, RoutedSame
  <2> QED
    BY <2>2, <2>4
<1>7. RoutedOK(x)
  BY <1>2, <1>4, <1>6 DEF RoutedOK, Phases
<1> QED
  BY <1>1, <1>7

\* A step of one request.
Steps(r) == \E q : RoutedOK(q) /\ req' = [req EXCEPT ![r] = q]

\* A policy that passes a request in the body phase has no target to enforce.
LEMMA PassRouted ==
  ASSUME RoutedInv, NEW r \in Requests, Pass(r), req[r].phase \in {"headers", "body", "response"},
         req[r].phase = "body" => /\ Here(r).kind # "time"
                                  /\ Here(r).kind = "rotation" => Here(r).location # "payload"
  PROVE  Steps(r)
<1>1. PICK q : q = req[r]
  OBVIOUS
<1>2. RequestOK(q) /\ RoutedOK(q) /\ ChainOK
  BY <1>1 DEF RoutedInv, RestInv
<1>3. q.phase \in {"headers", "body", "response"} /\ q.phase # "refused" /\ q.pos \in DOMAIN chain
  BY <1>1, <1>2 DEF RequestOK
<1>4. ASSUME NEW p \in DOMAIN chain
      PROVE  RoutedAs(q, p, IF p = q.pos THEN q.phase # "headers" ELSE Passed(q, p))
  <2>1. RoutedAs(q, p, Passed(q, p))
    BY <1>2, <1>3 DEF RoutedOK
  <2>2. CASE p # q.pos
    BY <2>1, <2>2
  <2>3. CASE p = q.pos /\ q.phase = "body"
    <3>1. Passed(q, p) = FALSE
      BY <1>2, <2>3 DEF Passed, ChainOK
    <3>2. chain[p].kind # "time" /\ (chain[p].kind = "rotation" => chain[p].location # "payload")
      BY <1>1, <2>3 DEF Here
    <3>3. RoutedAs(q, p, FALSE)
      BY <2>1, <3>1
    <3>4. RoutedAs(q, p, TRUE)
      BY <3>2, <3>3 DEF RoutedAs, PayloadDue
    <3> QED
      BY <2>3, <3>4
  <2>4. CASE p = q.pos /\ q.phase # "body"
    <3>1. Passed(q, p) = (q.phase # "headers")
      BY <1>3, <2>4 DEF Passed
    <3> QED
      BY <2>1, <2>4, <3>1
  <2> QED
    BY <2>2, <2>3, <2>4
<1>5. RoutedOK(NextPos(q, After(q.phase)))
  BY <1>2, <1>3, <1>4, RoutedOn DEF RoutedOK, RequestOK
<1>6. req' = [req EXCEPT ![r] = NextPos(q, After(q.phase))]
  BY <1>1 DEF Pass, RoutedInv, RestInv
<1> QED
  BY <1>5, <1>6 DEF Steps

\* A request that is turned away has no claim on a target.
LEMMA RefuseRouted ==
  ASSUME RoutedInv, NEW r \in Requests, NEW status, Refuse(r, status)
  PROVE  Steps(r)
<1> DEFINE q == [req[r] EXCEPT !.phase = "refused", !.answer = status]
<1>1. DOMAIN req[r] = Fields /\ DOMAIN req[r].selected = DOMAIN chain
  BY DEF RoutedInv, RestInv, RequestOK, RoutedOK
<1>2. q.phase = "refused" /\ q.selected = req[r].selected
  BY <1>1 DEF Fields
<1>3. req' = [req EXCEPT ![r] = q]
  BY DEF Refuse, RoutedInv, RestInv
<1> HIDE DEF q
<1>4. RoutedOK(q)
  BY <1>1, <1>2 DEF RoutedOK, Phases
<1> QED
  BY <1>3, <1>4 DEF Steps

\* The router of the chain is at p: the other policies choose nothing.
LEMMA OnlyHeaders ==
  ASSUME RoutedInv, NEW r \in Requests, Here(r).kind # "header", req[r].phase \notin {"refused"}
  PROVE  \A p \in DOMAIN chain : p # req[r].pos => chain[p].kind = "header" /\ req[r].selected[p] = NoTarget
<1>1. req[r].pos \in DOMAIN chain
  BY DEF RoutedInv, RestInv, RequestOK
<1>2. ASSUME NEW p \in DOMAIN chain, p # req[r].pos PROVE chain[p].kind = "header"
  BY <1>1, <1>2 DEF RoutedInv, RoutersOK, Here
<1>3. ASSUME NEW p \in DOMAIN chain, p # req[r].pos PROVE req[r].selected[p] = NoTarget
  <2>1. RoutedAs(req[r], p, Passed(req[r], p))
    BY DEF RoutedInv, RoutedOK
  <2> QED
    BY <1>2, <1>3, <2>1 DEF RoutedAs
<1> QED
  BY <1>2, <1>3

\* Of a policy that chooses nothing nothing is asked.
LEMMA HeaderRouted ==
  ASSUME NEW q, NEW p, NEW passed, chain[p].kind = "header", q.selected[p] = NoTarget
  PROVE  RoutedAs(q, p, passed)
BY DEF RoutedAs

\* A router has set the target t and the fields that go with it.
LEMMA ChosenRouted ==
  ASSUME RoutedInv, NEW r \in Requests, Here(r).kind # "header", req[r].phase \in {"headers", "body"},
         NEW q, RequestOK(q), q.pos = req[r].pos, q.phase = req[r].phase,
         DOMAIN q.selected = DOMAIN chain,
         \A p \in DOMAIN chain : p # q.pos => q.selected[p] = req[r].selected[p],
         RoutedAs(q, q.pos, q.phase # "headers"),
         req' = [req EXCEPT ![r] = NextPos(q, After(q.phase))]
  PROVE  Steps(r)
<1>1. q.pos \in DOMAIN chain /\ DOMAIN q = Fields /\ DOMAIN q.selected = DOMAIN chain /\ ChainOK
  BY DEF RoutedInv, RestInv, RequestOK
<1>3. ASSUME NEW p \in DOMAIN chain, p # q.pos PROVE RoutedAs(q, p, Passed(q, p))
  <2>1. chain[p].kind = "header" /\ req[r].selected[p] = NoTarget
    BY <1>3, OnlyHeaders
  <2>2. q.selected[p] = NoTarget
    BY <1>1, <1>3, <2>1
  <2> QED
    BY <2>1, <2>2, HeaderRouted
<1>4. \A p \in DOMAIN chain : RoutedAs(q, p, IF p = q.pos THEN q.phase # "headers" ELSE Passed(q, p))
  BY <1>3
<1>5. RoutedOK(NextPos(q, After(q.phase)))
  BY <1>1, <1>4, RoutedOn
<1> QED
  BY <1>5 DEF Steps

\* A target that is written with its provider.
LEMMA ForwardRouted ==
  ASSUME RoutedInv, NEW r \in Requests, Here(r).kind \notin {"header", "rotation"},
         req[r].phase \in {"headers", "body"}, NEW t, NEW b, Forward(r, t, TRUE, b),
         Here(r).kind = "time" => req[r].phase = "body" /\ InForce(Here(r), t, now % Week)
  PROVE  Steps(r)
<1> DEFINE provider == IF t.provider # "" THEN t.provider ELSE req[r].upstream
           routing == IF t.provider # "" THEN t.provider ELSE IF Here(r).kind = "cost" THEN "" ELSE req[r].routing
           q == [req[r] EXCEPT !.model = t.model, !.upstream = provider,
                               !.routing = routing, !.selected[req[r].pos] = t, !.budget[req[r].pos] = b, !.at = now]
<1>1. RequestOK(req[r]) /\ DOMAIN req[r].selected = DOMAIN chain /\ DOMAIN req = Requests
  BY DEF RoutedInv, RestInv, RoutedOK
<1>2. req' = [req EXCEPT ![r] = NextPos(q, After(req[r].phase))]
  BY <1>1 DEF Forward
<1>3. /\ RequestOK(q) /\ q.pos = req[r].pos /\ q.phase = req[r].phase /\ q.msg = req[r].msg
      /\ q.selected = [req[r].selected EXCEPT ![req[r].pos] = t]
      /\ q.model = t.model /\ q.upstream = provider /\ q.routing = routing /\ q.at = now
  <2> HIDE DEF provider, routing
  <2> QED
    BY <1>1 DEF RequestOK, Fields
<1>4. /\ q.selected[q.pos] = t /\ chain[q.pos] = Here(r) /\ DOMAIN q.selected = DOMAIN chain
      /\ \A p \in DOMAIN chain : p # q.pos => q.selected[p] = req[r].selected[p]
  BY <1>1, <1>3 DEF RequestOK, Here
<1> HIDE DEF q
<1>5. RoutedAs(q, q.pos, q.phase # "headers")
  <2>1. t.provider # "" => q.upstream = t.provider /\ q.routing = t.provider
    BY <1>3
  <2> HIDE DEF provider, routing
  <2> QED
    BY <1>3, <1>4, <2>1 DEF RoutedAs
<1> QED
  BY <1>2, <1>3, <1>4, <1>5, ChosenRouted

\* The rotation chooses in the header phase; a model in the payload is written later.
LEMMA RotationHeadersRouted ==
  ASSUME RoutedInv, NEW r \in Requests, RotationOnRequestHeaders(r)
  PROVE  Steps(r)
<1> DEFINE p == req[r].pos
           pick == SelectNextAvailable(r)
           location == Here(r).location
<1>1. RequestOK(req[r]) /\ RoutedOK(req[r]) /\ DOMAIN req = Requests /\ DOMAIN req[r].selected = DOMAIN chain
  BY DEF RoutedInv, RestInv, RoutedOK
<1>2. Here(r).kind = "rotation" /\ req[r].phase = "headers" /\ p \in DOMAIN chain /\ Here(r) = chain[p]
  BY <1>1 DEF RotationOnRequestHeaders, RequestOK, Here
<1>3. location \in Locations
  BY <1>2 DEF RoutedInv, RoutersOK
<1>4. CASE ~pick.found
  <2> DEFINE resting(t) == Here(r).suspendDuration > 0 /\ now - lastFail[p][t] < Here(r).suspendDuration
             rested == \A t \in Targets(Here(r)) : resting(t)
             q == [req[r] EXCEPT !.phase = "refused", !.answer = 503, !.rested = rested]
  <2>1. q.phase = "refused" /\ q.selected = req[r].selected
    BY <1>1 DEF RequestOK, Fields
  <2>2. req' = [req EXCEPT ![r] = q]
    BY <1>4, Zenon DEF RotationOnRequestHeaders
  <2> HIDE DEF q, pick
  <2>3. RoutedOK(q)
    BY <1>1, <2>1 DEF RoutedOK, Phases
  <2> QED
    BY <2>2, <2>3 DEF Steps
<1>5. CASE pick.found
  <2> DEFINE resting(t) == Here(r).suspendDuration > 0 /\ now - lastFail[p][t] < Here(r).suspendDuration
             rested == ~resting(pick.target)
  <2>0. req' = [req EXCEPT ![r] = NextPos(
          [req[r] EXCEPT
             !.model = IF location = "header" \/ PathModified(r) THEN pick.target.model ELSE req[r].model,
             !.upstream = IF pick.target.provider # "" THEN pick.target.provider ELSE req[r].upstream,
             !.routing = IF pick.target.provider # "" THEN pick.target.provider ELSE req[r].routing,
             !.selected[p] = pick.target, !.at = now, !.rested = rested], "body")]
    BY <1>5, Zenon DEF RotationOnRequestHeaders
  <2> HIDE DEF rested, resting
  <2>1. PICK t : t = pick.target
    OBVIOUS
  <2>2. PICK model : model = IF location = "header" \/ PathModified(r) THEN t.model ELSE req[r].model
    OBVIOUS
  <2>3. PICK upstream : upstream = IF t.provider # "" THEN t.provider ELSE req[r].upstream
    OBVIOUS
  <2>4. PICK routing : routing = IF t.provider # "" THEN t.provider ELSE req[r].routing
    OBVIOUS
  <2> DEFINE q == [req[r] EXCEPT !.model = model, !.upstream = upstream, !.routing = routing,
                                 !.selected[p] = t, !.at = now, !.rested = rested]
  <2>5. req' = [req EXCEPT ![r] = NextPos(q, "body")]
    BY <2>0, <2>1, <2>2, <2>3, <2>4, Zenon
  <2>6. /\ DOMAIN q = Fields /\ q.pos = p /\ q.phase = "headers" /\ q.msg = req[r].msg
        /\ q.selected = [req[r].selected EXCEPT ![p] = t]
        /\ q.model = model /\ q.upstream = upstream /\ q.routing = routing
    BY <1>1, <1>2 DEF RequestOK, Fields
  <2>7. q.selected[p] = t
    BY <1>1, <1>2, <2>6
  <2> HIDE DEF q, pick
  <2>8. RoutedAs(q, p, FALSE)
    <3>1. t.provider # "" => q.upstream = t.provider /\ q.routing = t.provider
      BY <2>3, <2>4, <2>6
    <3>2. ~PathLeft(q, chain[p]) /\ ~PayloadDue(chain[p], FALSE) => q.model = t.model
      BY <1>2, <1>3, <2>2, <2>6 DEF PathLeft, PayloadDue, PathModified, Locations
    <3> QED
      BY <1>2, <2>6, <2>7, <3>1, <3>2 DEF RoutedAs
  <2>9. RoutedOK(NextPos(q, After(q.phase)))
    <3>1. ASSUME NEW x \in DOMAIN chain, x # p PROVE RoutedAs(q, x, Passed(q, x))
      <4>1. chain[x].kind = "header" /\ req[r].selected[x] = NoTarget
        BY <1>2, <3>1, OnlyHeaders
      <4>2. q.selected[x] = NoTarget
        BY <1>1, <2>6, <3>1, <4>1
      <4> QED
        BY <4>1, <4>2, HeaderRouted
    <3>2. ChainOK /\ q.phase = "headers" /\ q.pos = p
      BY <2>6 DEF RoutedInv, RestInv
    <3>3. \A x \in DOMAIN chain : RoutedAs(q, x, IF x = q.pos THEN q.phase # "headers" ELSE Passed(q, x))
      BY <2>8, <3>1, <3>2
    <3>4. DOMAIN q.selected = DOMAIN chain
      BY <1>1, <2>6
    <3> QED
      BY <1>2, <2>6, <3>2, <3>3, <3>4, RoutedOn
  <2>10. After(q.phase) = "body"
    BY <2>6 DEF After
  <2> QED
    BY <2>5, <2>9, <2>10 DEF Steps
<1> QED
  BY <1>4, <1>5

\* The model is written into the payload.
LEMMA RotationBodyRouted ==
  ASSUME RoutedInv, NEW r \in Requests, RotationOnRequestBody(r)
  PROVE  Steps(r)
<1> DEFINE p == req[r].pos
<1>1. RequestOK(req[r]) /\ RoutedOK(req[r]) /\ DOMAIN req = Requests /\ DOMAIN req[r].selected = DOMAIN chain
  BY DEF RoutedInv, RestInv, RoutedOK
<1>2. Here(r).kind = "rotation" /\ req[r].phase = "body" /\ p \in DOMAIN chain /\ Here(r) = chain[p]
  BY <1>1 DEF RotationOnRequestBody, RequestOK, Here
<1>3. CASE Here(r).location # "payload"
  <2>1. Pass(r)
    BY <1>3 DEF RotationOnRequestBody
  <2> QED
    BY <1>2, <1>3, <2>1, PassRouted
<1>4. CASE Refuse(r, 400)
  BY <1>4, RefuseRouted
<1>5. CASE Here(r).location = "payload" /\ ~Refuse(r, 400)
  <2>1. PICK t : t = req[r].selected[p]
    OBVIOUS
  <2> DEFINE q == [req[r] EXCEPT !.model = t.model]
  <2>2. req' = [req EXCEPT ![r] = NextPos(q, "upstream")]
    BY <1>1, <1>5, <2>1 DEF RotationOnRequestBody
  <2>3. /\ RequestOK(q) /\ q.pos = p /\ q.phase = "body" /\ q.msg = req[r].msg /\ q.model = t.model
        /\ q.selected = req[r].selected /\ q.upstream = req[r].upstream /\ q.routing = req[r].routing
    BY <1>1, <1>2 DEF RequestOK, Fields
  <2> HIDE DEF q
  <2>4. DOMAIN q.selected = DOMAIN chain /\ \A x \in DOMAIN chain : x # p => q.selected[x] = req[r].selected[x]
    BY <1>1, <2>3
  <2>5. RoutedAs(req[r], p, Passed(req[r], p))
    BY <1>1, <1>2 DEF RoutedOK
  <2>6. RoutedAs(q, p, TRUE)
    BY <1>2, <2>1, <2>3, <2>5 DEF RoutedAs
  <2>7. After(q.phase) = "upstream" /\ (q.phase # "headers") = TRUE
    BY <2>3 DEF After
  <2>8. Here(r).kind # "header" /\ req[r].phase \in {"headers", "body"} /\ q.phase = req[r].phase
    BY <1>2, <2>3
  <2>9. RoutedAs(q, q.pos, q.phase # "headers")
    BY <2>3, <2>6, <2>7
  <2> QED
    BY <2>2, <2>3, <2>4, <2>7, <2>8, <2>9, ChosenRouted
<1> QED
  BY <1>3, <1>4, <1>5

\* What a policy does when the response passes changes nothing of this.
LEMMA ResponseRouted ==
  ASSUME RoutedInv, NEW r \in Requests,
         RotationOnResponseHeaders(r) \/ \E err \in BOOLEAN : ChargeOnce(r, err)
  PROVE  Steps(r)
<1>1. CASE RotationOnResponseHeaders(r)
  <2>1. Pass(r) /\ req[r].phase = "response"
    BY <1>1 DEF RotationOnResponseHeaders
  <2> QED
    BY <2>1, PassRouted
<1>2. ASSUME NEW err \in BOOLEAN, ChargeOnce(r, err) PROVE Steps(r)
  <2> DEFINE claim == ~req[r].charged /\ req[r].budget[req[r].pos] # 0
             lost == \/ err
                     \/ /\ Here(r).backend # "memory"
                        /\ spent[req[r].pos][req[r].budget[req[r].pos]] + ScaleCost(req[r].cost, Here(r).scale) > MaxScaled
             q == IF claim THEN [req[r] EXCEPT !.charged = TRUE, !.billed = ~lost] ELSE req[r]
  <2>1. RequestOK(req[r]) /\ RoutedOK(req[r]) /\ ChainOK /\ req[r].phase = "response" /\ DOMAIN req = Requests
    BY <1>2 DEF RoutedInv, RestInv, ChargeOnce
  <2>2. req' = [req EXCEPT ![r] = NextPos(q, "done")]
    BY <1>2, <2>1 DEF ChargeOnce
  <2>3. /\ RequestOK(q) /\ q.phase = "response" /\ q.pos = req[r].pos /\ q.msg = req[r].msg /\ q.model = req[r].model
        /\ q.upstream = req[r].upstream /\ q.routing = req[r].routing /\ q.selected = req[r].selected /\ q.at = req[r].at
    BY <2>1 DEF RequestOK, Fields
  <2> HIDE DEF q
  <2>4. ASSUME NEW p \in DOMAIN chain PROVE RoutedAs(q, p, IF p = q.pos THEN q.phase # "headers" ELSE Passed(q, p))
    <3>1. RoutedAs(req[r], p, Passed(req[r], p))
      BY <2>1 DEF RoutedOK
    <3>2. Passed(req[r], p) = TRUE /\ Passed(q, p) = TRUE /\ (q.phase # "headers") = TRUE
      BY <2>1, <2>3 DEF Passed
    <3>3. RoutedAs(q, p, TRUE)
      BY <2>3, <3>1, <3>2, RoutedSame
    <3> QED
      BY <3>2, <3>3
  <2>5. RoutedOK(NextPos(q, After(q.phase)))
    BY <2>1, <2>3, <2>4, RoutedOn DEF RoutedOK, RequestOK
  <2>6. After(q.phase) = "done"
    BY <2>3 DEF After
  <2> QED
    BY <2>2, <2>5, <2>6 DEF Steps
<1> QED
  BY <1>1, <1>2

\* cost-based-model-routing decides in the phase in which it can write the model.
LEMMA CostRouted ==
  ASSUME RoutedInv, NEW r \in Requests, NEW errs, CostOnRequest(r, errs)
  PROVE  Steps(r)
<1> DEFINE pick == CheckBudget(r, SelectTarget(Here(r), req[r].msg.model), errs)
<1>1. Here(r).kind = "cost" /\ req[r].phase \in {"headers", "body"}
  BY DEF CostOnRequest
<1>2. \/ Pass(r) \/ Refuse(r, 400) \/ Refuse(r, pick.status)
      \/ Forward(r, pick.target, TRUE, pick.budget)
  BY Zenon DEF CostOnRequest
<1> HIDE DEF pick
<1>3. CASE Pass(r)
  BY <1>1, <1>3, PassRouted
<1>4. CASE \E status : Refuse(r, status)
  BY <1>4, RefuseRouted
<1>5. CASE Forward(r, pick.target, TRUE, pick.budget)
  <2>1. PICK t, b : Forward(r, t, TRUE, b)
    BY <1>5
  <2> QED
    BY <1>1, <2>1, ForwardRouted
<1> QED
  BY <1>2, <1>3, <1>4, <1>5

\* modifyRequestModel
LEMMA ClassifierRouted ==
  ASSUME RoutedInv, NEW r \in Requests, Here(r).kind \in Classifiers, req[r].phase = "body",
         NEW t, ModifyRequestModel(r, t)
  PROVE  Steps(r)
<1>1. Here(r).kind \notin {"header", "rotation", "time"}
  BY DEF Classifiers
<1>2. CASE Pass(r)
  BY <1>1, <1>2, PassRouted
<1>3. CASE Forward(r, t, TRUE, 0)
  BY <1>1, <1>3, ForwardRouted
<1> QED
  BY <1>2, <1>3 DEF ModifyRequestModel

\* Time-based routing: the schedule in force chooses, or the request is left alone.
LEMMA TimeRouted ==
  ASSUME RoutedInv, NEW r \in Requests, TimeOnRequestBody(r)
  PROVE  Steps(r)
<1>1. Here(r).kind = "time" /\ req[r].phase = "body"
  BY DEF TimeOnRequestBody
<1>2. RequestOK(req[r]) /\ RoutedOK(req[r]) /\ DOMAIN req = Requests /\ DOMAIN req[r].selected = DOMAIN chain
  BY DEF RoutedInv, RestInv, RoutedOK
<1>3. req[r].pos \in DOMAIN chain /\ Here(r) = chain[req[r].pos]
  BY <1>2 DEF RequestOK, Here
<1>4. SchedulesOK(Here(r)) /\ MinutesPerDay \in Nat \ {0} /\ DaysPerWeek \in Nat \ {0}
  BY <1>1, <1>3 DEF RoutedInv, RoutersOK
<1>5. now % Week \in 0 .. Week - 1
  <2>1. Week \in Nat \ {0}
    BY <1>4, DayFits, 0 \in 0 .. DaysPerWeek - 1 DEF Week
  <2>2. now \in Int
    BY DEF RoutedInv, RestInv
  <2> QED
    BY <2>1, <2>2
<1>6. PICK t : t = SelectScheduled(Here(r), now % Week)
  OBVIOUS
<1>7. InForce(Here(r), t, now % Week)
  BY <1>4, <1>5, <1>6, SelectedInForce
<1>8. \/ t = NoTarget /\ req' = [req EXCEPT ![r] = NextPos([@ EXCEPT !.at = now], "upstream")]
      \/ Refuse(r, 400) \/ Forward(r, t, TRUE, 0)
  BY <1>6, Zenon DEF TimeOnRequestBody, Week
<1>9. CASE t = NoTarget /\ req' = [req EXCEPT ![r] = NextPos([@ EXCEPT !.at = now], "upstream")]
  <2> DEFINE p == req[r].pos
             q == [req[r] EXCEPT !.at = now]
  <2>1. req' = [req EXCEPT ![r] = NextPos(q, "upstream")]
    BY <1>2, <1>9
  <2>2. /\ RequestOK(q) /\ q.pos = p /\ q.phase = "body" /\ q.selected = req[r].selected /\ q.at = now
    BY <1>1, <1>2 DEF RequestOK, Fields
  <2> HIDE DEF q
  <2>3. RoutedAs(req[r], p, Passed(req[r], p))
    BY <1>1, <1>2, <1>3 DEF RoutedOK
  <2>4. Passed(req[r], p) = FALSE
    BY <1>1, <1>3 DEF Passed, RoutedInv, RestInv, ChainOK
  <2>5. q.selected[p] = NoTarget
    BY <1>1, <1>3, <2>2, <2>3, <2>4 DEF RoutedAs
  <2>6. RoutedAs(q, p, TRUE)
    BY <1>1, <1>3, <1>7, <1>9, <2>2, <2>5 DEF RoutedAs
  <2>7. After(q.phase) = "upstream" /\ (q.phase # "headers") = TRUE
    BY <2>2 DEF After
  <2>8. RoutedAs(q, q.pos, q.phase # "headers")
    BY <2>2, <2>6, <2>7
  <2>9. DOMAIN q.selected = DOMAIN chain /\ \A x \in DOMAIN chain : x # q.pos => q.selected[x] = req[r].selected[x]
    BY <1>2, <2>2
  <2>10. Here(r).kind # "header" /\ req[r].phase \in {"headers", "body"} /\ q.phase = req[r].phase
    BY <1>1, <2>2
  <2> QED
    BY <2>1, <2>2, <2>7, <2>8, <2>9, <2>10, ChosenRouted
<1>10. CASE Refuse(r, 400)
  BY <1>10, RefuseRouted
<1>11. CASE Forward(r, t, TRUE, 0)
  BY <1>1, <1>7, <1>11, ForwardRouted
<1> QED
  BY <1>8, <1>9, <1>10, <1>11

\* llm-header-router names the upstream of a request nobody has routed.
LEMMA NamedRouted ==
  ASSUME RoutedInv, NEW r \in Requests, HeaderOnRequest(r)
  PROVE  Steps(r)
<1>1. Here(r).kind = "header" /\ req[r].phase \in {"headers", "body"}
  BY DEF HeaderOnRequest
<1>2. /\ RequestOK(req[r]) /\ RoutedOK(req[r]) /\ ChainOK /\ DOMAIN req = Requests
      /\ DOMAIN req[r].selected = DOMAIN chain /\ req[r].pos \in DOMAIN chain /\ Here(r) = chain[req[r].pos]
  BY DEF RoutedInv, RestInv, RoutedOK, RequestOK, Here
<1>3. CASE Pass(r)
  BY <1>1, <1>3, PassRouted
<1>4. CASE ~Pass(r)
  <2>1. PICK routing, upstream :
          req' = [req EXCEPT ![r] = NextPos([req[r] EXCEPT !.routing = routing, !.upstream = upstream], After(req[r].phase))]
    BY <1>4, Zenon DEF HeaderOnRequest
  <2>2. req[r].routing = ""
    BY <1>4 DEF HeaderOnRequest
  <2> DEFINE q == [req[r] EXCEPT !.routing = routing, !.upstream = upstream]
  <2>3. /\ RequestOK(q) /\ q.pos = req[r].pos /\ q.phase = req[r].phase /\ q.msg = req[r].msg
        /\ q.model = req[r].model /\ q.selected = req[r].selected /\ q.at = req[r].at
    BY <1>2 DEF RequestOK, Fields
  <2> HIDE DEF q
  <2>4. ASSUME NEW p \in DOMAIN chain
        PROVE  RoutedAs(q, p, IF p = q.pos THEN q.phase # "headers" ELSE Passed(q, p))
    <3>1. RoutedAs(req[r], p, Passed(req[r], p))
      BY <1>1, <1>2 DEF RoutedOK
    <3>2. CASE chain[p].kind = "header"
      <4>1. q.selected[p] = NoTarget
        BY <2>3, <3>1, <3>2 DEF RoutedAs
      <4> QED
        BY <3>2, <4>1, HeaderRouted
    <3>3. CASE chain[p].kind # "header"
      <4>1. p # q.pos /\ Passed(q, p) = Passed(req[r], p)
        BY <1>1, <1>2, <2>3, <3>3 DEF Passed
      <4>2. RoutedAs(q, p, Passed(req[r], p))
        BY <1>1, <2>2, <2>3, <3>1, <3>3 DEF RoutedAs, PathLeft
      <4> QED
        BY <4>1, <4>2
    <3> QED
      BY <3>2, <3>3
  <2>5. RoutedOK(NextPos(q, After(q.phase)))
    BY <1>1, <1>2, <2>3, <2>4, RoutedOn DEF RequestOK
  <2> QED
    BY <2>1, <2>3, <2>5 DEF Steps, q
<1> QED
  BY <1>3, <1>4

\* A phase without a handler.
LEMMA PassedByRouted ==
  ASSUME RoutedInv, NEW r \in Requests, NoHandler(r)
  PROVE  Steps(r)
BY PassRouted DEF NoHandler

\* A request arrives without a target and reaches the upstream with it.
LEMMA EngineRouted ==
  ASSUME RoutedInv, NEW r \in Requests,
         \/ \E m \in Messages : Arrive(r, m)
         \/ \E s \in Statuses, c \in Costs : Upstream(r, s, c)
  PROVE  Steps(r)
<1>1. RequestOK(req[r]) /\ RoutedOK(req[r]) /\ DOMAIN req = Requests
  BY DEF RoutedInv, RestInv
<1>2. ASSUME NEW m \in Messages, Arrive(r, m) PROVE Steps(r)
  <2> DEFINE q == [req[r] EXCEPT !.phase = "headers", !.msg = m, !.model = m.model]
  <2>1. req' = [req EXCEPT ![r] = q] /\ req[r].phase = "idle"
    BY <1>1, <1>2 DEF Arrive
  <2>2. q.selected = req[r].selected /\ q.phase = "headers"
    BY <1>1 DEF RequestOK, Fields
  <2> HIDE DEF q
  <2>3. ASSUME NEW p \in DOMAIN chain PROVE RoutedAs(q, p, Passed(q, p))
    <3>1. RoutedAs(req[r], p, Passed(req[r], p))
      BY <1>1, <2>1 DEF RoutedOK
    <3>2. q.selected[p] = NoTarget /\ Passed(q, p) = FALSE
      BY <2>1, <2>2, <3>1 DEF RoutedAs, Passed
    <3> QED
      BY <2>2, <3>2 DEF RoutedAs
  <2>4. RoutedOK(q)
    BY <1>1, <2>2, <2>3 DEF RoutedOK, Phases
  <2> QED
    BY <2>1, <2>4 DEF Steps
<1>3. ASSUME NEW s \in Statuses, NEW c \in Costs, Upstream(r, s, c) PROVE Steps(r)
  <2> DEFINE q == [req[r] EXCEPT !.phase = "response", !.answer = s, !.cost = c]
  <2>1. req' = [req EXCEPT ![r] = q] /\ req[r].phase = "upstream"
    BY <1>1, <1>3 DEF Upstream
  <2>2. /\ q.msg = req[r].msg /\ q.model = req[r].model /\ q.upstream = req[r].upstream /\ q.routing = req[r].routing
        /\ q.selected = req[r].selected /\ q.at = req[r].at /\ q.phase = "response"
    BY <1>1 DEF RequestOK, Fields
  <2> HIDE DEF q
  <2>3. ASSUME NEW p \in DOMAIN chain PROVE RoutedAs(q, p, Passed(q, p))
    <3>1. RoutedAs(req[r], p, Passed(req[r], p))
      BY <1>1, <2>1 DEF RoutedOK
    <3>2. Passed(q, p) = TRUE /\ Passed(req[r], p) = TRUE
      BY <2>1, <2>2 DEF Passed
    <3> QED
      BY <2>2, <3>1, <3>2, RoutedSame
  <2>4. RoutedOK(q)
    BY <1>1, <2>2, <2>3 DEF RoutedOK, Phases
  <2> QED
    BY <2>1, <2>4 DEF Steps
<1> QED
  BY <1>2, <1>3

\* The other requests and the chain stay as they are.
LEMMA StillRouted ==
  ASSUME RoutersOK, \A r \in Requests : RoutedOK(req[r]), UNCHANGED chain,
         \/ UNCHANGED req
         \/ DOMAIN req = Requests /\ \E r \in Requests : Steps(r)
  PROVE  (RoutersOK /\ \A r \in Requests : RoutedOK(req[r]))'
<1>1. RoutersOK'
  BY DEF RoutersOK, SchedulesOK
<1>2. ASSUME NEW q, RoutedOK(q), NEW x, req'[x] = q PROVE RoutedOK(req[x])'
  <2>1. ASSUME NEW p, NEW passed, RoutedAs(q, p, passed) PROVE RoutedAs(req[x], p, passed)'
    BY <1>2, <2>1 DEF RoutedAs, PathLeft, PayloadDue, InForce
  <2>2. ASSUME NEW p PROVE Passed(req[x], p)' <=> Passed(q, p)
    BY <1>2 DEF Passed
  <2> QED
    BY <1>2, <2>1, <2>2 DEF RoutedOK
<1>3. CASE UNCHANGED req
  BY <1>1, <1>2, <1>3
<1>4. ASSUME NEW r \in Requests, Steps(r), DOMAIN req = Requests
      PROVE  \A x \in Requests : RoutedOK(req[x])'
  <2>1. PICK q : RoutedOK(q) /\ req' = [req EXCEPT ![r] = q]
    BY <1>4 DEF Steps
  <2>2. req'[r] = q /\ \A x \in Requests : x # r => req'[x] = req[x]
    BY <1>4, <2>1
  <2> QED
    BY <1>2, <2>1, <2>2
<1> QED
  BY <1>1, <1>3, <1>4

\* What the parsers accept, and requests that have not arrived.
LEMMA InitRouted ==
  ASSUME OneRouter PROVE Init => RoutedInv
<1> SUFFICES ASSUME Init PROVE RoutedInv
  OBVIOUS
<1>1. PICK c \in Chains : chain = [p \in DOMAIN c |-> ParsePolicy(c[p])]
  BY Zenon DEF Init
<1>2. ASSUME NEW p \in DOMAIN chain
      PROVE  p \in DOMAIN c /\ chain[p] = ParsePolicy(c[p]) /\ chain[p].kind = c[p].kind /\ chain[p].ok
  <2>1. p \in DOMAIN c /\ chain[p] = ParsePolicy(c[p])
    BY <1>1
  <2> QED
    BY <2>1, ParsedKind DEF Init
<1>3. ASSUME NEW p \in DOMAIN chain, chain[p].kind = "rotation" PROVE chain[p].location \in Locations
  <2>1. c[p].kind = "rotation" /\ ParsePolicy(c[p]).ok /\ chain[p] = ParsePolicy(c[p])
    BY <1>2, <1>3
  <2> DEFINE rm == ParseRequestModel(c[p].kind, c[p].requestModel)
  <2>2. ParsePolicy(c[p]).location = rm.location /\ rm.ok
    BY <2>1 DEF ParsePolicy
  <2>3. rm.location \in Locations
    BY <2>1, <2>2 DEF ParseRequestModel, Locations, Classifiers
  <2> QED
    BY <2>1, <2>2, <2>3
<1>4. ASSUME NEW p \in DOMAIN chain, chain[p].kind = "time" PROVE SchedulesOK(chain[p])
  <2>1. p \in DOMAIN c /\ c[p].kind = "time" /\ ParsePolicy(c[p]).ok /\ chain[p] = ParsePolicy(c[p])
    BY <1>2, <1>4
  <2>2. ParsePolicy(c[p]).schedules = c[p].schedules /\ ParseTimeConfig(c[p])
    BY <2>1 DEF ParsePolicy
  <2>3. AreSchedules(c[p].schedules)
    BY <2>1, RoutingAssumption
  <2> QED
    BY <2>1, <2>2, <2>3 DEF SchedulesOK, ParseTimeConfig
<1>5. RoutersOK
  <2>1. MinutesPerDay \in Nat \ {0} /\ DaysPerWeek \in Nat \ {0}
    BY RoutingAssumption
  <2>2. ASSUME NEW p \in DOMAIN chain, NEW q \in DOMAIN chain, chain[p].kind # "header", chain[q].kind # "header"
        PROVE  p = q
    BY <1>2, <2>2 DEF OneRouter
  <2> QED
    BY <1>3, <1>4, <2>1, <2>2 DEF RoutersOK
<1>6. ASSUME NEW r \in Requests PROVE RoutedOK(req[r])
  <2>1. req[r] = Fresh
    BY DEF Init
  <2>2. req[r].phase = "idle" /\ req[r].selected = [p \in DOMAIN chain |-> NoTarget]
    <3>1. Fresh.phase = "idle"
      BY DEF Fresh
    <3>2. Fresh.selected = [p \in DOMAIN chain |-> NoTarget]
      BY DEF Fresh
    <3> QED
      BY <2>1, <3>1, <3>2
  <2>3. ASSUME NEW p \in DOMAIN chain PROVE RoutedAs(req[r], p, Passed(req[r], p))
    <3>1. req[r].selected[p] = NoTarget /\ Passed(req[r], p) = FALSE
      BY <2>2 DEF Passed
    <3> QED
      BY <3>1 DEF RoutedAs
  <2> QED
    BY <2>2, <2>3 DEF RoutedOK, Phases
<1> QED
  BY <1>5, <1>6, InitRest DEF RoutedInv

\* Every step keeps the invariant.
LEMMA NextRouted == RoutedInv /\ [Next]_vars => RoutedInv'
<1> SUFFICES ASSUME RoutedInv, [Next]_vars PROVE RoutedInv'
  OBVIOUS
<1>1. RestInv'
  BY NextRest DEF RoutedInv
<1>2. UNCHANGED chain /\ (UNCHANGED req \/ \E r \in Requests : Steps(r))
  <2>1. CASE Tick
    BY <2>1 DEF Tick
  <2>2. ASSUME NEW r \in Requests,
               \/ \E m \in Messages : Arrive(r, m)
               \/ \E s \in Statuses, c \in Costs : Upstream(r, s, c)
        PROVE  UNCHANGED chain /\ Steps(r)
    BY <2>2, EngineRouted DEF Arrive, Upstream
  <2>3. ASSUME NEW r \in Requests, RotationOnRequestHeaders(r) PROVE UNCHANGED chain /\ Steps(r)
    BY <2>3, RotationHeadersRouted, Zenon DEF RotationOnRequestHeaders
  <2>4. ASSUME NEW r \in Requests, RotationOnRequestBody(r) PROVE UNCHANGED chain /\ Steps(r)
    BY <2>4, RotationBodyRouted DEF RotationOnRequestBody
  <2>5. ASSUME NEW r \in Requests, RotationOnResponseHeaders(r) \/ \E err \in BOOLEAN : ChargeOnce(r, err)
        PROVE  UNCHANGED chain /\ Steps(r)
    BY <2>5, ResponseRouted, Zenon DEF RotationOnResponseHeaders, ChargeOnce
  <2>6. ASSUME NEW r \in Requests, NEW errs, CostOnRequest(r, errs) PROVE UNCHANGED chain /\ Steps(r)
    BY <2>6, CostRouted, Zenon DEF CostOnRequest
  <2>7. ASSUME NEW r \in Requests, NEW reply \in Replies,
               SemanticOnRequestBody(r, reply) \/ IntelligentOnRequestBody(r, reply) \/ JevOnRequestBody(r, reply)
        PROVE  UNCHANGED chain /\ Steps(r)
    <3>1. Here(r).kind \in Classifiers /\ req[r].phase = "body" /\ UNCHANGED chain /\ \E t : ModifyRequestModel(r, t)
      BY <2>7, Zenon DEF SemanticOnRequestBody, IntelligentOnRequestBody, JevOnRequestBody, Classifiers
    <3> QED
      BY <3>1, ClassifierRouted
  <2>8. ASSUME NEW r \in Requests, TimeOnRequestBody(r) PROVE UNCHANGED chain /\ Steps(r)
    BY <2>8, TimeRouted, Zenon DEF TimeOnRequestBody
  <2>9. ASSUME NEW r \in Requests, HeaderOnRequest(r) \/ NoHandler(r) PROVE UNCHANGED chain /\ Steps(r)
    BY <2>9, NamedRouted, PassedByRouted, Zenon DEF HeaderOnRequest, NoHandler
  <2>10. CASE UNCHANGED vars
    BY <2>10 DEF vars
  <2> QED
    BY <2>1, <2>2, <2>3, <2>4, <2>5, <2>6, <2>7, <2>8, <2>9, <2>10 DEF Next
<1> QED
  BY <1>1, <1>2, StillRouted DEF RoutedInv, RestInv

\* Where one policy of the route chooses the target, a request that reaches
\* the upstream carries the model of its target to the provider of its target,
\* and a schedule decides exactly while it is due, for every chain of policies,
\* every number of requests and every length of the day and the week.
THEOREM TargetsWhole == ASSUME OneRouter PROVE Spec => []TargetWhole
<1>1. RoutedInv => TargetWhole
  <2> SUFFICES ASSUME RoutedInv, NEW r \in Requests, NEW p \in DOMAIN chain,
                      req[r].phase \in {"upstream", "response", "done"}
               PROVE  LET t == req[r].selected[p]
                          c == chain[p]
                      IN /\ (t # NoTarget /\ ~(c.kind = "rotation" /\ c.location \in {"queryParam", "pathParam"} /\ ~req[r].msg.settable))
                              => (req[r].model = t.model /\ (t.provider # "" => req[r].upstream = t.provider))
                         /\ c.kind = "time" =>
                              LET due == {i \in DOMAIN c.schedules : Due(c.schedules[i], req[r].at % (DaysPerWeek * MinutesPerDay))}
                              IN IF due = {} THEN t = c.fallback ELSE due = {i \in due : c.schedules[i].target = t}
    BY Zenon DEF TargetWhole
  <2>1. RoutedAs(req[r], p, TRUE)
    BY DEF RoutedInv, RoutedOK, Passed
  <2> QED
    BY <2>1 DEF RoutedAs, PathLeft, PayloadDue, InForce, Week
<1>2. Init => RoutedInv
  BY InitRouted
<1> QED
  BY <1>1, <1>2, NextRouted, PTL DEF Spec

-----------------------------------------------------------------------------
(* Sums over the requests.                                                  *)

\* Induction on finite sets, for a set Good of them.
LEMMA FiniteInduction ==
  ASSUME NEW U, NEW Good, {} \in Good,
         \A V \in SUBSET U : \A x \in U :
           IsFiniteSet(V) /\ V \in Good /\ x \notin V => V \cup {x} \in Good
  PROVE  \A V \in SUBSET U : IsFiniteSet(V) => V \in Good
<1> DEFINE Bad == {V \in SUBSET U : IsFiniteSet(V) /\ V \notin Good}
<1>1. SUFFICES ASSUME Bad # {} PROVE FALSE
  OBVIOUS
<1>2. PICK W \in Bad : \A V \in Bad : <<V, W>> \notin StrictSubsetOrdering(U)
  <2>1. Bad \subseteq FiniteSubsetsOf(U)
    BY DEF FiniteSubsetsOf
  <2> HIDE DEF Bad
  <2> QED
    BY <1>1, <2>1, WFMin, FS_StrictSubsetOrderingWellFounded
<1>3. W \in SUBSET U /\ IsFiniteSet(W) /\ W \notin Good /\ W # {}
  OBVIOUS
<1>4. PICK x \in W : TRUE
  BY <1>3
<1>5. IsFiniteSet(W \ {x})
  BY <1>3, FS_RemoveElement
<1>6. W \ {x} \in Good
  <2>1. SUFFICES ASSUME W \ {x} \notin Good PROVE FALSE
    OBVIOUS
  <2>2. W \ {x} \in Bad
    BY <1>3, <1>5, <2>1
  <2>3. <<W \ {x}, W>> \in StrictSubsetOrdering(U)
    BY <1>3, <1>4 DEF StrictSubsetOrdering
  <2> QED
    BY <1>2, <2>2, <2>3
<1>7. (W \ {x}) \cup {x} \in Good /\ (W \ {x}) \cup {x} = W
  BY <1>3, <1>4, <1>5, <1>6
<1> QED
  BY <1>3, <1>7

\* Induction on the naturals, for a set S of them.
LEMMA CountingInduction ==
  ASSUME NEW S, 0 \in S, \A n \in Nat : n \in S => n + 1 \in S
  PROVE  \A n \in Nat : n \in S
<1> DEFINE Good == {V \in SUBSET Nat : \A n \in Nat : Cardinality(V) = n => n \in S}
<1>1. {} \in Good
  BY FS_EmptySet
<1>2. \A V \in SUBSET Nat : \A x \in Nat :
        IsFiniteSet(V) /\ V \in Good /\ x \notin V => V \cup {x} \in Good
  <2> SUFFICES ASSUME NEW V \in SUBSET Nat, NEW x \in Nat, IsFiniteSet(V), V \in Good, x \notin V
               PROVE  V \cup {x} \in Good
    OBVIOUS
  <2>1. Cardinality(V) \in Nat /\ Cardinality(V \cup {x}) = Cardinality(V) + 1
    BY FS_AddElement, FS_CardinalityType
  <2> QED
    BY <2>1
<1>3. \A V \in SUBSET Nat : IsFiniteSet(V) => V \in Good
  <2> HIDE DEF Good
  <2> QED
    BY <1>1, <1>2, FiniteInduction
<1>4. SUFFICES ASSUME NEW n \in Nat PROVE n \in S
  OBVIOUS
<1>5. IsFiniteSet(1..n) /\ Cardinality(1..n) = n /\ (1..n) \in SUBSET Nat
  BY FS_Interval
<1> QED
  BY <1>3, <1>5

\* it adds up f over the subsets of S.
AddsUp(it, f, S) ==
  it = [s \in SUBSET S |-> IF s = {} THEN 0
                          ELSE LET x == CHOOSE x \in s : TRUE IN f[x] + it[s \ {x}]]

\* Such a function exists: on sets of at most n members for every n.
LEMMA SumExists ==
  ASSUME NEW S, IsFiniteSet(S), NEW f
  PROVE  \E it : AddsUp(it, f, S)
<1> DEFINE Small(n) == {s \in SUBSET S : Cardinality(s) <= n}
           Body(it, s) == IF s = {} THEN 0 ELSE LET x == CHOOSE x \in s : TRUE IN f[x] + it[s \ {x}]
           Good == {n \in Nat : \E it : it = [s \in Small(n) |-> Body(it, s)]}
<1>1. \A s \in SUBSET S : IsFiniteSet(s) /\ Cardinality(s) \in Nat
  BY FS_Subset, FS_CardinalityType
<1>2. 0 \in Good
  <2> DEFINE it == [s \in Small(0) |-> 0]
  <2>1. \A s \in Small(0) : s = {}
    BY <1>1, FS_EmptySet
  <2>2. it = [s \in Small(0) |-> Body(it, s)]
    BY <2>1
  <2> HIDE DEF it
  <2> QED
    BY <2>2
<1>3. ASSUME NEW n \in Nat, n \in Good PROVE n + 1 \in Good
  <2>1. PICK it : it = [s \in Small(n) |-> Body(it, s)]
    BY <1>3
  <2> DEFINE on == [s \in Small(n + 1) |-> Body(it, s)]
  <2>2. ASSUME NEW s \in Small(n) PROVE on[s] = it[s]
    <3>1. s \in Small(n + 1)
      BY <1>1
    <3>2. it[s] = Body(it, s)
      BY <2>1
    <3> QED
      BY <3>1, <3>2
  <2>3. ASSUME NEW s \in Small(n + 1) PROVE Body(it, s) = Body(on, s)
    <3>1. CASE s = {}
      BY <3>1
    <3>2. CASE s # {}
      <4>1. PICK x : x = CHOOSE y \in s : TRUE
        OBVIOUS
      <4>2. x \in s
        BY <3>2, <4>1
      <4>3. s \ {x} \in Small(n)
        <5>1. Cardinality(s \ {x}) = Cardinality(s) - 1
          BY <1>1, <4>2, FS_RemoveElement
        <5> QED
          BY <1>1, <5>1
      <4>4. on[s \ {x}] = it[s \ {x}]
        BY <2>2, <4>3
      <4> HIDE DEF on
      <4> QED
        BY <3>2, <4>1, <4>4
    <3> QED
      BY <3>1, <3>2
  <2>4. on = [s \in Small(n + 1) |-> Body(on, s)]
    <3> HIDE DEF Body, Small
    <3> QED
      BY <2>3
  <2> HIDE DEF on
  <2>5. \E i : i = [s \in Small(n + 1) |-> Body(i, s)]
    BY <2>4
  <2> HIDE DEF Body, Small
  <2> QED
    BY <2>5
<1>4. Cardinality(S) \in Good
  <2>1. Cardinality(S) \in Nat
    BY FS_CardinalityType
  <2> HIDE DEF Good
  <2> QED
    BY <1>2, <1>3, <2>1, CountingInduction
<1>5. Small(Cardinality(S)) = SUBSET S
  BY FS_Subset, FS_CardinalityType
<1>6. PICK it : it = [s \in Small(Cardinality(S)) |-> Body(it, s)]
  BY <1>4
<1>7. it = [s \in SUBSET S |-> Body(it, s)]
  BY <1>5, <1>6
<1> QED
  BY <1>7 DEF AddsUp

\* SumFunction is the value of one such function.
LEMMA SumIs ==
  ASSUME NEW f, IsFiniteSet(DOMAIN f)
  PROVE  \E it : AddsUp(it, f, DOMAIN f) /\ SumFunction(f) = it[DOMAIN f]
<1> DEFINE sum == CHOOSE it : AddsUp(it, f, DOMAIN f)
<1>1. AddsUp(sum, f, DOMAIN f)
  BY SumExists
<1>2. SumFunction(f) = sum[DOMAIN f]
  BY DEF SumFunction, SumFunctionOnSet, FoldFunctionOnSet, MapThenFoldSet, AddsUp
<1> QED
  BY <1>1, <1>2

\* Bills of the requests that differ at one place.
LEMMA BillAdded ==
  ASSUME NEW f \in [Requests -> Nat], NEW a \in Requests, NEW n \in Nat,
         NEW g, g = [f EXCEPT ![a] = f[a] + n]
  PROVE  SumFunction(f) \in Nat /\ SumFunction(g) = SumFunction(f) + n
<1>1. DOMAIN f = Requests /\ DOMAIN g = Requests /\ IsFiniteSet(Requests)
  BY RoutingAssumption
<1>2. PICK i : AddsUp(i, f, Requests) /\ SumFunction(f) = i[Requests]
  BY <1>1, SumIs
<1>3. PICK j : AddsUp(j, g, Requests) /\ SumFunction(g) = j[Requests]
  BY <1>1, SumIs
<1> DEFINE Right(s) == i[s] \in Nat /\ j[s] = i[s] + IF a \in s THEN n ELSE 0
           Good == {k \in Nat : \A s \in SUBSET Requests : Cardinality(s) = k => Right(s)}
<1>4. \A s \in SUBSET Requests : IsFiniteSet(s) /\ Cardinality(s) \in Nat
  BY <1>1, FS_Subset, FS_CardinalityType
<1>5. 0 \in Good
  <2>1. i[{}] = 0 /\ j[{}] = 0
    BY <1>2, <1>3 DEF AddsUp
  <2>2. \A s \in SUBSET Requests : Cardinality(s) = 0 => s = {}
    BY <1>4, FS_EmptySet
  <2>3. Right({})
    BY <2>1
  <2> HIDE DEF Right
  <2> QED
    BY <2>2, <2>3
<1>6. ASSUME NEW k \in Nat, k \in Good PROVE k + 1 \in Good
  <2> SUFFICES ASSUME NEW s \in SUBSET Requests, Cardinality(s) = k + 1 PROVE Right(s)
    OBVIOUS
  <2>1. s # {}
    BY FS_EmptySet
  <2>2. PICK x : x = CHOOSE y \in s : TRUE
    OBVIOUS
  <2>3. x \in s
    BY <2>1, <2>2
  <2>4. i[s] = f[x] + i[s \ {x}] /\ j[s] = g[x] + j[s \ {x}]
    BY <1>2, <1>3, <2>1, <2>2 DEF AddsUp
  <2>5. Cardinality(s \ {x}) = k
    <3>1. IsFiniteSet(s) /\ Cardinality(s) = k + 1
      BY <1>4
    <3>2. Cardinality(s \ {x}) = Cardinality(s) - 1
      BY <2>3, <3>1, FS_RemoveElement, Zenon
    <3> QED
      BY <3>1, <3>2
  <2>6. Right(s \ {x})
    BY <1>6, <2>5
  <2>7. f[x] \in Nat /\ g[x] = f[x] + IF a = x THEN n ELSE 0
    BY <2>3
  <2>8. PICK u \in SUBSET Requests : u = s \ {x}
    OBVIOUS
  <2>9. a \in u <=> a \in s /\ a # x
    BY <2>8
  <2>10. i[u] \in Nat /\ j[u] = i[u] + IF a \in u THEN n ELSE 0
    BY <2>6, <2>8
  <2>11. i[s] = f[x] + i[u] /\ j[s] = g[x] + j[u]
    BY <2>4, <2>8
  <2>12. CASE a = x
    BY <2>3, <2>7, <2>9, <2>10, <2>11, <2>12
  <2>13. CASE a # x
    BY <2>3, <2>7, <2>9, <2>10, <2>11, <2>13
  <2> QED
    BY <2>12, <2>13
<1>7. Right(Requests)
  <2>1. Cardinality(Requests) \in Nat
    BY <1>1, FS_CardinalityType
  <2> HIDE DEF Good
  <2>2. Cardinality(Requests) \in Good
    BY <1>5, <1>6, <2>1, CountingInduction
  <2> QED
    BY <2>2 DEF Good
<1> QED
  BY <1>2, <1>3, <1>7

\* A sum of nothing.
LEMMA SumZero ==
  ASSUME NEW S, IsFiniteSet(S), NEW f, f = [s \in S |-> 0]
  PROVE  SumFunction(f) = 0
<1>1. PICK i : AddsUp(i, f, S) /\ SumFunction(f) = i[S]
  BY SumIs
<1> DEFINE Good == {k \in Nat : \A s \in SUBSET S : Cardinality(s) = k => i[s] = 0}
<1>2. \A s \in SUBSET S : IsFiniteSet(s) /\ Cardinality(s) \in Nat
  BY FS_Subset, FS_CardinalityType
<1>3. 0 \in Good
  <2>1. i[{}] = 0
    BY <1>1 DEF AddsUp
  <2>2. \A s \in SUBSET S : Cardinality(s) = 0 => s = {}
    BY <1>2, FS_EmptySet
  <2> QED
    BY <2>1, <2>2
<1>4. ASSUME NEW k \in Nat, k \in Good PROVE k + 1 \in Good
  <2> SUFFICES ASSUME NEW s \in SUBSET S, Cardinality(s) = k + 1 PROVE i[s] = 0
    OBVIOUS
  <2>1. s # {}
    BY FS_EmptySet
  <2>2. PICK x : x = CHOOSE y \in s : TRUE
    OBVIOUS
  <2>3. x \in s
    BY <2>1, <2>2
  <2>4. i[s] = f[x] + i[s \ {x}]
    BY <1>1, <2>1, <2>2 DEF AddsUp
  <2>5. Cardinality(s \ {x}) = k
    <3>1. IsFiniteSet(s) /\ Cardinality(s) = k + 1
      BY <1>2
    <3>2. Cardinality(s \ {x}) = Cardinality(s) - 1
      BY <2>3, <3>1, FS_RemoveElement, Zenon
    <3> QED
      BY <3>1, <3>2
  <2>6. i[s \ {x}] = 0
    BY <1>4, <2>5
  <2> QED
    BY <2>3, <2>4, <2>6
<1>5. Cardinality(S) \in Nat
  BY FS_CardinalityType
<1> HIDE DEF Good
<1>6. Cardinality(S) \in Good
  BY <1>3, <1>4, <1>5, CountingInduction
<1> QED
  BY <1>1, <1>6 DEF Good

-----------------------------------------------------------------------------
(* Budgets and what is charged to them.                                     *)

\* What parseConfig makes sure of: a model has one route.
RoutesOK(routes) ==
  /\ \A i \in DOMAIN routes : routes[i].pattern <=> routes[i].target.model \in DOMAIN Patterns
  /\ \A i, j \in DOMAIN routes : routes[i].target.model = routes[j].target.model => i = j

CostOK(c) == DOMAIN c.routes \subseteq Nat \ {0} /\ c.scale \in Nat /\ RoutesOK(c.routes)

\* A set of at most one member as a sequence.
LEMMA OneInSeq ==
  ASSUME NEW S, \A x, y \in S : x = y
  PROVE  SetToSeq(S) \in Seq(S)
<1>1. CASE S = {}
  <2>1. Cardinality(S) = 0
    BY <1>1, FS_EmptySet
  <2> DEFINE f == [i \in 1 .. 0 |-> 0]
  <2>2. f \in [1 .. Cardinality(S) -> S] /\ IsInjective(f)
    BY <2>1 DEF IsInjective
  <2> HIDE DEF f
  <2>3. SetToSeq(S) \in [1 .. Cardinality(S) -> S]
    BY <2>2, Zenon DEF SetToSeq
  <2> QED
    BY <2>1, <2>3
<1>2. CASE S # {}
  <2>1. PICK x \in S : S = {x}
    BY <1>2
  <2>2. Cardinality(S) = 1
    BY <2>1, FS_Singleton
  <2> DEFINE f == [i \in 1 .. 1 |-> x]
  <2>3. f \in [1 .. Cardinality(S) -> S] /\ IsInjective(f)
    BY <2>2 DEF IsInjective
  <2> HIDE DEF f
  <2>4. SetToSeq(S) \in [1 .. Cardinality(S) -> S]
    BY <2>3, Zenon DEF SetToSeq
  <2>5. 1 \in Nat /\ SetToSeq(S) \in [1 .. 1 -> S]
    BY <2>2, <2>4
  <2> QED
    BY <2>5, SeqDef, Zenon
<1> QED
  BY <1>1, <1>2

\* selectTarget: a budget that is asked about a target stands for its model, and
\* no other does.
LEMMA ChecksDue ==
  ASSUME NEW p, chain[p].kind = "cost", CostOK(chain[p]), NEW m,
         NEW checks, checks = SelectTarget(chain[p], m), NEW i \in DOMAIN checks
  PROVE  /\ DOMAIN checks \subseteq Nat /\ DOMAIN checks[i] = {"budget", "target"}
         /\ checks[i].budget \in DOMAIN chain[p].routes
         /\ BudgetOf(p, checks[i].target.model) = {checks[i].budget}
<1> DEFINE c == chain[p]
           exact(n) == {b \in DOMAIN c.routes : ~c.routes[b].pattern /\ c.routes[b].target.model = n}
           spec(b) == Patterns[c.routes[b].target.model].specificity
           near(n) == {b \in DOMAIN c.routes : c.routes[b].pattern /\ n \in Patterns[c.routes[b].target.model].matches}
           best(s) == {b \in s : \A d \in s : spec(b) > spec(d) \/ (spec(b) = spec(d) /\ b <= d)}
           matching == IF m = "" \/ IsPatternModel(m) THEN {}
                       ELSE {b \in DOMAIN c.routes : /\ c.routes[b].pattern
                                                    /\ m \in Patterns[c.routes[b].target.model].matches}
           own == {[budget |-> b, target |-> c.routes[b].target] : b \in exact(m)}
           pattern == {[budget |-> b, target |-> Target(m, "")] : b \in best(matching)}
           back == IF c.onExhausted = "reject" \/ c.fallback = NoTarget THEN {} ELSE exact(c.fallback.model) \ exact(m)
           fallback == {[budget |-> b, target |-> c.fallback] : b \in back}
           first == IF exact(m) # {} THEN own ELSE pattern
<1>1. SelectTarget(c, m) = SetToSeq(first) \o SetToSeq(fallback)
  BY Zenon DEF SelectTarget
<1>2. \A n : \A b, d \in exact(n) : b = d
  BY DEF CostOK, RoutesOK
<1>3. \A n : BudgetOf(p, n) = IF exact(n) # {} THEN exact(n) ELSE best(near(n))
  BY DEF BudgetOf, Budgets
<1>4. ASSUME NEW s \in SUBSET DOMAIN c.routes, \A b \in s : c.routes[b].pattern
      PROVE  \A b, d \in best(s) : b = d
  <2>1. ASSUME NEW b \in s PROVE b \in Nat /\ spec(b) \in Int
    <3>1. c.routes[b].target.model \in DOMAIN Patterns
      BY <1>4 DEF CostOK, RoutesOK
    <3> QED
      BY <3>1, RoutingAssumption DEF CostOK, RoutesOK
  <2> HIDE DEF spec, c
  <2> QED
    BY <2>1
<1>5. matching \in SUBSET DOMAIN c.routes /\ \A b \in matching : c.routes[b].pattern
  OBVIOUS
<1>6. \A b, d \in best(matching) : b = d
  <2> HIDE DEF best, matching, c
  <2> QED
    BY <1>4, <1>5
<1>7. back \subseteq exact(c.fallback.model)
  <2> HIDE DEF exact, c
  <2> QED
    OBVIOUS
<1> DEFINE Stands(check) == /\ DOMAIN check = {"budget", "target"} /\ check.budget \in DOMAIN c.routes
                         /\ BudgetOf(p, check.target.model) = {check.budget}
<1>8. SetToSeq(first) \in Seq(first) /\ \A check \in first : Stands(check)
  <2>1. CASE exact(m) # {}
    <3>1. first = own
      BY <2>1
    <3>2. \A x, y \in own : x = y
      <4> HIDE DEF exact, c
      <4> QED
        BY <1>2
    <3>3. ASSUME NEW b \in exact(m) PROVE BudgetOf(p, c.routes[b].target.model) = {b} /\ b \in DOMAIN c.routes
      <4>1. c.routes[b].target.model = m /\ b \in DOMAIN c.routes
        OBVIOUS
      <4>2. BudgetOf(p, m) = exact(m)
        BY <1>3, <2>1
      <4>3. exact(m) = {b}
        BY <1>2
      <4> QED
        BY <4>1, <4>2, <4>3
    <3>4. \A check \in own : Stands(check)
      <4> HIDE DEF exact, c
      <4> QED
        BY <3>3
    <3> HIDE DEF own, first, Stands
    <3> QED
      BY <3>1, <3>2, <3>4, OneInSeq
  <2>2. CASE exact(m) = {}
    <3>1. first = pattern
      BY <2>2
    <3>2. \A x, y \in pattern : x = y
      <4> HIDE DEF best, matching
      <4> QED
        BY <1>6
    <3>3. ASSUME NEW b \in best(matching) PROVE BudgetOf(p, m) = {b} /\ b \in DOMAIN c.routes
      <4>1. matching = near(m)
        OBVIOUS
      <4>2. BudgetOf(p, m) = best(matching)
        BY <1>3, <2>2, <4>1
      <4>3. best(matching) = {b}
        <5> HIDE DEF best, matching
        <5> QED
          BY <1>6
      <4>4. b \in DOMAIN c.routes
        OBVIOUS
      <4> QED
        BY <4>2, <4>3, <4>4
    <3>4. ASSUME NEW check \in pattern PROVE Stands(check)
      <4>1. PICK b \in best(matching) : check = [budget |-> b, target |-> Target(m, "")]
        OBVIOUS
      <4>2. DOMAIN check = {"budget", "target"} /\ check.budget = b /\ check.target.model = m
        BY <4>1 DEF Target
      <4> HIDE DEF best, matching, c
      <4> QED
        BY <3>3, <4>2
    <3> HIDE DEF pattern, first, Stands
    <3> QED
      BY <3>1, <3>2, <3>4, OneInSeq
  <2> QED
    BY <2>1, <2>2
<1>9. SetToSeq(fallback) \in Seq(fallback) /\ \A check \in fallback : Stands(check)
  <2>1. \A b, d \in back : b = d
    <3> HIDE DEF exact, back
    <3> QED
      BY <1>2, <1>7
  <2>2. \A x, y \in fallback : x = y
    <3> HIDE DEF back
    <3> QED
      BY <2>1
  <2>3. ASSUME NEW b \in back PROVE BudgetOf(p, c.fallback.model) = {b} /\ b \in DOMAIN c.routes
    <3>1. b \in exact(c.fallback.model)
      BY <1>7
    <3>2. exact(c.fallback.model) = {b}
      BY <1>2, <3>1
    <3>3. b \in DOMAIN c.routes
      BY <3>1
    <3> HIDE DEF exact
    <3> QED
      BY <1>3, <3>1, <3>2, <3>3
  <2>4. \A check \in fallback : Stands(check)
    <3> HIDE DEF back, c
    <3> QED
      BY <2>3
  <2> HIDE DEF fallback, Stands
  <2> QED
    BY <2>2, <2>4, OneInSeq
<1>10. checks \in Seq(first \cup fallback)
  <2> HIDE DEF first, fallback, c
  <2> QED
    BY <1>1, <1>8, <1>9 DEF c
<1>11. checks[i] \in first \cup fallback /\ DOMAIN checks \subseteq Nat
  <2> HIDE DEF first, fallback
  <2> QED
    BY <1>10
<1>12. Stands(checks[i])
  <2> HIDE DEF first, fallback, Stands
  <2> QED
    BY <1>8, <1>9, <1>11
<1> QED
  BY <1>11, <1>12

\* The budget that is charged stands for the model of the request.
BudgetDue(q, p) == q.budget[p] \in DOMAIN chain[p].routes /\ BudgetOf(p, q.model) = {q.budget[p]}

\* The policy at p has chosen: it is behind the request in the phase in which it chooses.
Chosen(q, p) ==
  \/ q.phase \in {"upstream", "response", "done"}
  \/ q.phase = "body" /\ (chain[p].location # "payload" \/ q.pos > p)
  \/ q.phase = "headers" /\ chain[p].location # "payload" /\ q.pos > p

BilledOK(q, p) ==
  /\ DOMAIN q.budget = DOMAIN chain /\ q.cost \in Int
  /\ q.phase = "idle" => q.pos = 1
  /\ q.billed => q.charged
  /\ q.charged => q.phase = "done" \/ (q.phase = "response" /\ q.pos > p)
  /\ Chosen(q, p) => BudgetDue(q, p)

\* What the requests have cost a budget.
CostsTo(p, b) == [r \in Requests |-> CostTo(p, b, req[r])]

PaidAt(p) ==
  /\ CostOK(chain[p]) /\ p \in DOMAIN spent /\ DOMAIN spent[p] = DOMAIN chain[p].routes
  /\ \A r \in Requests : BilledOK(req[r], p)
  /\ \A b \in DOMAIN chain[p].routes :
       (chain[p].backend # "memory" \/ SumFunction(CostsTo(p, b)) <= MaxScaled) => spent[p][b] = SumFunction(CostsTo(p, b))

BudgetsInv == RoutedInv /\ \A p \in DOMAIN chain : chain[p].kind = "cost" => PaidAt(p)

-----------------------------------------------------------------------------
(* What an answer costs.                                                   *)

\* The lesser of two.
LEMMA LesserOfTwo ==
  ASSUME NEW a \in Int, NEW b \in Int
  PROVE  Min({a, b}) = IF a <= b THEN a ELSE b
BY DEF Min

\* scaleCost
LEMMA ScaledCost ==
  ASSUME NEW cost \in Nat, NEW scale \in Nat
  PROVE  ScaleCost(cost, scale) \in Nat
<1>1. PICK k \in Nat : k = cost * scale
  OBVIOUS
<1>2. k \div 10 \in Nat /\ MaxScaled \in Nat
  BY RoutingAssumption
<1>3. ScaleCost(cost, scale) = Min({k \div 10, MaxScaled})
  BY <1>1 DEF ScaleCost
<1> QED
  BY <1>2, <1>3, LesserOfTwo

\* What an answer costs is a natural number.
LEMMA CostType ==
  ASSUME NEW p, CostOK(chain[p]), NEW b, NEW q, q.cost \in Int
  PROVE  CostTo(p, b, q) \in Nat
<1>1. CASE q.cost > 0
  <2>1. ScaleCost(q.cost, chain[p].scale) \in Nat
    <3>1. q.cost \in Nat /\ chain[p].scale \in Nat
      BY <1>1 DEF CostOK, RoutesOK
    <3> QED
      BY <3>1, ScaledCost, Zenon
  <2> QED
    BY <2>1, Zenon DEF CostTo
<1>2. CASE ~(q.cost > 0)
  BY <1>2 DEF CostTo
<1> QED
  BY <1>1, <1>2

\* A request goes on from policy to policy with its bill.
LEMMA NextBilled ==
  ASSUME ChainOK, NEW p \in DOMAIN chain, NEW q, DOMAIN q = Fields, q.pos \in DOMAIN chain,
         q.phase \in {"headers", "body", "response"},
         DOMAIN q.budget = DOMAIN chain, q.cost \in Int,
         q.billed => q.charged, q.charged => q.phase = "response" /\ q.pos >= p,
         BudgetDue(q, p) \/ (~Chosen(q, p) /\ (q.pos # p \/ (q.phase = "headers" /\ chain[p].location = "payload")))
  PROVE  LET x == NextPos(q, After(q.phase))
         IN BilledOK(x, p) /\ \A b : CostTo(p, b, x) = CostTo(p, b, q)
<1>1. PICK x : x = NextPos(q, After(q.phase))
  OBVIOUS
<1>2. /\ x.model = q.model /\ x.budget = q.budget /\ x.charged = q.charged /\ x.billed = q.billed /\ x.cost = q.cost
      /\ \/ q.pos < Len(chain) /\ x.pos = q.pos + 1 /\ x.phase = q.phase
         \/ q.pos = Len(chain) /\ x.pos = 1 /\ x.phase = After(q.phase)
  BY <1>1, NextPosKeeps
<1>3. /\ q.phase = "headers" => After(q.phase) = "body"
      /\ q.phase = "body" => After(q.phase) = "upstream"
      /\ q.phase = "response" => After(q.phase) = "done"
  BY DEF After
<1>4. p \in 1 .. Len(chain) /\ q.pos \in 1 .. Len(chain) /\ Len(chain) \in Nat
  BY DEF ChainOK
<1>5. (x.billed => x.charged) /\ (x.charged => x.phase = "done" \/ (x.phase = "response" /\ x.pos > p))
  BY <1>2, <1>3, <1>4
<1>6. x.phase # "idle"
  BY <1>2, <1>3
<1>7. ASSUME Chosen(x, p) PROVE BudgetDue(x, p)
  <2>1. BudgetDue(q, p)
    <3>1. SUFFICES ASSUME ~Chosen(q, p), q.pos # p \/ (q.phase = "headers" /\ chain[p].location = "payload") PROVE FALSE
      OBVIOUS
    <3>2. CASE q.phase = "headers"
      BY <1>2, <1>3, <1>4, <1>7, <3>1, <3>2 DEF Chosen
    <3>3. CASE q.phase = "body"
      BY <1>2, <1>3, <1>4, <1>7, <3>1, <3>3 DEF Chosen
    <3>4. CASE q.phase = "response"
      BY <3>1, <3>4 DEF Chosen
    <3> QED
      BY <3>2, <3>3, <3>4
  <2> QED
    BY <1>2, <2>1 DEF BudgetDue
<1>8. BilledOK(x, p)
  BY <1>2, <1>5, <1>6, <1>7 DEF BilledOK
<1>9. \A b : CostTo(p, b, x) = CostTo(p, b, q)
  BY <1>2 DEF CostTo
<1> QED
  BY <1>1, <1>8, <1>9

-----------------------------------------------------------------------------
(* A request with its bill.                                                 *)

\* A step of one request that charges nothing.
Bills(r, p) ==
  \E q : /\ BilledOK(q, p) /\ \A b : CostTo(p, b, q) = CostTo(p, b, req[r])
         /\ req' = [req EXCEPT ![r] = q]

\* The budgets depend on the chain alone.
LEMMA SameChain ==
  ASSUME UNCHANGED chain, NEW p
  PROVE  /\ CostOK(chain[p]) => CostOK(chain[p])'
         /\ \A q, x : req'[x] = q => (BilledOK(q, p) => BilledOK(req[x], p)')
         /\ \A q, x, b : req'[x] = q => CostTo(p, b, req[x])' = CostTo(p, b, q)
<1>1. ASSUME NEW m, NEW n, n = m' PROVE BudgetOf(p, m)' = BudgetOf(p, n)
  BY <1>1 DEF BudgetOf, Budgets
<1>2. CostOK(chain[p]) => CostOK(chain[p])'
  BY DEF CostOK, RoutesOK
<1>3. ASSUME NEW q, NEW x, req'[x] = q
      PROVE  /\ BilledOK(q, p) => BilledOK(req[x], p)'
             /\ \A b : CostTo(p, b, req[x])' = CostTo(p, b, q)
  <2>1. BudgetOf(p, req[x].model)' = BudgetOf(p, q.model)
    BY <1>1, <1>3
  <2>2. BudgetDue(q, p) => BudgetDue(req[x], p)'
    BY <1>3, <2>1 DEF BudgetDue
  <2>3. Chosen(req[x], p)' => Chosen(q, p)
    BY <1>3 DEF Chosen
  <2>4. \A b : CostTo(p, b, req[x])' = CostTo(p, b, q)
    BY <1>3, <2>1 DEF CostTo
  <2> QED
    BY <1>3, <2>2, <2>3, <2>4 DEF BilledOK
<1> QED
  BY <1>2, <1>3

\* Nothing is charged.
LEMMA BillsKeep ==
  ASSUME BudgetsInv, NEW p \in DOMAIN chain, chain[p].kind = "cost", UNCHANGED <<chain, spent>>,
         UNCHANGED req \/ \E r \in Requests : Bills(r, p)
  PROVE  PaidAt(p)'
<1>1. PaidAt(p) /\ DOMAIN req = Requests
  BY DEF BudgetsInv, RoutedInv, RestInv
<1>2. \A x \in Requests : BilledOK(req[x], p)' /\ \A b : CostTo(p, b, req[x])' = CostTo(p, b, req[x])
  <2>1. CASE UNCHANGED req
    BY <1>1, <2>1, SameChain DEF PaidAt
  <2>2. ASSUME NEW r \in Requests, Bills(r, p)
        PROVE  \A x \in Requests : BilledOK(req[x], p)' /\ \A b : CostTo(p, b, req[x])' = CostTo(p, b, req[x])
    <3>1. PICK q : /\ BilledOK(q, p) /\ \A b : CostTo(p, b, q) = CostTo(p, b, req[r])
                   /\ req' = [req EXCEPT ![r] = q]
      BY <2>2 DEF Bills
    <3>2. ASSUME NEW x \in Requests
          PROVE  BilledOK(req[x], p)' /\ \A b : CostTo(p, b, req[x])' = CostTo(p, b, req[x])
      <4>1. PICK y : y = req'[x]
        OBVIOUS
      <4>2. BilledOK(y, p) /\ \A b : CostTo(p, b, y) = CostTo(p, b, req[x])
        BY <1>1, <3>1, <4>1 DEF PaidAt
      <4> QED
        BY <4>1, <4>2, SameChain
    <3> QED
      BY <3>2
  <2> QED
    BY <2>1, <2>2
<1>3. \A b : CostsTo(p, b)' = CostsTo(p, b)
  BY <1>2 DEF CostsTo
<1>4. CostOK(chain[p])'
  BY <1>1, SameChain DEF PaidAt
<1> QED
  BY <1>1, <1>2, <1>3, <1>4 DEF PaidAt

\* The router of the chain is at p: a request stands there or at llm-header-router.
LEMMA AtRouter ==
  ASSUME BudgetsInv, NEW p \in DOMAIN chain, chain[p].kind = "cost", NEW r \in Requests
  PROVE  /\ req[r].pos = p \/ (req[r].pos # p /\ Here(r).kind = "header")
         /\ RequestOK(req[r]) /\ BilledOK(req[r], p) /\ ChainOK /\ DOMAIN req = Requests
BY DEF BudgetsInv, PaidAt, RoutedInv, RestInv, RoutersOK, RequestOK, Here

\* A policy that leaves the request as it is.
LEMMA PassBills ==
  ASSUME BudgetsInv, NEW p \in DOMAIN chain, chain[p].kind = "cost", NEW r \in Requests, Pass(r),
         req[r].phase \in {"headers", "body", "response"},
         req[r].pos = p => \/ req[r].phase = "headers" /\ chain[p].location = "payload"
                           \/ req[r].phase = "body" /\ chain[p].location # "payload"
  PROVE  Bills(r, p)
<1>1. PICK q : q = req[r]
  OBVIOUS
<1>2. RequestOK(q) /\ BilledOK(q, p) /\ ChainOK /\ DOMAIN req = Requests
  BY <1>1, AtRouter
<1>3. /\ DOMAIN q = Fields /\ q.pos \in DOMAIN chain /\ DOMAIN q.budget = DOMAIN chain /\ q.cost \in Int
      /\ q.phase \in {"headers", "body", "response"}
  BY <1>1, <1>2 DEF RequestOK, BilledOK
<1>4. (q.billed => q.charged) /\ (q.charged => q.phase = "response" /\ q.pos >= p)
  BY <1>2, <1>3 DEF BilledOK, ChainOK
<1>5. BudgetDue(q, p) \/ (~Chosen(q, p) /\ (q.pos # p \/ (q.phase = "headers" /\ chain[p].location = "payload")))
  BY <1>1, <1>2 DEF BilledOK, Chosen
<1>6. req' = [req EXCEPT ![r] = NextPos(q, After(q.phase))]
  BY <1>1, <1>2 DEF Pass
<1> QED
  BY <1>1, <1>2, <1>3, <1>4, <1>5, <1>6, NextBilled DEF Bills

\* A request that is turned away costs nothing.
LEMMA RefuseBills ==
  ASSUME BudgetsInv, NEW p \in DOMAIN chain, chain[p].kind = "cost", NEW r \in Requests, NEW status,
         Refuse(r, status), req[r].phase \in {"headers", "body"}
  PROVE  Bills(r, p)
<1> DEFINE q == [req[r] EXCEPT !.phase = "refused", !.answer = status]
<1>1. RequestOK(req[r]) /\ BilledOK(req[r], p) /\ DOMAIN req = Requests
  BY AtRouter
<1>2. req' = [req EXCEPT ![r] = q]
  BY <1>1 DEF Refuse
<1>3. q.phase = "refused" /\ q.budget = req[r].budget /\ q.cost = req[r].cost /\ q.charged = req[r].charged /\ q.billed = req[r].billed
  BY <1>1 DEF RequestOK, Fields
<1> HIDE DEF q
<1>4. ~req[r].charged /\ ~req[r].billed
  BY <1>1 DEF BilledOK
<1>5. BilledOK(q, p)
  BY <1>1, <1>3, <1>4 DEF BilledOK, Chosen
<1>6. \A b : CostTo(p, b, q) = CostTo(p, b, req[r])
  BY <1>3, <1>4 DEF CostTo
<1> QED
  BY <1>2, <1>5, <1>6 DEF Bills

\* A set of naturals has a least member.
LEMMA LeastNatural ==
  ASSUME NEW S \in SUBSET Nat, S # {}
  PROVE  Min(S) \in S
<1>1. PICK n \in S : TRUE
  OBVIOUS
<1>2. PICK x \in S \cap 0 .. n : \A y \in S \cap 0 .. n : x <= y
  <2>1. n \in Nat /\ n \in S \cap 0 .. n /\ S \cap 0 .. n \subseteq 0 .. n
    OBVIOUS
  <2> QED
    BY <2>1, LeastMember
<1>3. \A y \in S : x <= y
  BY <1>2
<1> QED
  BY <1>2, <1>3 DEF Min

\* The check that decides.
LEMMA CheckedBudget ==
  ASSUME NEW r, NEW errs, NEW checks, DOMAIN checks \subseteq Nat,
         FirstBudget(r, checks, errs).status = 200
  PROVE  \E i \in DOMAIN checks : /\ FirstBudget(r, checks, errs).target = checks[i].target
                                  /\ FirstBudget(r, checks, errs).budget = checks[i].budget
<1> DEFINE open == {i \in DOMAIN checks : i \in errs \/ ~Exhausted(req[r].pos, checks[i].budget)}
           found == [status |-> 200, target |-> checks[Min(open)].target, budget |-> checks[Min(open)].budget]
<1>1. open # {}
  BY DEF FirstBudget
<1>2. Min(open) \in open
  <2>1. open \subseteq Nat
    OBVIOUS
  <2> HIDE DEF open
  <2> QED
    BY <1>1, <2>1, LeastNatural
<1>3. Min(open) \in DOMAIN checks
  BY <1>2
<1>4. FirstBudget(r, checks, errs) = found
  <2>1. CASE Min(open) \in errs /\ ~Here(r).failOpen
    <3>1. FirstBudget(r, checks, errs) = [status |-> 503, target |-> NoTarget, budget |-> 0]
      BY <1>1, <2>1, Zenon DEF FirstBudget
    <3> QED
      BY <3>1
  <2>2. CASE ~(Min(open) \in errs /\ ~Here(r).failOpen)
    BY <1>1, <2>2, Zenon DEF FirstBudget
  <2> QED
    BY <2>1, <2>2
<1>5. found.target = checks[Min(open)].target /\ found.budget = checks[Min(open)].budget
  OBVIOUS
<1> HIDE DEF found, open
<1> QED
  BY <1>3, <1>4, <1>5

\* A target with its budget.
LEMMA ForwardBills ==
  ASSUME BudgetsInv, NEW p \in DOMAIN chain, chain[p].kind = "cost", NEW r \in Requests, req[r].pos = p,
         req[r].phase \in {"headers", "body"}, NEW t, NEW b, Forward(r, t, TRUE, b),
         b \in DOMAIN chain[p].routes, BudgetOf(p, t.model) = {b}
  PROVE  Bills(r, p)
<1> DEFINE provider == IF t.provider # "" THEN t.provider ELSE req[r].upstream
           routing == IF t.provider # "" THEN t.provider ELSE IF Here(r).kind = "cost" THEN "" ELSE req[r].routing
           q == [req[r] EXCEPT !.model = t.model, !.upstream = provider,
                               !.routing = routing, !.selected[req[r].pos] = t, !.budget[req[r].pos] = b, !.at = now]
<1>1. RequestOK(req[r]) /\ BilledOK(req[r], p) /\ ChainOK /\ DOMAIN req = Requests
  BY AtRouter
<1>2. req' = [req EXCEPT ![r] = NextPos(q, After(req[r].phase))]
  BY <1>1 DEF Forward
<1>3. /\ DOMAIN q = Fields /\ q.pos = p /\ q.phase = req[r].phase /\ q.model = t.model
      /\ q.budget = [req[r].budget EXCEPT ![p] = b] /\ q.charged = req[r].charged /\ q.billed = req[r].billed /\ q.cost = req[r].cost
  <2> HIDE DEF provider, routing
  <2> QED
    BY <1>1 DEF RequestOK, Fields
<1> HIDE DEF q
<1>4. DOMAIN q.budget = DOMAIN chain /\ q.budget[p] = b /\ q.cost \in Int
  BY <1>1, <1>3 DEF BilledOK
<1>5. BudgetDue(q, p)
  BY <1>3, <1>4 DEF BudgetDue
<1>6. ~req[r].charged /\ ~req[r].billed
  BY <1>1 DEF BilledOK
<1>7. \A c : CostTo(p, c, q) = CostTo(p, c, req[r])
  BY <1>3, <1>6 DEF CostTo
<1>8. PICK x : x = NextPos(q, After(q.phase))
  OBVIOUS
<1>9. BilledOK(x, p) /\ \A c : CostTo(p, c, x) = CostTo(p, c, q)
  BY <1>1, <1>3, <1>4, <1>5, <1>6, <1>8, NextBilled
<1>10. req' = [req EXCEPT ![r] = x]
  BY <1>2, <1>3, <1>8
<1>11. \A c : CostTo(p, c, x) = CostTo(p, c, req[r])
  BY <1>7, <1>9
<1> QED
  BY <1>9, <1>10, <1>11 DEF Bills

\* cost-based-model-routing chooses a budget with the target.
LEMMA CostBills ==
  ASSUME BudgetsInv, NEW p \in DOMAIN chain, chain[p].kind = "cost", NEW r \in Requests, NEW errs, CostOnRequest(r, errs)
  PROVE  Bills(r, p)
<1> DEFINE checks == SelectTarget(Here(r), req[r].msg.model)
           pick == CheckBudget(r, checks, errs)
           payload == Here(r).location = "payload"
<1>1. Here(r).kind = "cost" /\ req[r].phase \in {"headers", "body"} /\ req[r].pos = p /\ Here(r) = chain[p]
  BY AtRouter DEF CostOnRequest, Here
<1>2. \/ payload # (req[r].phase = "body") /\ Pass(r)
      \/ Refuse(r, 400) \/ Refuse(r, pick.status)
      \/ pick.status = 200 /\ Forward(r, pick.target, TRUE, pick.budget)
  BY Zenon DEF CostOnRequest
<1>3. CASE payload # (req[r].phase = "body") /\ Pass(r)
  BY <1>1, <1>3, PassBills
<1>4. CASE \E status : Refuse(r, status)
  BY <1>1, <1>4, RefuseBills
<1>5. CASE pick.status = 200 /\ Forward(r, pick.target, TRUE, pick.budget)
  <2>1. ASSUME NEW i \in DOMAIN checks
        PROVE  /\ DOMAIN checks[i] = {"budget", "target"} /\ checks[i].budget \in DOMAIN chain[p].routes
               /\ BudgetOf(p, checks[i].target.model) = {checks[i].budget} /\ DOMAIN checks \subseteq Nat
    <3>1. CostOK(chain[p])
      BY DEF BudgetsInv, PaidAt
    <3>2. PICK m : m = req[r].msg.model
      OBVIOUS
    <3>3. checks = SelectTarget(chain[p], m)
      BY <1>1, <3>2
    <3> HIDE DEF checks
    <3>4. PICK s : s = checks
      OBVIOUS
    <3>5. s = SelectTarget(chain[p], m) /\ i \in DOMAIN s
      BY <3>3, <3>4
    <3>6. /\ DOMAIN s \subseteq Nat /\ DOMAIN s[i] = {"budget", "target"}
          /\ s[i].budget \in DOMAIN chain[p].routes
          /\ BudgetOf(p, s[i].target.model) = {s[i].budget}
      BY <3>1, <3>5, ChecksDue
    <3> QED
      BY <3>4, <3>6
  <2> HIDE DEF checks
  <2>2. DOMAIN checks \subseteq Nat
    BY <2>1
  <2>3. PICK i \in DOMAIN checks : pick.target = checks[i].target /\ pick.budget = checks[i].budget
    BY <1>5, <2>2, CheckedBudget DEF CheckBudget
  <2>4. Forward(r, checks[i].target, TRUE, checks[i].budget)
    BY <1>5, <2>3
  <2> HIDE DEF pick
  <2> QED
    BY <1>1, <2>1, <2>4, ForwardBills
<1> HIDE DEF pick
<1> QED
  BY <1>2, <1>3, <1>4, <1>5

\* llm-header-router and phases without a handler.
LEMMA NamedBills ==
  ASSUME BudgetsInv, NEW p \in DOMAIN chain, chain[p].kind = "cost", NEW r \in Requests,
         HeaderOnRequest(r) \/ NoHandler(r)
  PROVE  Bills(r, p)
<1>1. RequestOK(req[r]) /\ BilledOK(req[r], p) /\ ChainOK /\ DOMAIN req = Requests
  BY AtRouter
<1>2. req[r].pos # p /\ req[r].phase \in {"headers", "body", "response"}
  BY AtRouter DEF HeaderOnRequest, NoHandler, Here, Classifiers
<1>3. CASE Pass(r)
  BY <1>2, <1>3, PassBills
<1>4. CASE HeaderOnRequest(r) /\ ~Pass(r)
  <2> DEFINE provider == SelectProvider(Here(r), req[r].msg.header)
             upstream == IF provider # "" /\ req[r].phase = "headers" THEN provider ELSE req[r].upstream
             q == [req[r] EXCEPT !.routing = provider, !.upstream = upstream]
  <2>1. req' = [req EXCEPT ![r] = NextPos(q, After(req[r].phase))] /\ req[r].phase \in {"headers", "body"}
    BY <1>4, Zenon DEF HeaderOnRequest
  <2>2. /\ DOMAIN q = Fields /\ q.pos = req[r].pos /\ q.phase = req[r].phase /\ q.model = req[r].model
        /\ q.budget = req[r].budget /\ q.charged = req[r].charged /\ q.billed = req[r].billed /\ q.cost = req[r].cost
    <3> HIDE DEF provider, upstream
    <3> QED
      BY <1>1 DEF RequestOK, Fields
  <2> HIDE DEF q
  <2>3. DOMAIN q.budget = DOMAIN chain /\ q.cost \in Int /\ q.pos \in DOMAIN chain /\ ~q.charged /\ ~q.billed
    BY <1>1, <2>1, <2>2 DEF BilledOK, RequestOK
  <2>4. BudgetDue(q, p) \/ (~Chosen(q, p) /\ q.pos # p)
    BY <1>1, <1>2, <2>2 DEF BilledOK, Chosen, BudgetDue
  <2>5. \A c : CostTo(p, c, q) = CostTo(p, c, req[r])
    BY <2>2 DEF CostTo
  <2>6. PICK x : x = NextPos(q, After(q.phase))
    OBVIOUS
  <2>7. BilledOK(x, p) /\ \A c : CostTo(p, c, x) = CostTo(p, c, q)
    BY <1>1, <2>1, <2>2, <2>3, <2>4, <2>6, NextBilled
  <2> QED
    BY <2>1, <2>2, <2>5, <2>6, <2>7 DEF Bills
<1> QED
  BY <1>3, <1>4 DEF NoHandler

\* A request arrives, and the upstream answers it.
LEMMA EngineBills ==
  ASSUME BudgetsInv, NEW p \in DOMAIN chain, chain[p].kind = "cost", NEW r \in Requests,
         \/ \E m \in Messages : Arrive(r, m)
         \/ \E s \in Statuses, c \in Costs : Upstream(r, s, c)
  PROVE  Bills(r, p)
<1>1. RequestOK(req[r]) /\ BilledOK(req[r], p) /\ ChainOK /\ DOMAIN req = Requests
  BY AtRouter
<1>2. ASSUME NEW m \in Messages, Arrive(r, m) PROVE Bills(r, p)
  <2> DEFINE q == [req[r] EXCEPT !.phase = "headers", !.msg = m, !.model = m.model]
  <2>1. req' = [req EXCEPT ![r] = q] /\ req[r].phase = "idle"
    BY <1>1, <1>2 DEF Arrive
  <2>2. q.phase = "headers" /\ q.pos = req[r].pos /\ q.budget = req[r].budget /\ q.charged = req[r].charged /\ q.billed = req[r].billed /\ q.cost = req[r].cost
    BY <1>1 DEF RequestOK, Fields
  <2> HIDE DEF q
  <2>3. q.pos = 1 /\ ~q.charged /\ ~req[r].charged /\ ~q.billed /\ ~req[r].billed /\ p >= 1
    BY <1>1, <2>1, <2>2 DEF BilledOK, ChainOK
  <2>4. BilledOK(q, p)
    BY <1>1, <2>2, <2>3 DEF BilledOK, Chosen, ChainOK
  <2>5. \A b : CostTo(p, b, q) = CostTo(p, b, req[r])
    BY <2>3 DEF CostTo
  <2> QED
    BY <2>1, <2>4, <2>5 DEF Bills
<1>3. ASSUME NEW s \in Statuses, NEW c \in Costs, Upstream(r, s, c) PROVE Bills(r, p)
  <2> DEFINE q == [req[r] EXCEPT !.phase = "response", !.answer = s, !.cost = c]
  <2>1. req' = [req EXCEPT ![r] = q] /\ req[r].phase = "upstream"
    BY <1>1, <1>3 DEF Upstream
  <2>2. q.phase = "response" /\ q.pos = req[r].pos /\ q.model = req[r].model /\ q.budget = req[r].budget
        /\ q.charged = req[r].charged /\ q.billed = req[r].billed /\ q.cost = c
    BY <1>1 DEF RequestOK, Fields
  <2> HIDE DEF q
  <2>3. ~q.charged /\ ~req[r].charged /\ ~q.billed /\ ~req[r].billed /\ c \in Int
    BY <1>1, <2>1, <2>2, RoutingAssumption DEF BilledOK
  <2>4. BudgetDue(q, p)
    BY <1>1, <2>1, <2>2 DEF BilledOK, Chosen, BudgetDue
  <2>5. BilledOK(q, p)
    BY <1>1, <2>2, <2>3, <2>4 DEF BilledOK
  <2>6. \A b : CostTo(p, b, q) = CostTo(p, b, req[r])
    BY <2>3 DEF CostTo
  <2> QED
    BY <2>1, <2>5, <2>6 DEF Bills
<1> QED
  BY <1>2, <1>3

\* chargeOnce charges the budget of the answer, where the sum fits a counter.
LEMMA ChargeKeeps ==
  ASSUME BudgetsInv, NEW p \in DOMAIN chain, chain[p].kind = "cost", NEW r \in Requests, NEW err \in BOOLEAN, ChargeOnce(r, err)
  PROVE  PaidAt(p)'
<1> DEFINE b == req[r].budget[p]
           scaled == ScaleCost(req[r].cost, chain[p].scale)
           lost == err \/ (chain[p].backend # "memory" /\ spent[p][b] + scaled > MaxScaled)
           q == [req[r] EXCEPT !.charged = TRUE, !.billed = ~lost]
           n == IF req[r].cost > 0 /\ ~lost THEN scaled ELSE 0
           add(c) == IF c = b THEN n ELSE 0
<1>1. /\ RequestOK(req[r]) /\ BilledOK(req[r], p) /\ ChainOK /\ DOMAIN req = Requests /\ PaidAt(p)
      /\ req[r].pos = p /\ Here(r) = chain[p] /\ req[r].phase = "response" /\ UNCHANGED chain
  BY AtRouter DEF ChargeOnce, Here, BudgetsInv
<1>2. /\ ~req[r].charged /\ ~req[r].billed /\ req[r].cost \in Int /\ DOMAIN req[r].budget = DOMAIN chain
      /\ b \in DOMAIN chain[p].routes /\ BudgetOf(p, req[r].model) = {b}
  BY <1>1 DEF BilledOK, Chosen, BudgetDue, ChainOK
<1>3. b # 0 /\ n \in Nat
  <2>1. CostOK(chain[p])
    BY <1>1 DEF PaidAt
  <2>2. CASE req[r].cost > 0
    <3>1. req[r].cost \in Nat /\ chain[p].scale \in Nat
      BY <1>2, <2>1, <2>2 DEF CostOK, RoutesOK
    <3>2. scaled \in Nat
      BY <3>1, ScaledCost, Zenon
    <3> HIDE DEF scaled
    <3> QED
      BY <1>2, <2>1, <3>2 DEF CostOK, RoutesOK
  <2>3. CASE ~(req[r].cost > 0)
    BY <1>2, <2>1, <2>3 DEF CostOK, RoutesOK
  <2> QED
    BY <2>2, <2>3
<1>4. /\ DOMAIN q = Fields /\ q.pos = p /\ q.phase = "response" /\ q.model = req[r].model
      /\ q.budget = req[r].budget /\ q.charged = TRUE /\ q.billed = ~lost /\ q.cost = req[r].cost
  BY <1>1 DEF RequestOK, Fields
<1>5. req' = [req EXCEPT ![r] = NextPos(q, "done")]
  BY <1>1, <1>2, <1>3 DEF ChargeOnce
<1>6. \A c : CostTo(p, c, req[r]) = 0 /\ CostTo(p, c, q) = add(c)
  <2> HIDE DEF q
  <2> QED
    BY <1>2, <1>4 DEF CostTo
<1> HIDE DEF q
<1>7. PICK x : x = NextPos(q, After(q.phase))
  OBVIOUS
<1>8. BilledOK(x, p) /\ \A c : CostTo(p, c, x) = CostTo(p, c, q)
  <2>1. BudgetDue(q, p)
    BY <1>2, <1>4 DEF BudgetDue
  <2> QED
    BY <1>1, <1>2, <1>4, <1>7, <2>1, NextBilled DEF ChainOK
<1>9. req' = [req EXCEPT ![r] = x]
  BY <1>4, <1>5, <1>7 DEF After
<1> HIDE DEF scaled
<1>10. /\ p \in DOMAIN spent' /\ DOMAIN spent'[p] = DOMAIN chain[p].routes
       /\ \A c \in DOMAIN chain[p].routes :
            spent'[p][c] = IF c = b /\ n > 0 THEN Wrapped(spent[p][c] + n) ELSE spent[p][c]
  <2>1. IF req[r].cost > 0 /\ scaled > 0 /\ ~lost
        THEN spent' = [spent EXCEPT ![p][b] = Wrapped(spent[p][b] + scaled)] ELSE UNCHANGED spent
    BY <1>1, <1>2, <1>3, Zenon DEF ChargeOnce, scaled
  <2> HIDE DEF lost
  <2>2. CASE req[r].cost > 0 /\ scaled > 0 /\ ~lost
    <3>1. n = scaled
      BY <2>2
    <3>2. spent' = [spent EXCEPT ![p][b] = Wrapped(spent[p][b] + n)]
      BY <2>1, <2>2, <3>1
    <3> HIDE DEF n
    <3>3. p \in DOMAIN spent /\ DOMAIN spent[p] = DOMAIN chain[p].routes
      BY <1>1 DEF PaidAt
    <3>4. n > 0
      BY <2>2, <3>1
    <3> QED
      BY <1>2, <3>2, <3>3, <3>4
  <2>3. CASE ~(req[r].cost > 0 /\ scaled > 0 /\ ~lost)
    BY <1>1, <2>1, <2>3 DEF PaidAt
  <2> QED
    BY <2>2, <2>3
<1>14. /\ n > 0 /\ chain[p].backend # "memory" => ~(spent[p][b] + n > MaxScaled)
       /\ n = 0 \/ n = scaled
  OBVIOUS
<1> HIDE DEF n, lost
<1>11. \A y \in Requests : BilledOK(req[y], p)' /\ \A c : CostTo(p, c, req[y])' = IF y = r THEN add(c) ELSE CostTo(p, c, req[y])
  <2> SUFFICES ASSUME NEW y \in Requests
               PROVE  BilledOK(req[y], p)' /\ \A c : CostTo(p, c, req[y])' = IF y = r THEN add(c) ELSE CostTo(p, c, req[y])
    OBVIOUS
  <2>1. PICK z : z = req'[y]
    OBVIOUS
  <2>2. z = IF y = r THEN x ELSE req[y]
    BY <1>1, <1>9, <2>1
  <2>3. BilledOK(z, p) /\ \A c : CostTo(p, c, z) = IF y = r THEN add(c) ELSE CostTo(p, c, req[y])
    BY <1>1, <1>6, <1>8, <2>2 DEF PaidAt
  <2> HIDE DEF add
  <2>4. BilledOK(req[y], p)'
    BY <1>1, <2>1, <2>3, SameChain, Zenon
  <2>5. \A c : CostTo(p, c, req[y])' = CostTo(p, c, z)
    BY <1>1, <2>1, SameChain, Zenon
  <2> QED
    BY <2>3, <2>4, <2>5
<1>12. ASSUME NEW c \in DOMAIN chain[p].routes,
              chain[p].backend # "memory" \/ SumFunction(CostsTo(p, c)') <= MaxScaled
       PROVE  spent'[p][c] = SumFunction(CostsTo(p, c)')
  <2>1. PICK f : f = CostsTo(p, c)
    OBVIOUS
  <2>2. PICK g : g = CostsTo(p, c)'
    OBVIOUS
  <2>3. f \in [Requests -> Nat] /\ f[r] = 0
    <3>1. \A y \in Requests : CostTo(p, c, req[y]) \in Nat
      BY <1>1, CostType DEF PaidAt, BilledOK
    <3> QED
      BY <1>6, <2>1, <3>1 DEF CostsTo
  <2>4. add(c) \in Nat
    BY <1>3
  <2>5. g = [f EXCEPT ![r] = f[r] + add(c)]
    <3>1. f = [y \in Requests |-> CostTo(p, c, req[y])]
      BY <2>1 DEF CostsTo
    <3>2. g = [y \in Requests |-> CostTo(p, c, req[y])']
      BY <2>2 DEF CostsTo
    <3>3. g = [y \in Requests |-> IF y = r THEN add(c) ELSE CostTo(p, c, req[y])]
      BY <1>11, <3>2
    <3> HIDE DEF add
    <3> QED
      BY <2>3, <2>4, <3>1, <3>3
  <2>6. IsFiniteSet(Requests) /\ MaxScaled \in Nat
    BY RoutingAssumption
  <2>7. SumFunction(f) \in Nat /\ SumFunction(g) = SumFunction(f) + add(c)
    <3>1. PICK k : k = add(c)
      OBVIOUS
    <3> HIDE DEF add
    <3>2. k \in Nat /\ g = [f EXCEPT ![r] = f[r] + k]
      BY <2>4, <2>5, <3>1
    <3>3. SumFunction(f) \in Nat /\ SumFunction(g) = SumFunction(f) + k
      BY <2>3, <3>2, BillAdded
    <3> QED
      BY <3>1, <3>3
  <2>8. spent[p][c] = SumFunction(f)
    <3>1. chain[p].backend # "memory" \/ SumFunction(f) <= MaxScaled
      <4> HIDE DEF add
      <4> QED
        BY <1>12, <2>2, <2>4, <2>6, <2>7
    <3> QED
      BY <1>1, <2>1, <3>1 DEF PaidAt
  <2>9. CASE c = b /\ n > 0
    <3>1. add(c) = n
      BY <2>9
    <3> HIDE DEF add
    <3>2. SumFunction(g) <= MaxScaled
      BY <1>3, <1>12, <1>14, <2>2, <2>6, <2>7, <2>8, <2>9, <3>1
    <3>3. spent'[p][c] = Wrapped(SumFunction(g))
      BY <1>10, <2>7, <2>8, <2>9, <3>1
    <3> QED
      BY <1>3, <2>2, <2>6, <2>7, <3>1, <3>2, <3>3 DEF Wrapped
  <2>10. CASE ~(c = b /\ n > 0)
    <3>1. add(c) = 0
      BY <1>3, <2>10
    <3> HIDE DEF add
    <3>2. spent'[p][c] = spent[p][c]
      BY <1>10, <2>10
    <3> QED
      BY <2>2, <2>7, <2>8, <3>1, <3>2
  <2> QED
    BY <2>9, <2>10
<1>13. CostOK(chain[p])'
  BY <1>1, SameChain DEF PaidAt
<1> QED
  BY <1>1, <1>10, <1>11, <1>12, <1>13 DEF PaidAt

\* parseRoutes: no two routes of a model.
LEMMA RoutesParsed ==
  ASSUME NEW budgets, NEW scale, ParseRoutes(budgets, scale).ok, NEW routes, routes = ParseRoutes(budgets, scale).routes
  PROVE  DOMAIN routes = DOMAIN budgets /\ RoutesOK(routes)
<1> DEFINE model(i) == WildcardName(budgets[i].target.model)
           pattern(i) == model(i) \in DOMAIN Patterns
           limit(i) == Min({ScaleDollars(budgets[i].limits[j].amount, scale) : j \in DOMAIN budgets[i].limits})
<1>1. \A i, j \in DOMAIN budgets : i # j => model(i) # model(j)
  BY Zenon DEF ParseRoutes
<1>2. routes = [i \in DOMAIN budgets |-> [target |-> Target(model(i), budgets[i].target.provider),
                                          pattern |-> pattern(i), limit |-> limit(i)]]
  BY DEF ParseRoutes
<1> HIDE DEF model, pattern, limit
<1>3. DOMAIN routes = DOMAIN budgets
  BY <1>2
<1>4. \A i \in DOMAIN budgets : routes[i].target.model = model(i) /\ routes[i].pattern = pattern(i)
  BY <1>2 DEF Target
<1>5. \A i \in DOMAIN budgets : routes[i].pattern <=> routes[i].target.model \in DOMAIN Patterns
  BY <1>4, Zenon DEF pattern
<1>6. \A i, j \in DOMAIN routes : routes[i].target.model = routes[j].target.model => i = j
  BY <1>1, <1>3, <1>4
<1>7. \A i \in DOMAIN routes : routes[i].pattern <=> routes[i].target.model \in DOMAIN Patterns
  BY <1>3, <1>5, Zenon
<1> QED
  BY <1>3, <1>6, <1>7, Zenon DEF RoutesOK

\* What a configuration of cost-based-model-routing makes sure of.
LEMMA CostParsed ==
  ASSUME NEW raw, raw.kind = "cost", ParsePolicy(raw).ok,
         DOMAIN raw.modelBudgets = 1 .. Len(raw.modelBudgets), Len(raw.modelBudgets) \in Nat, raw.scale \in Int
  PROVE  CostOK(ParsePolicy(raw))
<1> DEFINE cost == ParseCostConfig(raw)
           onExhausted == IF raw.onExhausted = "default" THEN "fallback"
                          ELSE IF raw.onExhausted = "" THEN "reject" ELSE raw.onExhausted
           targets == ParseRoutingTargets(raw, onExhausted)
<1>1. PICK budgets : budgets = IF raw.modelBudgets # <<>> THEN raw.modelBudgets
                               ELSE <<[name |-> "primary", target |-> raw.primary, limits |-> raw.limits]>>
  OBVIOUS
<1>2. DOMAIN budgets \subseteq Nat \ {0}
  BY <1>1
<1>3. ParsePolicy(raw).routes = cost.routes /\ ParsePolicy(raw).scale = cost.scale /\ cost.ok
  BY DEF ParsePolicy
<1>4. cost.routes = targets.routes /\ cost.scale = raw.scale /\ raw.scale >= 1 /\ targets.ok
  BY <1>3, Zenon DEF ParseCostConfig
<1>5. PICK scale : scale = raw.scale
  OBVIOUS
<1>6. targets.routes = ParseRoutes(budgets, scale).routes /\ ParseRoutes(budgets, scale).ok
  BY <1>1, <1>4, <1>5, Zenon DEF ParseRoutingTargets
<1> HIDE DEF cost, targets
<1>7. PICK routes : routes = ParseRoutes(budgets, scale).routes
  OBVIOUS
<1>8. DOMAIN routes = DOMAIN budgets /\ RoutesOK(routes)
  BY <1>6, <1>7, RoutesParsed, Zenon
<1>9. ParsePolicy(raw).routes = routes /\ ParsePolicy(raw).scale = scale /\ scale \in Nat
  BY <1>3, <1>4, <1>5, <1>6, <1>7
<1>10. PICK c : c = ParsePolicy(raw)
  OBVIOUS
<1>11. c.routes = routes /\ c.scale = scale
  BY <1>9, <1>10
<1>12. CostOK(c)
  BY <1>2, <1>8, <1>9, <1>11 DEF CostOK
<1> QED
  BY <1>10, <1>12

\* Nothing is charged at first.
LEMMA InitBudgets ==
  ASSUME OneRouter PROVE Init => BudgetsInv
<1> SUFFICES ASSUME Init, NEW p \in DOMAIN chain, chain[p].kind = "cost" PROVE PaidAt(p)
  BY InitRouted DEF BudgetsInv
<1>1. PICK c \in Chains : chain = [i \in DOMAIN c |-> ParsePolicy(c[i])]
  BY Zenon DEF Init
<1>2. p \in DOMAIN c /\ chain[p] = ParsePolicy(c[p]) /\ c[p].kind = "cost" /\ chain[p].ok
  BY <1>1, ParsedKind DEF Init
<1>3. CostOK(chain[p])
  BY <1>2, CostParsed, RoutingAssumption
<1>4. ASSUME NEW r \in Requests
      PROVE  BilledOK(req[r], p) /\ \A b : CostTo(p, b, req[r]) = 0
  <2>1. req[r] = Fresh
    BY DEF Init
  <2>2. /\ Fresh.phase = "idle" /\ Fresh.pos = 1 /\ ~Fresh.charged /\ ~Fresh.billed /\ Fresh.cost = -1
        /\ Fresh.budget = [i \in DOMAIN chain |-> 0]
    BY DEF Fresh
  <2>3. PICK q : q = req[r]
    OBVIOUS
  <2>4. q.phase = "idle" /\ q.pos = 1 /\ ~q.charged /\ ~q.billed /\ q.cost = -1 /\ DOMAIN q.budget = DOMAIN chain
    BY <2>1, <2>2, <2>3
  <2>5. BilledOK(q, p) /\ \A b : CostTo(p, b, q) = 0
    BY <2>4 DEF BilledOK, Chosen, CostTo
  <2> QED
    BY <2>3, <2>5
<1>5. spent[p] = [b \in DOMAIN chain[p].routes |-> 0] /\ p \in DOMAIN spent
  BY DEF Init, Budgets
<1>6. ASSUME NEW b \in DOMAIN chain[p].routes
      PROVE  SumFunction(CostsTo(p, b)) = 0
  <2>1. CostsTo(p, b) = [r \in Requests |-> 0]
    BY <1>4 DEF CostsTo
  <2> QED
    BY <2>1, SumZero, RoutingAssumption
<1> QED
  BY <1>3, <1>4, <1>5, <1>6 DEF PaidAt

\* The other policies have nothing to charge; the router of the chain is cost-based.
LEMMA OtherRouters ==
  ASSUME BudgetsInv, NEW p \in DOMAIN chain, chain[p].kind = "cost", NEW r \in Requests
  PROVE  Here(r).kind \in {"cost", "header"}
BY AtRouter DEF Here

\* Every step keeps the books.
LEMMA NextBudgets == BudgetsInv /\ [Next]_vars => BudgetsInv'
<1> SUFFICES ASSUME BudgetsInv, [Next]_vars PROVE BudgetsInv'
  OBVIOUS
<1>1. RoutedInv'
  BY NextRouted DEF BudgetsInv
<1>2. UNCHANGED chain
  <2>1. ASSUME NEW r \in Requests, NEW reply \in Replies,
               SemanticOnRequestBody(r, reply) \/ IntelligentOnRequestBody(r, reply) \/ JevOnRequestBody(r, reply)
        PROVE  UNCHANGED chain
    BY <2>1, Zenon DEF SemanticOnRequestBody, IntelligentOnRequestBody, JevOnRequestBody
  <2>2. ASSUME NEW r \in Requests, RotationOnRequestHeaders(r) PROVE UNCHANGED chain
    BY <2>2, Zenon DEF RotationOnRequestHeaders
  <2>3. ASSUME NEW r \in Requests, RotationOnRequestBody(r) \/ RotationOnResponseHeaders(r) PROVE UNCHANGED chain
    BY <2>3, Zenon DEF RotationOnRequestBody, RotationOnResponseHeaders
  <2>4. ASSUME NEW r \in Requests, NEW errs, CostOnRequest(r, errs) PROVE UNCHANGED chain
    BY <2>4, Zenon DEF CostOnRequest
  <2>5. ASSUME NEW r \in Requests, NEW err, ChargeOnce(r, err) PROVE UNCHANGED chain
    BY <2>5, Zenon DEF ChargeOnce
  <2>6. ASSUME NEW r \in Requests, TimeOnRequestBody(r) \/ HeaderOnRequest(r) \/ NoHandler(r) PROVE UNCHANGED chain
    BY <2>6, Zenon DEF TimeOnRequestBody, HeaderOnRequest, NoHandler
  <2>7. ASSUME NEW r \in Requests, \/ \E m \in Messages : Arrive(r, m)
                                   \/ \E s \in Statuses, c \in Costs : Upstream(r, s, c)
        PROVE  UNCHANGED chain
    BY <2>7 DEF Arrive, Upstream
  <2>8. CASE Tick
    BY <2>8 DEF Tick
  <2>9. CASE UNCHANGED vars
    BY <2>9 DEF vars
  <2> QED
    BY <2>1, <2>2, <2>3, <2>4, <2>5, <2>6, <2>7, <2>8, <2>9 DEF Next
<1>3. ASSUME NEW p \in DOMAIN chain, chain[p].kind = "cost" PROVE PaidAt(p)'
  <2>1. CASE Tick \/ UNCHANGED vars
    BY <1>3, <2>1, BillsKeep DEF Tick, vars
  <2>2. ASSUME NEW r \in Requests, RotationOnRequestHeaders(r) \/ RotationOnRequestBody(r) \/ RotationOnResponseHeaders(r)
        PROVE  FALSE
    BY <1>3, <2>2, OtherRouters, Zenon DEF RotationOnRequestHeaders, RotationOnRequestBody, RotationOnResponseHeaders
  <2>3. ASSUME NEW r \in Requests, NEW reply \in Replies,
               SemanticOnRequestBody(r, reply) \/ IntelligentOnRequestBody(r, reply) \/ JevOnRequestBody(r, reply)
        PROVE  FALSE
    BY <1>3, <2>3, OtherRouters, Zenon DEF SemanticOnRequestBody, IntelligentOnRequestBody, JevOnRequestBody
  <2>4. ASSUME NEW r \in Requests, TimeOnRequestBody(r) PROVE FALSE
    BY <1>3, <2>4, OtherRouters, Zenon DEF TimeOnRequestBody
  <2>5. ASSUME NEW r \in Requests, NEW errs, CostOnRequest(r, errs) PROVE PaidAt(p)'
    <3>1. Bills(r, p)
      BY <1>3, <2>5, CostBills
    <3>2. UNCHANGED spent
      BY <2>5, Zenon DEF CostOnRequest
    <3> QED
      BY <1>2, <1>3, <3>1, <3>2, BillsKeep
  <2>6. ASSUME NEW r \in Requests, NEW err \in BOOLEAN, ChargeOnce(r, err) PROVE PaidAt(p)'
    BY <1>3, <2>6, ChargeKeeps
  <2>7. ASSUME NEW r \in Requests, HeaderOnRequest(r) \/ NoHandler(r) PROVE PaidAt(p)'
    <3>1. Bills(r, p)
      BY <1>3, <2>7, NamedBills
    <3>2. UNCHANGED spent
      BY <2>7, Zenon DEF HeaderOnRequest, NoHandler
    <3> QED
      BY <1>2, <1>3, <3>1, <3>2, BillsKeep
  <2>8. ASSUME NEW r \in Requests, \/ \E m \in Messages : Arrive(r, m)
                                   \/ \E s \in Statuses, c \in Costs : Upstream(r, s, c)
        PROVE  PaidAt(p)'
    <3>1. Bills(r, p)
      BY <1>3, <2>8, EngineBills
    <3>2. UNCHANGED spent
      BY <2>8 DEF Arrive, Upstream
    <3> QED
      BY <1>2, <1>3, <3>1, <3>2, BillsKeep
  <2> QED
    BY <2>1, <2>2, <2>3, <2>4, <2>5, <2>6, <2>7, <2>8 DEF Next
<1>4. (\A p \in DOMAIN chain : chain[p].kind = "cost" => PaidAt(p))'
  BY <1>2, <1>3
<1> QED
  BY <1>1, <1>4 DEF BudgetsInv

\* Where cost-based-model-routing is the one router of the route, each of its
\* budgets holds what the answers of the models it stands for have cost, each
\* answer once, for every set of budgets and patterns, every number of
\* concurrent requests, every failure of a limiter and every charge that Redis
\* refuses; a budget in memory until costs take it past the largest counter.
THEOREM BudgetsKept == ASSUME OneRouter PROVE Spec => []BudgetOfModelUsed
<1>1. BudgetsInv => BudgetOfModelUsed
  <2> SUFFICES ASSUME BudgetsInv, NEW p \in DOMAIN chain, NEW b \in Budgets(chain[p])
               PROVE  LET used == SumFunction([r \in Requests |-> CostTo(p, b, req[r])])
                      IN (chain[p].backend # "memory" \/ used <= MaxScaled) => spent[p][b] = used
    BY DEF BudgetOfModelUsed
  <2>1. chain[p].kind = "cost" /\ b \in DOMAIN chain[p].routes
    BY DEF Budgets
  <2> QED
    BY <2>1 DEF BudgetsInv, PaidAt, CostsTo
<1>2. Init => BudgetsInv
  BY InitBudgets
<1> QED
  BY <1>1, <1>2, NextBudgets, PTL DEF Spec

(***************************************************************************)
(* SemanticCache                                                           *)
(***************************************************************************)
-----------------------------------------------------------------------------
(* Whose entry it is.                                                       *)

\* An identity has the name of its place.
LEMMA IdentityCases ==
  ASSUME NEW c
  PROVE  \/ c.app # "" /\ CallerIdentity(c) = <<"appid", c.app>>
         \/ c.app = "" /\ c.subject # "" /\ CallerIdentity(c) = <<"subject", c.subject>>
         \/ c.app = "" /\ c.subject = "" /\ c.credential # "" /\ CallerIdentity(c) = <<"credential", c.credential>>
         \/ c.app = "" /\ c.subject = "" /\ c.credential = "" /\ c.token # "" /\ CallerIdentity(c) = <<"token", c.token>>
         \/ Anonymous(c) /\ CallerIdentity(c) = <<>>
BY DEF CallerIdentity, Anonymous

\* The first place at which either of two has a name decides.
LEMMA FirstOfFour ==
  ASSUME NEW none, NEW C, NEW D,
         NEW a, NEW b, NEW e, NEW f, C = <<a, b, e, f>>,
         NEW g, NEW h, NEW i, NEW j, D = <<g, h, i, j>>,
         NEW known, \A n : n \in known <=> n \in 1..4 /\ (C[n] # none \/ D[n] # none),
         \/ a # none /\ g = a
         \/ a = none /\ g = none /\ b # none /\ h = b
         \/ a = none /\ g = none /\ b = none /\ h = none /\ e # none /\ i = e
         \/ a = none /\ g = none /\ b = none /\ h = none /\ e = none /\ i = none /\ f # none /\ j = f
         \/ a = none /\ g = none /\ b = none /\ h = none /\ e = none /\ i = none /\ f = none /\ j = none
  PROVE  known = {} \/ C[Min(known)] = D[Min(known)]
<1>1. /\ C[1] = a /\ C[2] = b /\ C[3] = e /\ C[4] = f
      /\ D[1] = g /\ D[2] = h /\ D[3] = i /\ D[4] = j
  OBVIOUS
<1>2. \A n \in 1..4 : n = 1 \/ n = 2 \/ n = 3 \/ n = 4
  OBVIOUS
<1>3. (\A n \in 1..4 : C[n] = none /\ D[n] = none)
      \/ \E k \in 1..4 : C[k] # none /\ C[k] = D[k] /\ \A n \in 1..4 : n < k => C[n] = none /\ D[n] = none
  BY <1>1, <1>2
<1>4. CASE \A n \in 1..4 : C[n] = none /\ D[n] = none
  BY <1>4
<1>5. CASE \E k \in 1..4 : C[k] # none /\ C[k] = D[k] /\ \A n \in 1..4 : n < k => C[n] = none /\ D[n] = none
  <2>1. PICK k \in 1..4 : C[k] # none /\ C[k] = D[k] /\ \A n \in 1..4 : n < k => C[n] = none /\ D[n] = none
    BY <1>5
  <2>2. k \in known /\ \A n \in known : k <= n
    BY <2>1
  <2>3. Min(known) \in known /\ \A y \in known : Min(known) <= y
    BY <2>2, Zenon DEF Min
  <2>4. PICK m : m = Min(known)
    OBVIOUS
  <2>5. m \in known /\ \A y \in known : m <= y
    BY <2>3, <2>4, Zenon
  <2>6. m = k
    BY <2>2, <2>5
  <2> QED
    BY <2>1, <2>4, <2>6, Zenon
<1> QED
  BY <1>3, <1>4, <1>5

\* An identity tells the first name, and that there is none before it.
LEMMA IdentityOf ==
  ASSUME NEW c, NEW d, CallerIdentity(c) = CallerIdentity(d)
  PROVE  \/ c.app # "" /\ d.app = c.app
         \/ c.app = "" /\ d.app = "" /\ c.subject # "" /\ d.subject = c.subject
         \/ c.app = "" /\ d.app = "" /\ c.subject = "" /\ d.subject = "" /\ c.credential # "" /\ d.credential = c.credential
         \/ /\ c.app = "" /\ d.app = "" /\ c.subject = "" /\ d.subject = "" /\ c.credential = "" /\ d.credential = ""
            /\ c.token # "" /\ d.token = c.token
         \/ Anonymous(c) /\ Anonymous(d)
<1>1. \A x, y, u, v : <<x, y>> = <<u, v>> => x = u /\ y = v
  OBVIOUS
<1>2. \A x, y : <<x, y>> # <<>>
  OBVIOUS
<1>3. /\ "appid" # "subject" /\ "appid" # "credential" /\ "appid" # "token"
      /\ "subject" # "credential" /\ "subject" # "token" /\ "credential" # "token"
  OBVIOUS
<1>4. PICK x : x = CallerIdentity(c) /\ x = CallerIdentity(d)
  OBVIOUS
<1>5. \/ c.app # "" /\ x = <<"appid", c.app>>
      \/ c.app = "" /\ c.subject # "" /\ x = <<"subject", c.subject>>
      \/ c.app = "" /\ c.subject = "" /\ c.credential # "" /\ x = <<"credential", c.credential>>
      \/ c.app = "" /\ c.subject = "" /\ c.credential = "" /\ c.token # "" /\ x = <<"token", c.token>>
      \/ Anonymous(c) /\ x = <<>>
  BY <1>4, IdentityCases, Zenon
<1>6. \/ d.app # "" /\ x = <<"appid", d.app>>
      \/ d.app = "" /\ d.subject # "" /\ x = <<"subject", d.subject>>
      \/ d.app = "" /\ d.subject = "" /\ d.credential # "" /\ x = <<"credential", d.credential>>
      \/ d.app = "" /\ d.subject = "" /\ d.credential = "" /\ d.token # "" /\ x = <<"token", d.token>>
      \/ Anonymous(d) /\ x = <<>>
  BY <1>4, IdentityCases, Zenon
<1>7. CASE c.app # "" /\ x = <<"appid", c.app>>
  BY <1>1, <1>2, <1>3, <1>6, <1>7, Zenon
<1>8. CASE c.app = "" /\ c.subject # "" /\ x = <<"subject", c.subject>>
  BY <1>1, <1>2, <1>3, <1>6, <1>8, Zenon
<1>9. CASE c.app = "" /\ c.subject = "" /\ c.credential # "" /\ x = <<"credential", c.credential>>
  BY <1>1, <1>2, <1>3, <1>6, <1>9, Zenon
<1>10. CASE c.app = "" /\ c.subject = "" /\ c.credential = "" /\ c.token # "" /\ x = <<"token", c.token>>
  BY <1>1, <1>2, <1>3, <1>6, <1>10, Zenon
<1>11. CASE Anonymous(c) /\ x = <<>>
  BY <1>1, <1>2, <1>3, <1>6, <1>11, Zenon
<1> QED
  BY <1>5, <1>7, <1>8, <1>9, <1>10, <1>11, Zenon

\* Equal identities are of one caller.
LEMMA IdentityTells ==
  ASSUME NEW c, NEW d, CallerIdentity(c) = CallerIdentity(d)
  PROVE  SameCaller(c, d) /\ (Anonymous(c) <=> Anonymous(d))
<1>1. PICK none : none = ""
  OBVIOUS
<1>2. PICK known : known = {n \in 1..4 : Names(c)[n] # none \/ Names(d)[n] # none}
  OBVIOUS
<1>3. SameCaller(c, d) <=> (known = {} \/ Names(c)[Min(known)] = Names(d)[Min(known)])
  BY <1>1, <1>2, Zenon DEF SameCaller
<1>4. /\ Names(c) = <<c.app, c.subject, c.credential, c.token>>
      /\ Names(d) = <<d.app, d.subject, d.credential, d.token>>
  BY Zenon DEF Names
<1>5. \/ c.app # none /\ d.app = c.app
      \/ c.app = none /\ d.app = none /\ c.subject # none /\ d.subject = c.subject
      \/ c.app = none /\ d.app = none /\ c.subject = none /\ d.subject = none /\ c.credential # none /\ d.credential = c.credential
      \/ /\ c.app = none /\ d.app = none /\ c.subject = none /\ d.subject = none /\ c.credential = none /\ d.credential = none
         /\ c.token # none /\ d.token = c.token
      \/ /\ c.app = none /\ d.app = none /\ c.subject = none /\ d.subject = none /\ c.credential = none /\ d.credential = none
         /\ c.token = none /\ d.token = none
  BY <1>1, IdentityOf, Zenon DEF Anonymous
<1>6. \A n : n \in known <=> n \in 1..4 /\ (Names(c)[n] # none \/ Names(d)[n] # none)
  BY <1>2
<1>7. PICK C, D : C = Names(c) /\ D = Names(d)
  OBVIOUS
<1>8. \A n : n \in known <=> n \in 1..4 /\ (C[n] # none \/ D[n] # none)
  BY <1>6, <1>7
<1>9. SameCaller(c, d)
  <2>1. C = <<c.app, c.subject, c.credential, c.token>> /\ D = <<d.app, d.subject, d.credential, d.token>>
    BY <1>4, <1>7
  <2>2. known = {} \/ C[Min(known)] = D[Min(known)]
    BY <2>1, <1>5, <1>8, FirstOfFour
  <2> QED
    BY <1>3, <1>7, <2>2
<1>10. Anonymous(c) <=> Anonymous(d)
  BY IdentityOf, Zenon DEF Anonymous
<1> QED
  BY <1>9, <1>10

\* A scope names the API and the identity.
LEMMA ScopeTells ==
  ASSUME NEW a, NEW b, NEW c, NEW d, <<a>> \o CallerIdentity(c) = <<b>> \o CallerIdentity(d)
  PROVE  a = b /\ CallerIdentity(c) = CallerIdentity(d)
<1>1. ASSUME NEW e PROVE CallerIdentity(e) = <<>> \/ \E x, y : CallerIdentity(e) = <<x, y>>
  BY IdentityCases
<1>2. ASSUME NEW x, NEW i, i = <<>> \/ \E y, z : i = <<y, z>>
      PROVE  Len(<<x>> \o i) = 1 + Len(i) /\ (<<x>> \o i)[1] = x /\ \A n \in 1..Len(i) : (<<x>> \o i)[n + 1] = i[n]
  BY <1>2
<1> QED
  BY <1>1, <1>2

-----------------------------------------------------------------------------
(* The invariant.                                                           *)

Answers(reply, qs) ==
  /\ reply.status \in 200..299
  /\ \A n \in DOMAIN qs : reply.answers[qs[n].key].value \in 0..(qs[n].threshold.n - 1)

\* Where an entry with this data belongs.
ScopeOf(data, scope) ==
  LET id == CallerIdentity(data.msg.caller)
  IN /\ id # <<>> \/ conf.cacheUnauthenticated
     /\ \/ data.msg.api # "" /\ scope = <<data.msg.api>> \o id
        \/ data.msg.api = "" /\ \E n \in 0..(MaxCacheRequests - 1) : scope = <<ToString(n)>> \o id

\* What is stored, or is about to be when it has been checked.
DataOK(data, scope) ==
  /\ data.text = ExtractCachedText(data.msg)
  /\ ScopeOf(data, scope)
  /\ data.res.status = 200 /\ ~data.res.noStore
  /\ data.res.json \/ EndsInChoices(data.res) => data.content = Said(data.res)

EntryOK(e) ==
  /\ e.text = e.data.text /\ DataOK(e.data, e.scope)
  /\ conf.check.enabled => Answers(e.data.reply, conf.check.questions)

DataFields == {"msg", "res", "text", "content", "reply"}

CallOK(c) ==
  \/ c = Idle
  \/ /\ c.phase = "upstream" /\ c.msg \in CacheRequests /\ c.id \in 0..(MaxCacheRequests - 1)
     /\ c.text # "" => c.text = ExtractCachedText(c.msg)
  \/ /\ c.phase \in {"checking", "backoff"} /\ DOMAIN c = {"phase", "scope", "data", "again"}
     /\ DOMAIN c.data = DataFields /\ DataOK(c.data, c.scope)

ConfOK ==
  /\ conf.threshold \in Int
  /\ \A n \in DOMAIN conf.check.questions : conf.check.questions[n].threshold.n \in Int

CacheInv ==
  /\ ConfOK
  /\ asked \in Nat
  /\ DOMAIN calls = 1..NumCacheCalls /\ \A i \in 1..NumCacheCalls : CallOK(calls[i])
  /\ \A e \in entries : EntryOK(e)
  /\ CachedAnswerDue

-----------------------------------------------------------------------------
(* The pieces of a handler.                                                 *)

\* A scope is the API and the identity, for callers who have one.
LEMMA ScopeParts ==
  ASSUME NEW c, NEW api
  PROVE  /\ CacheScopeID(c, api).scope = <<api>> \o CallerIdentity(c)
         /\ CacheScopeID(c, api).ok <=> (CallerIdentity(c) # <<>> \/ conf.cacheUnauthenticated)
BY DEF CacheScopeID

\* An entry that is found belongs to the caller who asks.
LEMMA FoundDue ==
  ASSUME CacheInv, NEW msg \in CacheRequests, NEW e \in entries,
         CacheScopeID(msg.caller, msg.api).ok, e.scope = CacheScopeID(msg.caller, msg.api).scope
  PROVE  /\ e.data.msg.api = msg.api /\ SameCaller(e.data.msg.caller, msg.caller)
         /\ Anonymous(msg.caller) => conf.cacheUnauthenticated
<1> DEFINE d == e.data
<1>1. DataOK(d, e.scope)
  BY DEF CacheInv, EntryOK
<1>2. ~(d.msg.api = "")
  <2>1. SUFFICES ASSUME d.msg.api = "", NEW n \in 0..(MaxCacheRequests - 1), e.scope = <<ToString(n)>> \o CallerIdentity(d.msg.caller)
                 PROVE  FALSE
    BY <1>1 DEF DataOK, ScopeOf
  <2>2. <<ToString(n)>> \o CallerIdentity(d.msg.caller) = <<msg.api>> \o CallerIdentity(msg.caller)
    BY <2>1, ScopeParts
  <2>3. ToString(n) = msg.api
    BY <2>2, ScopeTells
  <2> QED
    BY <2>3, AnswersAssumption
<1>3. e.scope = <<d.msg.api>> \o CallerIdentity(d.msg.caller)
  BY <1>1, <1>2 DEF DataOK, ScopeOf
<1>4. <<d.msg.api>> \o CallerIdentity(d.msg.caller) = <<msg.api>> \o CallerIdentity(msg.caller)
  BY <1>3, ScopeParts
<1>5. d.msg.api = msg.api /\ CallerIdentity(d.msg.caller) = CallerIdentity(msg.caller)
  BY <1>4, ScopeTells
<1>6. Anonymous(msg.caller) => CallerIdentity(msg.caller) = <<>>
  BY Zenon DEF Anonymous, CallerIdentity
<1> QED
  BY <1>5, <1>6, IdentityTells, ScopeParts

\* The event that closes a stream is the last one with JSON.
LEMMA ClosesLast ==
  ASSUME NEW res \in CacheResponses, EndsInChoices(res)
  PROVE  LET json == {n \in DOMAIN res.events : res.events[n].json}
         IN json # {} /\ res.events[Max(json)].choices
<1> DEFINE json == {n \in DOMAIN res.events : res.events[n].json}
<1>1. Len(res.events) \in Nat /\ DOMAIN res.events = 1..Len(res.events)
  BY AnswersAssumption
<1>2. PICK n \in DOMAIN res.events : /\ res.events[n].json /\ res.events[n].choices
                                     /\ \A m \in (n + 1)..Len(res.events) : ~res.events[m].json
  BY DEF EndsInChoices
<1>3. n \in json /\ \A m \in json : n >= m /\ m \in Int
  BY <1>1, <1>2
<1>4. Max(json) \in json /\ \A y \in json : Max(json) >= y
  <2> HIDE DEF json
  <2> QED
    BY <1>3, Zenon DEF Max
<1>5. PICK top : top = Max(json)
  OBVIOUS
<1>6. top \in json /\ top >= n
  BY <1>3, <1>4, <1>5, Zenon
<1>7. top = n
  BY <1>3, <1>6
<1> QED
  BY <1>2, <1>3, <1>5, <1>7, Zenon

\* What is stored of a response is what the upstream said.
LEMMA ParsedDue ==
  ASSUME NEW res \in CacheResponses, Parsed(res).ok, res.json \/ EndsInChoices(res)
  PROVE  Parsed(res).content = Said(res)
<1>1. CASE res.json
  BY <1>1 DEF Parsed, Said
<1>2. CASE ~res.json
  <2>1. res.events # <<>>
    BY <1>2 DEF EndsInChoices
  <2>2. Parsed(res) = AssembleSSEResponse(res.events)
    BY <1>2, <2>1 DEF Parsed, IsSSEContent
  <2>3. PICK texts : texts = [n \in DOMAIN res.events |-> IF res.events[n].json THEN res.events[n].text ELSE <<>>]
    OBVIOUS
  <2>4. PICK json : json = {n \in DOMAIN res.events : res.events[n].json}
    OBVIOUS
  <2>5. json # {} /\ res.events[Max(json)].choices
    BY <1>2, <2>4, ClosesLast, Zenon
  <2>6. AssembleSSEResponse(res.events) = [ok |-> json # {}, content |-> IF json # {} /\ res.events[Max(json)].choices THEN FlattenSeq(texts) ELSE NoContent]
    BY <2>3, <2>4, Zenon DEF AssembleSSEResponse
  <2>7. AssembleSSEResponse(res.events).content = FlattenSeq(texts)
    BY <2>5, <2>6
  <2>8. Said(res) = FlattenSeq(texts)
    BY <1>2, <2>3, Zenon DEF Said
  <2> QED
    BY <2>2, <2>7, <2>8
<1> QED
  BY <1>1, <1>2

\* A verdict to store rests on an answer to every question.
LEMMA VerdictDue ==
  ASSUME ConfOK, NEW raw \in CheckReplies, Verdict(Post(raw), conf.check.questions) = "store"
  PROVE  Answers(Post(raw), conf.check.questions)
<1> DEFINE r == Post(raw)
           qs == conf.check.questions
<1>1. /\ r.status \in 200..299 /\ DecodeJevAnswers(r, qs)
      /\ \A n \in DOMAIN qs : JevBlockingValue(qs[n], r.answers[qs[n].key]) /\ r.answers[qs[n].key].value < qs[n].threshold.n
  BY DEF Verdict
<1>2. r = raw
  BY <1>1, AnswersAssumption DEF Post
<1>3. ASSUME NEW n \in DOMAIN qs PROVE r.answers[qs[n].key].value \in 0..(qs[n].threshold.n - 1)
  <2>1. qs[n].key \in DOMAIN r.answers
    BY <1>1 DEF DecodeJevAnswers
  <2>2. r.answers[qs[n].key].value \in Int
    BY <1>2, <2>1, AnswersAssumption
  <2>3. qs[n].threshold.n \in Int
    BY DEF ConfOK
  <2>4. 0 <= r.answers[qs[n].key].value /\ r.answers[qs[n].key].value < qs[n].threshold.n
    BY <1>1 DEF JevBlockingValue
  <2> QED
    BY <2>2, <2>3, <2>4
<1> QED
  BY <1>1, <1>3 DEF Answers

\* The parameters of the policy.
LEMMA ConfTyped ==
  ASSUME NEW raw \in CacheParams, conf = GetPolicy(raw)
  PROVE  ConfOK
<1>1. conf.threshold = raw.threshold.n /\ conf.check = ParseJevCacheCheck(raw)
  BY DEF GetPolicy, ParseParams
<1>2. \/ conf.check.questions = <<>> \/ conf.check.questions = DefaultQuestions
      \/ conf.check.questions = raw.check.questions.list
  BY <1>1 DEF ParseJevCacheCheck
<1> QED
  BY <1>1, <1>2, AnswersAssumption DEF ConfOK

-----------------------------------------------------------------------------
(* Steps.                                                                   *)

\* Nothing that is said of data depends on more than the configuration.
LEMMA SameConf ==
  ASSUME UNCHANGED conf
  PROVE  /\ \A data, scope : DataOK(data, scope)' <=> DataOK(data, scope)
         /\ \A msg : ExtractCachedText(msg)' = ExtractCachedText(msg)
         /\ \A e : EntryOK(e)' <=> EntryOK(e)
         /\ \A c : CallOK(c)' <=> CallOK(c)
         /\ ConfOK' <=> ConfOK
<1>1. \A msg : ExtractCachedText(msg)' = ExtractCachedText(msg)
  BY DEF ExtractCachedText
<1>2. \A data, scope : DataOK(data, scope)' <=> DataOK(data, scope)
  <2>1. SUFFICES ASSUME NEW data, NEW scope PROVE DataOK(data, scope)' <=> DataOK(data, scope)
    OBVIOUS
  <2>2. ScopeOf(data, scope)' <=> ScopeOf(data, scope)
    BY Zenon DEF ScopeOf
  <2>3. ExtractCachedText(data.msg)' = ExtractCachedText(data.msg)
    BY <1>1
  <2> QED
    BY <2>2, <2>3, Zenon DEF DataOK
<1>3. \A e : EntryOK(e)' <=> EntryOK(e)
  BY <1>2 DEF EntryOK
<1>4. \A c : CallOK(c)' <=> CallOK(c)
  BY <1>1, <1>2 DEF CallOK
<1>5. ConfOK' <=> ConfOK
  BY DEF ConfOK
<1> QED
  BY <1>1, <1>2, <1>3, <1>4, <1>5

\* A step that leaves the configuration alone.
LEMMA StepKept ==
  ASSUME CacheInv, UNCHANGED conf, asked' \in Nat, CachedAnswerDue',
         DOMAIN calls' = 1..NumCacheCalls, \A j \in 1..NumCacheCalls : CallOK(calls[j])',
         \A e \in entries' : EntryOK(e)
  PROVE  CacheInv'
<1>1. ConfOK'
  BY SameConf DEF CacheInv
<1>2. \A e \in entries' : EntryOK(e)'
  BY SameConf
<1> QED
  BY <1>1, <1>2 DEF CacheInv

\* A call takes its place, changes or gives its place back.
LEMMA CallsKept ==
  ASSUME CacheInv, NEW i \in 1..NumCacheCalls, NEW c, CallOK(c), UNCHANGED conf, calls' = [calls EXCEPT ![i] = c]
  PROVE  DOMAIN calls' = 1..NumCacheCalls /\ \A j \in 1..NumCacheCalls : CallOK(calls[j])'
<1>1. ASSUME NEW j \in 1..NumCacheCalls PROVE CallOK(calls[j])'
  <2>1. PICK d : d = calls'[j]
    OBVIOUS
  <2>2. CallOK(d)
    BY <2>1 DEF CacheInv
  <2>3. CallOK(d)'
    BY <2>2, SameConf
  <2> QED
    BY <2>1, <2>3
<1> QED
  BY <1>1 DEF CacheInv

LEMMA CallsAlone ==
  ASSUME CacheInv, UNCHANGED <<conf, calls>>
  PROVE  DOMAIN calls' = 1..NumCacheCalls /\ \A j \in 1..NumCacheCalls : CallOK(calls[j])'
<1>1. ASSUME NEW j \in 1..NumCacheCalls PROVE CallOK(calls[j])'
  <2>1. PICK d : d = calls[j] /\ d = calls'[j]
    OBVIOUS
  <2>2. CallOK(d)'
    BY <2>1, SameConf DEF CacheInv
  <2> QED
    BY <2>1, <2>2
<1> QED
  BY <1>1 DEF CacheInv

\* An answer that is due, with the text of its entry and the least similarity.
DueOf(l, text, low) ==
  /\ l.data.msg.api = l.msg.api /\ SameCaller(l.data.msg.caller, l.msg.caller)
  /\ Anonymous(l.msg.caller) => conf.cacheUnauthenticated
  /\ l.data.text = text /\ Similarity[l.text][l.data.text] >= low
  /\ l.data.res.status = 200 /\ ~l.data.res.noStore
  /\ (l.data.res.json \/ EndsInChoices(l.data.res)) => l.data.content = Said(l.data.res)
  /\ conf.check.enabled => Answers(l.data.reply, conf.check.questions)

LEMMA DueNow ==
  ASSUME NEW l, l = last, NEW text, text = ExtractCachedText(l.data.msg), NEW low, low = 6000 + 40 * conf.threshold
  PROVE  CachedAnswerDue <=> (l.k = "hit" => DueOf(l, text, low))
BY DEF CachedAnswerDue, DueOf, Answers

LEMMA DueNext ==
  ASSUME UNCHANGED conf,
         NEW l, l = last', NEW text, text = ExtractCachedText(l.data.msg), NEW low, low = 6000 + 40 * conf.threshold
  PROVE  CachedAnswerDue' <=> (l.k = "hit" => DueOf(l, text, low))
<1>1. ExtractCachedText(l.data.msg)' = text
  BY SameConf
<1>2. PICK c : c = conf /\ c = conf'
  OBVIOUS
<1> QED
  BY <1>1, <1>2 DEF CachedAnswerDue, DueOf, Answers

\* What was answered stays due as long as nothing else is.
LEMMA SameAnswer ==
  ASSUME CachedAnswerDue, UNCHANGED <<conf, last>>
  PROVE  CachedAnswerDue'
<1>1. PICK l : l = last /\ l = last'
  OBVIOUS
<1>2. PICK text, low : text = ExtractCachedText(l.data.msg) /\ low = 6000 + 40 * conf.threshold
  OBVIOUS
<1>3. l.k = "hit" => DueOf(l, text, low)
  BY <1>1, <1>2, DueNow
<1> QED
  BY <1>1, <1>2, <1>3, DueNext

\* A hit.
LEMMA HitDue ==
  ASSUME CacheInv, UNCHANGED conf, NEW msg \in CacheRequests, NEW e \in entries,
         CacheScopeID(msg.caller, msg.api).ok,
         e \in Retrieve(ExtractCachedText(msg), CacheScopeID(msg.caller, msg.api).scope),
         last' = [k |-> "hit", msg |-> msg, text |-> ExtractCachedText(msg), data |-> e.data]
  PROVE  CachedAnswerDue'
<1> DEFINE d == e.data
           text == ExtractCachedText(msg)
<1>1. EntryOK(e) /\ DataOK(d, e.scope)
  BY DEF CacheInv, EntryOK
<1>2. e.scope = CacheScopeID(msg.caller, msg.api).scope /\ Similarity[text][e.text] >= EffectiveThreshold
  BY DEF Retrieve
<1>3. /\ d.msg.api = msg.api /\ SameCaller(d.msg.caller, msg.caller)
      /\ Anonymous(msg.caller) => conf.cacheUnauthenticated
  BY <1>2, FoundDue
<1>4. d.text = ExtractCachedText(d.msg)
  BY <1>1, Zenon DEF DataOK
<1>5. Similarity[text][d.text] >= 6000 + 40 * conf.threshold
  <2>1. EffectiveThreshold = 6000 + 40 * conf.threshold
    BY DEF EffectiveThreshold, CacheInv, ConfOK
  <2>2. d.text = e.text
    BY <1>1, Zenon DEF EntryOK
  <2> QED
    BY <1>2, <2>1, <2>2
<1>6. /\ d.res.status = 200 /\ ~d.res.noStore
      /\ (d.res.json \/ EndsInChoices(d.res)) => d.content = Said(d.res)
  BY <1>1, Zenon DEF DataOK
<1>7. conf.check.enabled => Answers(d.reply, conf.check.questions)
  BY <1>1, Zenon DEF EntryOK
<1>8. PICK low : low = 6000 + 40 * conf.threshold
  OBVIOUS
<1>9. PICK l : l = last'
  OBVIOUS
<1>10. l.msg = msg /\ l.text = text /\ l.data = d
  BY <1>9
<1>11. Similarity[text][d.text] >= low
  BY <1>5, <1>8
<1>12. DueOf(l, ExtractCachedText(d.msg), low)
  BY <1>3, <1>4, <1>6, <1>7, <1>10, <1>11, Zenon DEF DueOf
<1>13. PICK t : t = ExtractCachedText(d.msg)
  OBVIOUS
<1>14. DueOf(l, t, low) /\ t = ExtractCachedText(l.data.msg)
  BY <1>10, <1>12, <1>13
<1> QED
  BY <1>8, <1>9, <1>14, DueNext

\* No call has nothing to say of it.
LEMMA NoHit ==
  ASSUME last'.k # "hit"
  PROVE  CachedAnswerDue'
BY Zenon DEF CachedAnswerDue

LEMMA IdleOK == CallOK(Idle)
BY DEF CallOK

\* A call by its phase.
LEMMA UpstreamCall ==
  ASSUME CacheInv, NEW i \in 1..NumCacheCalls, calls[i].phase = "upstream"
  PROVE  /\ calls[i].msg \in CacheRequests /\ calls[i].id \in 0..(MaxCacheRequests - 1)
         /\ calls[i].text # "" => calls[i].text = ExtractCachedText(calls[i].msg)
<1>1. CallOK(calls[i])
  BY Zenon DEF CacheInv
<1>2. calls[i] # Idle
  BY DEF Idle
<1>3. calls[i].phase \notin {"checking", "backoff"}
  OBVIOUS
<1> QED
  BY <1>1, <1>2, <1>3, Zenon DEF CallOK

LEMMA CheckedCall ==
  ASSUME CacheInv, NEW i \in 1..NumCacheCalls, calls[i].phase \in {"checking", "backoff"}
  PROVE  /\ DOMAIN calls[i] = {"phase", "scope", "data", "again"}
         /\ DOMAIN calls[i].data = DataFields /\ DataOK(calls[i].data, calls[i].scope)
<1>1. CallOK(calls[i])
  BY Zenon DEF CacheInv
<1>2. calls[i] # Idle
  BY DEF Idle
<1>3. calls[i].phase # "upstream"
  OBVIOUS
<1> QED
  BY <1>1, <1>2, <1>3, Zenon DEF CallOK

-----------------------------------------------------------------------------
(* The actions.                                                             *)

LEMMA StepRequest ==
  ASSUME CacheInv, NEW i \in 1..NumCacheCalls, NEW msg \in CacheRequests, OnRequestBody(i, msg)
  PROVE  CacheInv'
<1> DEFINE text == ExtractCachedText(msg)
           scope == CacheScopeID(msg.caller, msg.api)
<1>1. /\ UNCHANGED conf /\ entries' = entries /\ asked' \in Nat /\ asked \in 0..(MaxCacheRequests - 1)
  <2>1. UNCHANGED conf /\ entries' = entries /\ asked < MaxCacheRequests /\ asked' = asked + 1
    BY DEF OnRequestBody
  <2> QED
    BY <2>1, AnswersAssumption DEF CacheInv
<1>2. \A e \in entries' : EntryOK(e)
  BY <1>1 DEF CacheInv
<1>3. CASE UNCHANGED calls /\ last' = BuildErrorResponse
  <2>1. CachedAnswerDue'
    BY <1>3, NoHit DEF BuildErrorResponse
  <2> QED
    BY <1>1, <1>2, <1>3, <2>1, CallsAlone, StepKept
<1>4. CASE \E t \in {"", text} : calls' = [calls EXCEPT ![i] = OnItsWay(msg, t)] /\ last' = [k |-> "none"]
  <2>1. PICK t \in {"", text} : calls' = [calls EXCEPT ![i] = OnItsWay(msg, t)]
    BY <1>4
  <2>2. CallOK(OnItsWay(msg, t))
    BY <1>1 DEF CallOK, OnItsWay
  <2>3. CachedAnswerDue'
    <3>1. last' = [k |-> "none"]
      BY <1>4
    <3> QED
      BY <3>1, NoHit
  <2> QED
    BY <1>1, <1>2, <2>1, <2>2, <2>3, CallsKept, StepKept
<1>5. CASE /\ scope.ok /\ UNCHANGED calls
           /\ \E e \in Retrieve(text, scope.scope) : last' = [k |-> "hit", msg |-> msg, text |-> text, data |-> e.data]
  <2>1. PICK e \in Retrieve(text, scope.scope) : last' = [k |-> "hit", msg |-> msg, text |-> text, data |-> e.data]
    BY <1>5
  <2>2. e \in entries
    BY <2>1 DEF Retrieve
  <2>3. CachedAnswerDue'
    BY <1>1, <1>5, <2>1, <2>2, HitDue
  <2> QED
    BY <1>1, <1>2, <1>5, <2>3, CallsAlone, StepKept
<1> QED
  BY <1>3, <1>4, <1>5, Zenon DEF OnRequestBody

\* A call that ends without an entry.
LEMMA SkipKept ==
  ASSUME CacheInv, NEW i \in 1..NumCacheCalls, NEW k, k # "hit", Skip(i, k), UNCHANGED <<conf, asked>>
  PROVE  CacheInv'
<1>1. calls' = [calls EXCEPT ![i] = Idle] /\ last' = [k |-> k] /\ entries' = entries /\ asked' \in Nat
  BY DEF Skip, CacheInv
<1>2. CachedAnswerDue'
  BY <1>1, NoHit
<1> QED
  BY <1>1, <1>2, IdleOK, CallsKept, StepKept DEF CacheInv

\* One that ends with an entry, which says what was asked of the response.
LEMMA StoreKept ==
  ASSUME CacheInv, NEW i \in 1..NumCacheCalls, NEW scope, NEW data, NEW reply, Store(i, scope, data, reply),
         UNCHANGED <<conf, asked>>, DOMAIN data = DataFields, DataOK(data, scope),
         conf.check.enabled => Answers(reply, conf.check.questions)
  PROVE  CacheInv'
<1>1. PICK d : d = [data EXCEPT !.reply = reply]
  OBVIOUS
<1>2. /\ d.msg = data.msg /\ d.res = data.res /\ d.text = data.text /\ d.content = data.content /\ d.reply = reply
  BY <1>1 DEF DataFields
<1>3. DataOK(d, scope)
  <2>1. ScopeOf(d, scope)
    <3>1. ScopeOf(data, scope) /\ d.msg = data.msg
      BY <1>2, Zenon DEF DataOK
    <3> QED
      BY <3>1, Zenon DEF ScopeOf
  <2> QED
    BY <1>2, <2>1 DEF DataOK
<1>4. PICK e : e = [scope |-> scope, text |-> data.text, data |-> d]
  OBVIOUS
<1>5. e.scope = scope /\ e.text = data.text /\ e.data = d
  BY <1>4
<1>6. EntryOK(e)
  BY <1>2, <1>3, <1>5, Zenon DEF EntryOK
<1>7. entries' = entries \union {e} \/ entries' = entries
  BY <1>1, <1>4 DEF Store
<1>8. \A x \in entries' : EntryOK(x)
  BY <1>6, <1>7 DEF CacheInv
<1>9. calls' = [calls EXCEPT ![i] = Idle] /\ last' = [k |-> "store"] /\ asked' \in Nat
  BY DEF Store, CacheInv
<1>10. CachedAnswerDue'
  BY <1>9, NoHit
<1> QED
  BY <1>8, <1>9, <1>10, IdleOK, CallsKept, StepKept

LEMMA StepResponse ==
  ASSUME CacheInv, NEW i \in 1..NumCacheCalls, NEW res \in CacheResponses,
         ProcessResponseBody(i, res)
  PROVE  CacheInv'
<1> DEFINE c == calls[i]
           parsed == Parsed(res)
           api == IF c.msg.api = "" THEN ToString(c.id) ELSE c.msg.api
           scope == CacheScopeID(c.msg.caller, api)
           data == [msg |-> c.msg, res |-> res, text |-> c.text, content |-> parsed.content, reply |-> [status |-> Absent]]
           stores == res.status = 200 /\ c.text # "" /\ parsed.ok /\ ~IsNoStoreResponse(res) /\ scope.ok
           again == [phase |-> "checking", scope |-> scope.scope, data |-> data, again |-> TRUE]
<1>1. UNCHANGED conf /\ UNCHANGED asked /\ c.phase = "upstream"
  BY DEF ProcessResponseBody
<1>2. c.msg \in CacheRequests /\ c.id \in 0..(MaxCacheRequests - 1) /\ (c.text # "" => c.text = ExtractCachedText(c.msg))
  BY <1>1, UpstreamCall
<1>3. stores => DOMAIN data = DataFields /\ DataOK(data, scope.scope)
  <2>1. SUFFICES ASSUME stores PROVE DataOK(data, scope.scope)
    BY DEF DataFields
  <2>2. data.text = ExtractCachedText(data.msg)
    BY <1>2, <2>1
  <2>3. ScopeOf(data, scope.scope)
    <3>1. scope.scope = <<api>> \o CallerIdentity(c.msg.caller) /\ (CallerIdentity(c.msg.caller) # <<>> \/ conf.cacheUnauthenticated)
      <4>1. PICK a : a = api
        OBVIOUS
      <4>2. PICK s, who : s = scope /\ who = c.msg.caller
        OBVIOUS
      <4>3. s = CacheScopeID(who, a) /\ s.ok
        BY <2>1, <4>1, <4>2, Zenon
      <4>4. s.scope = <<a>> \o CallerIdentity(who) /\ (CallerIdentity(who) # <<>> \/ conf.cacheUnauthenticated)
        BY <4>3, ScopeParts, Zenon
      <4> QED
        BY <4>1, <4>2, <4>4, Zenon
    <3>2. data.msg = c.msg
      OBVIOUS
    <3> QED
      BY <1>2, <3>1, <3>2, Zenon DEF ScopeOf
  <2>4. data.res.status = 200 /\ ~data.res.noStore
    BY <2>1 DEF IsNoStoreResponse
  <2>5. data.res.json \/ EndsInChoices(data.res) => data.content = Said(data.res)
    BY <2>1, ParsedDue
  <2> QED
    BY <2>2, <2>3, <2>4, <2>5, Zenon DEF DataOK
<1>4. CASE Skip(i, "none") \/ Skip(i, "skip")
  BY <1>1, <1>4, SkipKept
<1>5. CASE stores /\ ~conf.check.enabled /\ Store(i, scope.scope, data, data.reply)
  <2>1. PICK d, s, a : d = data /\ s = scope.scope /\ a = data.reply
    OBVIOUS
  <2>2. Store(i, s, d, a)
    BY <1>5, <2>1
  <2>3. DOMAIN d = DataFields /\ DataOK(d, s)
    BY <1>3, <1>5, <2>1
  <2> QED
    BY <1>1, <1>5, <2>2, <2>3, StoreKept
<1>6. CASE stores /\ calls' = [calls EXCEPT ![i] = again] /\ last' = [k |-> "none"] /\ UNCHANGED entries
  <2>1. CallOK(again)
    BY <1>3, <1>6 DEF CallOK
  <2>2. CachedAnswerDue'
    BY <1>6, NoHit
  <2> QED
    BY <1>1, <1>6, <2>1, <2>2, CallsKept, StepKept DEF CacheInv
<1> QED
  BY <1>4, <1>5, <1>6, Zenon DEF ProcessResponseBody

LEMMA StepCheck ==
  ASSUME CacheInv, NEW i \in 1..NumCacheCalls, NEW raw \in CheckReplies, ShouldStore(i, raw)
  PROVE  CacheInv'
<1> DEFINE c == calls[i]
           r == Post(raw)
<1>1. UNCHANGED conf /\ UNCHANGED asked /\ c.phase = "checking"
  BY DEF ShouldStore
<1>2. DOMAIN c = {"phase", "scope", "data", "again"} /\ DOMAIN c.data = DataFields /\ DataOK(c.data, c.scope)
  BY <1>1, CheckedCall
<1>3. CASE calls' = [calls EXCEPT ![i] = [c EXCEPT !.phase = "backoff"]] /\ UNCHANGED <<entries, last>>
  <2>1. PICK d : d = [c EXCEPT !.phase = "backoff"]
    OBVIOUS
  <2>2. d.phase = "backoff" /\ DOMAIN d = {"phase", "scope", "data", "again"} /\ d.data = c.data /\ d.scope = c.scope
    BY <1>2, <2>1
  <2>3. CallOK(d)
    BY <1>2, <2>2 DEF CallOK
  <2>4. CachedAnswerDue'
    BY <1>1, <1>3, SameAnswer DEF CacheInv
  <2> QED
    BY <1>1, <1>3, <2>1, <2>3, <2>4, CallsKept, StepKept DEF CacheInv
<1>4. CASE Verdict(r, conf.check.questions) = "store" /\ Store(i, c.scope, c.data, r)
  <2>1. Answers(r, conf.check.questions)
    BY <1>4, VerdictDue DEF CacheInv
  <2> QED
    BY <1>1, <1>2, <1>4, <2>1, StoreKept
<1>5. CASE Skip(i, "skip")
  BY <1>1, <1>5, SkipKept
<1> QED
  BY <1>3, <1>4, <1>5, Zenon DEF ShouldStore

LEMMA StepRetry ==
  ASSUME CacheInv, NEW i \in 1..NumCacheCalls, Retry(i)
  PROVE  CacheInv'
<1> DEFINE c == calls[i]
<1>1. UNCHANGED <<conf, entries, asked, last>> /\ c.phase = "backoff"
  BY DEF Retry
<1>2. DOMAIN c = {"phase", "scope", "data", "again"} /\ DOMAIN c.data = DataFields /\ DataOK(c.data, c.scope)
  BY <1>1, CheckedCall
<1>3. PICK d : d = [c EXCEPT !.phase = "checking", !.again = FALSE]
  OBVIOUS
<1>4. d.phase = "checking" /\ DOMAIN d = {"phase", "scope", "data", "again"} /\ d.data = c.data /\ d.scope = c.scope
  BY <1>2, <1>3
<1>5. CallOK(d)
  BY <1>2, <1>4 DEF CallOK
<1>6. calls' = [calls EXCEPT ![i] = d]
  BY <1>3 DEF Retry, CacheInv
<1>7. CachedAnswerDue'
  BY <1>1, SameAnswer DEF CacheInv
<1> QED
  BY <1>1, <1>5, <1>6, <1>7, CallsKept, StepKept DEF CacheInv

-----------------------------------------------------------------------------
(* The theorem.                                                             *)

LEMMA StartsDue ==
  ASSUME CacheInit
  PROVE  CacheInv
<1>1. ConfOK
  BY ConfTyped DEF CacheInit
<1>2. \A i \in 1..NumCacheCalls : CallOK(calls[i])
  BY IdleOK DEF CacheInit
<1>3. CachedAnswerDue
  BY Zenon DEF CacheInit, CachedAnswerDue
<1> QED
  BY <1>1, <1>2, <1>3 DEF CacheInit, CacheInv

LEMMA StepsDue ==
  ASSUME CacheInv, [CacheNext]_cacheVars
  PROVE  CacheInv'
<1>1. CASE UNCHANGED cacheVars
  <2>1. UNCHANGED conf /\ UNCHANGED calls /\ UNCHANGED last /\ entries' = entries /\ asked' = asked
    BY <1>1 DEF cacheVars
  <2>2. CachedAnswerDue'
    BY <2>1, SameAnswer DEF CacheInv
  <2> QED
    BY <2>1, <2>2, CallsAlone, StepKept DEF CacheInv
<1>2. ASSUME NEW i \in 1..NumCacheCalls, TimedOut(i) PROVE CacheInv'
  BY <1>2, SkipKept DEF TimedOut
<1> QED
  BY <1>1, <1>2, StepRequest, StepResponse, StepCheck, StepRetry DEF CacheNext

\* The answers of the semantic cache, of any texts, callers, similarities and
\* checks: whoever is answered from it gets what the upstream said to a similar
\* request of that API and that caller, and nothing a check did not pass.
THEOREM CachedAnswersDue == CacheSpec => []CachedAnswerDue
<1>1. CacheInit => CacheInv
  BY StartsDue
<1>2. CacheInv /\ [CacheNext]_cacheVars => CacheInv'
  BY StepsDue
<1>3. CacheInv => CachedAnswerDue
  BY DEF CacheInv
<1> QED
  BY <1>1, <1>2, <1>3, PTL DEF CacheSpec

=============================================================================
