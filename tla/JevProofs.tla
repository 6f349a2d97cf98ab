----------------------------- MODULE JevProofs -----------------------------
(***************************************************************************)
(* The Jev screens: proof of JevVerdictsDue, for every policy, message and *)
(* answer of the service.  The questions a parsed policy asks are usable;  *)
(* an answer that can be used blocks exactly when it reaches its threshold *)
(* with confidence, the weight of a choice being a number; the loop over   *)
(* the questions finds whether one of them does; so a verdict follows from *)
(* the rule and the last reply (OutcomeOK), and the rule is that of the    *)
(* tool the server runs (IntentInv, ResultInv).                            *)
(***************************************************************************)
EXTENDS JevScreening, FiniteSetTheorems, WellFoundedInduction, TLAPS

\* A set of naturals up to n that has a member has a least one.
LEMMA LeastMember ==
  ASSUME NEW n \in Nat, NEW S \in SUBSET (0 .. n), S # {}
  PROVE  \E x \in S : \A y \in S : x <= y
<1> DEFINE U == 0 .. n
           Below == {0 .. x : x \in S}
<1>1. Below \subseteq FiniteSubsetsOf(U) /\ Below # {}
  <2>1. \A x \in S : 0 .. x \subseteq U /\ IsFiniteSet(0 .. x)
    BY FS_Interval
  <2> QED
    BY <2>1 DEF FiniteSubsetsOf
<1>2. PICK W \in Below : \A V \in Below : <<V, W>> \notin StrictSubsetOrdering(U)
  <2> HIDE DEF Below, U
  <2> QED
    BY <1>1, WFMin, FS_StrictSubsetOrderingWellFounded
<1>3. PICK x \in S : W = 0 .. x
  OBVIOUS
<1>4. ASSUME NEW y \in S, y < x PROVE FALSE
  <2>1. 0 .. y \in Below /\ 0 .. y \subseteq U /\ W \subseteq U
    BY <1>3
  <2>2. 0 .. y \subseteq W /\ x \in W /\ x \notin 0 .. y
    BY <1>3, <1>4
  <2>3. <<0 .. y, W>> \in StrictSubsetOrdering(U)
    <3>1. 0 .. y \subseteq W /\ 0 .. y # W
      BY <2>2
    <3> HIDE DEF U
    <3> QED
      BY <2>1, <3>1 DEF StrictSubsetOrdering
  <2> QED
    BY <1>2, <2>1, <2>3
<1> QED
  BY <1>4

\* The greatest of some integers.
LEMMA GreatestOf ==
  ASSUME NEW lo \in Int, NEW hi \in Int, NEW S \in SUBSET (lo .. hi), S # {}
  PROVE  Max(S) \in S /\ \A y \in S : Max(S) >= y
<1> DEFINE T == {hi - x : x \in S}
<1>1. hi - lo \in Nat /\ T \in SUBSET (0 .. (hi - lo)) /\ T # {}
  <2>1. PICK z \in S : TRUE
    OBVIOUS
  <2>2. z \in lo .. hi
    OBVIOUS
  <2>3. \A x \in S : hi - x \in 0 .. (hi - lo)
    <3>1. \A x \in lo .. hi : hi - x \in 0 .. (hi - lo)
      OBVIOUS
    <3> QED
      BY <3>1
  <2> QED
    BY <2>1, <2>2, <2>3
<1>2. PICK t \in T : \A u \in T : t <= u
  <2>1. \A n \in Nat : \A S0 \in SUBSET (0 .. n) : S0 # {} => \E t \in S0 : \A u \in S0 : t <= u
    BY LeastMember
  <2> HIDE DEF T
  <2> QED
    BY <1>1, <2>1, Zenon
<1>3. PICK x \in S : t = hi - x
  BY <1>2
<1>4. \A y \in S : x >= y
  <2>1. ASSUME NEW y \in S PROVE x >= y
    <3>1. hi - y \in T
      OBVIOUS
    <3>2. t <= hi - y
      BY <1>2, <3>1
    <3> QED
      BY <1>3, <3>2
  <2> QED
    BY <2>1
<1> QED
  BY <1>3, <1>4 DEF Max

\* Induction on the naturals, for a set S of them.
LEMMA CountingUp ==
  ASSUME NEW S, 0 \in S, \A n \in Nat : n \in S => n + 1 \in S
  PROVE  \A n \in Nat : n \in S
<1> SUFFICES ASSUME NEW n \in Nat, n \notin S PROVE FALSE
  OBVIOUS
<1> DEFINE Out == {m \in 0 .. n : m \notin S}
<1>1. Out \in SUBSET (0 .. n) /\ Out # {}
  OBVIOUS
<1>2. PICK m \in Out : \A k \in Out : m <= k
  <2> HIDE DEF Out
  <2> QED
    BY <1>1, LeastMember
<1>3. m \in Nat /\ m # 0 /\ m <= n /\ m \notin S
  BY <1>2
<1>4. m - 1 \in S
  BY <1>2, <1>3
<1> QED
  BY <1>3, <1>4

-----------------------------------------------------------------------------
(* What an answer says.                                                     *)

QuestionOK(q) ==
  /\ ParseQuestion(q) /\ q.threshold \in Int /\ q.confidenceThreshold \in Int
  /\ DOMAIN q.blockOn.list = 1 .. Len(q.blockOn.list) /\ Len(q.blockOn.list) \in Nat

AnswerOK(a) ==
  /\ a.value \in Int /\ a.confidence \in Int
  /\ \A o \in DOMAIN a.probabilities.of : a.probabilities.of[o] \in Int

\* The weight of a blocking option, and the sums a fold makes of the weights.
Weight(q, a, i) == IF q.blockOn.list[i] \in DOMAIN a.probabilities.of THEN a.probabilities.of[q.blockOn.list[i]] ELSE 0

Weighs(it, q, a) ==
  it = [s \in SUBSET DOMAIN q.blockOn.list |->
          IF s = {} THEN 0 ELSE LET i == Max(s) IN it[s \ {i}] + Weight(q, a, i)]

\* What an answer weighs: its value, or its choice's.
LEMMA ValueIs ==
  ASSUME NEW q, NEW a
  PROVE  Value(q, a) = IF q.type = "choice" THEN ChoiceValue(q, a) ELSE a.value
BY DEF ChoiceValue, Value

\* The fold over the options of a choice is a sum over their positions.
LEMMA WeighsIs ==
  ASSUME NEW q, NEW a
  PROVE  ChoiceValue(q, a) = (CHOOSE it : Weighs(it, q, a))[DOMAIN q.blockOn.list]
BY DEF ChoiceValue, FoldLeft, MapThenFoldSet, Weighs, Weight

\* The options are finitely many, and some of them have a last one.
LEMMA OptionsFinite ==
  ASSUME NEW q, QuestionOK(q)
  PROVE  LET S == DOMAIN q.blockOn.list
         IN IsFiniteSet(S) /\ \A s \in SUBSET S : /\ IsFiniteSet(s) /\ Cardinality(s) \in Nat
                                                  /\ s # {} => Max(s) \in s
<1> DEFINE S == DOMAIN q.blockOn.list
<1>1. PICK n \in Nat : S = 1 .. n
  BY DEF QuestionOK
<1>2. IsFiniteSet(1 .. n) /\ 1 \in Int /\ n \in Int
  BY FS_Interval
<1> HIDE DEF S
<1>3. \A s \in SUBSET S : IsFiniteSet(s) /\ Cardinality(s) \in Nat
  BY <1>1, <1>2, FS_Subset, FS_CardinalityType
<1>4. \A s \in SUBSET S : s # {} => Max(s) \in s
  BY <1>1, <1>2, GreatestOf
<1> QED
  BY <1>1, <1>2, <1>3, <1>4 DEF S

\* There are such sums: on sets of at most n options for every n.
LEMMA WeighsExist ==
  ASSUME NEW q, QuestionOK(q), NEW a
  PROVE  \E it : Weighs(it, q, a)
<1> DEFINE S == DOMAIN q.blockOn.list
           Small(n) == {s \in SUBSET S : Cardinality(s) <= n}
           Body(it, s) == IF s = {} THEN 0 ELSE LET i == Max(s) IN it[s \ {i}] + Weight(q, a, i)
           Good == {n \in Nat : \E it : it = [s \in Small(n) |-> Body(it, s)]}
<1>1. IsFiniteSet(S) /\ \A s \in SUBSET S : IsFiniteSet(s) /\ Cardinality(s) \in Nat
  BY OptionsFinite
<1>3. \A s \in SUBSET S : s # {} => Max(s) \in s
  BY OptionsFinite
<1>4. 0 \in Good
  <2> DEFINE it == [s \in Small(0) |-> 0]
  <2>1. \A s \in Small(0) : s = {}
    BY <1>1, FS_EmptySet
  <2>2. it = [s \in Small(0) |-> Body(it, s)]
    BY <2>1
  <2> HIDE DEF it
  <2> QED
    BY <2>2
<1>5. ASSUME NEW n \in Nat, n \in Good PROVE n + 1 \in Good
  <2>1. PICK it : it = [s \in Small(n) |-> Body(it, s)]
    BY <1>5
  <2> DEFINE on == [s \in Small(n + 1) |-> Body(it, s)]
  <2>2. ASSUME NEW s \in Small(n) PROVE on[s] = it[s]
    <3>1. s \in Small(n + 1)
      BY <1>1
    <3>2. it[s] = Body(it, s)
      BY <2>1
    <3> QED
      BY <3>1, <3>2
  <2>3. ASSUME NEW s \in Small(n + 1) PROVE Body(it, s) = Body(on, s)
    <3>1. CASE s = {}
      BY <3>1
    <3>2. CASE s # {}
      <4>1. PICK i : i = Max(s)
        OBVIOUS
      <4>2. i \in s /\ i \in S
        BY <1>3, <3>2, <4>1
      <4>3. s \ {i} \in Small(n)
        <5>1. Cardinality(s \ {i}) = Cardinality(s) - 1
          BY <1>1, <4>2, FS_RemoveElement
        <5> QED
          BY <1>1, <5>1
      <4>4. on[s \ {i}] = it[s \ {i}]
        BY <2>2, <4>3
      <4> HIDE DEF on, S, Small
      <4> QED
        BY <3>2, <4>1, <4>4
    <3> QED
      BY <3>1, <3>2
  <2>4. on = [s \in Small(n + 1) |-> Body(on, s)]
    <3> HIDE DEF Body, Small
    <3> QED
      BY <2>3
  <2> HIDE DEF on
  <2>5. \E i : i = [s \in Small(n + 1) |-> Body(i, s)]
    BY <2>4
  <2> HIDE DEF Body, Small
  <2> QED
    BY <2>5
<1>6. Cardinality(S) \in Good
  <2>1. Cardinality(S) \in Nat
    BY <1>1
  <2>2. \A n \in Nat : n \in Good
    <3> HIDE DEF Good
    <3> QED
      BY <1>4, <1>5, CountingUp
  <2> QED
    BY <2>1, <2>2
<1>7. Small(Cardinality(S)) = SUBSET S
  BY <1>1, FS_Subset
<1>8. PICK it : it = [s \in Small(Cardinality(S)) |-> Body(it, s)]
  BY <1>6
<1> QED
  BY <1>7, <1>8 DEF Weighs

\* The weight of a choice is a number.
LEMMA ValueInt ==
  ASSUME NEW q, QuestionOK(q), NEW a, AnswerOK(a)
  PROVE  Value(q, a) \in Int
<1> DEFINE S == DOMAIN q.blockOn.list
           it == CHOOSE i : Weighs(i, q, a)
           Good == {n \in Nat : \A s \in SUBSET S : Cardinality(s) = n => it[s] \in Int}
<1>1. Weighs(it, q, a)
  BY WeighsExist
<1>2. IsFiniteSet(S) /\ \A s \in SUBSET S : IsFiniteSet(s) /\ Cardinality(s) \in Nat
  BY OptionsFinite
<1> HIDE DEF it
<1>3. 0 \in Good
  <2>1. \A s \in SUBSET S : Cardinality(s) = 0 => s = {}
    BY <1>2, FS_EmptySet
  <2>2. it[{}] = 0
    BY <1>1 DEF Weighs
  <2> QED
    BY <2>1, <2>2
<1>4. ASSUME NEW n \in Nat, n \in Good PROVE n + 1 \in Good
  <2> SUFFICES ASSUME NEW s \in SUBSET S, Cardinality(s) = n + 1 PROVE it[s] \in Int
    OBVIOUS
  <2>1. s # {}
    BY FS_EmptySet
  <2>2. PICK i : i = Max(s)
    OBVIOUS
  <2>3. i \in s /\ i \in S
    BY <2>1, <2>2, OptionsFinite
  <2>4. it[s] = it[s \ {i}] + Weight(q, a, i)
    BY <1>1, <2>1, <2>2 DEF Weighs
  <2>5. Cardinality(s \ {i}) = n
    BY <1>2, <2>3, FS_RemoveElement
  <2>6. it[s \ {i}] \in Int
    BY <1>4, <2>5
  <2>7. Weight(q, a, i) \in Int
    BY <2>3 DEF Weight, AnswerOK
  <2> QED
    BY <2>4, <2>6, <2>7
<1>5. \A n \in Nat : n \in Good
  <2> HIDE DEF Good
  <2> QED
    BY <1>3, <1>4, CountingUp
<1>6. it[S] \in Int
  BY <1>2, <1>5
<1>7. ChoiceValue(q, a) = it[S]
  BY WeighsIs DEF it
<1> QED
  BY <1>6, <1>7, ValueIs DEF AnswerOK

-----------------------------------------------------------------------------
(* What the answers to a rule say.                                          *)

Kinds == {"content", "intent", "result"}

RuleOK(r) ==
  /\ r.monitor \in BOOLEAN /\ r.passthroughOnError \in BOOLEAN
  /\ \A i \in DOMAIN r.questions : QuestionOK(r.questions[i])

ReplyOK(rep) ==
  /\ "status" \in DOMAIN rep
  /\ Answered(rep) => \A k \in DOMAIN rep.answers : AnswerOK(rep.answers[k])

\* AllAnswered and Reached, of a reply.
Every(r, rep) ==
  rep # None /\ Answered(rep) /\ \A i \in DOMAIN r.questions :
    r.questions[i].key \in DOMAIN rep.answers /\ Usable(r.questions[i], rep.answers[r.questions[i].key])

Reaches(q, a) == Value(q, a) >= q.threshold /\ (q.confidenceThreshold > 0 => a.confidence >= q.confidenceThreshold)

Over(r, rep) == \E i \in DOMAIN r.questions : Reaches(r.questions[i], rep.answers[r.questions[i].key])

\* evaluateAnswer: an answer that cannot be used is an error, and one that can
\* blocks exactly when it reaches the threshold with confidence.
LEMMA AnswerDecides ==
  ASSUME NEW q, QuestionOK(q), NEW a
  PROVE  /\ EvaluateAnswer(q, a) = "error" <=> ~Usable(q, a)
         /\ AnswerOK(a) /\ EvaluateAnswer(q, a) # "error" => (EvaluateAnswer(q, a) = "blocks" <=> Reaches(q, a))
<1>1. /\ q.type \in {"noul", "score", "choice"}
      /\ q.type # "score" => ~(q.confidenceThreshold > 0)
  <2>1. q.type \in {"noul", "score", "choice"} /\ (q.confidenceThreshold # Missing => q.type = "score")
    BY DEF QuestionOK, ParseQuestion
  <2>2. ~(Missing > 0)
    BY DEF Missing
  <2> QED
    BY <2>1, <2>2
<1>2. EvaluateConfident(q, a) # "error"
  BY DEF EvaluateConfident
<1>3. EvaluateAnswer(q, a) = IF Usable(q, a) THEN EvaluateConfident(q, a) ELSE "error"
  <2>1. CASE q.type = "noul"
    BY <1>1, <2>1 DEF EvaluateAnswer, Usable, DecodeNoulAnswer
  <2>2. CASE q.type = "score"
    BY <1>1, <2>2 DEF EvaluateAnswer, Usable, DecodeScoreAnswer
  <2>3. CASE q.type = "choice"
    BY <1>1, <2>3 DEF EvaluateAnswer, Usable, DecodeChoiceAnswer
  <2> QED
    BY <1>1, <2>1, <2>2, <2>3
<1>4. ASSUME AnswerOK(a) PROVE EvaluateConfident(q, a) = "blocks" <=> Reaches(q, a)
  <2>1. PICK v \in Int : v = Value(q, a) /\ v = IF q.type = "choice" THEN ChoiceValue(q, a) ELSE a.value
    BY <1>4, ValueInt, ValueIs
  <2>2. PICK t \in Int : t = q.threshold
    BY DEF QuestionOK
  <2>3. PICK c \in Int : c = q.confidenceThreshold
    BY DEF QuestionOK
  <2>4. PICK d \in Int : d = a.confidence
    BY <1>4 DEF AnswerOK
  <2>5. EvaluateConfident(q, a) = CASE v < t -> "below" [] v >= t /\ c > 0 /\ d < c -> "low" [] OTHER -> "blocks"
    BY <2>1, <2>2, <2>3, <2>4, Zenon DEF EvaluateConfident
  <2>6. Reaches(q, a) <=> v >= t /\ (c > 0 => d >= c)
    BY <2>1, <2>2, <2>3, <2>4, Zenon DEF Reaches
  <2> QED
    BY <2>5, <2>6
<1> QED
  BY <1>2, <1>3, <1>4

\* The policies' copies of it do the same.
LEMMA Evaluates ==
  ASSUME screen.kind \in Kinds, NEW q, NEW a
  PROVE  Evaluate(q, a) = EvaluateAnswer(q, a)
BY DEF Kinds, Evaluate, IntentEvaluateAnswer, ResultEvaluateAnswer

\* The loop over the questions.
LEMMA Assessed ==
  ASSUME screen.kind \in Kinds, NEW r, RuleOK(r), NEW rep, ReplyOK(rep), Answered(rep)
  PROVE  LET a == Assess(r.questions, rep.answers, Evaluate)
         IN /\ a.failure \in BOOLEAN /\ (a.failure <=> ~Every(r, rep))
            /\ ~a.failure => (a.failed # {} <=> Over(r, rep))
<1> DEFINE qs == r.questions
           ans(i) == rep.answers[qs[i].key]
           result == [i \in DOMAIN qs |-> IF qs[i].key \in DOMAIN rep.answers THEN Evaluate(qs[i], ans(i)) ELSE "error"]
           keys(x) == {qs[i].key : i \in {i \in DOMAIN qs : result[i] = x}}
           a == Assess(qs, rep.answers, Evaluate)
<1>1. /\ a.failure = (keys("error") # {})
      /\ a.failed = IF keys("error") # {} THEN {} ELSE keys("blocks")
  BY DEF Assess
<1>2. ASSUME NEW i \in DOMAIN qs
      PROVE  /\ result[i] = "error" <=> ~(qs[i].key \in DOMAIN rep.answers /\ Usable(qs[i], ans(i)))
             /\ result[i] # "error" => (result[i] = "blocks" <=> Reaches(qs[i], ans(i)))
  <2>1. QuestionOK(qs[i])
    BY DEF RuleOK
  <2>2. CASE qs[i].key \notin DOMAIN rep.answers
    BY <2>2
  <2>3. CASE qs[i].key \in DOMAIN rep.answers
    <3>1. AnswerOK(ans(i))
      BY <2>3 DEF ReplyOK
    <3>2. result[i] = EvaluateAnswer(qs[i], ans(i))
      BY <2>3, Evaluates
    <3> QED
      BY <2>1, <2>3, <3>1, <3>2, AnswerDecides
  <2> QED
    BY <2>2, <2>3
<1>3. \A x : keys(x) # {} <=> \E i \in DOMAIN qs : result[i] = x
  OBVIOUS
<1>4. rep # None
  BY DEF ReplyOK, None
<1> HIDE DEF result, keys, a
<1>5. keys("error") # {} <=> ~Every(r, rep)
  BY <1>2, <1>3, <1>4 DEF Every
<1>6. keys("error") = {} => (keys("blocks") # {} <=> Over(r, rep))
  BY <1>2, <1>3 DEF Over
<1> QED
  BY <1>1, <1>5, <1>6 DEF a

\* What a verdict is due to, given a rule and the last reply.
Judged(o, r, rep) ==
  /\ o.forward /\ Strict(r) => Every(r, rep) /\ ~Over(r, rep)
  /\ ~o.forward => ~r.monitor /\ IF Every(r, rep) THEN Over(r, rep) ELSE ~r.passthroughOnError

\* What a failed screen does is what its rule says of failures.
LEMMA FailureJudged ==
  ASSUME NEW r, RuleOK(r), NEW rep, rep = None \/ ~Answered(rep)
  PROVE  Judged(Failure(r), r, rep) /\ Failure(r).why = "failure"
BY DEF Judged, Failure, Outcome, Every, Strict, RuleOK

\* The end of a call: the verdict is the one the answers are due.
LEMMA Concluded ==
  ASSUME screen.kind \in Kinds, RuleOK(rule), NEW rep, ReplyOK(rep), Conclude(rep)
  PROVE  /\ Judged(outcome', rule, rep) /\ outcome'.why \in {"failure", "clean", "violation"}
         /\ turn' \in {"upstream", "done"} /\ (dir = "response" => turn' = "done")
<1> DEFINE a == Assess(rule.questions, rep.answers, Evaluate)
<1>1. turn' \in {"upstream", "done"} /\ (dir = "response" => turn' = "done")
  BY DEF Conclude
<1>2. CASE ~Answered(rep)
  <2>1. outcome' = Failure(rule)
    BY <1>2 DEF Conclude
  <2> QED
    BY <1>1, <1>2, <2>1, FailureJudged
<1>3. CASE Answered(rep)
  <2>1. outcome' = ScreenVerdict(rule, a)
    BY <1>3 DEF Conclude
  <2>2. /\ a.failure \in BOOLEAN /\ (a.failure <=> ~Every(rule, rep))
        /\ ~a.failure => (a.failed # {} <=> Over(rule, rep))
    BY <1>3, Assessed
  <2> HIDE DEF a
  <2>3. CASE a.failure
    BY <1>1, <2>1, <2>2, <2>3 DEF ScreenVerdict, Judged, Failure, Outcome, Strict, RuleOK
  <2>4. CASE ~a.failure
    <3>1. /\ outcome'.forward <=> a.failed = {} \/ rule.monitor
          /\ outcome'.why \in {"clean", "violation"}
      BY <2>1, <2>4 DEF ScreenVerdict
    <3> QED
      BY <1>1, <2>2, <2>4, <3>1 DEF Judged, Strict, RuleOK
  <2> QED
    BY <2>2, <2>3, <2>4
<1> QED
  BY <1>2, <1>3

-----------------------------------------------------------------------------
(* The exchange.                                                            *)

\* An accepted configuration has usable rules.
ConfOK ==
  /\ screen.kind \in Kinds
  /\ screen.kind = "content" => /\ screen.request # None => RuleOK(screen.request)
                                /\ screen.response # None => RuleOK(screen.response)
  /\ screen.kind # "content" => /\ \A n \in DOMAIN screen.tools : RuleOK(screen.tools[n])
                                /\ screen.anyTool # None => RuleOK(screen.anyTool)

\* A call that goes on is under the rule of the tool the server runs.
IntentRule(b, r) ==
  b.mcp /\ ~b.empty /\ b.method = "tools/call" /\ Strict(RuleOfServer(b)) => r = RuleOfServer(b)

\* A response that answers a call of a tool without a rule of its own.
ResultDue(m) ==
  /\ m.req.mcp /\ ~m.req.empty /\ m.req.events = 1 /\ m.req.object
  /\ m.req.method = "tools/call" /\ m.status = 200
  /\ \E i \in DOMAIN m.events : ResultMessage(m.events[i], m.req)
  /\ m.req.in.runs \notin DOMAIN screen.tools /\ Strict(screen.anyTool)

OutcomeOK ==
  \/ outcome.why \in {"none", "empty"} /\ outcome.forward
  \/ outcome.why = "reject" /\ ~outcome.forward
  \/ outcome.why \in {"failure", "clean", "violation"} /\ Judged(outcome, rule, reply)

Waiting == turn \in {"calling", "backoff"}

Ended == turn \in {"upstream", "done"}

IntentInv == screen.kind = "intent" /\ (Waiting \/ (Ended /\ outcome.forward)) => IntentRule(msg, rule)

ResultInv ==
  screen.kind = "result" =>
    /\ turn = "upstream" => \E b \in ScreenBodies.call : msg = [req |-> b, status |-> 0, events |-> <<>>, at |-> 0]
    /\ Waiting => dir = "response" /\ (ResultDue(msg) => rule = screen.anyTool)
    /\ turn = "done" /\ ResultDue(msg) /\ outcome.forward /\ outcome.why # "empty" =>
         rule = screen.anyTool /\ outcome.why # "none"

Inv ==
  /\ turn \in {"unconfigured", "request", "upstream", "calling", "backoff", "done"}
  /\ turn # "unconfigured" => ConfOK
  /\ Waiting => RuleOK(rule)
  /\ Ended => OutcomeOK
  /\ IntentInv /\ ResultInv

\* The invariant implies the property: what is due is read from OutcomeOK, and
\* whose rule it is from IntentInv and ResultInv.
LEMMA InvEnough ==
  ASSUME Inv
  PROVE  JevVerdictDue
<1> SUFFICES ASSUME Ended PROVE JevVerdictDue
  BY DEF JevVerdictDue, Ended
<1>1. /\ \A r : AllAnswered(r) <=> Every(r, reply)
      /\ \A r : Reached(r) <=> Over(r, reply)
  BY DEF AllAnswered, Every, Reached, Over, Reaches
<1>2. OutcomeOK
  BY DEF Inv
<1>3. outcome.forward /\ Strict(rule) /\ outcome.why \notin {"none", "empty"} => AllAnswered(rule) /\ ~Reached(rule)
  BY <1>1, <1>2 DEF OutcomeOK, Judged
<1>4. ~outcome.forward /\ outcome.why # "reject" =>
        ~rule.monitor /\ IF AllAnswered(rule) THEN Reached(rule) ELSE ~rule.passthroughOnError
  BY <1>1, <1>2 DEF OutcomeOK, Judged
<1>5. screen.kind = "intent" /\ outcome.forward => IntentRule(msg, rule)
  BY DEF Inv, IntentInv
<1>6. screen.kind = "result" /\ turn = "done" /\ ResultDue(msg) /\ outcome.forward /\ outcome.why # "empty"
        => AllAnswered(screen.anyTool) /\ ~Reached(screen.anyTool)
  BY <1>3 DEF Inv, ResultInv, ResultDue
<1> QED
  BY <1>3, <1>4, <1>5, <1>6 DEF JevVerdictDue, IntentRule, ResultDue

\* What every step keeps.
LEMMA ConfKept ==
  ASSUME ConfOK, screen' = screen
  PROVE  ConfOK'
BY DEF ConfOK

\* A message settled without a call.
LEMMA Finished ==
  ASSUME ConfOK, NEW d, NEW m, NEW r, NEW o, Finish(d, m, r, o),
         \/ o.why \in {"none", "empty"} /\ o.forward
         \/ o.why = "reject" /\ ~o.forward
         \/ RuleOK(r) /\ o = Failure(r)
  PROVE  /\ turn' \in {"upstream", "done"} /\ ConfOK' /\ ~Waiting' /\ Ended' /\ OutcomeOK'
         /\ screen' = screen /\ msg' = m /\ rule' = r /\ outcome' = o /\ (turn' = "upstream" => d = "request")
<1>1. /\ turn' \in {"upstream", "done"} /\ screen' = screen /\ msg' = m /\ rule' = r /\ outcome' = o /\ reply' = None
      /\ (turn' = "upstream" => d = "request")
  BY DEF Finish
<1>2. CASE RuleOK(r) /\ o = Failure(r)
  <2>1. Judged(o, r, None) /\ o.why = "failure"
    BY <1>2, FailureJudged
  <2> QED
    BY <1>1, <2>1, ConfKept DEF OutcomeOK, Waiting, Ended, Judged, Every, Over, Reaches
<1>3. CASE ~(RuleOK(r) /\ o = Failure(r))
  <2>1. (o.why \in {"none", "empty"} /\ o.forward) \/ (o.why = "reject" /\ ~o.forward)
    BY <1>3
  <2>2. (outcome'.why \in {"none", "empty"} /\ outcome'.forward) \/ (outcome'.why = "reject" /\ ~outcome'.forward)
    BY <1>1, <2>1
  <2>3. OutcomeOK'
    BY <2>2 DEF OutcomeOK
  <2> QED
    BY <1>1, <2>3, ConfKept DEF Waiting, Ended
<1> QED
  BY <1>2, <1>3

\* A message put to Jev.
LEMMA Asking ==
  ASSUME ConfOK, NEW d, NEW m, NEW r, NEW t, Ask(d, m, r, t), RuleOK(r)
  PROVE  /\ turn' = "calling" /\ ConfOK' /\ Waiting' /\ ~Ended' /\ RuleOK(rule)'
         /\ screen' = screen /\ msg' = m /\ rule' = r /\ dir' = d
<1>1. turn' = "calling" /\ screen' = screen /\ msg' = m /\ rule' = r /\ dir' = d
  BY DEF Ask
<1> QED
  BY <1>1, ConfKept DEF Waiting, Ended, RuleOK

\* The outcomes and their reasons.
LEMMA OutcomesOK ==
  \A w : /\ Outcome(TRUE, w).forward /\ Outcome(TRUE, w).why = w
         /\ ~Outcome(FALSE, w).forward /\ Outcome(FALSE, w).why = w
BY DEF Outcome

\* Content safety: a text to screen is settled or put to Jev.
LEMMA ContentScreened ==
  ASSUME ConfOK, screen.kind = "content", NEW d, NEW b, NEW r, RuleOK(r), ContentScreen(d, b, r)
  PROVE  Inv'
<1>1. \/ \E o : Finish(d, b, r, o) /\ (o = Outcome(TRUE, "empty") \/ o = Failure(r))
      \/ \E t : Ask(d, b, r, t)
  BY DEF ContentScreen
<1>2. CASE \E o : Finish(d, b, r, o) /\ (o = Outcome(TRUE, "empty") \/ o = Failure(r))
  <2>1. PICK o : Finish(d, b, r, o) /\ (o = Outcome(TRUE, "empty") \/ o = Failure(r))
    BY <1>2
  <2>2. (o.why \in {"none", "empty"} /\ o.forward) \/ (RuleOK(r) /\ o = Failure(r))
    BY <2>1, OutcomesOK
  <2> QED
    BY <2>1, <2>2, Finished DEF Inv, IntentInv, ResultInv
<1>3. CASE \E t : Ask(d, b, r, t)
  BY <1>3, Asking DEF Inv, IntentInv, ResultInv
<1> QED
  BY <1>1, <1>2, <1>3

\* A request's content.
LEMMA InvContentRequest ==
  ASSUME Inv, NEW b, ContentOnRequestBody(b)
  PROVE  Inv'
<1>1. ConfOK /\ screen.kind = "content"
  BY DEF Inv, ContentOnRequestBody
<1>2. CASE screen.request = None
  <2>1. Finish("request", b, None, Outcome(TRUE, "none"))
    BY <1>2 DEF ContentOnRequestBody
  <2> QED
    BY <1>1, <2>1, Finished, OutcomesOK DEF Inv, IntentInv, ResultInv
<1>3. CASE screen.request # None
  BY <1>1, <1>3, ContentScreened DEF ContentOnRequestBody, ConfOK
<1> QED
  BY <1>2, <1>3

\* Content safety screens a response.
LEMMA InvContentResponse ==
  ASSUME Inv, NEW status, NEW b, ContentOnResponseBody(status, b)
  PROVE  Inv'
<1>1. ConfOK /\ screen.kind = "content"
  BY DEF Inv, ContentOnResponseBody
<1>2. CASE screen.response = None \/ (status # 0 /\ status \notin 200 .. 299)
  <2>1. Finish("response", b, None, Outcome(TRUE, "none"))
    BY <1>2 DEF ContentOnResponseBody
  <2> QED
    BY <1>1, <2>1, Finished, OutcomesOK DEF Inv, IntentInv, ResultInv
<1>3. CASE ~(screen.response = None \/ (status # 0 /\ status \notin 200 .. 299))
  BY <1>1, <1>3, ContentScreened DEF ContentOnResponseBody, ConfOK
<1> QED
  BY <1>2, <1>3

\* Tool intent: a call goes on or is asked about under the rule of the tool that runs.
LEMMA InvIntentRequest ==
  ASSUME JevValues, Inv, NEW b \in ScreenBodies.call, IntentOnRequestBody(b)
  PROVE  Inv'
<1> DEFINE parsed == IF ~b.mcp \/ b.empty THEN "ignore" ELSE IntentParseToolCall(b)
           r == IF b.in.name \in DOMAIN screen.tools THEN screen.tools[b.in.name] ELSE screen.anyTool
<1>1. ConfOK /\ screen.kind = "intent"
  BY DEF Inv, IntentOnRequestBody
<1>2. parsed \in {"reject", "ignore", "call"}
  BY DEF IntentParseToolCall
<1>3. parsed = "ignore" => ~(b.mcp /\ ~b.empty /\ b.method = "tools/call")
  BY DEF IntentParseToolCall
<1>4. parsed = "call" => r = RuleOfServer(b)
  <2>1. parsed = "call" => b.spelled /\ b.in.spelled /\ b.in.name \notin {"absent", "blank", "wrongtype"}
    BY DEF IntentParseToolCall, CheckMemberSpelling
  <2> QED
    BY <2>1 DEF RuleOfServer, JevValues
<1>5. r # None => RuleOK(r)
  BY <1>1 DEF ConfOK
<1>6. \/ parsed = "reject" /\ Finish("request", b, None, Outcome(FALSE, "reject"))
      \/ parsed \in {"ignore", "call"} /\ (parsed = "call" => r = None) /\ Finish("request", b, None, Outcome(TRUE, "none"))
      \/ parsed = "call" /\ r # None /\ Ask("request", b, r, <<b.in.name>>)
  <2> HIDE DEF parsed, r
  <2>1. (CASE parsed = "reject" -> Finish("request", b, None, Outcome(FALSE, "reject"))
          [] parsed = "ignore" -> Finish("request", b, None, Outcome(TRUE, "none"))
          [] parsed = "call" /\ r = None -> Finish("request", b, None, Outcome(TRUE, "none"))
          [] OTHER -> Ask("request", b, r, <<b.in.name>>))
    BY Zenon DEF IntentOnRequestBody, parsed, r
  <2> QED
    BY <1>2, <2>1
<1> HIDE DEF parsed, r
<1>7. CASE parsed = "reject" /\ Finish("request", b, None, Outcome(FALSE, "reject"))
  <2>1. turn' \in {"upstream", "done"} /\ ConfOK' /\ ~Waiting' /\ Ended' /\ OutcomeOK'
         /\ screen' = screen /\ outcome' = Outcome(FALSE, "reject")
    BY <1>1, <1>7, Finished, OutcomesOK
  <2>2. ~outcome'.forward
    BY <2>1, OutcomesOK
  <2> QED
    BY <1>1, <2>1, <2>2 DEF Inv, IntentInv, ResultInv
<1>8. CASE parsed \in {"ignore", "call"} /\ (parsed = "call" => r = None) /\ Finish("request", b, None, Outcome(TRUE, "none"))
  <2>1. turn' \in {"upstream", "done"} /\ ConfOK' /\ ~Waiting' /\ Ended' /\ OutcomeOK'
         /\ screen' = screen /\ msg' = b /\ rule' = None
    BY <1>1, <1>8, Finished, OutcomesOK
  <2>2. IntentRule(b, None)
    BY <1>3, <1>4, <1>8 DEF IntentRule, Strict
  <2>3. IntentRule(msg, rule)'
    BY <2>1, <2>2 DEF IntentRule, RuleOfServer, Strict
  <2> QED
    BY <1>1, <2>1, <2>3 DEF Inv, IntentInv, ResultInv
<1>9. CASE parsed = "call" /\ r # None /\ Ask("request", b, r, <<b.in.name>>)
  <2>1. turn' = "calling" /\ ConfOK' /\ Waiting' /\ ~Ended' /\ RuleOK(rule)' /\ screen' = screen /\ msg' = b /\ rule' = r
    BY <1>1, <1>5, <1>9, Asking
  <2>2. IntentRule(msg, rule)'
    BY <1>4, <1>9, <2>1 DEF IntentRule, RuleOfServer
  <2> QED
    BY <1>1, <2>1, <2>2 DEF Inv, IntentInv, ResultInv
<1> QED
  BY <1>6, <1>7, <1>8, <1>9

\* Tool intent lets every response pass.
LEMMA InvIntentResponse ==
  ASSUME Inv, IntentResponse
  PROVE  Inv'
<1>1. /\ turn = "upstream" /\ turn' = "done" /\ screen.kind = "intent"
      /\ screen' = screen /\ msg' = msg /\ rule' = rule /\ reply' = reply /\ outcome' = outcome
  BY DEF IntentResponse
<1>2. OutcomeOK'
  BY <1>1 DEF Inv, Ended, OutcomeOK, Judged, Every, Over, Reaches
<1>3. outcome.forward => IntentRule(msg, rule)'
  BY <1>1 DEF Inv, IntentInv, Ended, IntentRule, RuleOfServer
<1> QED
  BY <1>1, <1>2, <1>3, ConfKept DEF Inv, IntentInv, ResultInv, Waiting, Ended

\* Tool result: the request is kept for the response.
LEMMA InvResultRequest ==
  ASSUME Inv, NEW b \in ScreenBodies.call, ResultOnRequestBody(b)
  PROVE  Inv'
<1> DEFINE m == [req |-> b, status |-> 0, events |-> <<>>, at |-> 0]
<1>1. ConfOK /\ screen.kind = "result" /\ Finish("request", m, None, Outcome(TRUE, "none"))
  BY DEF Inv, ResultOnRequestBody
<1>2. turn' = "upstream"
  BY <1>1, OutcomesOK DEF Finish
<1>3. ConfOK' /\ ~Waiting' /\ Ended' /\ OutcomeOK' /\ screen' = screen /\ msg' = m
  BY <1>1, Finished, OutcomesOK
<1>4. \E c \in ScreenBodies.call : msg' = [req |-> c, status |-> 0, events |-> <<>>, at |-> 0]
  BY <1>3
<1> HIDE DEF m
<1> QED
  BY <1>1, <1>2, <1>3, <1>4 DEF Inv, IntentInv, ResultInv

\* The rule of a result is that of the server's tool, where that has none of its own.
LEMMA RuleOfResult ==
  ASSUME JevValues, NEW b \in ScreenBodies.call, b.in.runs \notin DOMAIN screen.tools
  PROVE  RuleFor(b.in.name, ResultParseToolCall(b).ambiguous) = screen.anyTool
<1> DEFINE p == ResultParseToolCall(b)
<1>1. ASSUME ~p.ambiguous PROVE b.in.name = b.in.runs
  BY <1>1 DEF ResultParseToolCall, CheckMemberSpelling, JevValues
<1> HIDE DEF p
<1>2. RuleFor(b.in.name, p.ambiguous) = screen.anyTool
  BY <1>1 DEF RuleFor
<1> QED
  BY <1>2 DEF p

\* Tool result screens a response under the rule of the tool that answered.
LEMMA InvResultResponse ==
  ASSUME JevValues, Inv, NEW status, NEW sse, NEW es, ResultOnResponseBody(status, sse, es)
  PROVE  Inv'
<1>1. ConfOK /\ screen.kind = "result" /\ turn = "upstream"
  BY DEF Inv, ResultOnResponseBody
<1>2. PICK b \in ScreenBodies.call : msg = [req |-> b, status |-> 0, events |-> <<>>, at |-> 0]
  BY <1>1 DEF Inv, ResultInv
<1> DEFINE p == ResultParseToolCall(b)
           r == RuleFor(b.in.name, p.ambiguous)
           m == [req |-> b, status |-> status, events |-> es, at |-> 0]
           answers == {i \in DOMAIN es : ResultMessage(es[i], b)}
           here(i) == [req |-> b, status |-> status, events |-> es, at |-> i]
           plain == \/ ~b.mcp \/ b.empty \/ es = <<>> \/ status \notin 200 .. 299
                    \/ ~p.call \/ r = None
           none == Outcome(TRUE, "none")
<1>3. /\ plain => Finish("response", m, None, none)
      /\ ~plain /\ answers # {} => ResultScreen(r, m, Min(answers))
      /\ ~plain /\ answers = {} => \E o : Finish("response", m, r, o) /\ o \in {Failure(r), none}
  <2> DEFINE unreadable == IF sse THEN \/ \A i \in DOMAIN es : es[i].k = "blank"
                                       \/ \E i \in DOMAIN es : es[i].k = "unreadable"
                           ELSE es[1].k # "object"
  <2> HIDE DEF answers, unreadable, p, r, here, none
  <2>1. msg.req = b /\ [msg EXCEPT !.status = status, !.events = es] = m
    <3> DEFINE n == [msg EXCEPT !.status = status, !.events = es]
    <3>1. DOMAIN msg = {"req", "status", "events", "at"} /\ msg.req = b /\ msg.at = 0
      BY <1>2
    <3>2. DOMAIN n = DOMAIN msg /\ n = [x \in DOMAIN msg |-> n[x]]
      OBVIOUS
    <3>3. n["req"] = b /\ n["status"] = status /\ n["events"] = es /\ n["at"] = 0
      BY <3>1
    <3> HIDE DEF n
    <3>4. n = m
      BY <3>1, <3>2, <3>3
    <3> QED
      BY <3>1, <3>4 DEF n
  <2> HIDE DEF m
  <2>2. CASE plain
    BY <2>1, <2>2 DEF ResultOnResponseBody, answers, p, r, none
  <2>3. CASE ~plain
    <3>1. IF answers # {} THEN ResultScreen(r, m, Min(answers))
          ELSE Finish("response", m, r, IF unreadable THEN Failure(r) ELSE none)
      BY <2>1, <2>3 DEF ResultOnResponseBody, answers, unreadable, p, r, none
    <3> QED
      BY <2>3, <3>1
  <2> QED
    BY <2>2, <2>3
<1>4. ResultDue(m) \/ (\E i : ResultDue(here(i))) =>
        /\ b.mcp /\ ~b.empty /\ p.call /\ status = 200 /\ answers # {}
        /\ b.in.runs \notin DOMAIN screen.tools /\ Strict(screen.anyTool)
  BY DEF ResultDue, ResultParseToolCall
<1>5. b.in.runs \notin DOMAIN screen.tools => r = screen.anyTool
  BY RuleOfResult
<1>6. r # None => RuleOK(r)
  BY <1>1 DEF ConfOK, RuleFor
<1>7. ~ResultDue(m) \/ (~plain /\ answers # {})
  <2>1. answers # {} => es # <<>>
    OBVIOUS
  <2> HIDE DEF p, r, m, answers, here
  <2> QED
    BY <1>4, <1>5, <2>1 DEF Strict
<1> HIDE DEF p, r, answers
<1>8. CASE plain \/ answers = {}
  <2>1. PICK q, o : /\ Finish("response", m, q, o)
                    /\ o = none \/ (RuleOK(q) /\ o = Failure(q))
    BY <1>3, <1>6, <1>8
  <2>2. (o.why \in {"none", "empty"} /\ o.forward) \/ (RuleOK(q) /\ o = Failure(q))
    BY <2>1, OutcomesOK
  <2>3. turn' = "done" /\ ConfOK' /\ ~Waiting' /\ Ended' /\ OutcomeOK' /\ screen' = screen /\ msg' = m
    <3> HIDE DEF m, none, plain
    <3> QED
      BY <1>1, <2>1, <2>2, Finished
  <2>4. ~ResultDue(m)
    BY <1>7, <1>8
  <2>5. ~ResultDue(msg)'
    <3> HIDE DEF m, plain, none
    <3> QED
      BY <2>3, <2>4 DEF ResultDue
  <2> HIDE DEF m, plain, none
  <2> QED
    BY <1>1, <2>3, <2>5 DEF Inv, IntentInv, ResultInv
<1>9. CASE ~plain /\ answers # {}
  <2> DEFINE i == Min(answers)
  <2>1. ResultScreen(r, m, i) /\ [m EXCEPT !.at = i] = here(i)
    BY <1>3, <1>9
  <2>2. RuleOK(r)
    BY <1>6, <1>9
  <2> HIDE DEF m, here, plain, none, i
  <2>3. \/ \E o : Finish("response", here(i), r, o) /\ (o = Outcome(TRUE, "empty") \/ o = Failure(r))
        \/ \E t : Ask("response", here(i), r, t)
    BY <2>1 DEF ResultScreen
  <2>4. ResultDue(here(i)) => r = screen.anyTool /\ Strict(r)
    BY <1>4, <1>5
  <2>5. CASE \E o : Finish("response", here(i), r, o) /\ (o = Outcome(TRUE, "empty") \/ o = Failure(r))
    <3>1. PICK o : Finish("response", here(i), r, o) /\ (o = Outcome(TRUE, "empty") \/ o = Failure(r))
      BY <2>5
    <3>2. (o.why \in {"none", "empty"} /\ o.forward) \/ (RuleOK(r) /\ o = Failure(r))
      BY <2>2, <3>1, OutcomesOK
    <3>3. turn' = "done" /\ ConfOK' /\ ~Waiting' /\ Ended' /\ OutcomeOK' /\ screen' = screen /\ msg' = here(i)
          /\ rule' = r /\ outcome' = o
      BY <1>1, <3>1, <3>2, Finished
    <3>4. o.why = "empty" \/ o.why = "failure"
      BY <3>1, OutcomesOK DEF Failure
    <3>5. ResultDue(msg)' => ResultDue(here(i))
      BY <3>3 DEF ResultDue
    <3>6. ResultDue(msg)' => rule' = screen'.anyTool
      BY <2>4, <3>3, <3>5
    <3>7. outcome'.why # "none"
      BY <3>3, <3>4
    <3> QED
      BY <1>1, <3>3, <3>6, <3>7 DEF Inv, IntentInv, ResultInv
  <2>6. CASE \E t : Ask("response", here(i), r, t)
    <3>1. turn' = "calling" /\ ConfOK' /\ Waiting' /\ ~Ended' /\ RuleOK(rule)'
          /\ screen' = screen /\ msg' = here(i) /\ rule' = r /\ dir' = "response"
      BY <1>1, <2>2, <2>6, Asking
    <3>2. ResultDue(msg)' => ResultDue(here(i))
      BY <3>1 DEF ResultDue
    <3>3. ResultDue(msg)' => rule' = screen'.anyTool
      BY <2>4, <3>1, <3>2
    <3> QED
      BY <1>1, <3>1, <3>3 DEF Inv, IntentInv, ResultInv
  <2> QED
    BY <2>3, <2>5, <2>6
<1> QED
  BY <1>8, <1>9

\* The call ends: the verdict is due, under the same rule.
LEMMA InvConclude ==
  ASSUME Inv, Waiting, NEW rep, ReplyOK(rep), reply' = rep, Conclude(rep), UNCHANGED <<screen, dir, msg, rule, text>>
  PROVE  Inv'
<1>1. ConfOK /\ screen.kind \in Kinds /\ RuleOK(rule)
  BY DEF Inv, Waiting, ConfOK
<1>2. /\ Judged(outcome', rule, rep) /\ outcome'.why \in {"failure", "clean", "violation"}
      /\ turn' \in {"upstream", "done"} /\ (dir = "response" => turn' = "done")
  BY <1>1, Concluded
<1>3. OutcomeOK'
  BY <1>2 DEF OutcomeOK, Judged, Every, Over, Reaches
<1>4. ConfOK'
  BY <1>1, ConfKept
<1>5. IntentInv'
  BY DEF Inv, IntentInv, IntentRule, RuleOfServer
<1>6. ResultInv'
  BY <1>2 DEF Inv, ResultInv, ResultDue, Waiting
<1> QED
  BY <1>2, <1>3, <1>4, <1>5, <1>6 DEF Inv, Waiting, Ended

\* Every reply of the service can be judged.
LEMMA ReplyKnown ==
  ASSUME JevValues, NEW raw \in ScreenReplies
  PROVE  ReplyOK(PostSystemOne(raw))
BY DEF JevValues, ReplyOK, PostSystemOne, Answered, AnswerOK

\* A call that is answered, or fails and will be tried again.
LEMMA InvCall ==
  ASSUME JevValues, Inv, NEW raw \in ScreenReplies, ScreenCall(PostSystemOne(raw))
  PROVE  Inv'
<1> DEFINE rep == PostSystemOne(raw)
<1>1. ReplyOK(rep)
  BY ReplyKnown
<1> HIDE DEF rep
<1>2. turn = "calling" /\ reply' = rep /\ UNCHANGED <<screen, dir, msg, rule, text>>
      /\ (Conclude(rep) \/ (turn' = "backoff" /\ UNCHANGED outcome))
  BY DEF ScreenCall, rep
<1>3. CASE Conclude(rep)
  BY <1>1, <1>2, <1>3, InvConclude DEF Waiting
<1>4. CASE turn' = "backoff" /\ UNCHANGED outcome
  <2>1. ConfOK' /\ RuleOK(rule)'
    BY <1>2, ConfKept DEF Inv, Waiting, RuleOK
  <2> QED
    BY <1>2, <1>4, <2>1 DEF Inv, Waiting, Ended, IntentInv, ResultInv, IntentRule, RuleOfServer, ResultDue
<1> QED
  BY <1>2, <1>3, <1>4

\* The second attempt.
LEMMA InvRetry ==
  ASSUME Inv, JevRetry
  PROVE  Inv'
<1>1. turn = "backoff" /\ turn' = "calling" /\ screen' = screen /\ dir' = dir /\ msg' = msg /\ rule' = rule
  BY DEF JevRetry
<1>2. ConfOK' /\ RuleOK(rule)'
  BY <1>1, ConfKept DEF Inv, Waiting, RuleOK
<1> QED
  BY <1>1, <1>2 DEF Inv, Waiting, Ended, IntentInv, ResultInv, IntentRule, RuleOfServer, ResultDue

\* The deadline ends the wait between two attempts.
LEMMA InvTimedOut ==
  ASSUME Inv, JevTimedOut
  PROVE  Inv'
<1> DEFINE rep == [status |-> 0]
<1>1. ReplyOK(rep)
  BY DEF ReplyOK, Answered
<1>2. turn = "backoff" /\ reply' = rep /\ Conclude(rep) /\ UNCHANGED <<screen, dir, msg, rule, text>>
  BY DEF JevTimedOut, Conclude
<1> HIDE DEF rep
<1> QED
  BY <1>1, <1>2, InvConclude DEF Waiting

-----------------------------------------------------------------------------
(* What the configurations say.                                             *)

\* The questions of a parsed rule are usable, configured or default.
LEMMA QuestionsUsable ==
  ASSUME JevValues, NEW raw \in ScreenParams, NEW f \in RulesOf(raw), ParseQuestionList(f.questions)
  PROVE  \A i \in DOMAIN Questions(f.questions) : QuestionOK(Questions(f.questions)[i])
<1>1. Questions(f.questions) \in {DefaultRule, f.questions} /\ ParseQuestionList(Questions(f.questions))
  BY DEF Questions, JevValues
<1>2. f.questions \in {DefaultRule} \union {r.questions : r \in UNION {RulesOf(w) : w \in ScreenParams}}
  OBVIOUS
<1>3. DefaultRule \in {DefaultRule} \union {r.questions : r \in UNION {RulesOf(w) : w \in ScreenParams}}
  OBVIOUS
<1> QED
  BY <1>1, <1>2, <1>3 DEF JevValues, QuestionOK, ParseQuestionList

\* What a content-safety policy is parsed to.
LEMMA ContentParsed ==
  ASSUME JevValues, NEW raw \in ScreenParams, raw.kind = "content", screen = ContentGetPolicy(raw), screen.ok
  PROVE  ConfOK
<1>1. ASSUME NEW f \in RulesOf(raw), f.present => ParsePhaseParams(f).ok
      PROVE  LET r == IF f.present THEN ParsePhaseParams(f) ELSE None IN r # None => RuleOK(r)
  <2> SUFFICES ASSUME f.present PROVE RuleOK(ParsePhaseParams(f))
    OBVIOUS
  <2>1. ParseQuestionList(f.questions)
    BY <1>1 DEF ParsePhaseParams
  <2>2. \A i \in DOMAIN Questions(f.questions) : QuestionOK(Questions(f.questions)[i])
    BY <2>1, QuestionsUsable
  <2> QED
    BY <2>2 DEF ParsePhaseParams, RuleOK
<1>2. raw.request \in RulesOf(raw) /\ raw.response \in RulesOf(raw)
  BY DEF RulesOf
<1>3. /\ screen.kind = "content"
      /\ screen.request = IF raw.request.present THEN ParsePhaseParams(raw.request) ELSE None
      /\ screen.response = IF raw.response.present THEN ParsePhaseParams(raw.response) ELSE None
      /\ raw.request.present => ParsePhaseParams(raw.request).ok
      /\ raw.response.present => ParsePhaseParams(raw.response).ok
  BY DEF ContentGetPolicy
<1> QED
  BY <1>1, <1>2, <1>3 DEF ConfOK, Kinds

\* What the rule of a tool is parsed to.
LEMMA RuleParsed ==
  ASSUME JevValues, NEW raw \in ScreenParams, NEW f \in RulesOf(raw), ParseQuestionList(f.questions), NEW d \in BOOLEAN
  PROVE  RuleOK(ParseSettings(f, d))
<1>1. \A i \in DOMAIN Questions(f.questions) : QuestionOK(Questions(f.questions)[i])
  BY QuestionsUsable
<1> QED
  BY <1>1 DEF ParseSettings, RuleOK

\* What a tool-intent policy is parsed to.
LEMMA IntentParsed ==
  ASSUME JevValues, NEW raw \in ScreenParams, raw.kind = "intent", screen = IntentGetPolicy(raw), screen.ok
  PROVE  ConfOK
<1> DEFINE rs == raw.tools
<1>1. \A i \in DOMAIN rs : IntentParseSettings(rs[i]).ok
  BY DEF IntentGetPolicy, IntentParseParams, IntentParseToolRules, ToolRules
<1>2. ASSUME NEW i \in DOMAIN rs PROVE RuleOK(IntentParseSettings(rs[i]))
  <2>1. rs[i] \in RulesOf(raw)
    BY DEF RulesOf, Range
  <2>2. ParseQuestionList(rs[i].questions)
    BY <1>1 DEF IntentParseSettings, ParseSettings, IntentParseQuestionList, IntentParseQuestion, ParseQuestionList
  <2>3. RuleOK(ParseSettings(rs[i], FALSE))
    BY <2>1, <2>2, RuleParsed
  <2> QED
    BY <2>3 DEF IntentParseSettings, ParseSettings, RuleOK
<1>3. /\ screen.kind = "intent"
      /\ screen.tools = [n \in {rs[i].name : i \in DOMAIN rs} \ {"*"} |->
                         IntentParseSettings(rs[CHOOSE i \in DOMAIN rs : rs[i].name = n])]
      /\ screen.anyTool = IF \E i \in DOMAIN rs : rs[i].name = "*"
                          THEN IntentParseSettings(rs[CHOOSE i \in DOMAIN rs : rs[i].name = "*"]) ELSE None
  BY DEF IntentGetPolicy, IntentParseToolRules, ToolRules
<1> HIDE DEF rs
<1>4. \A n \in DOMAIN screen.tools : RuleOK(screen.tools[n])
  BY <1>2, <1>3
<1>5. screen.anyTool # None => RuleOK(screen.anyTool)
  BY <1>2, <1>3
<1> QED
  BY <1>3, <1>4, <1>5 DEF ConfOK, Kinds

\* What a tool-result policy is parsed to.
LEMMA ResultParsed ==
  ASSUME JevValues, NEW raw \in ScreenParams, raw.kind = "result", screen = ResultGetPolicy(raw), screen.ok
  PROVE  ConfOK
<1> DEFINE rs == raw.tools
<1>1. \A i \in DOMAIN rs : ResultParseSettings(rs[i]).ok
  BY DEF ResultGetPolicy, ResultParseParams, ResultParseToolRules, ToolRules
<1>2. ASSUME NEW i \in DOMAIN rs PROVE RuleOK(ResultParseSettings(rs[i]))
  <2>1. rs[i] \in RulesOf(raw)
    BY DEF RulesOf, Range
  <2>2. ParseQuestionList(rs[i].questions)
    BY <1>1 DEF ResultParseSettings, ParseSettings, ResultParseQuestionList, ResultParseQuestion, ParseQuestionList
  <2>3. RuleOK(ParseSettings(rs[i], TRUE))
    BY <2>1, <2>2, RuleParsed
  <2> QED
    BY <2>3 DEF ResultParseSettings, ParseSettings, RuleOK
<1>3. /\ screen.kind = "result"
      /\ screen.tools = [n \in {rs[i].name : i \in DOMAIN rs} \ {"*"} |->
                         ResultParseSettings(rs[CHOOSE i \in DOMAIN rs : rs[i].name = n])]
      /\ screen.anyTool = IF \E i \in DOMAIN rs : rs[i].name = "*"
                          THEN ResultParseSettings(rs[CHOOSE i \in DOMAIN rs : rs[i].name = "*"]) ELSE None
  BY DEF ResultGetPolicy, ResultParseToolRules, ToolRules
<1> HIDE DEF rs
<1>4. \A n \in DOMAIN screen.tools : RuleOK(screen.tools[n])
  BY <1>2, <1>3
<1>5. screen.anyTool # None => RuleOK(screen.anyTool)
  BY <1>2, <1>3
<1> QED
  BY <1>3, <1>4, <1>5 DEF ConfOK, Kinds

\* A parsed policy satisfies the invariant before any message.
LEMMA InvInit ==
  ASSUME JevValues, JevInit
  PROVE  Inv
<1>1. PICK raw \in ScreenParams : screen = ScreenGetPolicy(raw)
  BY DEF JevInit
<1>2. raw.kind \in Kinds
  BY DEF JevValues, Kinds
<1>3. screen.ok => ConfOK
  BY <1>1, <1>2, ContentParsed, IntentParsed, ResultParsed DEF ScreenGetPolicy, Kinds
<1>4. turn = IF screen.ok THEN "request" ELSE "unconfigured"
  BY DEF JevInit
<1> QED
  BY <1>3, <1>4 DEF Inv, Waiting, Ended, IntentInv, ResultInv

\* Every step keeps it.
LEMMA InvNext ==
  ASSUME JevValues, Inv, [JevNext]_jevVars
  PROVE  Inv'
<1>1. CASE UNCHANGED jevVars
  <2>1. /\ screen' = screen /\ turn' = turn /\ dir' = dir /\ msg' = msg /\ rule' = rule
        /\ reply' = reply /\ outcome' = outcome
    BY <1>1 DEF jevVars
  <2>2. (ConfOK => ConfOK') /\ (OutcomeOK => OutcomeOK') /\ (RuleOK(rule) => RuleOK(rule)')
    BY <2>1, ConfKept DEF OutcomeOK, Judged, Every, Over, Reaches, RuleOK
  <2> QED
    BY <2>1, <2>2 DEF Inv, Waiting, Ended, IntentInv, ResultInv, IntentRule, RuleOfServer, ResultDue
<1>2. CASE JevNext
  <2>1. ASSUME NEW raw \in ScreenReplies, ContentCallJev(raw) \/ IntentCallJev(raw) \/ ResultCallJev(raw) PROVE Inv'
    BY <2>1, InvCall DEF ContentCallJev, IntentCallJev, ResultCallJev, IntentPostSystemOne, ResultPostSystemOne
  <2> QED
    BY <1>2, <2>1, InvContentRequest, InvContentResponse, InvIntentRequest, InvIntentResponse, InvResultRequest,
       InvResultResponse, InvRetry, InvTimedOut, Zenon DEF JevNext
<1> QED
  BY <1>1, <1>2

-----------------------------------------------------------------------------

\* Nothing that Jev screens goes on without the answers its rule asks for, and
\* nothing is withheld without a cause; the rule is that of the tool that runs.
THEOREM JevVerdictsDue ==
  ASSUME JevValues
  PROVE  JevSpec => []JevVerdictDue
<1>1. JevInit => Inv
  BY InvInit
<1>2. Inv /\ [JevNext]_jevVars => Inv'
  BY InvNext
<1>3. Inv => JevVerdictDue
  BY InvEnough
<1> QED
  BY <1>1, <1>2, <1>3, PTL DEF JevSpec

=============================================================================
