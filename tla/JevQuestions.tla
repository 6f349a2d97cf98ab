---------------------------- MODULE JevQuestions ----------------------------
(***************************************************************************)
(* What the policies built on the Jev service share: the questions a rule  *)
(* asks, the answers the service gives and what they mean.  Each policy    *)
(* carries its own copy of this code; the copies that differ are in the    *)
(* policies' modules.                                                      *)
(*                                                                         *)
(* Probabilities and scores are integers in units of 1/One.  Missing is a  *)
(* number that is not there.                                               *)
(***************************************************************************)
EXTENDS Integers, Sequences, FiniteSets, SequencesExt, FiniteSetsExt

CONSTANTS One, MaxScoreLevels, MaxChoiceOption

Missing == -1000

Probability(x) == 0 < x /\ x <= One

ParseStringList(l) == l.form \in {"absent", "strings"}

\* A question is usable: named, typed, with instructions and a threshold on
\* the scale of its type; blockOn names options of the choice.
ParseQuestion(q) ==
  /\ q.key # "" /\ q.type \in {"noul", "score", "choice"} /\ q.instructions
  /\ q.threshold # Missing
  /\ q.confidenceThreshold # Missing =>
       q.type = "score" /\ q.confidenceThreshold \in 0..One
  /\ CASE q.type = "noul"   -> Probability(q.threshold)
       [] q.type = "score"  -> /\ ParseStringList(q.criteria)
                               /\ Len(q.criteria.list) \in 2..MaxScoreLevels
                               /\ 0 < q.threshold
                               /\ q.threshold <= One * (Len(q.criteria.list) - 1)
       [] q.type = "choice" -> /\ ParseStringList(q.criteria) /\ ParseStringList(q.blockOn)
                               /\ Len(q.criteria.list) \in 2..MaxChoiceOption
                               /\ IsInjective(q.criteria.list)
                               /\ q.blockOn.list # <<>>
                               /\ Range(q.blockOn.list) \subseteq Range(q.criteria.list)
                               /\ Probability(q.threshold)

\* Every entry usable, the keys distinct.
ParseQuestionList(qs) ==
  /\ \A i \in DOMAIN qs : ParseQuestion(qs[i])
  /\ IsInjective([i \in DOMAIN qs |-> qs[i].key])

\* (0, 30s]; the unit is the retry backoff.
ParseTimeout(t, max) == t.form = "absent" \/ (t.form = "duration" /\ 0 < t.n /\ t.n <= max)

---------------------------------------------------------------------------
\* An answer: readable JSON or not, a value, a confidence, probabilities.

DecodeNoulAnswer(a) == a.readable /\ a.value # Missing

DecodeScoreAnswer(a) == a.readable /\ a.value # Missing

DecodeChoiceAnswer(a) == a.readable /\ a.probabilities.form = "object"

\* The weight of the blocking options, an option the answer leaves out counts 0.
ChoiceValue(q, a) ==
  FoldLeft(LAMBDA s, o : s + IF o \in DOMAIN a.probabilities.of THEN a.probabilities.of[o] ELSE 0,
           0, q.blockOn.list)

EvaluateConfident(q, a) ==
  LET value == IF q.type = "choice" THEN ChoiceValue(q, a) ELSE a.value
  IN CASE value < q.threshold -> "below"
       [] value >= q.threshold /\ q.confidenceThreshold > 0 /\ a.confidence < q.confidenceThreshold -> "low"
       [] OTHER -> "blocks"

\* An unreadable answer is an error; at the threshold the question blocks unless
\* the confidence is too low for it to count.
EvaluateAnswer(q, a) ==
  LET decoded == CASE q.type = "noul"   -> DecodeNoulAnswer(a)
                   [] q.type = "score"  -> /\ DecodeScoreAnswer(a)
                                           /\ q.confidenceThreshold > 0 => a.confidence # Missing
                   [] q.type = "choice" -> DecodeChoiceAnswer(a)
  IN IF decoded THEN EvaluateConfident(q, a) ELSE "error"

\* The loop over the questions: the first one without a readable answer makes
\* the whole check fail, whatever the others say.
Assess(qs, answers, Evaluate(_, _)) ==
  LET result == [i \in DOMAIN qs |->
                   IF qs[i].key \in DOMAIN answers THEN Evaluate(qs[i], answers[qs[i].key])
                   ELSE "error"]
      keys(r) == {qs[i].key : i \in {i \in DOMAIN qs : result[i] = r}}
  IN [failure |-> keys("error") # {},
      failed  |-> IF keys("error") # {} THEN {} ELSE keys("blocks"),
      low     |-> IF keys("error") # {} THEN {} ELSE keys("low")]

---------------------------------------------------------------------------
\* The HTTP exchange.  A reply is a status with a body, or an error of the
\* transport ("error", a cancelled context included).

Overloaded(r) == r.status \in {429, 529}

\* A body beyond the limit is an error only when it was to be used.
PostSystemOne(r) ==
  CASE r.status = 0 -> [status |-> 0]
    [] r.status = 200 /\ r.body = "toolarge" -> [status |-> 0]
    [] OTHER -> r

\* The answers of the last reply, or no answers at all.
Answered(r) == r.status = 200 /\ r.body = "answers"

=============================================================================
