---------------------------- MODULE JevScreening ----------------------------
(***************************************************************************)
(* The three policies that ask the Jev service about a message and let it  *)
(* pass or withhold it: typesafe-jev-content-safety (request and response  *)
(* text), typesafe-jev-mcp-tool-intent-verification (a tools/call before   *)
(* it runs) and typesafe-jev-mcp-tool-result-screening (what a tools/call  *)
(* returned).  One exchange: the message is read, the rule that governs it *)
(* is found, the service is asked, with one retry when it is overloaded,   *)
(* and the verdict follows from the answers, the mode and the failure      *)
(* setting of the rule.                                                    *)
(***************************************************************************)
EXTENDS JevQuestions

CONSTANTS ScreenParams,    \* raw configurations
          ScreenBodies,    \* messages, by policy kind
          ScreenReplies,   \* what the service may answer
          MaxScreenedText, \* maxScreenedTextBytes, in symbols
          MaxTimeout,
          DefaultRule      \* the questions asked when none are configured

\* The rules a configuration gives: by direction, or by tool.
RulesOf(raw) == IF raw.kind = "content" THEN {raw.request, raw.response} ELSE Range(raw.tools)

\* What the constants are, for the theorems: a policy is of one of three kinds; the
\* default questions are usable; thresholds, confidences and answers are numbers;
\* and a server runs the tool a request names where no member of it is repeated or
\* oddly spelled.
JevValues ==
  /\ ParseQuestionList(DefaultRule)
  /\ \A raw \in ScreenParams : raw.kind \in {"content", "intent", "result"}
  /\ \A qs \in {DefaultRule} \union {r.questions : r \in UNION {RulesOf(raw) : raw \in ScreenParams}} :
       \A i \in DOMAIN qs : /\ qs[i].threshold \in Int /\ qs[i].confidenceThreshold \in Int
                           /\ DOMAIN qs[i].blockOn.list = 1 .. Len(qs[i].blockOn.list)
                           /\ Len(qs[i].blockOn.list) \in Nat
  /\ \A r \in ScreenReplies : /\ "status" \in DOMAIN r
                              /\ \A k \in DOMAIN r.answers :
                                   LET a == r.answers[k]
                                   IN /\ a.value \in Int /\ a.confidence \in Int
                                      /\ \A o \in DOMAIN a.probabilities.of : a.probabilities.of[o] \in Int
  /\ \A b \in ScreenBodies.call : b.spelled /\ b.in.spelled /\ b.in.name \notin {"absent", "blank", "wrongtype"}
                                => b.in.runs = b.in.name

VARIABLES screen,    \* the parsed policy
          turn,      \* "request", "upstream", "calling", "backoff", "done"
          dir,       \* "request" or "response": the side being screened
          msg,       \* the message being screened
          rule,      \* the rule that governs it
          text,      \* the text sent to the service
          reply,     \* the last reply
          outcome    \* what became of the message

jevVars == <<screen, turn, dir, msg, rule, text, reply, outcome>>

None == [form |-> "none"]

---------------------------------------------------------------------------
\* The copies the two MCP policies carry.

IntentParseQuestion(q) == ParseQuestion(q)

ResultParseQuestion(q) == ParseQuestion(q)

IntentParseQuestionList(qs) ==
  /\ \A i \in DOMAIN qs : IntentParseQuestion(qs[i])
  /\ IsInjective([i \in DOMAIN qs |-> qs[i].key])

ResultParseQuestionList(qs) ==
  /\ \A i \in DOMAIN qs : ResultParseQuestion(qs[i])
  /\ IsInjective([i \in DOMAIN qs |-> qs[i].key])

IntentEvaluateAnswer(q, a) == EvaluateAnswer(q, a)

ResultEvaluateAnswer(q, a) == EvaluateAnswer(q, a)

IntentPostSystemOne(r) == PostSystemOne(r)

ResultPostSystemOne(r) == PostSystemOne(r)

---------------------------------------------------------------------------
\* Configuration

Questions(qs) == IF qs = <<>> THEN DefaultRule ELSE qs

\* content safety, one flow.  A missing or empty list asks the default questions.
ParsePhaseParams(f) ==
  [ok |-> /\ ParseQuestionList(f.questions) /\ ParseTimeout(f.timeout, MaxTimeout)
          /\ f.mode \in {"absent", "enforce", "monitor"} /\ ~f.illTyped,
   questions |-> Questions(f.questions),
   monitor |-> f.mode = "monitor",
   passthroughOnError |-> f.passthroughOnError = "true",
   form |-> "rule"]

ContentGetPolicy(raw) ==
  LET flow(f) == IF f.present THEN ParsePhaseParams(f) ELSE None
  IN [kind |-> "content", request |-> flow(raw.request), response |-> flow(raw.response),
      ok |-> /\ raw.apiKey # ""
             /\ raw.request.present \/ raw.response.present
             /\ raw.request.present => flow(raw.request).ok
             /\ raw.response.present => flow(raw.response).ok]

ParseSettings(r, passthroughDefault) ==
  [ok |-> /\ r.mode \in {"absent", "enforce", "monitor"}
          /\ r.passthroughOnError \in {"absent", "true", "false"},
   questions |-> Questions(r.questions),
   monitor |-> r.mode = "monitor",
   passthroughOnError |-> IF r.passthroughOnError = "absent" THEN passthroughDefault
                          ELSE r.passthroughOnError = "true",
   form |-> "rule"]

\* An unchecked tool call is refused unless the rule says otherwise.
IntentParseSettings(r) ==
  [ParseSettings(r, FALSE) EXCEPT !.ok = @ /\ IntentParseQuestionList(r.questions)]

\* An unchecked result is passed on unless the rule says otherwise.
ResultParseSettings(r) ==
  [ParseSettings(r, TRUE) EXCEPT !.ok = @ /\ ResultParseQuestionList(r.questions)]

\* At least one rule, the names distinct; "*" is the rule of every other tool.
ToolRules(rs, Settings(_)) ==
  [ok |-> /\ rs # <<>> /\ IsInjective([i \in DOMAIN rs |-> rs[i].name])
          /\ \A i \in DOMAIN rs : rs[i].name # "" /\ Settings(rs[i]).ok,
   tools |-> [n \in {rs[i].name : i \in DOMAIN rs} \ {"*"} |->
                Settings(rs[CHOOSE i \in DOMAIN rs : rs[i].name = n])],
   anyTool |-> IF \E i \in DOMAIN rs : rs[i].name = "*"
               THEN Settings(rs[CHOOSE i \in DOMAIN rs : rs[i].name = "*"]) ELSE None]

\* Each rule says what its tool is for.
IntentParseToolRules(rs) ==
  LET t == ToolRules(rs, IntentParseSettings)
  IN [t EXCEPT !.ok = @ /\ \A i \in DOMAIN rs : rs[i].scope]

ResultParseToolRules(rs) == ToolRules(rs, ResultParseSettings)

\* Settings of a rule may not stand at the top level.
IntentParseParams(raw) ==
  /\ ~raw.topLevelRule /\ ParseTimeout(raw.timeout, MaxTimeout)
  /\ raw.showAssessment \in {"absent", "true", "false"}
  /\ IntentParseToolRules(raw.tools).ok

ResultParseParams(raw) ==
  /\ ~raw.topLevelRule /\ ParseTimeout(raw.timeout, MaxTimeout)
  /\ raw.showAssessment \in {"absent", "true", "false"}
  /\ raw.maxResultBytes # Missing => raw.maxResultBytes \in 1..(2 * MaxScreenedText)
  /\ ResultParseToolRules(raw.tools).ok

IntentGetPolicy(raw) ==
  LET t == IntentParseToolRules(raw.tools)
  IN [kind |-> "intent", ok |-> raw.apiKey # "" /\ IntentParseParams(raw),
      tools |-> t.tools, anyTool |-> t.anyTool]

ResultGetPolicy(raw) ==
  LET t == ResultParseToolRules(raw.tools)
  IN [kind |-> "result", ok |-> raw.apiKey # "" /\ ResultParseParams(raw),
      tools |-> t.tools, anyTool |-> t.anyTool,
      maxResultBytes |-> IF raw.maxResultBytes = Missing THEN MaxScreenedText ELSE raw.maxResultBytes]

---------------------------------------------------------------------------
\* Reading the text to screen.  A text is a sequence of symbols, blank when empty.

TextError == [ok |-> FALSE, t |-> <<>>]

Extracted(t) == [ok |-> TRUE, t |-> t]

\* Strings, objects with text, and typed parts without text, which say nothing.
TextFromContentParts(ps) ==
  IF \E i \in DOMAIN ps : ps[i].k = "other" THEN TextError
  ELSE Extracted(FlattenSeq([i \in DOMAIN ps |-> IF ps[i].k = "typed" THEN <<>> ELSE ps[i].t]))

TextFromValue(v) ==
  CASE v.k = "null" -> Extracted(<<>>)
    [] v.k \in {"string", "number"} -> Extracted(v.t)
    [] v.k = "parts" -> TextFromContentParts(v.parts)
    [] OTHER -> TextError

\* The matches of a wildcard path, the newest ones that fit the limit; the
\* newest one is kept even when it does not fit.
TextFromMatches(ms) ==
  LET texts == SelectSeq([i \in DOMAIN ms |-> TextFromValue(ms[i]).t], LAMBDA t : t # <<>>)
      size(i) == FoldLeft(+, 0, [j \in 1..(Len(texts) - i + 1) |-> Len(texts[i + j - 1])])
                   + (Len(texts) - i)
      start == Min({Len(texts)} \union {i \in DOMAIN texts : size(i) <= MaxScreenedText})
  IN IF ms = <<>> \/ \E i \in DOMAIN ms : ~TextFromValue(ms[i]).ok THEN TextError
     ELSE Extracted(IF texts = <<>> THEN <<>> ELSE FlattenSeq(SubSeq(texts, start, Len(texts))))

\* Events that parse but never resolve the path mean that the path is wrong.
ExtractSSEText(ls) ==
  LET parsed == {i \in DOMAIN ls : ls[i].k # "unparsed"}
      resolved == {i \in parsed : ls[i].k # "missing"}
  IN IF parsed # {} /\ resolved = {} THEN TextError
     ELSE Extracted(FlattenSeq([i \in DOMAIN ls |-> IF ls[i].k = "string" THEN ls[i].t ELSE <<>>]))

ExtractText(b, isResponse) ==
  CASE isResponse /\ b.form = "sse" -> ExtractSSEText(b.lines)
    [] ~isResponse /\ b.form = "sse" -> TextError
    [] b.form = "raw"      -> Extracted(b.t)
    [] b.form = "broken"   -> TextError
    [] b.form = "value"    -> TextFromValue(b.v)
    [] b.form = "wildcard" -> TextFromMatches(b.matches)

\* A tool result: its text contents, embedded resources and structured content.
ResultText(r) ==
  IF r.form = "broken" THEN TextError
  ELSE Extracted(FlattenSeq([i \in DOMAIN r.contents |->
                          IF r.contents[i].type \in {"text", "resource"} THEN r.contents[i].t ELSE <<>>])
            \o r.structured)

---------------------------------------------------------------------------
\* Reading a tools/call.  name is what the exact member says first, runs the
\* tool the MCP server will take it for: they differ only in a request whose
\* members are repeated or spelled in another case.

\* A name is there once and in its own spelling.
CheckMemberSpelling(b) == b.spelled

\* Anything that is not one readable, unambiguous JSON-RPC object is refused.
IntentParseToolCall(b) ==
  CASE b.events # 1 \/ ~b.object \/ ~CheckMemberSpelling(b) -> "reject"
    [] b.method = "wrongtype" -> "reject"
    [] b.method \notin {"tools/call", "wrongtype"} -> "ignore"
    [] b.params # "object" \/ ~CheckMemberSpelling(b.in) -> "reject"
    [] b.in.name \in {"absent", "blank", "wrongtype"} -> "reject"
    [] b.in.args = "other" -> "reject"
    [] OTHER -> "call"

\* The response is still screened when the request was ambiguous, but the name
\* is not believed.
ResultParseToolCall(b) ==
  [call |-> b.events = 1 /\ b.object /\ b.method = "tools/call",
   ambiguous |-> \/ ~CheckMemberSpelling(b) \/ b.params # "object"
                 \/ ~CheckMemberSpelling(b.in)
                 \/ b.in.name \in {"absent", "blank", "wrongtype"}]

\* The named rule even when the name is not to be believed.
NamedRule(name, ambiguous) == IF name \in DOMAIN screen.tools THEN screen.tools[name] ELSE screen.anyTool

RuleFor(name, ambiguous) ==
  IF ~ambiguous /\ name \in DOMAIN screen.tools THEN screen.tools[name] ELSE screen.anyTool

SameID(e, b) == e.id = b.id /\ b.id \notin {"absent", "null", "composite"}

\* A response, not a request or an error, that answers this call.
ResultMessage(e, b) == e.k = "object" /\ e.result.form # "absent" /\ ~e.method /\ SameID(e, b)

---------------------------------------------------------------------------
\* Verdicts.  forward: the message goes on as it is; otherwise an error answer
\* or a withheld result takes its place.

Outcome(forward, why) == [forward |-> forward, why |-> why, low |-> {}, failed |-> {}]

\* The check itself failed.  Monitor mode never blocks.
Failure(r) == Outcome(r.monitor \/ r.passthroughOnError, "failure")

ScreenVerdict(r, a) ==
  IF a.failure THEN Failure(r)
  ELSE [forward |-> a.failed = {} \/ r.monitor, low |-> a.low, failed |-> a.failed,
        why |-> IF a.failed = {} THEN "clean" ELSE "violation"]

\* The policy is done with this side of the exchange.
Finish(d, m, r, o) ==
  /\ dir' = d /\ msg' = m /\ rule' = r /\ outcome' = o
  /\ turn' = IF d = "request" /\ o.forward THEN "upstream" ELSE "done"
  /\ text' = <<>> /\ reply' = None
  /\ UNCHANGED screen

\* The text goes to the service.
Ask(d, m, r, t) ==
  /\ turn' = "calling" /\ dir' = d /\ msg' = m /\ rule' = r /\ text' = t /\ reply' = None
  /\ UNCHANGED <<screen, outcome>>

\* content safety: screen.
ContentScreen(d, b, r) ==
  LET t == ExtractText(b, d = "response")
  IN CASE b.form = "empty" -> Finish(d, b, r, Outcome(TRUE, "empty"))
       [] b.form # "empty" /\ ~t.ok -> Finish(d, b, r, Failure(r))
       [] b.form # "empty" /\ t.ok /\ t.t = <<>> -> Finish(d, b, r, Outcome(TRUE, "empty"))
       [] OTHER -> Ask(d, b, r, t.t)

ContentOnRequestBody(b) ==
  /\ screen.kind = "content" /\ turn = "request"
  /\ IF screen.request = None THEN Finish("request", b, None, Outcome(TRUE, "none"))
     ELSE ContentScreen("request", b, screen.request)

\* An error of the provider is not generated text; an unknown status (0) is screened.
ContentOnResponseBody(status, b) ==
  /\ screen.kind = "content" /\ turn = "upstream"
  /\ IF screen.response = None \/ (status # 0 /\ status \notin 200..299)
     THEN Finish("response", b, None, Outcome(TRUE, "none"))
     ELSE ContentScreen("response", b, screen.response)

\* tool intent: the call is refused, ignored, or screened under the rule of its tool.
IntentOnRequestBody(b) ==
  /\ screen.kind = "intent" /\ turn = "request"
  /\ LET parsed == IF ~b.mcp \/ b.empty THEN "ignore" ELSE IntentParseToolCall(b)
         r == IF b.in.name \in DOMAIN screen.tools THEN screen.tools[b.in.name] ELSE screen.anyTool
     IN CASE parsed = "reject" -> Finish("request", b, None, Outcome(FALSE, "reject"))
          [] parsed = "ignore" -> Finish("request", b, None, Outcome(TRUE, "none"))
          [] parsed = "call" /\ r = None -> Finish("request", b, None, Outcome(TRUE, "none"))
          [] OTHER -> Ask("request", b, r, <<b.in.name>>)

\* tool result: the request passes as it is.
ResultOnRequestBody(b) ==
  /\ screen.kind = "result" /\ turn = "request"
  /\ Finish("request", [req |-> b, status |-> 0, events |-> <<>>, at |-> 0], None, Outcome(TRUE, "none"))

\* screen: the result in event i of es.
ResultScreen(r, m, i) ==
  LET t == ResultText(m.events[i].result)
      here == [m EXCEPT !.at = i]
  IN CASE ~t.ok -> Finish("response", here, r, Failure(r))
       [] t.ok /\ t.t = <<>> -> Finish("response", here, r, Outcome(TRUE, "empty"))
       [] t.ok /\ Len(t.t) > screen.maxResultBytes -> Finish("response", here, r, Failure(r))
       [] OTHER -> Ask("response", here, r, t.t)

\* The first event that answers the call is screened.  A stream without any data
\* or with unreadable data, or a body that is not a JSON object, cannot be.
ResultOnResponseBody(status, sse, es) ==
  /\ screen.kind = "result" /\ turn = "upstream"
  /\ LET b == msg.req
         p == ResultParseToolCall(b)
         r == RuleFor(b.in.name, p.ambiguous)
         m == [msg EXCEPT !.status = status, !.events = es]
         answers == {i \in DOMAIN es : ResultMessage(es[i], b)}
         unreadable == IF sse THEN \/ \A i \in DOMAIN es : es[i].k = "blank"
                                   \/ \E i \in DOMAIN es : es[i].k = "unreadable"
                       ELSE es[1].k # "object"
     IN CASE \/ ~b.mcp \/ b.empty \/ es = <<>> \/ status \notin 200..299
             \/ ~p.call \/ r = None -> Finish("response", m, None, Outcome(TRUE, "none"))
          [] OTHER -> IF answers # {} THEN ResultScreen(r, m, Min(answers))
                      ELSE Finish("response", m, r,
                                  IF unreadable THEN Failure(r) ELSE Outcome(TRUE, "none"))

\* The intent policy does not see the response.
IntentResponse ==
  /\ screen.kind = "intent" /\ turn = "upstream"
  /\ turn' = "done"
  /\ UNCHANGED <<screen, dir, msg, rule, text, reply, outcome>>

---------------------------------------------------------------------------
\* The call: one retry when the service is overloaded, within the same deadline.

Evaluate(q, a) ==
  CASE screen.kind = "content" -> EvaluateAnswer(q, a)
    [] screen.kind = "intent"  -> IntentEvaluateAnswer(q, a)
    [] screen.kind = "result"  -> ResultEvaluateAnswer(q, a)

Conclude(r) ==
  /\ outcome' = IF Answered(r) THEN ScreenVerdict(rule, Assess(rule.questions, r.answers, Evaluate))
                ELSE Failure(rule)
  /\ turn' = IF dir = "request" /\ outcome'.forward THEN "upstream" ELSE "done"

ScreenCall(r) ==
  /\ turn = "calling"
  /\ reply' = r
  /\ IF Overloaded(r) /\ reply = None
     THEN turn' = "backoff" /\ UNCHANGED outcome
     ELSE Conclude(r)
  /\ UNCHANGED <<screen, dir, msg, rule, text>>

ContentCallJev(raw) == screen.kind = "content" /\ ScreenCall(PostSystemOne(raw))

IntentCallJev(raw) == screen.kind = "intent" /\ ScreenCall(IntentPostSystemOne(raw))

ResultCallJev(raw) == screen.kind = "result" /\ ScreenCall(ResultPostSystemOne(raw))

JevRetry ==
  /\ turn = "backoff" /\ turn' = "calling"
  /\ UNCHANGED <<screen, dir, msg, rule, text, reply, outcome>>

\* The deadline passes before the backoff ends.
JevTimedOut ==
  /\ turn = "backoff"
  /\ reply' = [status |-> 0]
  /\ Conclude(reply')
  /\ UNCHANGED <<screen, dir, msg, rule, text>>

ScreenGetPolicy(raw) ==
  CASE raw.kind = "content" -> ContentGetPolicy(raw)
    [] raw.kind = "intent"  -> IntentGetPolicy(raw)
    [] raw.kind = "result"  -> ResultGetPolicy(raw)

JevInit ==
  /\ \E raw \in ScreenParams : screen = ScreenGetPolicy(raw)
  /\ turn = IF screen.ok THEN "request" ELSE "unconfigured"
  /\ dir = "request" /\ msg = None /\ rule = None /\ text = <<>> /\ reply = None
  /\ outcome = Outcome(TRUE, "none")

JevNext ==
  \/ \E b \in ScreenBodies.content : ContentOnRequestBody(b)
  \/ \E b \in ScreenBodies.content, s \in {0, 200, 500} : ContentOnResponseBody(s, b)
  \/ \E b \in ScreenBodies.call : IntentOnRequestBody(b) \/ ResultOnRequestBody(b)
  \/ \E es \in ScreenBodies.stream, sse \in BOOLEAN, s \in {200, 500} :
       (~sse => Len(es) <= 1) /\ ResultOnResponseBody(s, sse, es)
  \/ IntentResponse
  \/ \E r \in ScreenReplies : ContentCallJev(r) \/ IntentCallJev(r) \/ ResultCallJev(r)
  \/ JevRetry
  \/ JevTimedOut

JevSpec == JevInit /\ [][JevNext]_jevVars

---------------------------------------------------------------------------
\* Properties

\* The service answered every question of r: some question reaches its threshold
\* with confidence, or none does.
Value(q, a) == IF q.type = "choice"
               THEN FoldLeft(LAMBDA s, o : s + IF o \in DOMAIN a.probabilities.of THEN a.probabilities.of[o] ELSE 0, 0, q.blockOn.list)
               ELSE a.value

Usable(q, a) == /\ a.readable
                /\ IF q.type = "choice" THEN a.probabilities.form = "object" ELSE a.value # Missing
                /\ q.confidenceThreshold > 0 => a.confidence # Missing

AllAnswered(r) ==
  reply # None /\ Answered(reply) /\ \A i \in DOMAIN r.questions :
    LET q == r.questions[i] IN q.key \in DOMAIN reply.answers /\ Usable(q, reply.answers[q.key])

Reached(r) ==
  \E i \in DOMAIN r.questions :
    LET q == r.questions[i]
        a == reply.answers[q.key]
    IN Value(q, a) >= q.threshold /\ (q.confidenceThreshold > 0 => a.confidence >= q.confidenceThreshold)

\* The rule of the tool the MCP server runs.
RuleOfServer(b) == IF b.in.runs \in DOMAIN screen.tools THEN screen.tools[b.in.runs] ELSE screen.anyTool

Strict(r) == r # None /\ ~r.monitor /\ ~r.passthroughOnError

\* Under a rule that enforces and does not tolerate failures nothing goes on
\* unless the service answered every question below its threshold or there was
\* nothing to ask about; and nothing is withheld without a cause the rule
\* allows.  A tool call is judged by the tool the MCP server will run: a
\* request that is read in two ways cannot choose a milder rule than the one
\* of every other tool.
JevVerdictDue ==
  turn \in {"upstream", "done"} =>
    /\ (outcome.forward /\ Strict(rule) /\ outcome.why \notin {"none", "empty"})
         => AllAnswered(rule) /\ ~Reached(rule)
    /\ (~outcome.forward /\ outcome.why # "reject")
         => /\ ~rule.monitor
            /\ IF AllAnswered(rule) THEN Reached(rule) ELSE ~rule.passthroughOnError
    /\ (screen.kind = "intent" /\ outcome.forward /\ msg.mcp /\ ~msg.empty
          /\ msg.method = "tools/call" /\ Strict(RuleOfServer(msg)))
         => rule = RuleOfServer(msg)
    /\ (/\ screen.kind = "result" /\ turn = "done" /\ outcome.forward /\ outcome.why # "empty"
        /\ msg.req.mcp /\ ~msg.req.empty /\ msg.req.events = 1 /\ msg.req.object
        /\ msg.req.method = "tools/call" /\ msg.status = 200
        /\ \E i \in DOMAIN msg.events : ResultMessage(msg.events[i], msg.req)
        /\ msg.req.in.runs \notin DOMAIN screen.tools /\ Strict(screen.anyTool))
         => AllAnswered(screen.anyTool) /\ ~Reached(screen.anyTool)

=============================================================================
