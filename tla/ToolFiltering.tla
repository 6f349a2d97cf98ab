--------------------------- MODULE ToolFiltering ---------------------------
(***************************************************************************)
(* typesafe-jev-tool-filtering: the tools an LLM request offers are cut    *)
(* down to those the Jev service finds useful for its prompt.  One         *)
(* exchange: the tools are read and reduced to what the service is sent,   *)
(* one question is asked about each of them, with one retry when the       *)
(* service is overloaded, and the request is rewritten.                    *)
(*                                                                         *)
(* A JSON value is [k, s, of, items]: kind, text (a sequence of symbols,   *)
(* "_" is white space), members and elements.  A string with elements is   *)
(* the text of an array.  A path is a sequence of [key, index], counted    *)
(* from 0 or, below it, from the end; "[" is a malformed key, "-" one with *)
(* a character the tools path does not take.  Scores are in units of       *)
(* 1/One.                                                                  *)
(***************************************************************************)
EXTENDS Integers, Sequences, FiniteSets, SequencesExt, FiniteSetsExt

CONSTANTS RawParams,   \* raw configurations
          Bodies,      \* requests
          Replies,     \* what the service may answer
          One,
          MaxLimit, MinBytes, MaxTimeout

VARIABLES conf, phase,
          body,    \* the request
          asked,   \* the tools the service is asked about
          reply,   \* its last reply
          out,     \* the request that is forwarded
          usage    \* the tokens recorded in the metadata

vars == <<conf, phase, body, asked, reply, out, usage>>

Missing == -1000
Wildcard == -200
NoIndex == -100

Value(k, s, of, items) == [k |-> k, s |-> s, of |-> of, items |-> items]
Nothing == Value("absent", <<>>, <<>>, <<>>)
Text(s) == Value("string", s, <<>>, <<>>)
Arr(items) == Value("array", <<>>, <<>>, items)
Obj(of) == Value("object", <<>>, of, <<>>)

Get(v, key) == IF v.k = "object" /\ key \in DOMAIN v.of THEN v.of[key] ELSE Nothing
Items(v) == IF v.k = "array" THEN v.items ELSE <<>>
Str(v) == IF v.k = "string" THEN v.s ELSE <<>>

TrimSpace(t) ==
  LET full == {i \in DOMAIN t : t[i] # "_"}
  IN IF full = {} THEN <<>> ELSE SubSeq(t, Min(full), Max(full))

---------------------------------------------------------------------------
\* Parameters: [k, n] with k "absent", "whole" (strings of digits included),
\* "fraction" or "other".

CoerceInt(p) == p.k = "whole"

\* NaN and the infinities are "other".
CoerceFloat(p) == p.k \in {"whole", "fraction"}

OptionalInt(p, default, min, max) ==
  IF p.k = "absent" THEN [ok |-> TRUE, n |-> default]
  ELSE [ok |-> CoerceInt(p) /\ min <= p.n /\ p.n <= max, n |-> p.n]

OptionalFloat(p, default) ==
  IF p.k = "absent" THEN [ok |-> TRUE, n |-> default]
  ELSE [ok |-> CoerceFloat(p) /\ 0 <= p.n /\ p.n <= One, n |-> p.n]

\* Plain http is for the loopback only.
ValidateBaseURL(u) ==
  /\ u.scheme \in {"http", "https"} /\ u.host # "" /\ ~u.user
  /\ u.scheme = "http" => u.host = "loopback"

RequiredString(s) == TrimSpace(s) # <<>>

\* maxTools, maxToolBytes and maxTotalBytes with their defaults.
ParseSystemConfig(raw) ==
  LET tools == OptionalInt(raw.maxTools, 200, 1, 10000)
      each == OptionalInt(raw.maxToolBytes, 4096, MinBytes, 1048576)
      total == OptionalInt(raw.maxTotalBytes, 131072, MinBytes, 16777216)
  IN [ok |-> /\ RequiredString(raw.apiKey) /\ "control" \notin Range(raw.apiKey)
             /\ ValidateBaseURL(raw.baseURL)
             /\ tools.ok /\ each.ok /\ total.ok /\ each.n <= total.n,
      maxTools |-> tools.n, maxToolBytes |-> each.n, maxTotalBytes |-> total.n]

\* A simple path, with at most one iterator.
ValidateSimpleJSONPath(p) ==
  /\ p.root /\ p.segs # <<>>
  /\ \A i \in DOMAIN p.segs : p.segs[i].key \notin {"", "[", "-"} /\ (p.segs[i].index >= 0 \/ p.segs[i].index \in {NoIndex, Wildcard})
  /\ Cardinality({i \in DOMAIN p.segs : p.segs[i].index = Wildcard}) <= 1

\* The prompt is one string, so it has no iterator; its keys may be any text.
ValidateQueryJSONPath(p) ==
  /\ p.root /\ p.segs # <<>>
  /\ \A i \in DOMAIN p.segs : p.segs[i].key \notin {"", "["} /\ p.segs[i].index # Wildcard

\* The array, and where in an element the tool is.
ParseToolsJSONPath(p) ==
  LET at == {i \in DOMAIN p.segs : p.segs[i].index = Wildcard}
      n == IF at = {} THEN Len(p.segs) ELSE Min(at)
  IN [array |-> [i \in 1..n |-> IF i \in at THEN [p.segs[i] EXCEPT !.index = NoIndex] ELSE p.segs[i]],
      sub |-> SubSeq(p.segs, n + 1, Len(p.segs))]

Seg(key) == [key |-> key, index |-> NoIndex]
DefaultQuery == [root |-> TRUE, segs |-> <<[key |-> "messages", index |-> -1], Seg("content")>>]
DefaultTools == [root |-> TRUE, segs |-> <<Seg("tools")>>]

\* An empty path is the default one.
PathOr(p, default) == IF p.segs = <<>> /\ ~p.root THEN default ELSE p

ParseUserConfig(raw) ==
  LET limit == OptionalInt(raw.limit, 10, 0, MaxLimit)
      threshold == OptionalFloat(raw.threshold, (7 * One) \div 10)
      least == OptionalFloat(raw.minimumScore, 0)
      query == PathOr(raw.query, DefaultQuery)
      tools == PathOr(raw.tools, DefaultTools)
  IN [ok |-> /\ raw.selectionMode \in {"absent", "rank", "threshold"}
             /\ limit.ok /\ threshold.ok /\ least.ok
             /\ raw.timeout.k = "absent" \/ (raw.timeout.k = "duration" /\ 0 < raw.timeout.n /\ raw.timeout.n <= MaxTimeout)
             /\ ValidateQueryJSONPath(query) /\ ValidateSimpleJSONPath(tools),
      mode |-> IF raw.selectionMode = "threshold" THEN "threshold" ELSE "rank",
      limit |-> limit.n, threshold |-> threshold.n, minimumScore |-> least.n,
      query |-> query, tools |-> tools]

GetPolicy(raw) ==
  LET system == ParseSystemConfig(raw)
      user == ParseUserConfig(raw)
  IN [system |-> system, user |-> user, ok |-> system.ok /\ user.ok]

---------------------------------------------------------------------------
\* Reading the request

At(v, seg) ==
  LET items == Items(Get(v, seg.key))
      i == IF seg.index >= 0 THEN seg.index + 1 ELSE Len(items) + 1 + seg.index
  IN CASE seg.index = NoIndex -> Get(v, seg.key)
       [] seg.index # NoIndex /\ i \in DOMAIN items -> items[i]
       [] OTHER -> Nothing

Walk(v, segs) == FoldLeft(At, v, segs)

ExtractValueFromRelativePath(item, sub) == Walk(item, sub)

\* Text parts of a message are joined, everything else is ignored.
MessageText(c) ==
  CASE c.k = "string" -> TrimSpace(c.s)
    [] c.k = "array"  ->
         FlattenSeq([i \in DOMAIN c.items |->
           IF Str(Get(c.items[i], "type")) \in {<<"text">>, <<"input_text">>}
           THEN TrimSpace(Str(Get(c.items[i], "text"))) ELSE <<>>])
    [] OTHER -> <<>>

\* The last user message that has a text.
LatestUserMessageText(b) ==
  LET ms == Items(Get(b, "messages"))
      spoken == {i \in DOMAIN ms : Str(Get(ms[i], "role")) = <<"user">> /\ MessageText(Get(ms[i], "content")) # <<>>}
  IN IF spoken = {} THEN <<>> ELSE MessageText(Get(ms[Max(spoken)], "content"))

\* A path that leads nowhere is an error to the caller and no prompt to this policy.
ExtractUserPrompt(b, query) ==
  IF query = DefaultQuery THEN LatestUserMessageText(b) ELSE TrimSpace(Str(Walk(b, query.segs)))

\* An array, or the text of one.
ParseJSONArray(v) == [ok |-> v.k = "array" \/ (v.k = "string" /\ v.items # <<>>), items |-> v.items]

\* One entry per element; an element without an object at the subpath has
\* nothing to inspect.
ExtractToolEntries(b, path) ==
  LET spec == ParseToolsJSONPath(path)
      v == Walk(b, spec.array)
      inspect(item) == LET w == ExtractValueFromRelativePath(item, spec.sub) IN IF item.k = "object" /\ w.k = "object" THEN w ELSE Nothing
      parsed == IF v.k \in {"absent", "null"} THEN [ok |-> TRUE, items |-> <<>>] ELSE ParseJSONArray(v)
  IN [ok |-> parsed.ok, path |-> spec.array,
      entries |-> [i \in DOMAIN parsed.items |-> [original |-> parsed.items[i], inspect |-> inspect(parsed.items[i])]]]

\* The object that holds the array.
ResolveToolsPath(b, path) == Walk(b, Front(path))

RequiredChoices == {<<"required">>, <<"any">>}

NamedToolChoice(c) ==
  LET nested == Str(Get(Get(c, "function"), "name"))
  IN IF nested # <<>> THEN nested ELSE Str(Get(c, "name"))

\* A named choice takes precedence over a required one.
ReadToolChoice(b, path) ==
  LET parent == ResolveToolsPath(b, path)
      values == <<Get(parent, "tool_choice"), Get(parent, "toolChoice")>>
      names == SelectSeq([i \in 1..2 |-> IF values[i].k = "object" THEN NamedToolChoice(values[i]) ELSE <<>>], LAMBDA n : n # <<>>)
  IN IF names # <<>> THEN [name |-> names[1], required |-> FALSE]
     ELSE [name |-> <<>>,
           required |-> \E i \in 1..2 : Str(values[i]) \in RequiredChoices \/ Str(Get(values[i], "type")) \in RequiredChoices]

CallTypes == {<<"tool_use">>, <<"tool_result">>, <<"function_call">>, <<"function_call_output">>,
              <<"custom_tool_call">>, <<"custom_tool_call_output">>}

IsToolCallItem(m) ==
  \/ Str(Get(m, "role")) \in {<<"tool">>, <<"function">>}
  \/ Str(Get(m, "type")) \in CallTypes
  \/ Items(Get(m, "tool_calls")) # <<>>
  \/ Get(m, "function_call").k \notin {"absent", "null"}
  \/ \E part \in Range(Items(Get(m, "content"))) : Str(Get(part, "type")) \in CallTypes

\* The conversation is in the middle of an agent loop.
HasToolCallHistory(b, path) ==
  \E field \in {"messages", "input"} :
    \E item \in Range(Items(Get(ResolveToolsPath(b, path), field))) : IsToolCallItem(item)

---------------------------------------------------------------------------
\* What the service is sent of a tool

FirstText(v, fields) ==
  LET texts == SelectSeq([i \in DOMAIN fields |-> TrimSpace(Str(Get(v, fields[i])))], LAMBDA t : t # <<>>)
  IN IF texts = <<>> THEN <<>> ELSE texts[1]

Description(v) == FirstText(v, <<"description", "desc", "summary", "info">>)

FindSchema(v) ==
  LET schemas == SelectSeq([i \in 1..3 |-> Get(v, <<"parameters", "inputSchema", "input_schema">>[i])], LAMBDA w : w.k = "object")
  IN IF schemas = <<>> THEN Nothing ELSE schemas[1]

\* In one order for one set of names.
NormalizeParameters(schema) ==
  LET properties == Get(schema, "properties")
      names == IF properties.k = "object" THEN SetToSeq(DOMAIN properties.of) ELSE <<>>
  IN [i \in DOMAIN names |->
        [type |-> Str(Get(properties.of[names[i]], "type")),
         description |-> TrimSpace(Str(Get(properties.of[names[i]], "description")))]]

\* The texts of title and annotations.
NormalizeAnnotations(v) ==
  LET hints == Get(v, "annotations")
      keys == IF hints.k = "object" THEN SetToSeq(DOMAIN hints.of) ELSE <<>>
  IN TrimSpace(Str(Get(v, "title"))) \o FlattenSeq([i \in DOMAIN keys |-> TrimSpace(Str(hints.of[keys[i]]))])

\* What the tool does not say itself is looked for in its function member.
NormalizeTool(v) ==
  LET nested == IF Get(v, "function").k = "object" THEN Get(v, "function") ELSE Nothing
      name == FirstText(v, <<"name">>)
      description == Description(v)
      schema == FindSchema(v)
  IN [name |-> IF name # <<>> THEN name ELSE FirstText(nested, <<"name">>),
      description |-> IF description # <<>> THEN description ELSE Description(nested),
      parameters |-> NormalizeParameters(IF schema # Nothing THEN schema ELSE FindSchema(nested)),
      annotations |-> NormalizeAnnotations(v)]

Inspectable(t) == t.name # <<>> \/ t.description # <<>>

\* Of the encoding, the texts count, and one for each parameter.
ToolSize(t) ==
  Len(t.name) + Len(t.description) + Len(t.annotations)
  + FoldLeft(LAMBDA n, p : n + 1 + Len(p.type) + Len(p.description), 0, t.parameters)

TruncateString(s, max) == IF Len(s) <= max THEN s ELSE SubSeq(s, 1, max)

\* s cut in half until nothing is left.
Halvings(s) ==
  [i \in 1..(IF s = <<>> THEN 0 ELSE Min({n \in 1..Len(s) : Len(s) \div 2^n = 0})) |-> TruncateString(s, Len(s) \div 2^i)]

\* The first of the ever shorter forms that fits: without annotations, without
\* the descriptions and then the types of parameters, with half the description
\* and half again, with fewer parameters, and at last with half the name.
FitToolBudget(t, max) ==
  LET plain == [t EXCEPT !.annotations = <<>>]
      silent == [plain EXCEPT !.parameters = [i \in DOMAIN @ |-> [@[i] EXCEPT !.description = <<>>]]]
      untyped == [silent EXCEPT !.parameters = [i \in DOMAIN @ |-> [@[i] EXCEPT !.type = <<>>]]]
      mute == [untyped EXCEPT !.description = <<>>]
      bare == [mute EXCEPT !.parameters = <<>>]
      forms == <<t, plain, silent, untyped>>
               \o [i \in DOMAIN Halvings(t.description) |-> [untyped EXCEPT !.description = Halvings(t.description)[i]]]
               \o [i \in DOMAIN t.parameters |-> [mute EXCEPT !.parameters = SubSeq(@, 1, Len(@) - i)]]
               \o [i \in DOMAIN Halvings(t.name) |-> [bare EXCEPT !.name = Halvings(t.name)[i]]]
  IN forms[Min({i \in DOMAIN forms : ToolSize(forms[i]) <= max \/ i = Len(forms)})]

\* All tools or none: one that cannot be inspected, or too much of them, ends it.
NormalizeEntries(entries, system) ==
  LET whole == [i \in DOMAIN entries |-> NormalizeTool(entries[i].inspect)]
      tools == [i \in DOMAIN entries |-> FitToolBudget(whole[i], system.maxToolBytes)]
  IN [ok |-> /\ Len(entries) <= system.maxTools
             /\ \A i \in DOMAIN whole : Inspectable(whole[i])
             /\ FoldLeft(LAMBDA n, t : n + ToolSize(t), 0, tools) <= system.maxTotalBytes,
      tools |-> tools]

OffersTool(tools, name) == \E i \in DOMAIN tools : tools[i].name = name

---------------------------------------------------------------------------
\* The answers.  A question is the position of its tool.

BuildQuestions(n) == [i \in 1..n |-> i]

\* A probability that is there: a missing one is not a confident zero.
DecodeNoulAnswer(a) == a.readable /\ a.type = "noul" /\ a.noul # Missing /\ 0 <= a.noul /\ a.noul <= One

\* No question is answered twice.
DecodeAnswerObject(answers) == IsInjective([i \in DOMAIN answers |-> answers[i].id])

\* An answer that is not there counts as none.
LenientAnswers(r, ids) ==
  LET of(id) == {i \in DOMAIN r.answers : r.answers[i].id = id /\ DecodeNoulAnswer(r.answers[i])}
  IN [ok |-> r.body = "answers",
      scores |-> [i \in DOMAIN ids |-> IF of(ids[i]) = {} THEN 0 ELSE r.answers[Min(of(ids[i]))].noul]]

\* Every question has its answer and every answer its question, or there are no
\* scores at all.
ParseJevResponse(r, ids) ==
  LET of(id) == {i \in DOMAIN r.answers : r.answers[i].id = id}
      ok == /\ r.body = "answers" /\ (r.usage # Missing => r.usage >= 0)
            /\ DecodeAnswerObject(r.answers)
            /\ \A i \in DOMAIN r.answers : r.answers[i].id \in Range(ids)
            /\ \A id \in Range(ids) : \E i \in of(id) : DecodeNoulAnswer(r.answers[i])
  IN [ok |-> ok, scores |-> IF ok THEN [i \in DOMAIN ids |-> r.answers[Min(of(ids[i]))].noul] ELSE <<>>]

MapScores(entries, tools, scores, forcedName) ==
  [i \in DOMAIN tools |-> [index |-> i, original |-> entries[i].original, score |-> scores[i],
                           forced |-> forcedName # <<>> /\ tools[i].name = forcedName]]

---------------------------------------------------------------------------
\* The selection

\* Most relevant first, ties in the order of the request.
Ranked(scored) ==
  SetToSortSeq(DOMAIN scored, LAMBDA i, j : scored[i].score > scored[j].score \/ (scored[i].score = scored[j].score /\ i < j))

\* The ranked tools, forced ones first of all, while there is room and merit.
ByRank(scored, cfg, forced) ==
  LET take(acc, i) ==
        CASE acc.stop \/ Cardinality(acc.chosen) >= cfg.limit -> [acc EXCEPT !.stop = TRUE]
          [] ~acc.stop /\ Cardinality(acc.chosen) < cfg.limit /\ i \in acc.chosen -> acc
          [] OTHER -> IF scored[i].score < cfg.minimumScore THEN [acc EXCEPT !.stop = TRUE]
                      ELSE [acc EXCEPT !.chosen = @ \union {i}]
  IN FoldLeft(take, [chosen |-> forced, stop |-> FALSE], Ranked(scored)).chosen

\* The tool the request names has to earn its place like the others.
SelectOnMerit(scored, cfg) ==
  LET chosen == IF cfg.mode = "threshold" THEN {i \in DOMAIN scored : scored[i].score >= cfg.threshold}
                ELSE ByRank(scored, cfg, {})
      kept == SelectSeq(Ranked(scored), LAMBDA i : i \in chosen)
  IN [i \in DOMAIN kept |-> scored[kept[i]]]

SelectTools(scored, cfg) ==
  LET forced == {i \in DOMAIN scored : scored[i].forced}
      chosen == IF cfg.mode = "threshold" THEN forced \union {i \in DOMAIN scored : scored[i].score >= cfg.threshold}
                ELSE ByRank(scored, cfg, forced)
      kept == SelectSeq(Ranked(scored), LAMBDA i : i \in chosen)
  IN [i \in DOMAIN kept |-> scored[kept[i]]]

IsUnchanged(entries, selected) ==
  Len(selected) = Len(entries) /\ \A i \in DOMAIN selected : selected[i].index = i

BuildToolsArray(selected) == Arr([i \in DOMAIN selected |-> selected[i].original])

\* v with new at the end of a path that is there.
Put(v, path, new) ==
  LET set(w, seg, x) ==
        IF seg.index = NoIndex THEN [w EXCEPT !.of[seg.key] = x] ELSE [w EXCEPT !.of[seg.key].items[seg.index + 1] = x]
      f[i \in 1..(Len(path) + 1)] ==
        IF i > Len(path) THEN new ELSE set(Walk(v, SubSeq(path, 1, i - 1)), path[i], f[i + 1])
  IN f[1]

SetToolsAtPath(b, path, tools) == Put(b, path, tools)

Companions == {"parallel_tool_calls", "tool_choice", "toolChoice"}

\* The array goes with the fields that only make sense beside it; an array in
\* an array is emptied.
RemoveToolsAtPath(b, path) ==
  LET parent == ResolveToolsPath(b, path)
      gone == Companions \union {Last(path).key}
  IN IF Last(path).index # NoIndex THEN SetToolsAtPath(b, path, Arr(<<>>))
     ELSE Put(b, Front(path), Obj([k \in (DOMAIN parent.of) \ gone |-> parent.of[k]]))

---------------------------------------------------------------------------
\* The exchange

\* The request goes on as it is.
HandleFailure(b) == out' = b /\ phase' = "done"

\* Whether the policy can and may judge the tools of a request.
Judges(b) ==
  LET e == ExtractToolEntries(b, conf.user.tools)
      n == NormalizeEntries(e.entries, conf.system)
      choice == ReadToolChoice(b, e.path)
  IN /\ b.k = "object" /\ ExtractUserPrompt(b, conf.user.query) # <<>>
     /\ e.ok /\ e.entries # <<>>
     /\ ~HasToolCallHistory(b, e.path) /\ n.ok
     /\ choice.name # <<>> => OffersTool(n.tools, choice.name)

OnRequestBody(b) ==
  /\ phase = "request"
  /\ body' = b
  /\ IF Judges(b)
     THEN /\ phase' = "calling" /\ UNCHANGED out
          /\ asked' = NormalizeEntries(ExtractToolEntries(b, conf.user.tools).entries, conf.system).tools
     ELSE HandleFailure(b) /\ UNCHANGED asked
  /\ UNCHANGED <<conf, reply, usage>>

\* A request that must call some tool keeps the best one.
Filter(b, scores) ==
  LET e == ExtractToolEntries(b, conf.user.tools)
      choice == ReadToolChoice(b, e.path)
      scored == MapScores(e.entries, asked, scores, choice.name)
      first == SelectTools(scored, conf.user)
      selected == IF first = <<>> /\ choice.required
                  THEN SelectTools(scored, [mode |-> "rank", limit |-> 1, minimumScore |-> 0, threshold |-> 0])
                  ELSE first
  IN CASE IsUnchanged(e.entries, selected) -> b
       [] selected = <<>> -> RemoveToolsAtPath(b, e.path)
       [] OTHER -> SetToolsAtPath(b, e.path, BuildToolsArray(selected))

\* A body beyond the limit is an error whatever the status.
PostSystemOne(r) == IF r.body = "toolarge" THEN [r EXCEPT !.status = 0] ELSE r

Conclude(r) ==
  LET parsed == ParseJevResponse(r, BuildQuestions(Len(asked)))
  IN IF r.status \in 200..299 /\ parsed.ok
     THEN out' = Filter(body, parsed.scores) /\ phase' = "done" /\ usage' = r.usage
     ELSE HandleFailure(body) /\ UNCHANGED usage

\* One attempt; the first one is repeated when the service is overloaded.
Evaluate(raw) ==
  /\ phase = "calling"
  /\ LET r == PostSystemOne(raw)
     IN /\ reply' = r
        /\ IF r.status \in {429, 529} /\ reply.status = Missing
           THEN phase' = "backoff" /\ UNCHANGED <<out, usage>>
           ELSE Conclude(r)
  /\ UNCHANGED <<conf, body, asked>>

Retry == phase = "backoff" /\ phase' = "calling" /\ UNCHANGED <<conf, body, asked, reply, out, usage>>

\* The deadline, or the request, ends during the backoff.
TimedOut == phase = "backoff" /\ HandleFailure(body) /\ UNCHANGED <<conf, body, asked, reply, usage>>

Init ==
  /\ \E raw \in RawParams : conf = GetPolicy(raw)
  /\ phase = IF conf.ok THEN "request" ELSE "unconfigured"
  /\ body = Nothing /\ asked = <<>> /\ reply = [status |-> Missing] /\ out = Nothing /\ usage = Missing

Next ==
  \/ \E b \in Bodies : OnRequestBody(b)
  \/ \E r \in Replies : Evaluate(r)
  \/ Retry
  \/ TimedOut

Spec == Init /\ [][Next]_vars

---------------------------------------------------------------------------
\* Properties

\* What an LLM provider reads.
ToolsAt(b, path) == LET v == Walk(b, path) IN IF v.k \in {"array", "string"} THEN v.items ELSE <<>>

ToolName(t) == LET own == Str(Get(t, "name")) IN IF own # <<>> THEN own ELSE Str(Get(Get(t, "function"), "name"))

Names(tools, name) == \E t \in Range(tools) : ToolName(t) = name

\* The service said something about tool i, and only one thing.
Said(i) == {reply.answers[j].noul : j \in {j \in DOMAIN reply.answers : reply.answers[j].id = i}}
Score(i) == CHOOSE s \in Said(i) : TRUE

\* A request is filtered as a whole or not at all, and stays one the provider
\* accepts.  It changes only if the service gave each of its tools one score and
\* no tool call is in progress.  What is left are tools of the request, none of
\* them less relevant than one that is gone, unless the request names it; within
\* the limit, or all that reach the threshold.  A tool the request names or a
\* tool it needs stays; without tools nothing speaks of tools any more (an array
\* in an array has no field to remove); and all else is as the client sent it.
FilteredRequestDue ==
  (phase = "done" /\ body.k = "object") =>
    LET path == ParseToolsJSONPath(conf.user.tools).array
        before == ToolsAt(body, path)
        after == ToolsAt(out, path)
        choice == ReadToolChoice(body, path)
        home(b) == ResolveToolsPath(b, path)
        gone == {i \in DOMAIN before : before[i] \notin Range(after)}
        merit == {i \in (DOMAIN before) \ gone : choice.name = <<>> \/ TrimSpace(ToolName(before[i])) # choice.name}
    IN /\ out # body =>
            /\ ~HasToolCallHistory(body, path)
            /\ reply.status \in 200..299 /\ \A i \in DOMAIN before : Cardinality(Said(i)) = 1 /\ Score(i) \in 0..One
            /\ \A i \in merit, j \in gone : Score(i) >= Score(j)
            /\ conf.user.mode = "threshold" => \A j \in gone : Score(j) < conf.user.threshold
            /\ conf.user.mode = "rank" =>
                 Len(after) <= Max({conf.user.limit, Cardinality(DOMAIN before \ (gone \union merit)), IF choice.required THEN 1 ELSE 0})
            /\ \A key \in (DOMAIN home(body).of) \ (Companions \union {Last(path).key}) : Get(home(out), key) = Get(home(body), key)
       /\ Range(after) \subseteq Range(before) /\ Len(after) <= Len(before)
       /\ Names(before, choice.name) => Names(after, choice.name)
       /\ choice.required /\ before # <<>> => after # <<>>
       /\ (before # <<>> /\ after = <<>> /\ Last(path).index = NoIndex) =>
            Companions \intersect DOMAIN home(out).of = {}

=============================================================================
