------------------------- MODULE PatternGuardrails -------------------------
(***************************************************************************)
(* The url and regex guardrails.  The network's verdict on a URL and the   *)
(* regular expression are constants: Resolvable and Reachable are sets of  *)
(* URLs, Pattern is a text that the expression matches literally.          *)
(***************************************************************************)
EXTENDS CountGuardrails

CONSTANTS Resolvable, Reachable, Pattern

---------------------------------------------------------------------------
\* url-guardrail: parameters [has, enabled, onlyDNS]

NoUrl == [has |-> FALSE, enabled |-> FALSE, onlyDNS |-> FALSE]

UrlExtractSSEDelta(ls) == ExtractSSEDeltaContent(ls)

UrlExtractInt(v) == [ok |-> v.k = "whole", n |-> v.n]

UrlParseParams(raw, defaultEnabled) ==
  [ok |-> /\ raw.enabled # "bad" /\ ~raw.illTyped
          /\ raw.timeout.k = "absent" \/ (UrlExtractInt(raw.timeout).ok /\ raw.timeout.n >= 0),
   params |-> [has |-> TRUE,
               enabled |-> IF raw.enabled = "absent" THEN defaultEnabled ELSE raw.enabled = "true",
               onlyDNS |-> raw.onlyDNS]]

\* An empty object is a flow with every default.
UrlGetFlowParams(raw) == [ok |-> raw.form # "bad", exists |-> raw.form \in {"object", "empty"}]

\* Unlike the other guardrails the request flow is off and the response on by default.
UrlGetPolicy(raw) ==
  LET flow(r, default) ==
        IF UrlGetFlowParams(r).exists THEN UrlParseParams(r, default)
        ELSE [ok |-> UrlGetFlowParams(r).ok, params |-> NoUrl]
      req == flow(raw.request, FALSE)
      res == flow(raw.response, TRUE)
  IN IF req.ok /\ res.ok /\ (req.params.has \/ res.params.has)
     THEN [ok |-> TRUE, request |-> req.params, response |-> res.params]
     ELSE [ok |-> FALSE, request |-> NoUrl, response |-> NoUrl]

\* A host without an address, an unparsable URL and a timeout all fail.
UrlCheckDNS(u) == u \in Resolvable

\* HEAD answered with 200..399 within the timeout.
UrlCheckURL(u) == u \in Reachable

RunEnd(t, i) == Min({j \in i..Len(t) : t[j] = Blank} \union {Len(t) + 1}) - 1

UrlStarts(t) == {i \in 1..(Len(t) - 2) : SubSeq(t, i, i + 2) = <<"h", "t", "u">>}

\* The matches of urlRegex, wherever they start: the token http, :// and on to the
\* next white space, so that a match hides those that start within it.
UrlMatches(t) == {i \in UrlStarts(t) : \A k \in UrlStarts(t) : k < i => RunEnd(t, k) < i}

UrlFindAll(t) == {SubSeq(t, i, RunEnd(t, i)) : i \in UrlMatches(t)}

UrlValidateText(t, rp) ==
  \A u \in UrlFindAll(TrimSpace(t)) : IF rp.onlyDNS THEN UrlCheckDNS(u) ELSE UrlCheckURL(u)

UrlNormalizeExtractedValue(v) == NormalizeExtractedValue(v)

UrlExtractString(ls) ==
  IF IsDocument(ls) THEN UrlNormalizeExtractedValue(BodyValue(ls)) ELSE Failed

UrlValidatePayload(ls, rp) ==
  UrlExtractString(ls).ok /\ UrlValidateText(UrlExtractString(ls).t, rp)

UrlOnRequestBody(p, ls) == On(p.request) => UrlValidatePayload(ls, p.request)

UrlOnResponseBody(p, ls) ==
  On(p.response) => IF UrlExtractSSEDelta(ls) # <<>>
                    THEN UrlValidateText(UrlExtractSSEDelta(ls), p.response)
                    ELSE UrlValidatePayload(ls, p.response)

\* What \w matches.
Letters == {"h", "t", "a"}

\* incompleteURLAtEnd: the text ends in the whole token http, or in a URL that has
\* started and met no white space; no letter precedes the token.
UrlIncompleteAtEnd(t) ==
  \E i \in 1..(Len(t) - 1) :
    /\ SubSeq(t, i, i + 1) = <<"h", "t">>
    /\ i = 1 \/ t[i - 1] \notin Letters
    /\ i + 1 = Len(t) \/ (t[i + 2] = "u" /\ RunEnd(t, i) = Len(t))

\* A gate that only waits after the bare token http.
UrlNeedsMoreToken(p, ls) ==
  /\ On(p.response) /\ ~HasDone(ls)
  /\ IsSuffix(<<"h", "t">>, UrlExtractSSEDelta(ls))

UrlNeedsMoreResponseData(p, ls) ==
  /\ On(p.response) /\ ~HasDone(ls)
  /\ UrlIncompleteAtEnd(UrlExtractSSEDelta(ls))

\* Only the text of this chunk is looked at: it is for the gate to keep a URL in one
\* chunk.
UrlOnResponseBodyChunk(p, meta, c) ==
  LET rp   == p.response
      full == [meta EXCEPT !.json = @ \o c.lines]
  IN CASE ~On(rp) \/ c.lines = <<>> -> Forward(meta)
       [] ~IsSSEChunk(c.lines) /\ ~c.eos -> Forward(full)
       [] ~IsSSEChunk(c.lines) /\ c.eos ->
            IF UrlValidatePayload(full.json, rp) THEN Forward(full) ELSE Terminate(full)
       [] OTHER -> IF UrlValidateText(UrlExtractSSEDelta(c.lines), rp)
                   THEN Forward(meta) ELSE Terminate(meta)

---------------------------------------------------------------------------
\* regex-guardrail: parameters [has, enabled, whole, invert]; whole is JSONPath "$"

NoRegex == [has |-> FALSE, enabled |-> FALSE, whole |-> FALSE, invert |-> FALSE]

RegexExtractSSEDelta(ls) == ExtractSSEDeltaContent(ls)

\* The pattern is required, not empty and compiles, unless the flow is disabled.
RegexParseParams(raw, defaultEnabled) ==
  [ok |-> /\ raw.enabled # "bad" /\ ~raw.illTyped
          /\ raw.enabled = "false" \/ raw.regex = "compiles",
   params |-> [has |-> TRUE,
               enabled |-> IF raw.enabled = "absent" THEN defaultEnabled ELSE raw.enabled = "true",
               whole |-> raw.whole, invert |-> raw.invert]]

RegexGetPolicy(raw) ==
  LET flow(r, default) ==
        IF r.form \in {"object", "empty"} THEN RegexParseParams(r, default)
        ELSE [ok |-> TRUE, params |-> NoRegex]
      req == flow(raw.request, TRUE)
      res == flow(raw.response, FALSE)
  IN IF req.ok /\ res.ok /\ (req.params.has \/ res.params.has)
     THEN [ok |-> TRUE, request |-> req.params, response |-> res.params]
     ELSE [ok |-> FALSE, request |-> NoRegex, response |-> NoRegex]

RegexMatches(t) ==
  \E i \in 0..(Len(t) - Len(Pattern)) : SubSeq(t, i + 1, i + Len(Pattern)) = Pattern

\* An empty payload passes; JSONPath "$" matches the bytes of the body itself.
RegexValidatePayload(ls, rp) ==
  LET value == IF rp.whole THEN Extracted(FlattenSeq([i \in DOMAIN ls |-> ls[i].val.t]))
               ELSE ExtractStringValue(ls)
  IN ls = <<>> \/ (value.ok /\ RegexMatches(value.t) # rp.invert)

RegexOnRequestBody(p, ls) == On(p.request) => RegexValidatePayload(ls, p.request)

RegexOnResponseBody(p, ls) == On(p.response) => RegexValidatePayload(ls, p.response)

RegexNeedsMoreResponseData(p, ls) == FALSE

RegexOnResponseBodyChunk(p, meta, c) ==
  LET rp   == p.response
      full == [meta EXCEPT !.json = @ \o c.lines]
      acc  == [meta EXCEPT !.acc = @ \o RegexExtractSSEDelta(c.lines)]
      matched == RegexMatches(acc.acc)
  IN CASE ~On(rp) \/ c.lines = <<>> -> Forward(meta)
       [] ~IsSSEChunk(c.lines) /\ ~c.eos -> Forward(full)
       [] ~IsSSEChunk(c.lines) /\ c.eos ->
            IF RegexValidatePayload(full.json, rp) THEN Forward(full) ELSE Terminate(full)
       [] OTHER -> IF (rp.invert /\ matched) \/ (~rp.invert /\ c.eos /\ acc.acc # <<>> /\ ~matched)
                   THEN Terminate(acc) ELSE Forward(acc)

=============================================================================
