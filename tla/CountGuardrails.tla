-------------------------- MODULE CountGuardrails --------------------------
(***************************************************************************)
(* The word-count, sentence-count and content-length guardrails: how each  *)
(* reads its parameters and answers the request body, the buffered         *)
(* response body, the streaming gate and one response chunk.  The packages *)
(* are copies of one skeleton that have drifted apart; each definition     *)
(* follows its own package.                                                *)
(*                                                                         *)
(* A flow's parameters are [has, enabled, min, max, invert].  A raw        *)
(* configuration gives every parameter the form it has in the JSON.        *)
(***************************************************************************)
EXTENDS GuardrailText

Absent == [has |-> FALSE, enabled |-> FALSE, min |-> 0, max |-> 0, invert |-> FALSE]

Rejected == [ok |-> FALSE, request |-> Absent, response |-> Absent]

\* The range test every count guardrail applies, xor invert.
InRange(n, rp) == n >= rp.min /\ n <= rp.max

Passes(n, rp) == InRange(n, rp) # rp.invert

\* A gate that opens one count early.
GatedBelow(n, rp) == IF rp.invert THEN n < rp.max ELSE rp.min > 0 /\ n < rp.min - 1

\* The gate shared by the three NeedsMoreResponseData: an inverted range is
\* left only above max, a plain one is entered at min.
Gated(n, rp) == IF rp.invert THEN n <= rp.max ELSE rp.min > 0 /\ n < rp.min

On(f) == f.has /\ f.enabled

---------------------------------------------------------------------------
\* word-count-guardrail

WordExtractInt(v) == [ok |-> v.k \in {"whole", "text"}, n |-> v.n]

WordParseParams(raw, isResponse) ==
  LET off == raw.enabled = "false"
      min == WordExtractInt(raw.min)
      max == WordExtractInt(raw.max)
  IN [ok |-> /\ raw.enabled # "bad" /\ ~raw.illTyped
             /\ off \/ (min.ok /\ min.n >= 0 /\ max.ok /\ max.n > 0 /\ min.n <= max.n),
      params |-> [has |-> TRUE,
                  enabled |-> IF raw.enabled = "absent" THEN ~isResponse ELSE raw.enabled = "true",
                  min |-> IF off THEN 0 ELSE min.n,
                  max |-> IF off THEN 0 ELSE max.n,
                  invert |-> raw.invert]]

\* A flow that is missing or an empty object is absent; a non-object is an error.
WordGetFlowParams(raw) == [ok |-> raw.form # "bad", exists |-> raw.form = "object"]

WordNewPolicy(raw) ==
  LET flow(r, isResponse) ==
        IF WordGetFlowParams(r).exists THEN WordParseParams(r, isResponse)
        ELSE [ok |-> WordGetFlowParams(r).ok, params |-> Absent]
      req == flow(raw.request, FALSE)
      res == flow(raw.response, TRUE)
  IN IF req.ok /\ res.ok /\ (req.params.has \/ res.params.has)
     THEN [ok |-> TRUE, request |-> req.params, response |-> res.params] ELSE Rejected

\* Word-count alone reads null as the empty text.
WordNormalizeExtractedValue(v) ==
  IF v.k = "null" THEN Extracted(<<>>) ELSE NormalizeExtractedValue(v)

WordExtractString(ls) ==
  IF IsDocument(ls) THEN WordNormalizeExtractedValue(BodyValue(ls)) ELSE Failed

WordValidateWordCount(t, rp) == Passes(CountWords(t), rp)

WordValidatePayload(ls, rp) ==
  WordExtractString(ls).ok /\ Passes(CountWords(TrimSpace(WordExtractString(ls).t)), rp)

WordOnRequestBody(p, ls) == On(p.request) => WordValidatePayload(ls, p.request)

WordOnResponseBody(p, ls) ==
  On(p.response) => IF IsSSEChunk(ls)
                    THEN WordValidateWordCount(ExtractSSEDeltaContent(ls), p.response)
                    ELSE WordValidatePayload(ls, p.response)

WordNeedsMoreResponseData(p, ls) ==
  /\ On(p.response) /\ IsSSEChunk(ls) /\ ~HasDone(ls)
  /\ Gated(CountWords(ExtractSSEDeltaContent(ls)), p.response)

\* The last look at the text already streamed, when the stream ends in white space.
EndFails(n, rp) == IF rp.invert THEN InRange(n, rp) ELSE n < rp.min

WordOnResponseBodyChunk(p, meta, c) ==
  LET rp   == p.response
      full == [meta EXCEPT !.json = @ \o c.lines]
      acc  == [meta EXCEPT !.acc = @ \o ExtractSSEDeltaContent(c.lines)]
      n    == CountWords(acc.acc)
  IN CASE ~On(rp) \/ c.lines = <<>> -> Forward(meta)
       [] ~IsSSEChunk(c.lines) /\ ~c.eos -> Forward(full)
       [] ~IsSSEChunk(c.lines) /\ c.eos /\ IsBlankBody(full.json) ->
            IF EndFails(CountWords(meta.acc), rp) THEN Terminate(full) ELSE Forward(full)
       [] ~IsSSEChunk(c.lines) /\ c.eos /\ ~IsBlankBody(full.json) ->
            IF WordValidatePayload(full.json, rp) THEN Forward(full) ELSE Terminate(full)
       [] OTHER -> IF (~rp.invert /\ n > rp.max) \/ (c.eos /\ EndFails(n, rp))
                   THEN Terminate(acc) ELSE Forward(acc)

---------------------------------------------------------------------------
\* sentence-count-guardrail

\* extractSSEDeltaContent, extractInt, getFlowParams and parseParams are copies
\* of word-count's.
SentenceExtractSSEDelta(ls) == ExtractSSEDeltaContent(ls)

SentenceExtractInt(v) == WordExtractInt(v)

SentenceParseParams(raw, isResponse) == WordParseParams(raw, isResponse)

SentenceGetFlowParams(raw) == WordGetFlowParams(raw)

SentenceGetPolicy(raw) ==
  LET flow(r, isResponse) ==
        IF SentenceGetFlowParams(r).exists THEN SentenceParseParams(r, isResponse)
        ELSE [ok |-> SentenceGetFlowParams(r).ok, params |-> Absent]
      req == flow(raw.request, FALSE)
      res == flow(raw.response, TRUE)
  IN IF req.ok /\ res.ok /\ (req.params.has \/ res.params.has)
     THEN [ok |-> TRUE, request |-> req.params, response |-> res.params] ELSE Rejected

SentenceExtractString(ls) ==
  IF IsDocument(ls) THEN NormalizeExtractedValue(BodyValue(ls)) ELSE Failed

SentenceValidateText(t, rp) == Passes(CountSentences(t), rp)

\* The payload counts every non-empty segment, a blank one too.
SentencePayloadCount(t) == Cardinality({i \in SegmentStarts(t) : Segment(t, i) # <<>>})

SentenceValidatePayload(ls, rp) ==
  /\ SentenceExtractString(ls).ok
  /\ Passes(SentencePayloadCount(TrimSpace(SentenceExtractString(ls).t)), rp)

SentenceOnRequestBody(p, ls) == On(p.request) => SentenceValidatePayload(ls, p.request)

SentenceOnResponseBody(p, ls) ==
  On(p.response) => IF IsSSEChunk(ls)
                    THEN SentenceValidateText(SentenceExtractSSEDelta(ls), p.response)
                    ELSE SentenceValidatePayload(ls, p.response)

SentenceNeedsMoreResponseData(p, ls) ==
  /\ On(p.response) /\ IsSSEChunk(ls) /\ ~HasDone(ls)
  /\ Gated(CountSentences(SentenceExtractSSEDelta(ls)), p.response)

\* A failing plain body replaces the last chunk, it does not end the stream.
SentenceOnResponseBodyChunk(p, meta, c) ==
  LET rp   == p.response
      full == [meta EXCEPT !.json = @ \o c.lines]
      acc  == [meta EXCEPT !.acc = @ \o SentenceExtractSSEDelta(c.lines)]
      n    == CountSentences(acc.acc)
  IN CASE ~On(rp) \/ c.lines = <<>> -> Forward(meta)
       [] ~IsSSEChunk(c.lines) /\ ~c.eos -> Forward(full)
       [] ~IsSSEChunk(c.lines) /\ c.eos /\ IsBlankBody(full.json) ->
            IF EndFails(CountSentences(meta.acc), rp) THEN Terminate(full) ELSE Forward(full)
       [] ~IsSSEChunk(c.lines) /\ c.eos /\ ~IsBlankBody(full.json) ->
            IF SentenceValidatePayload(full.json, rp) THEN Forward(full) ELSE Replace(full)
       [] OTHER -> IF (~rp.invert /\ n > rp.max) \/ (c.eos /\ EndFails(n, rp))
                   THEN Terminate(acc) ELSE Forward(acc)

---------------------------------------------------------------------------
\* content-length-guardrail: the stream keeps a number of bytes (meta.acc is a
\* text of that length), the payload counts the bytes of the trimmed text.

LengthExtractSSEDelta(ls) == ExtractSSEDeltaContent(ls)

LengthExtractInt(v) == WordExtractInt(v)

LengthParseParams(raw, isResponse) == WordParseParams(raw, isResponse)

\* A flow that is not an object is ignored; an empty object is parsed (and refused).
LengthGetPolicy(raw) ==
  LET flow(r, isResponse) ==
        IF r.form \in {"object", "empty"} THEN LengthParseParams(r, isResponse)
        ELSE [ok |-> TRUE, params |-> Absent]
      req == flow(raw.request, FALSE)
      res == flow(raw.response, TRUE)
  IN IF req.ok /\ res.ok /\ (req.params.has \/ res.params.has)
     THEN [ok |-> TRUE, request |-> req.params, response |-> res.params] ELSE Rejected

LengthValidatePayload(ls, rp) ==
  /\ ExtractStringValue(ls).ok
  /\ Passes(Len(TrimSpace(ExtractStringValue(ls).t)), rp)

\* A missing request body is refused.
LengthOnRequestBody(p, ls) ==
  On(p.request) => ls # <<>> /\ LengthValidatePayload(ls, p.request)

\* The buffered path has no SSE branch.
LengthOnResponseBody(p, ls) == On(p.response) => LengthValidatePayload(ls, p.response)

LengthNeedsMoreResponseData(p, ls) ==
  /\ On(p.response) /\ IsSSEChunk(ls) /\ ~HasDone(ls)
  /\ Gated(Len(LengthExtractSSEDelta(ls)), p.response)

LengthOnResponseBodyChunk(p, meta, c) ==
  LET rp   == p.response
      full == [meta EXCEPT !.json = @ \o c.lines]
      acc  == [meta EXCEPT !.acc = @ \o LengthExtractSSEDelta(c.lines)]
      running == Len(acc.acc)
  IN CASE ~On(rp) \/ c.lines = <<>> -> Forward(meta)
       [] ~IsSSEChunk(c.lines) /\ ~c.eos -> Forward(full)
       [] ~IsSSEChunk(c.lines) /\ c.eos ->
            IF LengthValidatePayload(full.json, rp) THEN Forward(full) ELSE Terminate(full)
       [] OTHER -> IF (~rp.invert /\ running > rp.max) \/ (c.eos /\ ~Passes(running, rp))
                   THEN Terminate(acc) ELSE Forward(acc)

=============================================================================
