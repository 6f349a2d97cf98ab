-------------------------- MODULE GuardrailStream --------------------------
(***************************************************************************)
(* One exchange through one of the five text guardrails.  The policy       *)
(* engine (external) hands over the request body, then the response either *)
(* buffered or in chunks: it keeps chunks back while the policy asks for   *)
(* more data and otherwise passes on what it holds, the last time with     *)
(* EndOfStream set, which may come with the last bytes, with white space   *)
(* or with no bytes at all.                                                *)
(***************************************************************************)
EXTENDS PatternGuardrails

CONSTANTS RawPolicies,   \* [kind -> set of raw configurations]
          Events,        \* [kind -> set of SSE lines]
          Pieces,        \* [kind -> set of lines of a plain body]
          MaxLines       \* bound on the lines of one response

VARIABLES kind, pol, phase, shape, buf, meta, sent, total, last

vars == <<kind, pol, phase, shape, buf, meta, sent, total, last>>

BlankLine == Line("none", "blank", Str(<<>>))

GetPolicy(k, raw) ==
  CASE k = "word"     -> WordNewPolicy(raw)
    [] k = "sentence" -> SentenceGetPolicy(raw)
    [] k = "length"   -> LengthGetPolicy(raw)
    [] k = "url"      -> UrlGetPolicy(raw)
    [] k = "regex"    -> RegexGetPolicy(raw)

OnRequestBody(ls) ==
  CASE kind = "word"     -> WordOnRequestBody(pol, ls)
    [] kind = "sentence" -> SentenceOnRequestBody(pol, ls)
    [] kind = "length"   -> LengthOnRequestBody(pol, ls)
    [] kind = "url"      -> UrlOnRequestBody(pol, ls)
    [] kind = "regex"    -> RegexOnRequestBody(pol, ls)

OnResponseBody(ls) ==
  CASE kind = "word"     -> WordOnResponseBody(pol, ls)
    [] kind = "sentence" -> SentenceOnResponseBody(pol, ls)
    [] kind = "length"   -> LengthOnResponseBody(pol, ls)
    [] kind = "url"      -> UrlOnResponseBody(pol, ls)
    [] kind = "regex"    -> RegexOnResponseBody(pol, ls)

NeedsMoreResponseData(ls) ==
  CASE kind = "word"     -> WordNeedsMoreResponseData(pol, ls)
    [] kind = "sentence" -> SentenceNeedsMoreResponseData(pol, ls)
    [] kind = "length"   -> LengthNeedsMoreResponseData(pol, ls)
    [] kind = "url"      -> UrlNeedsMoreResponseData(pol, ls)
    [] kind = "regex"    -> RegexNeedsMoreResponseData(pol, ls)

OnResponseBodyChunk(c) ==
  CASE kind = "word"     -> WordOnResponseBodyChunk(pol, meta, c)
    [] kind = "sentence" -> SentenceOnResponseBodyChunk(pol, meta, c)
    [] kind = "length"   -> LengthOnResponseBodyChunk(pol, meta, c)
    [] kind = "url"      -> UrlOnResponseBodyChunk(pol, meta, c)
    [] kind = "regex"    -> RegexOnResponseBodyChunk(pol, meta, c)

Init ==
  /\ kind \in DOMAIN RawPolicies
  /\ \E raw \in RawPolicies[kind] : pol = GetPolicy(kind, raw)
  /\ phase = IF pol.ok THEN "request" ELSE "unconfigured"
  /\ shape = "none" /\ last = "none"
  /\ buf = <<>> /\ meta = NoMeta /\ sent = <<>> /\ total = <<>>

Request(ls) ==
  /\ phase = "request"
  /\ phase' = IF OnRequestBody(ls) THEN "upstream" ELSE "refused"
  /\ UNCHANGED <<kind, pol, shape, buf, meta, sent, total, last>>

\* The chain buffers the response: the policy sees the whole body once.
Buffered(ls) ==
  /\ phase = "upstream"
  /\ phase' = IF OnResponseBody(ls) THEN "done" ELSE "refused"
  /\ total' = ls
  /\ UNCHANGED <<kind, pol, shape, buf, meta, sent, last>>

StartStream(s) ==
  /\ phase = "upstream"
  /\ phase' = "stream" /\ shape' = s
  /\ UNCHANGED <<kind, pol, buf, meta, sent, total, last>>

\* The engine adds ls to what it holds and passes it on unless the policy wants more.
Deliver(ls, eos) ==
  LET held == buf \o ls
      r    == OnResponseBodyChunk([lines |-> held, eos |-> eos])
  IN /\ total' = total \o ls
     /\ IF ~eos /\ NeedsMoreResponseData(held)
        THEN buf' = held /\ UNCHANGED <<meta, sent, phase>>
        ELSE /\ buf' = <<>> /\ meta' = r.meta
             /\ sent' = IF r.act = "forward" THEN sent \o held ELSE sent
             /\ phase' = IF r.act = "forward" THEN (IF eos THEN "done" ELSE phase) ELSE "cut"

Chunk(l) ==
  /\ phase = "stream" /\ ~HasDone(total)
  /\ Len(total) < MaxLines
  /\ l \in IF shape = "sse" THEN Events[kind] ELSE Pieces[kind]
  /\ Deliver(<<l>>, FALSE)
  /\ UNCHANGED <<kind, pol, shape, last>>

\* EndOfStream on the last bytes, on white space or on an empty chunk.
LastChunk(ls, form) ==
  /\ phase = "stream" /\ total # <<>>
  /\ CASE form = "bytes" -> /\ ~HasDone(total) /\ Len(total) < MaxLines
                            /\ \E l \in IF shape = "sse" THEN Events[kind] ELSE Pieces[kind] : ls = <<l>>
       [] form = "blank" -> ls = <<BlankLine>>
       [] form = "empty" -> ls = <<>>
  /\ last' = IF form = "empty" /\ buf # <<>> THEN "bytes" ELSE form
  /\ Deliver(ls, TRUE)
  /\ UNCHANGED <<kind, pol, shape>>

Next ==
  \/ \E ls \in {<<>>} \union {<<l>> : l \in Pieces[kind]} : Request(ls)
  \/ \E ls \in {<<l>> : l \in Pieces[kind] \union Events[kind]} : Buffered(ls)
  \/ \E s \in {"sse", "plain"} : StartStream(s)
  \/ \E l \in Pieces[kind] \union Events[kind] : Chunk(l)
  \/ \E l \in Pieces[kind] \union Events[kind] : LastChunk(<<l>>, "bytes")
  \/ LastChunk(<<BlankLine>>, "blank")
  \/ LastChunk(<<>>, "empty")

Spec == Init /\ [][Next]_vars

---------------------------------------------------------------------------
Text(ls) == ExtractSSEDeltaContent(ls)

Count(t) == CASE kind = "word"     -> CountWords(t)
              [] kind = "sentence" -> CountSentences(t)
              [] kind = "length"   -> Len(t)

\* What the configuration demands of the whole assistant text.
Accepts(t) ==
  CASE kind \in {"word", "sentence", "length"} -> Passes(Count(t), pol.response)
    [] kind = "url"   -> UrlValidateText(t, pol.response)
    [] kind = "regex" -> IF pol.response.invert THEN ~RegexMatches(t) ELSE t = <<>> \/ RegexMatches(t)

Streamed == shape = "sse" /\ pol.ok /\ On(pol.response)

\* Where the gate of the url guardrail sees no URL: an event ends within the letters
\* of http, or within a URL that follows a letter.
CutUnseen ==
  LET t    == Text(total)
      ends == {Len(Text(SubSeq(total, 1, k))) : k \in 0..Len(total)}
  IN \E i \in UrlMatches(t) :
       \/ i \in ends
       \/ i > 1 /\ t[i - 1] \in Letters /\ \E n \in ends : i <= n /\ n < RunEnd(t, i)

\* However an SSE response is cut into chunks and whatever the engine held
\* back, the exchange completes exactly when the text as a whole satisfies the
\* configuration.  For the url guardrail this takes a URL that no event cuts where
\* the gate sees none.  Two endings are left out, where the packages differ from
\* each other and from their comments: EndOfStream on an empty chunk, and on
\* white space for the three policies that parse the white space as a body.
VerdictOfWholeText ==
  (/\ Streamed /\ phase \in {"done", "cut"}
   /\ last = "empty" => phase = "cut"
   /\ last = "blank" => kind \in {"word", "sentence"}
   /\ kind = "url" => ~CutUnseen)
  => (phase = "done" <=> Accepts(Text(total)))

\* Gate-then-stream: while no [DONE] was seen, what a client of a count
\* guardrail has received is already inside the limits that later chunks cannot
\* repair: at least min (above max when inverted), and never more than max.
GateHolds ==
  (kind \in {"word", "sentence", "length"} /\ Streamed /\ sent # <<>> /\ phase = "stream")
  => LET n == Count(Text(sent)) IN
     IF pol.response.invert THEN ~HasDone(total) => n > pol.response.max
     ELSE n <= pol.response.max /\ (~HasDone(total) => n >= pol.response.min)

=============================================================================
