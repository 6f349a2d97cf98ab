----------------------------- MODULE PiiMasking -----------------------------
(***************************************************************************)
(* pii-masking-regex.  The request's text is masked (every PII value is    *)
(* replaced by a placeholder that is remembered in the request metadata)   *)
(* or redacted; the response is restored, in one piece or chunk by chunk.  *)
(*                                                                         *)
(* Text is a sequence of symbols.  A placeholder "[EMAIL_0001]" is the     *)
(* four symbols bracket, entity name, counter, bracket, so that a stream   *)
(* can cut it.  A detector is the set of texts its expression matches.     *)
(***************************************************************************)
EXTENDS TextEdit

CONSTANTS Detectors,      \* [entity name -> set of PII texts]
          RawParams,      \* configurations: custom detectors, built-in ones
          Contents,       \* request texts
          Counters,       \* the symbols of the counters 0, 1, ...
          MaxTail,        \* maxPlaceholderTailBytes, in symbols
          MaxEvent        \* symbols one SSE event may carry

VARIABLES redact, phase, content, form, piiMap, upstream, reply, held, out

vars == <<redact, phase, content, form, piiMap, upstream, reply, held, out>>

Star == <<"*">>

\* Configuration: at least one detector, entity names distinct, not empty and
\* made of letters and underscores, expressions not empty and compilable.
ParseParams(raw) ==
  LET names == [i \in DOMAIN raw.custom |-> raw.custom[i].name] \o SetToSeq(raw.builtin)
  IN /\ \A i \in DOMAIN raw.custom : raw.custom[i].nameOk /\ raw.custom[i].regexOk
     /\ IsInjective(names) /\ names # <<>> /\ ~raw.illTyped

---------------------------------------------------------------------------
\* Request

\* The distinct values some detector finds in t.
Matches(t) == UNION {{w \in Detectors[k] : Occurs(w, t)} : k \in DOMAIN Detectors}

\* The placeholders a run may give them: the detectors are visited in map order,
\* the counter numbers the distinct values.
Assignments(t) ==
  {[w \in Matches(t) |-> <<"[", p[w][1], p[w][2], "]">>] :
     p \in {p \in [Matches(t) -> (DOMAIN Detectors) \X {Counters[i] : i \in 1..Cardinality(Matches(t))}] :
              /\ \A w \in Matches(t) : w \in Detectors[p[w][1]]
              /\ \A v, w \in Matches(t) : v # w => p[v][2] # p[w][2]}}

MaskShortestFirst(t, m) == MaskInOrder(t, m, ShortestFirst(DOMAIN m))

MaskPIIFromContent(t, m) == MaskInOrder(t, m, LongestFirst(DOMAIN m))

\* Detector after detector in map order, each over what the previous ones left.
RedactPIIFromContent(t, order) ==
  FoldLeft(LAMBDA acc, k : FoldLeft(LAMBDA a, w : ReplaceText(a, w, Star), acc,
                                    SetToSeq(Detectors[k])), t, order)

\* What the path yields: an extraction error answers with an error; a value that
\* is no text leaves the body and the metadata alone; a text is masked or
\* redacted, and the body is left as it came where nothing was found or where
\* the text cannot be written back ("unwritable": the path cannot be set, the
\* document cannot be marshalled).
PayloadForms == {"text", "unwritable", "other", "error"}

OnRequestBody(f) ==
  /\ phase = "request"
  /\ form' = f
  /\ phase' = IF f = "error" THEN "failed" ELSE "upstream"
  /\ IF f \in {"text", "unwritable"} /\ ~redact
     THEN piiMap' \in Assignments(content)
     ELSE UNCHANGED piiMap
  /\ CASE f = "error"                -> UNCHANGED upstream
       [] f \in {"other", "unwritable"} -> upstream' = content
       [] f = "text" /\ redact        -> \E order \in SetToSeqs(DOMAIN Detectors) :
                                           upstream' = RedactPIIFromContent(content, order)
       [] f = "text" /\ ~redact       -> upstream' = MaskPIIFromContent(content, piiMap')
  /\ UNCHANGED <<redact, content, reply, held, out>>

---------------------------------------------------------------------------
\* Response

\* restore: every placeholder of the map, whole, anywhere in the text.
Restore(t, m) == FoldLeft(LAMBDA acc, w : ReplaceText(acc, m[w], w), t, SetToSeq(DOMAIN m))

\* Waiting only for the event after the bracket.
CouldCompleteOneEvent(t) == t # <<>> /\ Last(t) = "["

\* Text after the last open bracket that may still become a placeholder: the
\* name and at most the digits of the counter.
CouldCompletePlaceholder(t) ==
  LET open == {i \in DOMAIN t : t[i] = "["}
      tail == SubSeq(t, Max(open) + 1, Len(t))
      names == DOMAIN Detectors
  IN /\ open # {}
     /\ \A i \in DOMAIN tail : tail[i] # "]"
     /\ Len(tail) <= MaxTail
     /\ \E n \in 0..Len(tail) : /\ \A i \in 1..n : tail[i] \in names
                                /\ Len(tail) - n <= 1
                                /\ \A i \in (n + 1)..Len(tail) : tail[i] \in Range(Counters)

\* An SSE event carries text, or none ("[DONE]", a finish reason); closed is
\* false when the bytes received stop inside the event.
ExtractSSEDeltaContent(es) ==
  FlattenSeq([i \in DOMAIN es |-> IF es[i].closed THEN es[i].t ELSE <<>>])

EndsAtSSEEventBoundary(es) == es # <<>> => Last(es).closed

NeedsMoreResponseData(es) ==
  /\ ~redact
  /\ ~EndsAtSSEEventBoundary(es) \/ CouldCompletePlaceholder(ExtractSSEDeltaContent(es))

\* The first event with text gets all the restored text, the later ones are
\* removed with their field lines; events without text stay where they are.
RestoreSSEChunk(es, m) ==
  LET full  == ExtractSSEDeltaContent(es)
      texts == {i \in DOMAIN es : es[i].closed /\ es[i].t # <<>>}
  IN IF texts = {} \/ Restore(full, m) = full THEN es
     ELSE SelectSeq([i \in DOMAIN es |->
                       CASE i = Min(texts) -> [es[i] EXCEPT !.t = Restore(full, m)]
                         [] i \in texts \ {Min(texts)} -> [es[i] EXCEPT !.t = <<"drop">>]
                         [] OTHER -> es[i]],
                    LAMBDA e : e.t # <<"drop">>)

\* No map, redaction or no bytes: the chunk is forwarded as it is.
OnResponseBodyChunk(es) ==
  IF redact \/ DOMAIN piiMap = {} \/ es = <<>> THEN es ELSE RestoreSSEChunk(es, piiMap)

\* A buffered response: SSE as above, JSON restored in its choices or as text.
OnResponseBody ==
  /\ phase = "upstream"
  /\ phase' = "done"
  /\ out' = <<[t |-> IF redact \/ DOMAIN piiMap = {} THEN upstream ELSE Restore(upstream, piiMap),
               closed |-> TRUE]>>
  /\ UNCHANGED <<redact, content, form, piiMap, upstream, reply, held>>

\* The model answers with the text it was given, token by token (external).
StartReply ==
  /\ phase = "upstream"
  /\ phase' = "stream" /\ reply' = upstream
  /\ UNCHANGED <<redact, content, form, piiMap, upstream, held, out>>

\* The engine holds what the policy asks it to hold (external).
Deliver(es, eos) ==
  IF ~eos /\ NeedsMoreResponseData(es)
  THEN held' = es /\ UNCHANGED out
  ELSE held' = <<>> /\ out' = out \o OnResponseBodyChunk(es)

Event(n, closed) ==
  /\ phase = "stream" /\ n <= Len(reply) /\ EndsAtSSEEventBoundary(held)
  /\ reply' = SubSeq(reply, n + 1, Len(reply))
  /\ Deliver(Append(held, [t |-> SubSeq(reply, 1, n), closed |-> closed]), FALSE)
  /\ UNCHANGED <<redact, phase, content, form, piiMap, upstream>>

\* The rest of an event whose first bytes came alone.
CloseEvent ==
  /\ phase = "stream" /\ ~EndsAtSSEEventBoundary(held)
  /\ Deliver([held EXCEPT ![Len(held)].closed = TRUE], FALSE)
  /\ UNCHANGED <<redact, phase, content, form, piiMap, upstream, reply>>

EndOfStream ==
  /\ phase = "stream" /\ reply = <<>> /\ EndsAtSSEEventBoundary(held)
  /\ phase' = "done"
  /\ Deliver(Append(held, [t |-> <<>>, closed |-> TRUE]), TRUE)
  /\ UNCHANGED <<redact, content, form, piiMap, upstream, reply>>

Init ==
  /\ redact \in BOOLEAN /\ content \in Contents
  /\ \E raw \in RawParams : phase = IF ParseParams(raw) THEN "request" ELSE "unconfigured"
  /\ form = "unread" /\ piiMap = <<>>
  /\ upstream = <<>> /\ reply = <<>> /\ held = <<>> /\ out = <<>>

Next ==
  \/ \E f \in PayloadForms : OnRequestBody(f)
  \/ OnResponseBody
  \/ StartReply
  \/ \E n \in 1..MaxEvent, closed \in BOOLEAN : Event(n, closed)
  \/ CloseEvent
  \/ EndOfStream

Spec == Init /\ [][Next]_vars

---------------------------------------------------------------------------
\* No PII value of a text that could be read and written back leaves for the
\* upstream.  Masking hides every character of a value, also when a shorter
\* value is part of a longer one.  A value that is no text, and a payload that
\* cannot be updated, go on as they came: of those nothing is promised here.
UpstreamSeesNoPII ==
  (phase \in {"upstream", "stream", "done"} /\ form = "text") =>
    /\ Matches(upstream) = {}
    /\ ~redact => \A w \in Matches(content) : Range(w) \intersect Range(upstream) = {}

\* However the stream cuts the placeholders, the client reads the values it
\* sent, and the closing event is not lost.
ClientReadsOriginal ==
  (phase = "done" /\ upstream # <<>> /\ ~redact)
  => /\ ExtractSSEDeltaContent(out) = content
     /\ Len(out) > 1 => Last(out).t = <<>>

=============================================================================
