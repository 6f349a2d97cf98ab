--------------------------- MODULE GuardrailText ---------------------------
(***************************************************************************)
(* Text as the guardrail policies see it.  Assistant text is a sequence of *)
(* symbols: "_" is white space, "." ends a sentence, "h" and "t" are the   *)
(* two halves of the token http, "u" is a piece of a URL that starts as    *)
(* :// does and ends in no letter, "a" any other letter.                   *)
(*                                                                         *)
(* A response body is a sequence of lines.  A line has the tag of its SSE  *)
(* prefix ("data", "event", or "none" for a line of a plain body) and the  *)
(* form of its value: "json" (the configured JSONPath resolves to val),    *)
(* "raw" (not JSON, or the path does not resolve), "done" ([DONE]) and     *)
(* "blank".  A JSON value is a string, a scalar, an object (represented by *)
(* its content or text member, else its encoding), a list, or null.        *)
(***************************************************************************)
EXTENDS Integers, Sequences, FiniteSets, SequencesExt, FiniteSetsExt

Blank == "_"

Str(t) == [k |-> "str", t |-> t, items |-> <<>>]

Line(tag, form, v) == [tag |-> tag, form |-> form, val |-> v]

\* strings.TrimSpace.
TrimSpace(t) ==
  LET full == {i \in DOMAIN t : t[i] # Blank}
  IN IF full = {} THEN <<>> ELSE SubSeq(t, Min(full), Max(full))

\* Number of words: maximal runs of symbols that are not white space.
CountWords(t) ==
  Cardinality({i \in DOMAIN t : t[i] # Blank /\ (i = 1 \/ t[i - 1] = Blank)})

\* The segments of t between sentence terminators, by their first position.
SegmentEnd(t, i) == Min({j \in i..Len(t) : t[j] = "."} \union {Len(t) + 1}) - 1

SegmentStarts(t) == {i \in DOMAIN t : i = 1 \/ t[i - 1] = "."}

Segment(t, i) == SubSeq(t, i, SegmentEnd(t, i))

\* Number of sentences: segments that are not blank.
CountSentences(t) ==
  Cardinality({i \in SegmentStarts(t) : TrimSpace(Segment(t, i)) # <<>>})

\* The first five lines decide whether a chunk is SSE.
IsSSEChunk(ls) == \E i \in 1..Min({5, Len(ls)}) : ls[i].tag # "none"

HasDone(ls) == \E i \in DOMAIN ls : ls[i].tag = "data" /\ ls[i].form = "done"

\* The string fragments of a list are concatenated, other values give nothing.
JoinSSEFragments(v) ==
  CASE v.k = "str"  -> v.t
    [] v.k = "list" -> FlattenSeq([i \in DOMAIN v.items |->
                          IF v.items[i].k = "str" THEN v.items[i].t ELSE <<>>])
    [] OTHER        -> <<>>

LineDelta(l) ==
  CASE l.tag = "none" \/ l.form \in {"done", "blank"} -> <<>>
    [] l.form = "raw"  -> l.val.t
    [] l.form = "json" -> JoinSSEFragments(l.val)

\* Assistant text of the SSE events of a chunk.
ExtractSSEDeltaContent(ls) == FlattenSeq([i \in DOMAIN ls |-> LineDelta(ls[i])])

Extracted(t) == [ok |-> TRUE, t |-> t]

Failed == [ok |-> FALSE, t |-> <<>>]

\* The non-blank items of a list, trimmed and joined by a space.
JoinParts(items) ==
  LET parts == SelectSeq([i \in DOMAIN items |-> TrimSpace(items[i].t)], LAMBDA t : t # <<>>)
  IN IF parts = <<>> THEN Failed
     ELSE Extracted(Tail(FlattenSeq([i \in DOMAIN parts |-> <<Blank>> \o parts[i]])))

\* The value the JSONPath selects, as text; null is an error here.
NormalizeExtractedValue(v) ==
  CASE v.k \in {"str", "num", "obj"} -> Extracted(v.t)
    [] v.k = "list" -> JoinParts(v.items)
    [] OTHER -> Failed

\* A plain body: its lines together are the document, and the document has one
\* selected value, which may arrive in several pieces of a string.
BodyValue(ls) ==
  LET full == SelectSeq(ls, LAMBDA l : l.form # "blank")
  IN IF Len(full) = 1 THEN full[1].val
     ELSE Str(FlattenSeq([i \in DOMAIN full |-> full[i].val.t]))

IsBlankBody(ls) == \A i \in DOMAIN ls : ls[i].tag = "none" /\ ls[i].form = "blank"

\* The body parses and the path resolves.
IsDocument(ls) == /\ ~IsBlankBody(ls)
                  /\ \A i \in DOMAIN ls : ls[i].tag = "none" /\ ls[i].form \in {"json", "blank"}

\* What the policies that fall back on normalisation extract from a body.
ExtractStringFromJSONPath(ls) ==
  IF IsDocument(ls) THEN NormalizeExtractedValue(BodyValue(ls)) ELSE Failed

\* utils.ExtractStringValueFromJsonpath of the SDK: strings only.
ExtractStringValue(ls) ==
  IF IsDocument(ls) /\ BodyValue(ls).k = "str" THEN Extracted(BodyValue(ls).t) ELSE Failed

\* Answers of a handler, with the metadata it leaves in the stream context.
Forward(meta)   == [act |-> "forward", meta |-> meta]
Terminate(meta) == [act |-> "terminate", meta |-> meta]
Replace(meta)   == [act |-> "replace", meta |-> meta]

NoMeta == [acc |-> <<>>, json |-> <<>>]

\* A configuration number: absent, a whole number, a number in a string, a
\* fraction or something else.
IntOK(v) == v.k \in {"whole", "text"}

=============================================================================
