------------------------------ MODULE TextEdit ------------------------------
(***************************************************************************)
(* Editing text, a sequence of symbols: what the masking policies use of   *)
(* Go's strings package.                                                   *)
(***************************************************************************)
EXTENDS Integers, Sequences, FiniteSets, SequencesExt, FiniteSetsExt

Occurs(w, t) == \E i \in 1..(Len(t) - Len(w) + 1) : SubSeq(t, i, i + Len(w) - 1) = w

\* strings.ReplaceAll.
ReplaceText(t, w, r) ==
  LET f[i \in 1..(Len(t) + Len(w) + 1)] ==
        CASE i > Len(t) -> <<>>
          [] i + Len(w) - 1 <= Len(t) /\ SubSeq(t, i, i + Len(w) - 1) = w -> r \o f[i + Len(w)]
          [] OTHER -> <<t[i]>> \o f[i + 1]
  IN f[1]

\* Longest value first, so that a value inside another one does not break it.
LongestFirst(S) == SetToSortSeq(S, LAMBDA v, w : Len(v) > Len(w))

ShortestFirst(S) == SetToSortSeq(S, LAMBDA v, w : Len(v) < Len(w))

MaskInOrder(t, m, order) == FoldLeft(LAMBDA acc, w : ReplaceText(acc, w, m[w]), t, order)

=============================================================================
