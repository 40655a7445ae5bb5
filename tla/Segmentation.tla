----------------------------- MODULE Segmentation -----------------------------
(***************************************************************************)
(* Segmenter.segment (app/documents/segmentation.py): a document's text is *)
(* cut into overlapping segments, at a break where there is one near the   *)
(* end of a segment.  One step is one round of the loop.  Offsets count    *)
(* from 0, as in the code; [start, end) is the range of a segment.         *)
(***************************************************************************)
EXTENDS Integers, Sequences

CONSTANTS
    Texts,          \* the texts to cut: sequences of characters
    Patterns,       \* _BREAK_PATTERNS, the preferred one first
    Sizes           \* the settings: [max, overlap], in characters

ASSUME SizeAssumption ==
    Sizes \subseteq {s \in [max : Nat \ {0}, overlap : Nat] : s.overlap < s.max}
ASSUME PatternAssumption ==
    \A n \in DOMAIN Patterns : n \in Nat /\ Len(Patterns[n]) \in Nat \ {0}
ASSUME TextAssumption == \A text \in Texts : Len(text) \in Nat \ {0}

VARIABLES
    text, size,
    start,          \* where the next segment begins
    previousEnd,    \* where the last one ended
    segments,       \* the segments so far
    cutting         \* whether the loop goes on

segmentationVars == <<text, size, start, previousEnd, segments, cutting>>

SegmentationInit ==
    /\ text \in Texts /\ size \in Sizes
    /\ start = 0 /\ previousEnd = 0
    /\ segments = {} /\ cutting = TRUE

\* The end of the last occurrence of the n-th pattern that lies whole in [floor, limit).
Ends(n, floor, limit) ==
    {e \in floor + Len(Patterns[n]) .. limit : SubSeq(text, e - Len(Patterns[n]) + 1, e) = Patterns[n]}
LastOf(ends) == CHOOSE e \in ends : \A f \in ends : f <= e

\* No farther back than a quarter of the segment, and never an empty segment.
Floor == IF (3 * size.max) \div 4 > 1 THEN (3 * size.max) \div 4 ELSE 1

\* The first pattern whose last occurrence ends beyond the segment before this one.
AnyBreak(floor, limit) == {n \in DOMAIN Patterns : Ends(n, floor, limit) # {}}      \* mutant
Usable(floor, limit) ==
    {n \in DOMAIN Patterns : Ends(n, floor, limit) # {} /\ LastOf(Ends(n, floor, limit)) > previousEnd}

EndOfSegment ==
    LET limit == start + size.max
        usable == Usable(start + Floor, limit)
    IN  CASE limit >= Len(text) -> Len(text)
          [] limit < Len(text) /\ usable = {} -> limit
          [] OTHER -> LastOf(Ends(CHOOSE n \in usable : \A m \in usable : n <= m,
                                start + Floor, limit))

Later(a, b) == IF a > b THEN a ELSE b
Cut ==
    /\ cutting
    /\ segments' = segments \cup {[start |-> start, end |-> EndOfSegment]}
    /\ cutting' = (EndOfSegment < Len(text))
    /\ IF cutting' THEN /\ start' = Later(EndOfSegment - size.overlap, start + 1)
                        /\ previousEnd' = EndOfSegment
                   ELSE UNCHANGED <<start, previousEnd>>
    /\ UNCHANGED <<text, size>>

SegmentationSpec == SegmentationInit /\ [][Cut]_segmentationVars
-----------------------------------------------------------------------------
\* Every segment but the last is longer than the overlap: it is cut no farther back
\* than Floor.
Roomy == size.overlap <= Floor

\* What is cut so far covers the text up to the end of the last segment without a gap;
\* segments begin and end one after the other, so that none lies in another; none is
\* empty or longer than its limit; and a value no longer than the overlap lies whole in
\* one of them, wherever the cuts fall, as long as the overlap leaves room for the
\* search for a break (segmentation.py:140-145, 175-187, config/settings.py:220-228).
Covered == IF cutting THEN previousEnd ELSE Len(text)
Within(a, b) == \E s \in segments : s.start <= a /\ b <= s.end
SegmentsCoverText ==
    /\ \A s \in segments : s.start < s.end /\ s.end <= Covered /\ s.end - s.start <= size.max
    /\ \A s, t \in segments : s.start < t.start <=> s.end < t.end
    /\ \A a \in 0..Covered - 1 : Within(a, a + 1)
    /\ Roomy => \A a \in 0..Covered - 1 : \A b \in a + 1 .. a + size.overlap :
                  b <= Covered => Within(a, b)
=============================================================================
