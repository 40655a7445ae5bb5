----------------------------- MODULE SpanSelection -----------------------------
(***************************************************************************)
(* From what the recognizers hit in each segment to the spans the splice   *)
(* acts on: finalize of the detector, with its thresholds and its overlap  *)
(* rule (app/detection), the merge of a document's segments (app/documents *)
(* /analysis/spans.py), and the tokenizer's own selection by its simpler   *)
(* rule (app/tokenization/selection.py).  A prompt is one segment, and its *)
(* detections go to the tokenizer as they are.                             *)
(*                                                                         *)
(* A hit is [type, start, end, score]; its offsets are those of the        *)
(* segment until they are promoted.                                        *)
(***************************************************************************)
EXTENDS Integers, Sequences, FiniteSets

CONSTANTS
    Types,
    Severity,       \* ENTITY_PRIORITY
    Name,           \* the types in the order of their names
    Threshold,      \* DetectionConfig.threshold_for
    MinScore,       \* PolicySnapshot.min_score_for
    MaxFound,       \* DetectionConfig.max_entities
    Inputs          \* [path, segments, hits]: where each segment starts, and its hits

ASSUME TypeAssumption ==
    /\ {Severity, Threshold, MinScore, Name} \subseteq [Types -> Int]
    /\ \A t, u \in Types : Name[t] = Name[u] => t = u

\* A span is never empty; the scores stand for their order.
Hits == {h \in [type : Types, start : Nat, end : Nat, score : Int] : h.start < h.end}
ASSUME InputAssumption ==
    \A i \in Inputs :
        /\ i.segments \in Seq(Nat) /\ i.hits \in Seq(SUBSET Hits)
        /\ DOMAIN i.hits = DOMAIN i.segments
        /\ \A s \in DOMAIN i.hits : IsFiniteSet(i.hits[s])
        /\ i.path = "document" \/ (i.path = "prompt" /\ Len(i.segments) = 1)

VARIABLES
    input,
    step,
    found,          \* what the detector reports of each segment, promoted
    labelled,       \* what the splice is asked to act on
    acted           \* what it acts on

selectionVars == <<input, step, found, labelled, acted>>

SelectionInit ==
    /\ input \in Inputs /\ step = "hits"
    /\ found = <<>> /\ labelled = {} /\ acted = {}

Overlaps(e, f) == e.start < f.end /\ f.start < e.end
Length(e) == e.end - e.start
Less(a, b) == \E i \in DOMAIN a : a[i] < b[i] /\ \A j \in 1..i - 1 : a[j] = b[j]

\* dominance_key, a total order; two hits that tie are one.
Dominance(e) == <<-Severity[e.type], -e.score, -Length(e), e.start, Name[e.type]>>
Better(e, f) == Less(Dominance(e), Dominance(f))

\* What a greedy loop keeps: a span is dropped for one that the loop met before it and
\* kept, if the two are in drops.
Kept(spans, drops) ==
    LET keeps[e \in spans] == \A k \in spans : <<k, e>> \in drops => ~keeps[k]
    IN  {e \in spans : keeps[e]}

\* resolve_overlaps of the detector: the best first, whatever overlaps nothing kept.
Dominated(spans) == {p \in spans \X spans : Better(p[1], p[2]) /\ Overlaps(p[1], p[2])}
ResolveOverlaps(spans) == Kept(spans, Dominated(spans))

\* finalize.
Reportable(hits) == {h \in hits : h.score >= Threshold[h.type]}
Promoted(spans, at) == {[e EXCEPT !.start = @ + at, !.end = @ + at] : e \in spans}
Detect ==
    /\ step = "hits"
    /\ LET resolved == [s \in DOMAIN input.hits |-> ResolveOverlaps(Reportable(input.hits[s]))]
       IN  IF \E s \in DOMAIN resolved : Cardinality(resolved[s]) > MaxFound
           THEN step' = "refused" /\ UNCHANGED found
           ELSE /\ step' = "found"
                /\ found' = [s \in DOMAIN resolved |-> Promoted(resolved[s], input.segments[s])]
    /\ UNCHANGED <<input, labelled, acted>>

\* coalesce: one detection of a value at a place, with the highest score of its copies.
Confident(spans) == {e \in spans : e.score >= MinScore[e.type]}
Detections == UNION {found[s] : s \in DOMAIN found}
SamePlace(e, f) == e.type = f.type /\ e.start = f.start /\ e.end = f.end
Coalesced(spans) == {e \in spans : \A f \in spans : SamePlace(e, f) => f.score <= e.score}

\* select_confident, then resolve; a prompt's detections are not merged with anything.
FilteredLast == Confident(ResolveOverlaps(Coalesced(Detections)))             \* mutant
Merged == ResolveOverlaps(Confident(Coalesced(Detections)))
Merge ==
    /\ step = "found" /\ step' = "labelled"
    /\ labelled' = IF input.path = "document" THEN Merged ELSE Detections
    /\ UNCHANGED <<input, found, acted>>

\* select_entities: confident spans by their start, the longer first, none that starts
\* before the end of one kept before it.
Earlier(e, f) ==
    Less(<<e.start, -Length(e), -e.score, Name[e.type]>>, <<f.start, -Length(f), -f.score, Name[f.type]>>)
Passed(spans) == {p \in spans \X spans : Earlier(p[1], p[2]) /\ p[2].start < p[1].end}
Selected(spans) == Kept(Confident(spans), Passed(Confident(spans)))
Splice ==
    /\ step = "labelled" /\ step' = "spliced"
    /\ acted' = Selected(labelled)
    /\ UNCHANGED <<input, found, labelled>>

SelectionNext == Detect \/ Merge \/ Splice
SelectionSpec == SelectionInit /\ [][SelectionNext]_selectionVars
-----------------------------------------------------------------------------
\* The splice acts on every confident span it is asked to act on, no two of which share
\* a character, so that the simpler rule never leaves the tail of one in the text; and
\* of what the detector reported with confidence of any segment, nothing is dropped but
\* for something that ranks as high and shares a character with it (protection.py:
\* 388-405, spans.py:29-36, overlap.py:17-41).
NothingIsDroppedForLess ==
    step = "spliced" =>
        /\ Confident(labelled) \subseteq acted
        /\ \A e, f \in acted : Overlaps(e, f) => e = f
        /\ \A e \in Confident(Detections) :
             \E a \in acted : Overlaps(a, e) /\ ~Better(e, a)

\* "Filtering first lets the DATE_TIME survive and be acted on" (spans.py:32-36): a hit
\* that clears the thresholds of the detector and of the policy shares a character with
\* something that is acted on.
ConfidentIsActedOn ==
    step = "spliced" =>
        \A s \in DOMAIN input.hits :
            \A h \in Promoted(Confident(Reportable(input.hits[s])), input.segments[s]) :
                \E a \in acted : Overlaps(a, h)
=============================================================================
