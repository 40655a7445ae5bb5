------------------------------- MODULE MCParts -------------------------------
(***************************************************************************)
(* The instances of the components that stand alone: Segmentation,         *)
(* SealedStream, SpanSelection, Extraction and RateLimiter.  A behaviour   *)
(* is one of them at work; the others have one initial state and stay in   *)
(* it.                                                                     *)
(***************************************************************************)
EXTENDS Segmentation, SealedStream, SpanSelection, Extraction, RateLimiter, TLC

CONSTANTS ssn, date, k1, k2, acme, r1, r2, r3

MCTexts == UNION {[1..n -> {"x", ".", " ", "nl"}] : n \in 1..7}
MCPatterns == <<<<"nl", "nl">>, <<"nl">>, <<".", " ">>, <<" ">>>>
Cutting(max, overlap) == [max |-> max, overlap |-> overlap]
MCSizes == {Cutting(1, 0), Cutting(3, 2), Cutting(4, 1), Cutting(5, 1), Cutting(5, 3), Cutting(5, 4), Cutting(6, 4)}

MCSeverity == ssn :> 2 @@ date :> 1
MCName == ssn :> 2 @@ date :> 1
MCThreshold == ssn :> 1 @@ date :> 2
MCMinScore == ssn :> 2 @@ date :> 1

Proper(n) == {h \in [type : {ssn, date}, start : 0..n - 1, end : 1..n, score : 1..2] : h.start < h.end}
UpToTwo(n) == {{}} \cup {{a, b} : a, b \in Proper(n)}
UpToThree(n) == {{}} \cup {{a, b, c} : a, b, c \in Proper(n)}
MCInputs ==
    {[path |-> "document", segments |-> <<0, 1>>, hits |-> <<a, b>>] :
        a \in UpToTwo(3), b \in UpToTwo(2)}
    \cup {[path |-> p, segments |-> <<0>>, hits |-> <<a>>] :
             p \in {"document", "prompt"}, a \in UpToThree(3)}

\* Files of up to three units, empty ones among them.
Unit(n, w) == [length |-> n, width |-> w]
Units == {Unit(0, 1), Unit(1, 1), Unit(2, 1), Unit(2, 3)}
MCFiles == [type : {"pdf", "docx"}, sound : BOOLEAN, units : UNION {[1..n -> Units] : n \in 0..3}]
           \cup [type : {"txt"}, sound : BOOLEAN, units : [1..1 -> Units]]

\* The two requests of one key are alike.
MCKeyOf == r1 :> k1 @@ r2 :> k2 @@ r3 :> k1
MCTenantOf == k1 :> acme @@ k2 :> acme
Symmetry == Permutations({r1, r3})

SegmentationIdle == text = <<"x">> /\ size = [max |-> 1, overlap |-> 0]
                    /\ start = 0 /\ previousEnd = 0 /\ segments = {} /\ cutting = TRUE
StreamIdle == length = 0 /\ chunk = 1 /\ StreamInit
SelectionIdle ==
    /\ input = [path |-> "prompt", segments |-> <<0>>, hits |-> <<{}>>] /\ step = "idle"
    /\ found = <<>> /\ labelled = {} /\ acted = {}
ExtractionIdle ==
    /\ file = [type |-> "txt", sound |-> FALSE, units |-> <<Unit(0, 1)>>]
    /\ ExtractionInit

PartsInit ==
    \/ SegmentationInit /\ StreamIdle /\ SelectionIdle /\ ExtractionIdle /\ Init
    \/ SegmentationIdle /\ StreamInit /\ SelectionIdle /\ ExtractionIdle /\ Init
    \/ SegmentationIdle /\ StreamIdle /\ SelectionInit /\ ExtractionIdle /\ Init
    \/ SegmentationIdle /\ StreamIdle /\ SelectionIdle /\ ExtractionInit /\ Init

\* Which part has moved; the others are as they were in the beginning.
textParts == <<segmentationVars, streamVars, selectionVars, extractionVars>>
Cuts == Cut /\ StreamIdle /\ SelectionIdle /\ ExtractionIdle /\ Init
        /\ UNCHANGED <<streamVars, selectionVars, extractionVars, vars>>
Streams == StreamNext /\ SegmentationIdle /\ SelectionIdle /\ ExtractionIdle /\ Init
           /\ UNCHANGED <<segmentationVars, selectionVars, extractionVars, vars>>
Selects == SelectionNext /\ Init /\ UNCHANGED <<segmentationVars, streamVars, extractionVars, vars>>
Extracts == ExtractionNext /\ SegmentationIdle /\ StreamIdle /\ SelectionIdle /\ Init
            /\ UNCHANGED <<segmentationVars, streamVars, selectionVars, vars>>
Limits == Next /\ SegmentationIdle /\ StreamIdle /\ SelectionIdle /\ ExtractionIdle /\ UNCHANGED textParts

PartsSpec == PartsInit /\ [][Cuts \/ Streams \/ Selects \/ Extracts \/ Limits]_<<textParts, vars>>
=============================================================================
