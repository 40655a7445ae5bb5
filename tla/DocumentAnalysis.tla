--------------------------- MODULE DocumentAnalysis ---------------------------
(***************************************************************************)
(* The work a document request hands to threads and processes: extraction  *)
(* in a child process, under the semaphore of SubprocessExtractionRunner   *)
(* (app/documents/extraction/runner.py), then detection of every segment,  *)
(* a thread each, in a TaskGroup under the semaphore of DocumentAnalyzer   *)
(* (app/documents/analysis/analyzer.py).  A coroutine that is cancelled    *)
(* gives its place in the semaphore back; its thread, and the child that   *)
(* thread waits for, run on.                                               *)
(*                                                                         *)
(* A text is a set of occurrences: places at which the detector may report *)
(* an entity, each with its score.  Two readings of the same characters    *)
(* are two occurrences that overlap; an occurrence that lies where two     *)
(* segments overlap is in both.                                            *)
(***************************************************************************)
EXTENDS Naturals, Sequences, FiniteSets

CONSTANTS
    Requests,       \* document requests
    Occurrences,    \* what may be detected in their texts
    Overlap,        \* the pairs of occurrences that share a character
    Hits,           \* what the detector may report: an occurrence with its score
    Documents,      \* which texts the requests' documents may have: sequences of
                    \* segments, which are sets of occurrences
    MaxWorkers,     \* extraction_max_workers
    Concurrency     \* document_detection_concurrency

ASSUME WorkerAssumption == MaxWorkers \in Nat \ {0} /\ Concurrency \in Nat \ {0}
ASSUME OverlapAssumption == \A o \in Occurrences : <<o, o>> \in Overlap
ASSUME HitAssumption == Hits \subseteq [of : Occurrences, score : Nat]
ASSUME DocumentAssumption == Documents \subseteq [Requests -> Seq(SUBSET Occurrences) \ {<<>>}]

VARIABLES
    document,       \* the text of each request's document
    child,          \* each request's child process
    part,           \* the detection of each segment of each request
    reported        \* history: the hits the detector has reported of each document

analysisVars == <<document, child, part, reported>>

Part(at, found) == [at |-> at, found |-> found]
Parts(r) == DOMAIN document[r]
All(r, at) == [s \in Parts(r) |-> Part(at, {})]

AnalysisInit ==
    /\ document \in Documents
    /\ child = [r \in Requests |-> "none"]
    /\ part = [r \in Requests |-> All(r, "over")]
    /\ reported = [r \in Requests |-> {}]

\* The places of the two semaphores that are taken.
Extracting == {r \in Requests : child[r] = "awaited"}
Running(r) == {s \in Parts(r) : part[r][s].at = "running"}
Detecting == UNION {{<<r, s>> : s \in Running(r)} : r \in Requests}

StartsChild(r) ==
    /\ Cardinality(Extracting) < MaxWorkers
    /\ child' = [child EXCEPT ![r] = "awaited"]
    /\ UNCHANGED <<document, part, reported>>

\* An answer, an end without one, or the timeout: the child is reaped all the same.
ReapsChild(r) ==
    /\ child[r] = "awaited"
    /\ child' = [child EXCEPT ![r] = "none"]

StartsDetection(r) == part' = [part EXCEPT ![r] = All(r, "waiting")]

\* What the detector may say of a text: no two hits of one text overlap.
Overlaps(o, k) == <<o, k>> \in Overlap
Reports(text) ==
    {hits \in SUBSET {h \in Hits : h.of \in text} :
        \A g, h \in hits : Overlaps(g.of, h.of) => g = h}

\* _detect_segment: a place, then the thread, which reports some of what is there.
TakeSegment(r, s) ==
    /\ part[r][s].at = "waiting" /\ Cardinality(Detecting) < Concurrency
    /\ part' = [part EXCEPT ![r][s].at = "running"]
    /\ UNCHANGED <<document, child, reported>>

SegmentDone(r, s) ==
    /\ s \in Running(r)
    /\ \E found \in Reports(document[r][s]) :
         /\ part' = [part EXCEPT ![r][s] = Part("done", found)]
         /\ reported' = [reported EXCEPT ![r] = @ \cup found]
    /\ UNCHANGED <<document, child>>

\* The results, promoted to the document and merged; of a hit that two segments
\* report, the higher score counts, so that it passes a threshold if one copy does.
PromotedFromFirst(r) == part[r][1].found                              \* mutant
Promoted(r) == UNION {part[r][s].found : s \in Parts(r)}
AllDetected(r) == \A s \in Parts(r) : part[r][s].at = "done"
Gathers(r) == AllDetected(r) /\ part' = [part EXCEPT ![r] = All(r, "over")]

\* The request is cancelled, or a sibling has failed.
Abandons(r) ==
    /\ child' = [child EXCEPT ![r] = IF @ = "awaited" THEN "abandoned" ELSE @]
    /\ part' = [part EXCEPT ![r] = [s \in Parts(r) |->
                  Part(IF @[s].at \in {"running", "abandoned"} THEN "abandoned" ELSE "over", {})]]

\* What was abandoned ends by itself: the thread reaps its child in its finally.
AbandonedChildEnds(r) ==
    /\ child[r] = "abandoned"
    /\ child' = [child EXCEPT ![r] = "none"]
    /\ UNCHANGED <<document, part, reported>>

AbandonedThreadEnds(r, s) ==
    /\ part[r][s].at = "abandoned"
    /\ part' = [part EXCEPT ![r][s].at = "over"]
    /\ UNCHANGED <<document, child, reported>>

NothingRuns(r) == child[r] = "none" /\ \A s \in Parts(r) : part[r][s].at = "over"
=============================================================================
