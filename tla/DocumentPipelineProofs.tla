------------------------ MODULE DocumentPipelineProofs ------------------------
(***************************************************************************)
(* Proofs about DocumentPipeline, for any requests, documents, snapshots,  *)
(* ids and number of attempts.                                             *)
(*                                                                         *)
(* The argument: what is promoted to a document is what the detector has   *)
(* reported of it, as every segment adds to both when its thread ends; the *)
(* two messages are spliced from that and from what is sure of the         *)
(* instruction, under one snapshot; and the checks for blocked types look  *)
(* at all of it before the first batch.                                    *)
(***************************************************************************)
EXTENDS DocumentPipeline, FiniteSetTheorems, TLAPS

Steps == {"routing", "snapshot", "opening", "extraction", "detection", "instruction",
          "document", "note", "scan", "calling", "pause", "restoration", "audit", "done"}
Undetected == {"routing", "snapshot", "opening", "extraction"}
Unwritten == Undetected \cup {"detection", "instruction", "document"}
Unsent == Unwritten \cup {"note", "scan"}
Snapped == {"opening", "extraction", "detection", "instruction", "document", "note"}
Whole == {"scan", "calling", "pause"}

Kinds == {"plain", "redaction", "token"}
Pieces == [kind : Kinds, about : Occurrences \cup TokenIds \cup {None}]
Codes == {None, "ok", "outbound", "over", "blocked", "failed", "cancelled", "unaudited"}
Tasks == [step : Steps, routed : Policies \cup {None}, policy : Policies \cup {None},
          found : SUBSET Occurrences, sure : SUBSET Occurrences,
          payload : Seq(SUBSET Pieces), minted : SUBSET TokenIds, attempt : Nat,
          reply : SUBSET TokenIds, code : Codes]

Detections == [at : {"waiting", "running", "done", "abandoned", "over"}, found : SUBSET Hits]
AnalysisType ==
    /\ document \in [Requests -> Seq(SUBSET Occurrences) \ {<<>>}]
    /\ child \in [Requests -> {"none", "awaited", "abandoned"}]
    /\ \A r \in Requests : part[r] \in [Parts(r) -> Detections]
    /\ DOMAIN part = Requests
    /\ reported \in [Requests -> SUBSET Hits]

\* A value has one live id, whichever request needed it first.
VaultType ==
    /\ DOMAIN origin \subseteq TokenIds
    /\ \A i \in DOMAIN origin : origin[i] \in Values
    /\ live \subseteq DOMAIN origin
    /\ \A i, j \in live : origin[i] = origin[j] => i = j

TypeInv ==
    /\ AnalysisType /\ VaultType
    /\ instruction \in [Requests -> SUBSET Occurrences]
    /\ task \in [Requests -> Tasks]
    /\ sent \in [Requests -> (SUBSET TokenIds) \cup {None}]
    /\ answer \in [Requests -> (SUBSET Values) \cup {None}]
    /\ told \in [Requests -> Codes]
    /\ rows \in [Requests -> Seq(Codes)]

\* Until a document's threads are through, what they have found is what was reported;
\* then what is kept resolves what the snapshot is sure of in it.
Kept(r) == task[r].found \in Resolutions(Confident(task[r].policy, reported[r]))
DetectionKnows(r) ==
    /\ task[r].step \in Undetected => reported[r] = {}
    /\ task[r].step = "detection" =>
         /\ reported[r] = Promoted(r)
         /\ \A s \in Parts(r) : part[r][s].at \in {"waiting", "running"} => part[r][s].found = {}
    /\ task[r].step \in {"instruction", "document", "note"} \cup Whole => Kept(r)

\* A protected message holds tokens that are kept, and in plain nothing at the place of
\* what was found but where that is allowed.
PlainWhereAllowed(r, p, found) ==
    p.kind = "plain" => \A k \in found : Overlaps(p.about, k) => Action(r, k) = "allow"
Harmless(r, text, found) ==
    \A p \in text : /\ p.kind = "token" => p.about \in DOMAIN origin
                    /\ PlainWhereAllowed(r, p, found)

PayloadKnows(r) ==
    /\ task[r].step \in Unwritten => task[r].payload = <<>> /\ task[r].minted = {}
    /\ task[r].step \in Snapped => Policy(r) \in Policies
    /\ task[r].step \in {"instruction", "document"} => ~Blocks(r, task[r].found)
    /\ task[r].step \in {"document", "note"} => Apart(task[r].sure) /\ ~Blocks(r, task[r].sure)
    /\ task[r].step = "note" =>
         Len(task[r].payload) = 1 /\ Harmless(r, task[r].payload[1], task[r].found)
    /\ task[r].step \in Whole =>
         /\ Len(task[r].payload) = 2
         /\ Harmless(r, task[r].payload[1], task[r].found)
         /\ Harmless(r, task[r].payload[2], task[r].sure)

OutcomeKnows(r) ==
    /\ task[r].step \in Unsent => sent[r] = None
    /\ task[r].step \in {"calling", "pause", "restoration"} => sent[r] # None
    /\ task[r].step \notin {"audit", "done"} => answer[r] = None
    /\ task[r].step = "audit" => task[r].code \in {"ok", "outbound"}
    /\ task[r].attempt <= Attempts /\ (task[r].step = "pause" => task[r].attempt < Attempts)
    /\ task[r].step # "done" => told[r] = None /\ rows[r] = <<>>
    /\ told[r] = "blocked" => task[r].minted = {}
    /\ Len(rows[r]) <= 1
    /\ told[r] \in {"ok", "outbound"} /\ FailClosed => rows[r] # <<>> /\ rows[r][1] = told[r]

Knows(r) == DetectionKnows(r) /\ PayloadKnows(r) /\ OutcomeKnows(r)
Inv == TypeInv /\ \A r \in Requests : Knows(r)

-----------------------------------------------------------------------------
(***************************************************************************)
(* The frame: what one request does to the analysis, to the vault and to   *)
(* what is known of the others.                                            *)
(***************************************************************************)

\* A step of one request in its threads and its child.
AnalysisStep(r) ==
    /\ AnalysisType' /\ UNCHANGED document
    /\ \A q \in Requests \ {r} : part'[q] = part[q] /\ reported'[q] = reported[q]

\* The vault only grows, and keeps what it has kept.
Grown ==
    /\ VaultType'
    /\ DOMAIN origin \subseteq DOMAIN origin'
    /\ \A i \in DOMAIN origin : origin'[i] = origin[i]

EndsStep(r) ==
    /\ sent' \in [Requests -> (SUBSET TokenIds) \cup {None}]
    /\ answer' \in [Requests -> (SUBSET Values) \cup {None}]
    /\ told' \in [Requests -> Codes]
    /\ rows' \in [Requests -> Seq(Codes)]
    /\ \A q \in Requests \ {r} : /\ sent'[q] = sent[q] /\ answer'[q] = answer[q]
                                 /\ told'[q] = told[q] /\ rows'[q] = rows[q]

LEMMA OthersStep ==
    ASSUME Inv, Grown, NEW r \in Requests, NEW q \in Requests \ {r}, AnalysisStep(r),
           EndsStep(r), task'[q] = task[q]
    PROVE  Knows(q)'
  <1>1. DetectionKnows(q)'
    BY DEF Inv, Knows, AnalysisStep, DetectionKnows, Kept, Promoted, Parts
  <1>2. PayloadKnows(q)'
    <2>1. PayloadKnows(q) /\ task'[q] = task[q] /\ DOMAIN origin \subseteq DOMAIN origin'
      BY DEF Inv, Knows, Grown
    <2> QED
      BY <2>1 DEF PayloadKnows, Harmless, PlainWhereAllowed, Policy, Action, Blocks
  <1>3. OutcomeKnows(q)'
    <2>1. /\ sent'[q] = sent[q] /\ answer'[q] = answer[q]
          /\ told'[q] = told[q] /\ rows'[q] = rows[q]
      BY DEF EndsStep
    <2>2. OutcomeKnows(q)
      BY DEF Inv, Knows
    <2> QED
      BY <2>1, <2>2 DEF OutcomeKnows
  <1> QED
    BY <1>1, <1>2, <1>3 DEF Knows

\* So a step keeps the invariant if it keeps its own request a task that is known.
LEMMA StepKeeps ==
    ASSUME Inv, NEW r \in Requests, NEW t \in Tasks, Goes(r, t), Grown, AnalysisStep(r),
           EndsStep(r), UNCHANGED instruction, Knows(r)'
    PROVE  Inv'
  <1>1. task' \in [Requests -> Tasks] /\ \A q \in Requests \ {r} : task'[q] = task[q]
    BY DEF Goes, Inv, TypeInv
  <1>2. TypeInv'
    BY <1>1 DEF Inv, TypeInv, AnalysisStep, Grown, EndsStep
  <1>3. \A q \in Requests \ {r} : Knows(q)'
    BY <1>1, OthersStep
  <1> QED
    BY <1>2, <1>3 DEF Inv

LEMMA VaultStays == Inv /\ UNCHANGED vault => Grown
  BY DEF vault, Grown, Inv, TypeInv, VaultType

LEMMA EndsStay ==
    ASSUME Inv, NEW r \in Requests, UNCHANGED ends
    PROVE  EndsStep(r)
  BY DEF ends, EndsStep, Inv, TypeInv

LEMMA AnalysisStays ==
    ASSUME Inv, NEW r \in Requests, UNCHANGED <<document, child, part, reported>>
    PROVE  AnalysisStep(r)
  BY DEF AnalysisStep, Inv, TypeInv, AnalysisType, Parts

LEMMA ChildStep ==
    ASSUME Inv, NEW r \in Requests, UNCHANGED <<document, part, reported>>,
           NEW c \in {"none", "awaited", "abandoned"}, child' = [child EXCEPT ![r] = c]
    PROVE  AnalysisStep(r)
  BY DEF AnalysisStep, Inv, TypeInv, AnalysisType, Parts

\* The threads of one request move, and its child may.
LEMMA PartStep ==
    ASSUME Inv, NEW r \in Requests, UNCHANGED document,
           child' \in [Requests -> {"none", "awaited", "abandoned"}],
           NEW threads \in [Parts(r) -> Detections], part' = [part EXCEPT ![r] = threads],
           NEW new \in SUBSET Hits, reported' = [reported EXCEPT ![r] = @ \cup new]
    PROVE  AnalysisStep(r) /\ part'[r] = threads /\ reported'[r] = reported[r] \cup new
  <1>1. part'[r] = threads /\ DOMAIN part' = Requests
        /\ \A q \in Requests \ {r} : part'[q] = part[q]
    BY DEF Inv, TypeInv, AnalysisType
  <1>2. reported'[r] = reported[r] \cup new /\ reported' \in [Requests -> SUBSET Hits]
        /\ \A q \in Requests \ {r} : reported'[q] = reported[q]
    BY DEF Inv, TypeInv, AnalysisType
  <1>3. \A q \in Requests : part'[q] \in [Parts(q)' -> Detections]
    BY <1>1 DEF Inv, TypeInv, AnalysisType, Parts
  <1> QED
    BY <1>1, <1>2, <1>3 DEF AnalysisStep, Inv, TypeInv, AnalysisType

LEMMA QuietKeeps ==
    ASSUME Inv, NEW r \in Requests, NEW t \in Tasks, Goes(r, t), Quiet, AnalysisStep(r), Knows(r)'
    PROVE  Inv'
  BY StepKeeps, VaultStays, EndsStay DEF Quiet

LEMMA NewTask == New \in Tasks
  <1>1. <<>> \in Seq(SUBSET Pieces)
    OBVIOUS
  <1> QED
    BY <1>1 DEF New, Tasks, Steps, Codes

-----------------------------------------------------------------------------
LEMMA RouteInv ==
    ASSUME Inv, NEW r \in Requests, Route(r) \/ TakeSnapshot(r)
    PROVE  Inv'
  <1>1. task[r] \in Tasks /\ task \in [Requests -> Tasks]
    BY DEF Inv, TypeInv
  <1>2. Quiet /\ UNCHANGED <<document, child, part, reported>> /\ AnalysisStep(r)
    BY AnalysisStays DEF Route, TakeSnapshot, analysisVars
  <1>3. PICK t \in Tasks :
          /\ Goes(r, t)
          /\ task[r].step \in Undetected /\ t.step \in Undetected
          /\ t.payload = task[r].payload /\ t.minted = task[r].minted
          /\ t.attempt = task[r].attempt
          /\ t.step \in Snapped => t.policy \in Policies
    <2>1. CASE Route(r)
      <3>1. PICK p \in Policies : Goes(r, [task[r] EXCEPT !.step = "snapshot", !.routed = p])
        BY <2>1 DEF Route
      <3> DEFINE t == [task[r] EXCEPT !.step = "snapshot", !.routed = p]
      <3>2. t \in Tasks /\ t.step = "snapshot" /\ t.payload = task[r].payload
            /\ t.minted = task[r].minted /\ t.attempt = task[r].attempt
            /\ (t.step \in Snapped => t.policy \in Policies)
        BY <1>1 DEF Tasks, Steps, Snapped
      <3>3. task[r].step \in Undetected /\ "snapshot" \in Undetected
        BY <2>1 DEF Route, At, Undetected
      <3>4. Goes(r, t)
        BY <3>1
      <3> HIDE DEF t
      <3> QED
        BY <3>2, <3>3, <3>4
    <2>2. CASE TakeSnapshot(r)
      <3>1. PICK p \in Policies : Goes(r, [task[r] EXCEPT !.step = "opening", !.policy = p])
        BY <2>2 DEF TakeSnapshot
      <3> DEFINE t == [task[r] EXCEPT !.step = "opening", !.policy = p]
      <3>2. t \in Tasks /\ t.step = "opening" /\ t.payload = task[r].payload
            /\ t.minted = task[r].minted /\ t.attempt = task[r].attempt
            /\ (t.step \in Snapped => t.policy \in Policies)
        BY <1>1 DEF Tasks, Steps, Snapped
      <3>3. task[r].step \in Undetected /\ "opening" \in Undetected
        BY <2>2 DEF TakeSnapshot, At, Undetected
      <3>4. Goes(r, t)
        BY <3>1
      <3> HIDE DEF t
      <3> QED
        BY <3>2, <3>3, <3>4
    <2> QED
      BY <2>1, <2>2
  <1>4. task'[r] = t
    BY <1>1, <1>3 DEF Goes
  <1>5. Knows(r)
    BY DEF Inv
  <1>6. DetectionKnows(r)'
    BY <1>2, <1>3, <1>4, <1>5 DEF Knows, DetectionKnows, Undetected, Whole
  <1>7. PayloadKnows(r)'
    BY <1>3, <1>4, <1>5 DEF Knows, PayloadKnows, Undetected, Unwritten, Whole, Policy
  <1>8. OutcomeKnows(r)'
    BY <1>2, <1>3, <1>4, <1>5 DEF Knows, OutcomeKnows, Undetected, Unwritten, Unsent, Quiet, ends
  <1> QED
    BY <1>2, <1>3, <1>6, <1>7, <1>8, QuietKeeps DEF Knows

LEMMA ExtractInv ==
    ASSUME Inv, NEW r \in Requests, Extract(r)
    PROVE  Inv'
  <1>1. task[r] \in Tasks /\ task \in [Requests -> Tasks] /\ Knows(r)
    BY DEF Inv, TypeInv
  <1> DEFINE t == [task[r] EXCEPT !.step = "extraction"]
  <1>2. /\ t \in Tasks /\ Goes(r, t) /\ t.step = "extraction" /\ task[r].step = "opening"
        /\ t.payload = task[r].payload /\ t.minted = task[r].minted
        /\ t.attempt = task[r].attempt /\ t.policy = task[r].policy
    BY <1>1 DEF Extract, At, GoesOn, Tasks, Steps
  <1> HIDE DEF t
  <1>3. task'[r] = t
    BY <1>1, <1>2 DEF Goes
  <1>4. Quiet /\ AnalysisStep(r) /\ reported' = reported
    BY ChildStep DEF Extract, StartsChild
  <1>5. DetectionKnows(r)'
    BY <1>1, <1>2, <1>3, <1>4 DEF Knows, DetectionKnows, Undetected, Whole
  <1>6. PayloadKnows(r)'
    BY <1>1, <1>2, <1>3 DEF Knows, PayloadKnows, Undetected, Unwritten, Whole, Snapped, Policy
  <1>7. OutcomeKnows(r)'
    BY <1>1, <1>2, <1>3, <1>4 DEF Knows, OutcomeKnows, Undetected, Unwritten, Unsent, Quiet, ends
  <1> QED
    BY <1>2, <1>4, <1>5, <1>6, <1>7, QuietKeeps DEF Knows

\* Detection starts with nothing found, which is what has been reported.
LEMMA SegmentInv ==
    ASSUME Inv, NEW r \in Requests, Segment(r)
    PROVE  Inv'
  <1>1. task[r] \in Tasks /\ task \in [Requests -> Tasks] /\ Knows(r)
    BY DEF Inv, TypeInv
  <1> DEFINE t == [task[r] EXCEPT !.step = "detection"]
  <1>2. /\ t \in Tasks /\ Goes(r, t) /\ t.step = "detection" /\ task[r].step = "extraction"
        /\ t.payload = task[r].payload /\ t.minted = task[r].minted
        /\ t.attempt = task[r].attempt /\ t.policy = task[r].policy
    BY <1>1 DEF Segment, At, GoesOn, Tasks, Steps
  <1> HIDE DEF t
  <1>3. task'[r] = t
    BY <1>1, <1>2 DEF Goes
  <1>4. /\ Quiet /\ UNCHANGED <<document, reported>>
        /\ part' = [part EXCEPT ![r] = All(r, "waiting")]
        /\ child' = [child EXCEPT ![r] = "none"]
    BY DEF Segment, ReapsChild, StartsDetection
  <1>5. All(r, "waiting") \in [Parts(r) -> Detections]
        /\ \A s \in Parts(r) : All(r, "waiting")[s].found = {}
    BY DEF All, Part, Detections
  <1>6. reported \in [Requests -> SUBSET Hits] /\ DOMAIN part = Requests
    BY DEF Inv, TypeInv, AnalysisType
  <1>7. part'[r] = All(r, "waiting") /\ Parts(r)' = Parts(r)
    BY <1>4, <1>6 DEF Parts
  <1>8. AnalysisStep(r)
    <2>1. child' \in [Requests -> {"none", "awaited", "abandoned"}]
      BY <1>4 DEF Inv, TypeInv, AnalysisType
    <2>2. reported' = [reported EXCEPT ![r] = @ \cup {}]
      BY <1>4, <1>6
    <2> QED
      BY <1>4, <1>5, <2>1, <2>2, PartStep
  <1>9. DetectionKnows(r)'
    <2>1. reported'[r] = {}
      BY <1>1, <1>2, <1>4 DEF Knows, DetectionKnows, Undetected
    <2>2. Promoted(r)' = {}
      BY <1>5, <1>7 DEF Promoted
    <2> QED
      BY <1>2, <1>3, <1>5, <1>7, <2>1, <2>2 DEF DetectionKnows, Undetected, Whole
  <1>10. PayloadKnows(r)'
    BY <1>1, <1>2, <1>3 DEF Knows, PayloadKnows, Undetected, Unwritten, Whole, Snapped, Policy
  <1>11. OutcomeKnows(r)'
    BY <1>1, <1>2, <1>3, <1>4 DEF Knows, OutcomeKnows, Undetected, Unwritten, Unsent, Quiet, ends
  <1> QED
    BY <1>2, <1>4, <1>8, <1>9, <1>10, <1>11, QuietKeeps DEF Knows

-----------------------------------------------------------------------------
\* A thread takes a place, reports what it has found, or ends for nobody.
LEMMA DetectSegmentsInv ==
    ASSUME Inv, NEW r \in Requests, NEW s \in Parts(r),
           task' = task, Quiet, child' = child, document' = document,
           \/ TakeSegment(r, s) /\ task[r].step = "detection"
           \/ SegmentDone(r, s) /\ task[r].step = "detection"
           \/ AbandonedThreadEnds(r, s)
    PROVE  Inv'
  <1>1. task[r] \in Tasks /\ task \in [Requests -> Tasks] /\ Knows(r)
    BY DEF Inv, TypeInv
  <1>2. /\ part[r] \in [Parts(r) -> Detections] /\ DOMAIN part = Requests
        /\ reported \in [Requests -> SUBSET Hits]
        /\ child \in [Requests -> {"none", "awaited", "abandoned"}]
    BY DEF Inv, TypeInv, AnalysisType, Parts
  <1>3. PICK new \in SUBSET Hits, d \in Detections :
          /\ part' = [part EXCEPT ![r] = [part[r] EXCEPT ![s] = d]]
          /\ reported' = [reported EXCEPT ![r] = @ \cup new]
          /\ \/ new = {} /\ d.found = part[r][s].found
                /\ (d.at = "running" => part[r][s].at = "waiting") /\ d.at # "waiting"
             \/ part[r][s].at = "running" /\ d.at = "done" /\ d.found = new
                /\ task[r].step = "detection"
    <2>1. CASE TakeSegment(r, s)
      <3> DEFINE d == [part[r][s] EXCEPT !.at = "running"]
      <3>1. d \in Detections /\ d.found = part[r][s].found /\ d.at = "running"
        BY <1>2 DEF Detections
      <3>2. part' = [part EXCEPT ![r] = [part[r] EXCEPT ![s] = d]]
        BY <2>1, <1>2 DEF TakeSegment
      <3>3. reported' = [reported EXCEPT ![r] = @ \cup {}] /\ part[r][s].at = "waiting"
        BY <2>1, <1>2 DEF TakeSegment
      <3> HIDE DEF d
      <3> QED
        BY <3>1, <3>2, <3>3
    <2>2. CASE SegmentDone(r, s) /\ task[r].step = "detection"
      <3>1. PICK found \in Reports(document[r][s]) :
              /\ part' = [part EXCEPT ![r][s] = Part("done", found)]
              /\ reported' = [reported EXCEPT ![r] = @ \cup found]
        BY <2>2 DEF SegmentDone
      <3> DEFINE d == Part("done", found)
      <3>2. found \in SUBSET Hits /\ d \in Detections /\ d.found = found /\ d.at = "done"
        BY DEF Reports, Detections, Part
      <3>3. part' = [part EXCEPT ![r] = [part[r] EXCEPT ![s] = d]]
        BY <3>1, <1>2
      <3>4. part[r][s].at = "running"
        BY <2>2 DEF SegmentDone, Running
      <3> HIDE DEF d
      <3> QED
        BY <2>2, <3>1, <3>2, <3>3, <3>4
    <2>3. CASE AbandonedThreadEnds(r, s)
      <3> DEFINE d == [part[r][s] EXCEPT !.at = "over"]
      <3>1. d \in Detections /\ d.found = part[r][s].found /\ d.at = "over"
        BY <1>2 DEF Detections
      <3>2. part' = [part EXCEPT ![r] = [part[r] EXCEPT ![s] = d]]
        BY <2>3, <1>2 DEF AbandonedThreadEnds
      <3>3. reported' = [reported EXCEPT ![r] = @ \cup {}]
        BY <2>3, <1>2 DEF AbandonedThreadEnds
      <3> HIDE DEF d
      <3> QED
        BY <3>1, <3>2, <3>3
    <2> QED
      BY <2>1, <2>2, <2>3
  <1> DEFINE threads == [part[r] EXCEPT ![s] = d]
  <1>4. /\ threads \in [Parts(r) -> Detections] /\ threads[s] = d
        /\ \A q \in Parts(r) \ {s} : threads[q] = part[r][q]
    BY <1>2, <1>3
  <1>5. part' = [part EXCEPT ![r] = threads]
    BY <1>3
  <1> HIDE DEF threads
  <1>6. AnalysisStep(r) /\ part'[r] = threads /\ reported'[r] = reported[r] \cup new
    BY <1>2, <1>3, <1>4, <1>5, PartStep
  <1>7. Parts(r)' = Parts(r)
    BY DEF Parts
  <1>8. DetectionKnows(r)'
    <2>1. CASE task[r].step = "detection"
      <3>1. reported[r] = Promoted(r)
            /\ \A q \in Parts(r) : part[r][q].at \in {"waiting", "running"} => part[r][q].found = {}
        BY <1>1, <2>1 DEF Knows, DetectionKnows
      <3>2. d.found = part[r][s].found \cup new
        BY <1>3, <3>1
      <3>3. Promoted(r)' = Promoted(r) \cup new
        BY <1>4, <1>6, <1>7, <3>2 DEF Promoted
      <3>4. d.at \in {"waiting", "running"} => d.found = {}
        BY <1>3, <3>1
      <3>5. \A q \in Parts(r) : part'[r][q].at \in {"waiting", "running"} => part'[r][q].found = {}
        BY <1>4, <1>6, <3>1, <3>4
      <3> QED
        BY <1>6, <1>7, <2>1, <3>1, <3>3, <3>5 DEF DetectionKnows, Undetected, Whole
    <2>2. CASE task[r].step # "detection"
      <3>1. reported'[r] = reported[r]
        BY <1>3, <1>6, <2>2
      <3> QED
        BY <1>1, <2>2, <3>1 DEF Knows, DetectionKnows, Kept
    <2> QED
      BY <2>1, <2>2
  <1>9. PayloadKnows(r)'
    BY <1>1 DEF Quiet, vault, Knows, PayloadKnows, Harmless, PlainWhereAllowed, Policy, Action, Blocks
  <1>10. OutcomeKnows(r)'
    BY <1>1 DEF Quiet, ends, Knows, OutcomeKnows
  <1>11. Goes(r, task[r])
    BY <1>1 DEF Goes
  <1> QED
    BY <1>1, <1>6, <1>8, <1>9, <1>10, <1>11, QuietKeeps DEF Knows

LEMMA AbandonedInv ==
    ASSUME Inv, NEW r \in Requests, Abandoned(r)
    PROVE  Inv'
  <1>1. CASE AbandonedChildEnds(r)
    <2>1. task[r] \in Tasks /\ Goes(r, task[r]) /\ Knows(r) /\ task' = task /\ Quiet
      BY DEF Abandoned, Inv, TypeInv, Goes
    <2>2. AnalysisStep(r) /\ UNCHANGED <<document, part, reported>>
      BY <1>1, ChildStep DEF AbandonedChildEnds
    <2>3. DetectionKnows(r)'
      BY <2>1, <2>2 DEF Knows, DetectionKnows, Kept, Promoted, Parts
    <2>4. PayloadKnows(r)' /\ OutcomeKnows(r)'
      <3>1. /\ PayloadKnows(r) /\ OutcomeKnows(r) /\ task' = task
            /\ UNCHANGED <<origin, sent, answer, told, rows>>
        BY <2>1 DEF Knows, Quiet, vault, ends
      <3>2. PayloadKnows(r)'
        BY <3>1 DEF PayloadKnows, Harmless, PlainWhereAllowed, Policy, Action, Blocks
      <3>3. OutcomeKnows(r)'
        BY <3>1 DEF OutcomeKnows
      <3> QED
        BY <3>2, <3>3
    <2> QED
      BY <2>1, <2>2, <2>3, <2>4, QuietKeeps DEF Knows
  <1>2. CASE \E s \in Parts(r) : AbandonedThreadEnds(r, s)
    BY <1>2, DetectSegmentsInv DEF Abandoned, AbandonedThreadEnds
  <1> QED
    BY <1>1, <1>2 DEF Abandoned

-----------------------------------------------------------------------------
(***************************************************************************)
(* A request that ends without a row, and says so.                         *)
(***************************************************************************)
LEMMA EndsInv ==
    ASSUME Inv, NEW r \in Requests, Grown, AnalysisStep(r), UNCHANGED instruction,
           NEW how \in Codes \ {"ok", "outbound"}, Ends(r, how), task[r].step # "done",
           how = "blocked" => task[r].minted = {}
    PROVE  Inv'
  <1> DEFINE t == [New EXCEPT !.step = "done", !.minted = task[r].minted,
                              !.attempt = task[r].attempt, !.code = how]
  <1>1. task[r] \in Tasks /\ task \in [Requests -> Tasks] /\ Knows(r)
    BY DEF Inv, TypeInv
  <1>2. t \in Tasks /\ t.step = "done" /\ t.minted = task[r].minted /\ t.attempt = task[r].attempt
    <2>1. New \in Tasks /\ "done" \in Steps /\ task[r].minted \in SUBSET TokenIds
          /\ task[r].attempt \in Nat
      BY <1>1, NewTask DEF Tasks, Steps
    <2> QED
      BY <2>1 DEF Tasks
  <1>3. Goes(r, t)
    BY DEF Ends
  <1> HIDE DEF t
  <1>4. task'[r] = t
    BY <1>1, <1>3 DEF Goes
  <1>5. EndsStep(r) /\ told'[r] = how /\ rows' = rows
    <2>1. /\ sent \in [Requests -> (SUBSET TokenIds) \cup {None}]
          /\ answer \in [Requests -> (SUBSET Values) \cup {None}]
          /\ told \in [Requests -> Codes] /\ rows \in [Requests -> Seq(Codes)]
      BY DEF Inv, TypeInv
    <2>2. /\ told' = [told EXCEPT ![r] = how] /\ rows' = rows
          /\ sent' = [sent EXCEPT ![r] = None] /\ answer' = [answer EXCEPT ![r] = None]
      BY DEF Ends
    <2>3. /\ sent' \in [Requests -> (SUBSET TokenIds) \cup {None}]
          /\ answer' \in [Requests -> (SUBSET Values) \cup {None}]
          /\ told' \in [Requests -> Codes] /\ told'[r] = how
      BY <2>1, <2>2
    <2> QED
      BY <2>1, <2>2, <2>3 DEF EndsStep
  <1>6. DetectionKnows(r)' /\ PayloadKnows(r)'
    BY <1>2, <1>4 DEF DetectionKnows, PayloadKnows, Undetected, Unwritten, Whole, Snapped
  <1>7. OutcomeKnows(r)'
    BY <1>1, <1>2, <1>4, <1>5 DEF Knows, OutcomeKnows, Unsent, Unwritten, Undetected
  <1> QED
    BY <1>2, <1>3, <1>5, <1>6, <1>7, StepKeeps DEF Knows

LEMMA RaisesInv ==
    ASSUME Inv, NEW r \in Requests, NEW how \in Codes \ {"ok", "outbound"},
           Raises(r, how), task[r].step # "done",
           how = "blocked" => task[r].minted = {}
    PROVE  Inv'
  BY EndsInv, VaultStays, AnalysisStays DEF Raises, inputs

\* The threads of a request that gathers its results, or abandons them, keep their types.
LEMMA OverStep ==
    ASSUME Inv, NEW r \in Requests, UNCHANGED <<document, reported>>,
           \/ child' = child /\ part' = [part EXCEPT ![r] = All(r, "over")]
           \/ Abandons(r)
    PROVE  AnalysisStep(r)
  <1>1. /\ part[r] \in [Parts(r) -> Detections] /\ DOMAIN part = Requests
        /\ reported \in [Requests -> SUBSET Hits]
        /\ child \in [Requests -> {"none", "awaited", "abandoned"}]
    BY DEF Inv, TypeInv, AnalysisType
  <1>2. ASSUME child' \in [Requests -> {"none", "awaited", "abandoned"}],
               NEW threads \in [Parts(r) -> Detections], part' = [part EXCEPT ![r] = threads]
        PROVE  AnalysisStep(r)
    <2> DEFINE new == {}
    <2>1. reported' = [reported EXCEPT ![r] = @ \cup new] /\ new \in SUBSET Hits
      BY <1>1
    <2> HIDE DEF new
    <2> QED
      BY <1>2, <2>1, PartStep
  <1>3. CASE child' = child /\ part' = [part EXCEPT ![r] = All(r, "over")]
    <2>1. All(r, "over") \in [Parts(r) -> Detections]
      BY DEF All, Part, Detections
    <2> QED
      BY <1>1, <1>2, <1>3, <2>1
  <1>4. CASE Abandons(r)
    <2> DEFINE over == [s \in Parts(r) |->
                  Part(IF part[r][s].at \in {"running", "abandoned"} THEN "abandoned" ELSE "over", {})]
    <2>1. over \in [Parts(r) -> Detections]
      BY DEF Part, Detections
    <2>2. part' = [part EXCEPT ![r] = over]
      BY <1>1, <1>4 DEF Abandons
    <2>3. child' \in [Requests -> {"none", "awaited", "abandoned"}]
      BY <1>1, <1>4 DEF Abandons
    <2> HIDE DEF over
    <2> QED
      BY <1>2, <2>1, <2>2, <2>3
  <1> QED
    BY <1>3, <1>4

\* What a snapshot is sure of are occurrences that were reported, and as far apart.
LEMMA ConfidentHits ==
    ASSUME NEW p, NEW hits \in SUBSET Hits
    PROVE  /\ Confident(p, hits) \subseteq Hit(hits) /\ Hit(hits) \subseteq Occurrences
           /\ (\A g, h \in hits : Overlaps(g.of, h.of) => g = h) => Apart(Confident(p, hits))
  BY HitAssumption DEF Confident, Hit, Apart

LEMMA LabelInv ==
    ASSUME Inv, NEW r \in Requests, Label(r)
    PROVE  Inv'
  <1>1. task[r] \in Tasks /\ task \in [Requests -> Tasks] /\ Knows(r)
    BY DEF Inv, TypeInv
  <1>2. task[r].step = "detection" /\ UNCHANGED <<inputs, child, vault>>
        /\ part' = [part EXCEPT ![r] = All(r, "over")]
    BY DEF Label, At, Gathers
  <1>3. AnalysisStep(r) /\ Grown
    BY <1>2, OverStep, VaultStays DEF inputs
  <1>4. reported[r] = Promoted(r) /\ task[r].minted = {} /\ reported[r] \in SUBSET Hits
    BY <1>1, <1>2 DEF Knows, DetectionKnows, PayloadKnows, Unwritten, Inv, TypeInv, AnalysisType
  <1>5. PICK found \in Resolutions(Confident(task[r].policy, reported[r])) :
          \/ Ends(r, "over") \/ Ends(r, "blocked")
          \/ /\ Goes(r, [task[r] EXCEPT !.step = "instruction", !.found = found])
             /\ UNCHANGED ends /\ ~Blocks(r, found)
    BY <1>4 DEF Label, Policy
  <1>6. CASE Ends(r, "over") \/ Ends(r, "blocked")
    BY <1>2, <1>3, <1>4, <1>6, EndsInv DEF inputs, Codes
  <1>7. CASE /\ Goes(r, [task[r] EXCEPT !.step = "instruction", !.found = found])
             /\ UNCHANGED ends /\ ~Blocks(r, found)
    <2> DEFINE t == [task[r] EXCEPT !.step = "instruction", !.found = found]
    <2>1. /\ t \in Tasks /\ t.step = "instruction" /\ t.found = found
          /\ t.payload = task[r].payload /\ t.minted = task[r].minted
          /\ t.attempt = task[r].attempt /\ t.policy = task[r].policy
      <3>1. found \in SUBSET Occurrences
        BY <1>4, <1>5, ConfidentHits DEF Resolutions
      <3> QED
        BY <1>1, <3>1 DEF Tasks, Steps
    <2>2. Goes(r, t)
      BY <1>7
    <2> HIDE DEF t
    <2>3. task'[r] = t
      BY <1>1, <2>2 DEF Goes
    <2>4. DetectionKnows(r)'
      BY <1>2, <1>5, <2>1, <2>3 DEF DetectionKnows, Kept, Undetected, Whole, inputs
    <2>5. PayloadKnows(r)'
      <3>1. ~Blocks(r, task[r].found)' /\ Policy(r)' = Policy(r)
        BY <1>7, <2>1, <2>3 DEF Blocks, Action, Policy
      <3>2. task[r].payload = <<>> /\ task[r].minted = {} /\ Policy(r) \in Policies
        BY <1>1, <1>2 DEF Knows, PayloadKnows, Unwritten, Snapped
      <3> QED
        BY <2>1, <2>3, <3>1, <3>2 DEF PayloadKnows, Whole, Snapped
    <2>6. OutcomeKnows(r)'
      BY <1>1, <1>2, <1>7, <2>1, <2>3 DEF Knows, OutcomeKnows, Unwritten, Unsent, ends
    <2> QED
      BY <1>2, <1>3, <1>7, <2>1, <2>2, <2>4, <2>5, <2>6, StepKeeps, EndsStay DEF Knows, inputs
  <1> QED
    BY <1>5, <1>6, <1>7

LEMMA DetectInstructionInv ==
    ASSUME Inv, NEW r \in Requests, DetectInstruction(r)
    PROVE  Inv'
  <1>1. task[r] \in Tasks /\ task \in [Requests -> Tasks] /\ Knows(r)
    BY DEF Inv, TypeInv
  <1>2. task[r].step = "instruction" /\ UNCHANGED <<inputs, child, part, vault>>
    BY DEF DetectInstruction, At
  <1>3. AnalysisStep(r) /\ Grown /\ task[r].minted = {}
    BY <1>1, <1>2, AnalysisStays, VaultStays DEF inputs, Knows, PayloadKnows, Unwritten
  <1>4. PICK hits \in Reports(instruction[r]) :
          IF Blocks(r, Hit(hits))
          THEN Ends(r, "blocked")
          ELSE /\ Goes(r, [task[r] EXCEPT !.step = "document", !.sure = Confident(Policy(r), hits)])
               /\ UNCHANGED ends
    BY DEF DetectInstruction, RejectsInstruction
  <1>5. CASE Blocks(r, Hit(hits))
    BY <1>2, <1>3, <1>4, <1>5, EndsInv DEF inputs, Codes
  <1>6. CASE ~Blocks(r, Hit(hits))
    <2> DEFINE sure == Confident(Policy(r), hits)
               t == [task[r] EXCEPT !.step = "document", !.sure = sure]
    <2>0. sure \subseteq Hit(hits) /\ sure \in SUBSET Occurrences /\ Apart(sure)
      BY ConfidentHits DEF Reports
    <2> HIDE DEF sure
    <2>1. /\ t \in Tasks /\ t.step = "document" /\ t.found = task[r].found
          /\ t.sure = sure /\ t.policy = task[r].policy
          /\ t.payload = task[r].payload /\ t.minted = task[r].minted
          /\ t.attempt = task[r].attempt
      BY <1>1, <2>0 DEF Tasks, Steps
    <2>2. Goes(r, t) /\ UNCHANGED ends
      BY <1>4, <1>6 DEF sure
    <2> HIDE DEF t
    <2>3. task'[r] = t
      BY <1>1, <2>2 DEF Goes
    <2>4. DetectionKnows(r)'
      BY <1>1, <1>2, <2>1, <2>3 DEF Knows, DetectionKnows, Kept, Undetected, Whole, inputs
    <2>5. PayloadKnows(r)'
      <3>1. ~Blocks(r, task[r].sure)' /\ Policy(r)' = Policy(r)
        BY <1>6, <2>0, <2>1, <2>3 DEF Blocks, Action, Policy
      <3>2. /\ task[r].payload = <<>> /\ task[r].minted = {} /\ Policy(r) \in Policies
            /\ ~Blocks(r, task[r].found)
        BY <1>1, <1>2 DEF Knows, PayloadKnows, Unwritten, Snapped
      <3>3. ~Blocks(r, task[r].found)'
        BY <2>1, <2>3, <3>1, <3>2 DEF Blocks, Action, Policy
      <3> QED
        BY <2>0, <2>1, <2>3, <3>1, <3>2, <3>3 DEF PayloadKnows, Whole, Snapped
    <2>6. OutcomeKnows(r)'
      BY <1>1, <1>2, <2>1, <2>2, <2>3 DEF Knows, OutcomeKnows, Unwritten, Unsent, ends
    <2> QED
      BY <1>2, <1>3, <2>1, <2>2, <2>4, <2>5, <2>6, StepKeeps, EndsStay DEF Knows, inputs
  <1> QED
    BY <1>5, <1>6

-----------------------------------------------------------------------------
(***************************************************************************)
(* A batch mints one id for every value that has no live one, so that a    *)
(* value still has one; and what it names, for a value the splice asks     *)
(* for, is kept.                                                           *)
(***************************************************************************)
LEMMA BatchGrows ==
    ASSUME Inv, NEW r \in Requests, NEW found \in SUBSET Occurrences,
           NEW ids \in Mints(r, found), Batch(ids)
    PROVE  /\ Grown /\ Minted(ids) \in SUBSET TokenIds
           /\ \A o \in found :
                Action(r, o) = "tokenize" => TokenFor(ids, ValueOf[o]) \in DOMAIN origin'
  <1>1. /\ DOMAIN ids = Missing(r, found) /\ Missing(r, found) \subseteq Values
        /\ \A v \in DOMAIN ids : ids[v] \in TokenIds \ DOMAIN origin
        /\ \A v, w \in DOMAIN ids : ids[v] = ids[w] => v = w
    BY ValueAssumption DEF Mints, Missing
  <1>2. /\ DOMAIN origin \subseteq TokenIds
        /\ \A i \in DOMAIN origin : origin[i] \in Values
        /\ live \subseteq DOMAIN origin
        /\ \A i, j \in live : origin[i] = origin[j] => i = j
    BY DEF Inv, TypeInv, VaultType
  <1>3. Minted(ids) \subseteq TokenIds \ DOMAIN origin
    BY <1>1 DEF Minted
  <1>4. /\ DOMAIN origin' = DOMAIN origin \cup Minted(ids) /\ live' = live \cup Minted(ids)
        /\ \A i \in DOMAIN origin : origin'[i] = origin[i]
    BY DEF Batch
  <1>5. ASSUME NEW v \in DOMAIN ids
        PROVE  origin'[ids[v]] = v
    <2>1. ids[v] \in Minted(ids) /\ ids[v] \notin DOMAIN origin
      BY <1>1 DEF Minted
    <2>2. origin'[ids[v]] = CHOOSE w \in DOMAIN ids : ids[w] = ids[v]
      BY <2>1 DEF Batch
    <2> QED
      BY <1>1, <2>2
  <1>6. ASSUME NEW i \in Minted(ids)
        PROVE  \E v \in Missing(r, found) : i = ids[v] /\ origin'[i] = v
    <2>1. PICK v \in DOMAIN ids : i = ids[v]
      BY DEF Minted
    <2> QED
      BY <1>1, <1>5, <2>1
  <1>7. ASSUME NEW i \in live', NEW j \in live', origin'[i] = origin'[j]
        PROVE  i = j
    <2>1. CASE i \in live /\ j \in live
      BY <1>2, <1>4, <1>7, <2>1
    <2>2. CASE i \in Minted(ids) /\ j \in Minted(ids)
      BY <1>6, <1>7, <2>2
    <2>3. ASSUME NEW k \in live, NEW l \in Minted(ids)
          PROVE  origin'[k] # origin'[l]
      <3>1. PICK v \in Missing(r, found) : origin'[l] = v
        BY <1>6
      <3>2. Holding(v) = {}
        BY DEF Missing
      <3> QED
        BY <1>2, <1>4, <3>1, <3>2 DEF Holding
    <2> QED
      BY <1>4, <1>7, <2>1, <2>2, <2>3
  <1>8. Grown
    <2>1. DOMAIN origin' \subseteq TokenIds /\ live' \subseteq DOMAIN origin'
      BY <1>2, <1>3, <1>4
    <2>2. \A i \in DOMAIN origin' : origin'[i] \in Values
      BY <1>1, <1>2, <1>4, <1>6
    <2> QED
      BY <1>4, <1>7, <2>1, <2>2 DEF Grown, VaultType
  <1>9. ASSUME NEW o \in found, Action(r, o) = "tokenize"
        PROVE  TokenFor(ids, ValueOf[o]) \in DOMAIN origin'
    <2> DEFINE v == ValueOf[o]
    <2>1. CASE v \in DOMAIN ids
      BY <1>4, <2>1 DEF TokenFor, Minted
    <2>2. CASE v \notin DOMAIN ids
      <3>1. Holding(v) # {}
        BY <1>1, <1>9, <2>2 DEF Missing, Action
      <3>2. TokenFor(ids, v) \in Holding(v)
        BY <2>2, <3>1 DEF TokenFor
      <3> QED
        BY <1>2, <1>4, <3>2 DEF Holding
    <2> QED
      BY <2>1, <2>2
  <1> QED
    BY <1>3, <1>8, <1>9

LEMMA CarriedOutGrows ==
    ASSUME Inv, NEW r \in Requests, CarriedOut(r)
    PROVE  Grown
  <1>1. task[r].found \in SUBSET Occurrences /\ task[r].sure \in SUBSET Occurrences
    BY DEF Inv, TypeInv, Tasks
  <1> QED
    BY <1>1, BatchGrows, VaultStays DEF CarriedOut

\* What is written under a snapshot that blocks nothing of it is harmless.
HarmlessNow(r, text, found) ==
    \A p \in text : /\ p.kind = "token" => p.about \in DOMAIN origin'
                    /\ PlainWhereAllowed(r, p, found)

LEMMA ProtectedHarmless ==
    ASSUME Inv, NEW r \in Requests, Policy(r) \in Policies, NEW text \in SUBSET Occurrences,
           NEW found \in SUBSET Occurrences, Apart(found), ~Blocks(r, found), NEW ids \in Mints(r, found), Batch(ids)
    PROVE  /\ Protected(r, text, found, ids) \in SUBSET Pieces
           /\ HarmlessNow(r, Protected(r, text, found, ids), found)
  <1>1. Policy(r).action \in [Values -> Actions]
    BY PolicyAssumption
  <1>2. Grown /\ \A o \in found :
          Action(r, o) = "tokenize" => TokenFor(ids, ValueOf[o]) \in DOMAIN origin'
    BY BatchGrows
  <1> DEFINE allowed == {k \in found : Action(r, k) = "allow"}
  <1>3. ASSUME NEW o \in Outside(text, found \ allowed)
        PROVE  LET p == Piece("plain", o)
               IN  p \in Pieces /\ p.kind # "token" /\ PlainWhereAllowed(r, p, found)
    BY DEF Outside, Piece, Pieces, Kinds, PlainWhereAllowed
  <1>4. ASSUME NEW k \in found
        PROVE  LET p == Replacement(r, ids, k)
               IN  /\ p \in Pieces
                   /\ p.kind = "token" => p.about \in DOMAIN origin'
                   /\ PlainWhereAllowed(r, p, found)
    <2>1. Action(r, k) \in {"allow", "redact", "tokenize"} /\ k \in Occurrences
      <3>1. ValueOf[k] \in Values
        BY ValueAssumption
      <3> QED
        BY <1>1, <3>1 DEF Actions, Action, Blocks
    <2>2. CASE Action(r, k) = "allow"
      BY <2>1, <2>2 DEF Replacement, Piece, Pieces, Kinds, PlainWhereAllowed, Apart
    <2>3. CASE Action(r, k) = "redact"
      BY <2>1, <2>3 DEF Replacement, Piece, Pieces, Kinds, PlainWhereAllowed
    <2>4. CASE Action(r, k) = "tokenize"
      <3>1. TokenFor(ids, ValueOf[k]) \in DOMAIN origin' /\ TokenFor(ids, ValueOf[k]) \in TokenIds
        BY <1>2, <2>4 DEF Grown, VaultType
      <3> QED
        BY <2>4, <3>1 DEF Replacement, Piece, Pieces, Kinds, PlainWhereAllowed
    <2> QED
      BY <2>1, <2>2, <2>3, <2>4
  <1> QED
    BY <1>3, <1>4 DEF Protected, HarmlessNow

-----------------------------------------------------------------------------
LEMMA TransformStep ==
    ASSUME Inv, NEW r \in Requests, Policy(r) \in Policies, NEW text \in SUBSET Occurrences,
           NEW found \in SUBSET Occurrences, Apart(found), ~Blocks(r, found), NEW next \in Steps,
           Transform(r, text, found, next)
    PROVE  \E message \in SUBSET Pieces, minted \in SUBSET TokenIds :
             /\ task' = [task EXCEPT ![r] = [task[r] EXCEPT
                           !.payload = Append(@, message), !.minted = minted, !.step = next]]
             /\ HarmlessNow(r, message, found)
             /\ Grown /\ UNCHANGED <<inputs, child, part, ends>>
  <1>1. PICK ids \in Mints(r, found) :
          /\ Batch(ids)
          /\ Goes(r, [task[r] EXCEPT !.payload = Append(@, Protected(r, text, found, ids)),
                                     !.minted = @ \cup Minted(ids), !.step = next])
          /\ UNCHANGED <<inputs, child, part, ends>>
    BY DEF Transform
  <1> DEFINE message == Protected(r, text, found, ids)
             minted == task[r].minted \cup Minted(ids)
  <1>2. message \in SUBSET Pieces /\ HarmlessNow(r, message, found)
    BY <1>1, ProtectedHarmless
  <1>3. Grown /\ Minted(ids) \in SUBSET TokenIds
    BY <1>1, BatchGrows
  <1>4. task[r] \in Tasks
    BY DEF Inv, TypeInv
  <1>5. minted \in SUBSET TokenIds
    BY <1>3, <1>4 DEF Tasks
  <1>6. task' = [task EXCEPT ![r] = [task[r] EXCEPT
                   !.payload = Append(@, message), !.minted = minted, !.step = next]]
    BY <1>1, <1>4 DEF Goes, Tasks
  <1> HIDE DEF message, minted
  <1> QED
    BY <1>1, <1>2, <1>3, <1>5, <1>6

\* A message that is written stays harmless, as nothing the vault has kept is lost.
LEMMA HarmlessStays ==
    ASSUME NEW r \in Requests, Grown, Policy(r)' = Policy(r), NEW text, NEW found,
           Harmless(r, text, found)
    PROVE  HarmlessNow(r, text, found)
  BY DEF Grown, Harmless, HarmlessNow

LEMMA ProtectDocumentInv ==
    ASSUME Inv, NEW r \in Requests, ProtectDocument(r)
    PROVE  Inv'
  <1> DEFINE text == UNION {document[r][s] : s \in Parts(r)}
             found == task[r].found
  <1>1. /\ task[r] \in Tasks /\ task \in [Requests -> Tasks] /\ Knows(r)
        /\ task[r].step = "document"
    BY DEF Inv, TypeInv, ProtectDocument, At
  <1>2. Policy(r) \in Policies /\ ~Blocks(r, found) /\ task[r].payload = <<>>
        /\ Apart(found) /\ Apart(task[r].sure) /\ ~Blocks(r, task[r].sure)
    BY <1>1 DEF Knows, DetectionKnows, Kept, Resolutions, PayloadKnows, Snapped, Unwritten
  <1>3. text \in SUBSET Occurrences /\ found \in SUBSET Occurrences /\ "note" \in Steps
    <2>1. document[r] \in Seq(SUBSET Occurrences)
      BY DEF Inv, TypeInv, AnalysisType
    <2>2. \A s \in Parts(r) : document[r][s] \in SUBSET Occurrences
      BY <2>1 DEF Parts
    <2> QED
      BY <1>1, <2>2 DEF Tasks, Steps
  <1>4. Transform(r, text, found, "note")
    BY DEF ProtectDocument
  <1> HIDE DEF text, found
  <1>5. PICK message \in SUBSET Pieces, minted \in SUBSET TokenIds :
          /\ task' = [task EXCEPT ![r] = [task[r] EXCEPT
                        !.payload = Append(@, message), !.minted = minted, !.step = "note"]]
          /\ HarmlessNow(r, message, found)
          /\ Grown /\ UNCHANGED <<inputs, child, part, ends>>
    BY <1>2, <1>3, <1>4, TransformStep
  <1> DEFINE t == [task[r] EXCEPT !.payload = <<message>>, !.minted = minted, !.step = "note"]
  <1>6. /\ t \in Tasks /\ t.step = "note" /\ t.payload = <<message>>
        /\ t.found = task[r].found /\ t.policy = task[r].policy
        /\ t.sure = task[r].sure /\ t.attempt = task[r].attempt
    <2>1. <<message>> \in Seq(SUBSET Pieces)
      OBVIOUS
    <2> QED
      BY <1>1, <2>1 DEF Tasks, Steps
  <1>7. Goes(r, t)
    <2>1. Append(task[r].payload, message) = <<message>>
      BY <1>2
    <2> QED
      BY <1>1, <1>5, <2>1 DEF Goes, Tasks
  <1> HIDE DEF t
  <1>8. task'[r] = t
    BY <1>1, <1>7 DEF Goes
  <1>9. AnalysisStep(r) /\ EndsStep(r) /\ UNCHANGED <<inputs, ends>>
    BY <1>5, AnalysisStays, EndsStay DEF inputs
  <1>10. DetectionKnows(r)'
    BY <1>1, <1>6, <1>8, <1>9 DEF Knows, DetectionKnows, Kept, Undetected, Whole, inputs
  <1>11. PayloadKnows(r)'
    <2>1. Policy(r)' = Policy(r)
      BY <1>6, <1>8 DEF Policy
    <2>2. ~Blocks(r, task[r].sure)'
      BY <1>2, <1>6, <1>8, <2>1 DEF Blocks, Action
    <2>3. Harmless(r, task[r].payload[1], task[r].found)' /\ Len(task'[r].payload) = 1
      <3>1. task'[r].payload[1] = message /\ Len(task'[r].payload) = 1
        BY <1>6, <1>8
      <3> QED
        BY <1>5, <1>6, <1>8, <2>1, <3>1 DEF Harmless, HarmlessNow, PlainWhereAllowed, Action, found
    <2> QED
      BY <1>2, <1>6, <1>8, <2>1, <2>2, <2>3 DEF PayloadKnows, Unwritten, Undetected, Whole, Snapped
  <1>12. OutcomeKnows(r)'
    BY <1>1, <1>6, <1>8, <1>9, NoneAssumption DEF Knows, OutcomeKnows, Unwritten, Unsent, ends
  <1> QED
    BY <1>5, <1>6, <1>7, <1>9, <1>10, <1>11, <1>12, StepKeeps DEF Knows, inputs

LEMMA SecondMessage ==
    ASSUME NEW Messages, NEW first \in Seq(Messages), Len(first) = 1, NEW message \in Messages
    PROVE  /\ Append(first, message) \in Seq(Messages) /\ Len(Append(first, message)) = 2
           /\ Append(first, message)[1] = first[1] /\ Append(first, message)[2] = message
  <1>1. /\ Append(first, message) \in Seq(Messages)
        /\ Len(Append(first, message)) = Len(first) + 1
        /\ Append(first, message)[Len(first) + 1] = message
        /\ \A m \in 1..Len(first) : Append(first, message)[m] = first[m]
    OBVIOUS
  <1> QED
    BY <1>1

LEMMA ProtectInstructionInv ==
    ASSUME Inv, NEW r \in Requests, ProtectInstruction(r)
    PROVE  Inv'
  <1> DEFINE sure == task[r].sure
  <1>1. /\ task[r] \in Tasks /\ task \in [Requests -> Tasks] /\ Knows(r)
        /\ task[r].step = "note"
    BY DEF Inv, TypeInv, ProtectInstruction, At
  <1>2. /\ Policy(r) \in Policies /\ Apart(sure) /\ ~Blocks(r, sure)
        /\ Len(task[r].payload) = 1 /\ Harmless(r, task[r].payload[1], task[r].found)
    BY <1>1 DEF Knows, PayloadKnows, Snapped
  <1>3. instruction[r] \in SUBSET Occurrences /\ sure \in SUBSET Occurrences /\ "scan" \in Steps
    BY <1>1 DEF Inv, TypeInv, Tasks, Steps
  <1>4. Raises(r, "over") \/ Transform(r, instruction[r], sure, "scan")
    BY <1>2 DEF ProtectInstruction
  <1>5. CASE Raises(r, "over")
    BY <1>1, <1>5, RaisesInv DEF Codes
  <1>6. CASE Transform(r, instruction[r], sure, "scan")
    <2> HIDE DEF sure
    <2>1. PICK message \in SUBSET Pieces, minted \in SUBSET TokenIds :
            /\ task' = [task EXCEPT ![r] = [task[r] EXCEPT
                          !.payload = Append(@, message), !.minted = minted, !.step = "scan"]]
            /\ HarmlessNow(r, message, sure)
            /\ Grown /\ UNCHANGED <<inputs, child, part, ends>>
      BY <1>2, <1>3, <1>6, TransformStep
    <2> DEFINE both == Append(task[r].payload, message)
               t == [task[r] EXCEPT !.payload = both, !.minted = minted, !.step = "scan"]
    <2>2. both \in Seq(SUBSET Pieces) /\ Len(both) = 2 /\ both[2] = message
          /\ both[1] = task[r].payload[1]
      <3>1. task[r].payload \in Seq(SUBSET Pieces)
        BY <1>1 DEF Tasks
      <3> QED
        BY <1>2, <3>1, SecondMessage
    <2>3. Goes(r, t)
      BY <1>1, <2>1 DEF Goes, Tasks
    <2> HIDE DEF both
    <2>4. /\ t \in Tasks /\ t.step = "scan" /\ t.payload = both
          /\ t.found = task[r].found /\ t.policy = task[r].policy
          /\ t.sure = task[r].sure /\ t.attempt = task[r].attempt
      BY <1>1, <2>2 DEF Tasks, Steps
    <2> HIDE DEF t
    <2>5. task'[r] = t
      BY <1>1, <2>3 DEF Goes
    <2>6. AnalysisStep(r) /\ EndsStep(r) /\ UNCHANGED <<inputs, ends>>
      BY <2>1, AnalysisStays, EndsStay DEF inputs
    <2>7. DetectionKnows(r)'
      BY <1>1, <2>4, <2>5, <2>6 DEF Knows, DetectionKnows, Kept, Undetected, Whole, inputs
    <2>8. PayloadKnows(r)'
      <3>1. Policy(r)' = Policy(r)
        BY <2>4, <2>5 DEF Policy
      <3>2. HarmlessNow(r, task[r].payload[1], task[r].found)
        BY <1>2, <2>1, <3>1, HarmlessStays
      <3>3. Harmless(r, task[r].payload[1], task[r].found)'
        BY <2>2, <2>4, <2>5, <3>1, <3>2 DEF Harmless, HarmlessNow, PlainWhereAllowed, Action
      <3>4. Harmless(r, task[r].payload[2], task[r].sure)'
        BY <2>1, <2>2, <2>4, <2>5, <3>1 DEF Harmless, HarmlessNow, PlainWhereAllowed, Action, sure
      <3> QED
        BY <2>2, <2>4, <2>5, <3>3, <3>4 DEF PayloadKnows, Unwritten, Undetected, Whole, Snapped
    <2>9. OutcomeKnows(r)'
      BY <1>1, <2>4, <2>5, <2>6, NoneAssumption DEF Knows, OutcomeKnows, Unsent, ends
    <2> QED
      BY <2>1, <2>3, <2>4, <2>6, <2>7, <2>8, <2>9, StepKeeps DEF Knows, inputs
  <1> QED
    BY <1>4, <1>5, <1>6

-----------------------------------------------------------------------------
(***************************************************************************)
(* Behind the two messages: the scan, the provider, and the answer.        *)
(***************************************************************************)

\* A request that goes on with its messages as they are, or leaves them behind.
LEMMA GoesOnInv ==
    ASSUME Inv, NEW r \in Requests, NEW t \in Tasks, Goes(r, t),
           UNCHANGED <<inputs, child, part, vault>>, EndsStep(r),
           task[r].step \in Whole \cup {"restoration"},
           t.step \in {"calling", "pause", "restoration", "audit"},
           t.step \in Whole =>
             /\ task[r].step \in Whole
             /\ t.payload = task[r].payload /\ t.found = task[r].found /\ t.sure = task[r].sure
             /\ t.policy = task[r].policy,
           OutcomeKnows(r)'
    PROVE  Inv'
  <1>1. AnalysisStep(r) /\ Grown
    BY AnalysisStays, VaultStays DEF inputs
  <1>2. task'[r] = t /\ Knows(r)
    BY DEF Goes, Inv, TypeInv
  <1>3. DetectionKnows(r)'
    BY <1>2 DEF Knows, DetectionKnows, Kept, Undetected, Whole, inputs
  <1>4. PayloadKnows(r)'
    <2>1. CASE t.step \in Whole
      <3>1. task[r].step \in Whole /\ task'[r].payload = task[r].payload
            /\ task'[r].found = task[r].found /\ task'[r].sure = task[r].sure
            /\ Policy(r)' = Policy(r)
        BY <1>2, <2>1 DEF Policy
      <3>2. /\ Len(task[r].payload) = 2
            /\ Harmless(r, task[r].payload[1], task[r].found)
            /\ Harmless(r, task[r].payload[2], task[r].sure)
        BY <1>2, <3>1 DEF Knows, PayloadKnows
      <3>3. /\ HarmlessNow(r, task[r].payload[1], task[r].found)
            /\ HarmlessNow(r, task[r].payload[2], task[r].sure)
        BY <1>1, <3>1, <3>2, HarmlessStays
      <3>4. Harmless(r, task[r].payload[1], task[r].found)'
        BY <3>1, <3>3 DEF Harmless, HarmlessNow, PlainWhereAllowed, Action
      <3>5. Harmless(r, task[r].payload[2], task[r].sure)'
        BY <3>1, <3>3 DEF Harmless, HarmlessNow, PlainWhereAllowed, Action
      <3> QED
        BY <1>2, <3>1, <3>2, <3>4, <3>5 DEF PayloadKnows, Unwritten, Undetected, Snapped
    <2>2. CASE t.step \notin Whole
      BY <1>2, <2>2 DEF PayloadKnows, Unwritten, Undetected, Snapped
    <2> QED
      BY <2>1, <2>2
  <1> QED
    BY <1>1, <1>3, <1>4, StepKeeps DEF Knows, inputs

\* The tokens in what a request hands to the adapter are kept.
LEMMA SentTokens ==
    ASSUME Inv, NEW r \in Requests, At(r, "scan")
    PROVE  TokensIn(Texts(r)) \subseteq DOMAIN origin
  <1>1. /\ Len(task[r].payload) = 2 /\ task[r].payload \in Seq(SUBSET Pieces)
        /\ Harmless(r, task[r].payload[1], task[r].found)
        /\ Harmless(r, task[r].payload[2], task[r].sure)
    BY DEF Inv, Knows, PayloadKnows, At, Whole, TypeInv, Tasks
  <1>2. DOMAIN task[r].payload = {1, 2}
    BY <1>1
  <1> QED
    BY <1>1, <1>2 DEF TokensIn, Texts, Harmless

LEMMA ScanInv ==
    ASSUME Inv, NEW r \in Requests, Scan(r)
    PROVE  Inv'
  <1>1. /\ task[r] \in Tasks /\ task \in [Requests -> Tasks] /\ Knows(r)
        /\ task[r].step = "scan" /\ sent \in [Requests -> (SUBSET TokenIds) \cup {None}]
    BY DEF Inv, TypeInv, Scan, At
  <1>2. UNCHANGED <<inputs, child, part, vault, answer, told, rows>>
    BY DEF Scan
  <1>3. PICK findings \in SUBSET Actionable(r) :
          IF findings # {}
          THEN Goes(r, [task[r] EXCEPT !.step = "audit", !.code = "outbound"]) /\ UNCHANGED sent
          ELSE /\ Goes(r, [task[r] EXCEPT !.step = "calling", !.attempt = 1])
               /\ sent' = [sent EXCEPT ![r] = TokensIn(Texts(r))]
    BY DEF Scan
  <1>4. CASE findings # {}
    <2> DEFINE t == [task[r] EXCEPT !.step = "audit", !.code = "outbound"]
    <2>1. t \in Tasks /\ t.step = "audit" /\ t.code = "outbound" /\ t.attempt = task[r].attempt
      BY <1>1 DEF Tasks, Steps, Codes
    <2>2. Goes(r, t) /\ sent' = sent
      BY <1>3, <1>4
    <2> HIDE DEF t
    <2>3. task'[r] = t /\ EndsStep(r)
      BY <1>1, <1>2, <2>2, EndsStay DEF Goes, ends
    <2>4. OutcomeKnows(r)'
      BY <1>1, <1>2, <2>1, <2>2, <2>3, NoneAssumption
         DEF Knows, OutcomeKnows, Unsent, Unwritten, Undetected
    <2> QED
      BY <1>1, <1>2, <2>1, <2>2, <2>3, <2>4, GoesOnInv DEF Whole
  <1>5. CASE findings = {}
    <2> DEFINE t == [task[r] EXCEPT !.step = "calling", !.attempt = 1]
               ids == TokensIn(Texts(r))
    <2>1. /\ t \in Tasks /\ t.step = "calling" /\ t.attempt = 1 /\ t.policy = task[r].policy
          /\ t.payload = task[r].payload /\ t.found = task[r].found /\ t.sure = task[r].sure
      BY <1>1 DEF Tasks, Steps
    <2>2. Goes(r, t) /\ sent' = [sent EXCEPT ![r] = ids]
      BY <1>3, <1>5
    <2>3. ids \in SUBSET TokenIds
      BY <1>1, SentTokens DEF At, Inv, TypeInv, VaultType
    <2> HIDE DEF t, ids
    <2>4. task'[r] = t
      BY <1>1, <2>2 DEF Goes
    <2>5. EndsStep(r) /\ sent'[r] # None
      <3>1. sent' \in [Requests -> (SUBSET TokenIds) \cup {None}] /\ sent'[r] = ids
            /\ \A q \in Requests \ {r} : sent'[q] = sent[q]
        BY <1>1, <2>2, <2>3
      <3>2. /\ answer' \in [Requests -> (SUBSET Values) \cup {None}]
            /\ told' \in [Requests -> Codes] /\ rows' \in [Requests -> Seq(Codes)]
        BY <1>2 DEF Inv, TypeInv
      <3> QED
        BY <1>2, <2>3, <3>1, <3>2, NoneAssumption DEF EndsStep
    <2>6. OutcomeKnows(r)'
      <3>1. Attempts \in Nat \ {0}
        BY BoundAssumption
      <3>2. /\ answer[r] = None /\ told[r] = None /\ rows[r] = <<>>
        BY <1>1 DEF Knows, OutcomeKnows
      <3> QED
        BY <1>2, <2>1, <2>4, <2>5, <3>1, <3>2, NoneAssumption
           DEF OutcomeKnows, Unsent, Unwritten, Undetected
    <2> QED
      BY <1>1, <1>2, <2>1, <2>2, <2>4, <2>5, <2>6, GoesOnInv DEF Whole
  <1> QED
    BY <1>4, <1>5

\* The provider answers, or may be tried again.
LEMMA ProviderInv ==
    ASSUME Inv, NEW r \in Requests, Answers(r) \/ Fails(r) \/ Again(r) \/ Deadline(r)
    PROVE  Inv'
  <1>1. task[r] \in Tasks /\ task \in [Requests -> Tasks] /\ Knows(r)
    BY DEF Inv, TypeInv
  <1>2. CASE Raises(r, "failed") /\ task[r].step # "done"
    BY <1>2, RaisesInv DEF Codes
  <1>3. CASE Quiet /\ UNCHANGED analysisVars /\ task[r].step \in {"calling", "pause"}
             /\ \E t \in Tasks :
                  /\ Goes(r, t) /\ t.step \in {"calling", "pause", "restoration"}
                  /\ t.payload = task[r].payload /\ t.found = task[r].found
                  /\ t.sure = task[r].sure /\ t.policy = task[r].policy
                  /\ t.minted = task[r].minted
                  /\ t.attempt <= Attempts /\ (t.step = "pause" => t.attempt < Attempts)
    <2>1. PICK t \in Tasks :
            /\ Goes(r, t) /\ t.step \in {"calling", "pause", "restoration"}
            /\ t.payload = task[r].payload /\ t.found = task[r].found
            /\ t.sure = task[r].sure /\ t.policy = task[r].policy
            /\ t.minted = task[r].minted
            /\ t.attempt <= Attempts /\ (t.step = "pause" => t.attempt < Attempts)
      BY <1>3
    <2>2. task'[r] = t
      BY <1>1, <2>1 DEF Goes
    <2>3. UNCHANGED <<inputs, child, part, vault, ends>> /\ EndsStep(r)
      BY <1>3, EndsStay DEF Quiet, analysisVars, inputs
    <2>4. OutcomeKnows(r)'
      BY <1>1, <1>3, <2>1, <2>2, <2>3, NoneAssumption
         DEF Knows, OutcomeKnows, Unsent, Unwritten, Undetected, ends
    <2> QED
      BY <1>3, <2>1, <2>3, <2>4, GoesOnInv DEF Whole
  <1>4. task[r].attempt \in Nat /\ Attempts \in Nat
    BY <1>1, BoundAssumption DEF Tasks
  <1>5. CASE Answers(r)
    <2>1. PICK reply \in Replies : Goes(r, [task[r] EXCEPT !.step = "restoration", !.reply = reply])
      BY <1>5 DEF Answers
    <2> DEFINE t == [task[r] EXCEPT !.step = "restoration", !.reply = reply]
    <2>2. /\ t \in Tasks /\ t.step = "restoration"
          /\ t.payload = task[r].payload /\ t.found = task[r].found
          /\ t.sure = task[r].sure /\ t.policy = task[r].policy
          /\ t.minted = task[r].minted /\ t.attempt = task[r].attempt
      BY <1>1, BoundAssumption DEF Tasks, Steps
    <2>3. Goes(r, t) /\ task[r].attempt <= Attempts
      BY <1>1, <2>1 DEF Knows, OutcomeKnows
    <2> HIDE DEF t
    <2> QED
      BY <1>3, <1>5, <2>2, <2>3 DEF Answers, At
  <1>6. CASE Fails(r) /\ ~Raises(r, "failed")
    <2> DEFINE t == [task[r] EXCEPT !.step = "pause"]
    <2>2. /\ t \in Tasks /\ t.step = "pause"
          /\ t.payload = task[r].payload /\ t.found = task[r].found
          /\ t.sure = task[r].sure /\ t.policy = task[r].policy
          /\ t.minted = task[r].minted /\ t.attempt = task[r].attempt
      BY <1>1 DEF Tasks, Steps
    <2>3. Goes(r, t) /\ task[r].attempt <= Attempts /\ task[r].attempt < Attempts
      BY <1>1, <1>6 DEF Knows, OutcomeKnows, Fails, MayRetry, GoesOn
    <2> HIDE DEF t
    <2> QED
      BY <1>3, <1>6, <2>2, <2>3 DEF Fails, At
  <1>7. CASE Again(r)
    <2> DEFINE next == task[r].attempt + 1
               t == [task[r] EXCEPT !.step = "calling", !.attempt = next]
    <2>1. next \in Nat
      BY <1>4
    <2>3. Goes(r, t) /\ task[r].attempt < Attempts
      BY <1>1, <1>7 DEF Knows, OutcomeKnows, Again, At, Tasks
    <2> HIDE DEF next
    <2>2. /\ t \in Tasks /\ t.step = "calling"
          /\ t.payload = task[r].payload /\ t.found = task[r].found
          /\ t.sure = task[r].sure /\ t.policy = task[r].policy
          /\ t.minted = task[r].minted /\ t.attempt = next
      BY <1>1, <2>1 DEF Tasks, Steps
    <2>4. t.attempt <= Attempts
      BY <1>4, <2>2, <2>3 DEF next
    <2> HIDE DEF t
    <2> QED
      BY <1>3, <1>7, <2>2, <2>3, <2>4 DEF Again, At
  <1> QED
    BY <1>2, <1>5, <1>6, <1>7 DEF Fails, Deadline, MayExpire, At

\* What restoration puts into an answer was kept.
LEMMA RestoredValues ==
    ASSUME Inv, NEW r \in Requests
    PROVE  /\ Resolved(r) \subseteq DOMAIN origin
           /\ {origin[i] : i \in Resolved(r)} \in SUBSET Values
  BY DEF Inv, TypeInv, VaultType, Resolved

LEMMA RestoreInv ==
    ASSUME Inv, NEW r \in Requests, Restore(r)
    PROVE  Inv'
  <1>1. /\ task[r] \in Tasks /\ task \in [Requests -> Tasks] /\ Knows(r)
        /\ task[r].step = "restoration"
    BY DEF Inv, TypeInv, Restore, At
  <1>2. CASE Raises(r, "failed")
    BY <1>1, <1>2, RaisesInv DEF Codes
  <1>3. CASE ~Raises(r, "failed")
    <2> DEFINE t == [task[r] EXCEPT !.step = "audit", !.code = "ok"]
               values == {origin[i] : i \in Resolved(r)}
    <2>1. t \in Tasks /\ t.step = "audit" /\ t.code = "ok" /\ t.attempt = task[r].attempt
      BY <1>1 DEF Tasks, Steps, Codes
    <2>2. /\ Goes(r, t) /\ answer' = [answer EXCEPT ![r] = values]
          /\ UNCHANGED <<inputs, child, part, vault, sent, told, rows>>
      BY <1>3 DEF Restore
    <2>3. values \in SUBSET Values
      BY RestoredValues
    <2> HIDE DEF t, values
    <2>4. EndsStep(r)
      <3>1. answer' \in [Requests -> (SUBSET Values) \cup {None}]
            /\ \A q \in Requests \ {r} : answer'[q] = answer[q]
        BY <2>2, <2>3 DEF Inv, TypeInv
      <3> QED
        BY <2>2, <3>1 DEF Inv, TypeInv, EndsStep
    <2>5. task'[r] = t
      BY <1>1, <2>2 DEF Goes
    <2>6. OutcomeKnows(r)'
      BY <1>1, <2>1, <2>2, <2>5, NoneAssumption
         DEF Knows, OutcomeKnows, Unsent, Unwritten, Undetected
    <2> QED
      BY <1>1, <2>1, <2>2, <2>4, <2>6, GoesOnInv DEF Whole
  <1> QED
    BY <1>2, <1>3

\* What a request is told, and the row of it that is kept.
LEMMA AttestInv ==
    ASSUME Inv, NEW r \in Requests, Attest(r)
    PROVE  Inv'
  <1>1. /\ task[r] \in Tasks /\ task \in [Requests -> Tasks] /\ Knows(r)
        /\ task[r].step = "audit" /\ UNCHANGED <<inputs, child, part, vault>>
    BY DEF Inv, TypeInv, Attest, At
  <1>2. PICK submission \in Submissions :
          /\ rows' = IF "kept" \in submission THEN [rows EXCEPT ![r] = Append(@, task[r].code)] ELSE rows
          /\ Goes(r, [New EXCEPT !.step = "done", !.minted = task[r].minted,
                                 !.attempt = task[r].attempt, !.code = Told(r, submission)])
          /\ told' = [told EXCEPT ![r] = Told(r, submission)]
          /\ sent' = [sent EXCEPT ![r] = None] /\ answer' = [answer EXCEPT ![r] = None]
    BY DEF Attest
  <1> DEFINE code == task[r].code
             how == Told(r, submission)
             t == [New EXCEPT !.step = "done", !.minted = task[r].minted,
                              !.attempt = task[r].attempt, !.code = how]
  <1>3. /\ code \in {"ok", "outbound"} /\ how \in {code, "unaudited"} /\ how \in Codes
        /\ code \in Codes
        /\ how \in {"ok", "outbound"} /\ FailClosed => "kept" \in submission /\ how = code
    BY <1>1 DEF Knows, OutcomeKnows, Told, Codes, Submissions
  <1>4. Goes(r, t)
    BY <1>2
  <1> HIDE DEF how, code
  <1>5. t \in Tasks /\ t.step = "done" /\ t.attempt = task[r].attempt
    <2>1. New \in Tasks /\ "done" \in Steps /\ task[r].minted \in SUBSET TokenIds
          /\ task[r].attempt \in Nat
      BY <1>1, NewTask DEF Tasks, Steps
    <2> QED
      BY <1>3, <2>1 DEF Tasks
  <1> HIDE DEF t
  <1>6. task'[r] = t
    BY <1>1, <1>4 DEF Goes
  <1>7. /\ rows' \in [Requests -> Seq(Codes)] /\ Len(rows'[r]) <= 1
        /\ "kept" \in submission => rows'[r] # <<>> /\ rows'[r][1] = code
        /\ \A q \in Requests \ {r} : rows'[q] = rows[q]
    <2>1. rows \in [Requests -> Seq(Codes)] /\ rows[r] = <<>>
      BY <1>1 DEF Inv, TypeInv, Knows, OutcomeKnows
    <2>2. CASE "kept" \in submission
      <3>1. rows' = [rows EXCEPT ![r] = Append(@, code)]
        BY <1>2, <2>2 DEF code
      <3>2. Append(<<>>, code) = <<code>> /\ <<code>> \in Seq(Codes)
            /\ Len(<<code>>) = 1 /\ <<code>> # <<>> /\ <<code>>[1] = code
        BY <1>3
      <3>3. rows' = [rows EXCEPT ![r] = <<code>>]
        BY <2>1, <3>1, <3>2
      <3> QED
        BY <2>1, <2>2, <3>2, <3>3
    <2>3. CASE "kept" \notin submission
      BY <1>2, <2>1, <2>3
    <2> QED
      BY <2>2, <2>3
  <1>8. told' = [told EXCEPT ![r] = how]
    BY <1>2 DEF how
  <1>9. EndsStep(r) /\ told'[r] = how
    <2>1. /\ sent \in [Requests -> (SUBSET TokenIds) \cup {None}]
          /\ answer \in [Requests -> (SUBSET Values) \cup {None}]
          /\ told \in [Requests -> Codes]
      BY DEF Inv, TypeInv
    <2>2. /\ sent' \in [Requests -> (SUBSET TokenIds) \cup {None}]
          /\ answer' \in [Requests -> (SUBSET Values) \cup {None}]
          /\ told' \in [Requests -> Codes] /\ told'[r] = how
      BY <1>2, <1>3, <1>8, <2>1
    <2>3. \A q \in Requests \ {r} : /\ sent'[q] = sent[q] /\ answer'[q] = answer[q]
                                    /\ told'[q] = told[q]
      BY <1>2, <2>1
    <2> QED
      BY <1>7, <2>2, <2>3 DEF EndsStep
  <1>10. AnalysisStep(r) /\ Grown
    BY <1>1, AnalysisStays, VaultStays DEF inputs
  <1>11. DetectionKnows(r)' /\ PayloadKnows(r)'
    BY <1>5, <1>6 DEF DetectionKnows, PayloadKnows, Undetected, Unwritten, Whole, Snapped
  <1>12. OutcomeKnows(r)'
    BY <1>1, <1>3, <1>5, <1>6, <1>7, <1>9
       DEF Knows, OutcomeKnows, Unsent, Unwritten, Undetected
  <1> QED
    BY <1>1, <1>4, <1>5, <1>9, <1>10, <1>11, <1>12, StepKeeps DEF Knows, inputs

LEMMA BreaksInv ==
    ASSUME Inv, NEW r \in Requests, Fault(r) \/ Cancel(r)
    PROVE  Inv'
  <1>1. task[r].step # "done"
    BY DEF Fault, Cancel, Awaits
  <1>2. PICK how \in {"failed", "cancelled"} : Breaks(r, how)
    BY DEF Fault, Cancel
  <1>3. Grown /\ AnalysisStep(r)
    BY <1>2, CarriedOutGrows, OverStep DEF Breaks, inputs
  <1>4. how \in Codes \ {"ok", "outbound"} /\ how # "blocked"
    BY DEF Codes
  <1> QED
    BY <1>1, <1>2, <1>3, <1>4, EndsInv DEF Breaks, inputs

LEMMA ForgetInv ==
    ASSUME Inv, NEW i \in TokenIds, Forget(i)
    PROVE  Inv'
  <1>1. UNCHANGED <<document, child, part, reported, instruction, task, origin, sent, answer,
                    told, rows>>
        /\ live' \subseteq live
    BY DEF Forget, analysisVars, ends
  <1>2. TypeInv'
    <2>1. VaultType'
      BY <1>1 DEF Inv, TypeInv, VaultType
    <2>2. AnalysisType'
      BY <1>1 DEF Inv, TypeInv, AnalysisType, Parts
    <2> QED
      BY <1>1, <2>1, <2>2 DEF Inv, TypeInv
  <1>3. ASSUME NEW r \in Requests
        PROVE  Knows(r)'
    <2>1. DetectionKnows(r)'
      BY <1>1 DEF Inv, Knows, DetectionKnows, Kept, Promoted, Parts
    <2>2. PayloadKnows(r)'
      BY <1>1 DEF Inv, Knows, PayloadKnows, Harmless, PlainWhereAllowed, Policy, Action, Blocks
    <2>3. OutcomeKnows(r)'
      BY <1>1 DEF Inv, Knows, OutcomeKnows
    <2> QED
      BY <2>1, <2>2, <2>3 DEF Knows
  <1> QED
    BY <1>2, <1>3 DEF Inv

-----------------------------------------------------------------------------
LEMMA InitInv == Init => Inv
  <1> SUFFICES ASSUME Init PROVE Inv
    OBVIOUS
  <1>1. AnalysisType
    <2>1. /\ document \in [Requests -> Seq(SUBSET Occurrences) \ {<<>>}]
          /\ child = [r \in Requests |-> "none"]
          /\ part = [r \in Requests |-> All(r, "over")]
          /\ reported = [r \in Requests |-> {}]
      BY DocumentAssumption DEF Init, AnalysisInit
    <2>2. \A r \in Requests : All(r, "over") \in [Parts(r) -> Detections]
      BY DEF All, Part, Detections
    <2> QED
      BY <2>1, <2>2 DEF AnalysisType
  <1>2. VaultType
    BY DEF Init, VaultType
  <1>3. TypeInv
    <2>1. instruction \in [Requests -> SUBSET Occurrences] /\ task \in [Requests -> Tasks]
      BY InstructionAssumption, NewTask DEF Init
    <2>2. /\ sent \in [Requests -> (SUBSET TokenIds) \cup {None}]
          /\ answer \in [Requests -> (SUBSET Values) \cup {None}]
      BY DEF Init
    <2>3. told \in [Requests -> Codes] /\ rows \in [Requests -> Seq(Codes)]
      <3>1. <<>> \in Seq(Codes) /\ None \in Codes
        BY DEF Codes
      <3> QED
        BY <3>1 DEF Init
    <2> QED
      BY <1>1, <1>2, <2>1, <2>2, <2>3 DEF TypeInv
  <1>4. ASSUME NEW r \in Requests
        PROVE  Knows(r)
    <2>1. /\ task[r].step = "routing" /\ task[r].payload = <<>> /\ task[r].minted = {}
          /\ task[r].attempt = 0 /\ reported[r] = {}
          /\ sent[r] = None /\ answer[r] = None /\ told[r] = None /\ rows[r] = <<>>
      BY DEF Init, AnalysisInit, New
    <2>2. DetectionKnows(r)
      BY <2>1 DEF DetectionKnows, Whole
    <2>3. PayloadKnows(r)
      BY <2>1 DEF PayloadKnows, Whole, Snapped
    <2>4. OutcomeKnows(r)
      BY <2>1, NoneAssumption, BoundAssumption DEF OutcomeKnows
    <2> QED
      BY <2>2, <2>3, <2>4 DEF Knows
  <1> QED
    BY <1>3, <1>4 DEF Inv

LEMMA NextInv == Inv /\ [Next]_vars => Inv'
  <1> SUFFICES ASSUME Inv, [Next]_vars PROVE Inv'
    OBVIOUS
  <1>1. CASE UNCHANGED vars
    <2>1. UNCHANGED <<document, child, part, reported, instruction, task, origin, live, sent,
                      answer, told, rows>>
      BY <1>1 DEF vars, analysisVars, vault, ends
    <2>2. TypeInv'
      <3>1. TypeInv
        BY DEF Inv
      <3>2. AnalysisType' /\ VaultType'
        BY <2>1, <3>1 DEF TypeInv, VaultType, AnalysisType, Parts
      <3> QED
        BY <2>1, <3>1, <3>2 DEF TypeInv
    <2>3. ASSUME NEW r \in Requests PROVE Knows(r)'
      <3>1. DetectionKnows(r) /\ PayloadKnows(r) /\ OutcomeKnows(r)
        BY DEF Inv, Knows
      <3>2. DetectionKnows(r)'
        BY <2>1, <3>1 DEF DetectionKnows, Kept, Promoted, Parts
      <3>3. PayloadKnows(r)'
        BY <2>1, <3>1 DEF PayloadKnows, Harmless, PlainWhereAllowed, Policy, Action, Blocks
      <3>4. OutcomeKnows(r)'
        BY <2>1, <3>1 DEF OutcomeKnows
      <3> QED
        BY <3>2, <3>3, <3>4 DEF Knows
    <2> QED
      BY <2>2, <2>3 DEF Inv
  <1>2. ASSUME NEW r \in Requests, Serves(r)
        PROVE  Inv'
    <2>1. CASE DetectSegments(r)
      <3>1. PICK s \in Parts(r) : TakeSegment(r, s) \/ SegmentDone(r, s)
        BY <2>1 DEF DetectSegments
      <3>2. task' = task /\ Quiet /\ UNCHANGED <<document, child>> /\ task[r].step = "detection"
        BY <2>1, <3>1 DEF DetectSegments, At, TakeSegment, SegmentDone
      <3> QED
        BY <3>1, <3>2, DetectSegmentsInv
    <2> QED
      BY <1>2, <2>1, RouteInv, ExtractInv, SegmentInv, LabelInv, DetectInstructionInv,
         ProtectDocumentInv, ProtectInstructionInv, ScanInv, ProviderInv, RestoreInv, AttestInv
         DEF Serves
  <1>3. CASE \E i \in TokenIds : Forget(i)
    BY <1>3, ForgetInv
  <1> QED
    BY <1>1, <1>2, <1>3, ProviderInv, BreaksInv, AbandonedInv DEF Next, AllDone

THEOREM Invariance == Spec => []Inv
  BY InitInv, NextInv, PTL DEF Spec

-----------------------------------------------------------------------------
\* PayloadIsProtected: where a segment's detection has reported an occurrence with the
\* score the snapshot asks for, the protected document is in plain only if what the
\* resolution kept there is allowed; what is sure in the instruction is in plain only if
\* it is allowed; and a value has one live token in both (analyzer.py:179-186,
\* protection.py:260-300).
THEOREM PayloadStaysProtected == Spec => []PayloadIsProtected
  <1>1. Inv => PayloadIsProtected
    <2> SUFFICES ASSUME Inv, NEW r \in Requests, task[r].step \in Whole
                 PROVE  /\ \A o \in PlainIn(task[r].payload[1]) \cap Confident(Policy(r), reported[r]) :
                             \E k \in task[r].found : Overlaps(o, k) /\ Action(r, k) = "allow"
                        /\ \A o \in PlainIn(task[r].payload[2]) \cap task[r].sure :
                             Action(r, o) = "allow"
                        /\ \A i, j \in TokensIn(Texts(r)) :
                             origin[i] = origin[j] /\ {i, j} \subseteq live => i = j
      BY DEF PayloadIsProtected, Whole
    <2>1. /\ Harmless(r, task[r].payload[1], task[r].found)
          /\ Harmless(r, task[r].payload[2], task[r].sure)
          /\ Kept(r) /\ task[r].sure \subseteq Occurrences
      BY DEF Inv, Knows, PayloadKnows, DetectionKnows, TypeInv, Tasks
    <2>2. ASSUME NEW found, NEW text, Harmless(r, text, found), NEW o \in PlainIn(text),
                 NEW k \in found, Overlaps(o, k)
          PROVE  Action(r, k) = "allow"
      BY <2>2 DEF PlainIn, Harmless, PlainWhereAllowed
    <2>3. \A o \in Confident(Policy(r), reported[r]) : \E k \in task[r].found : Overlaps(o, k)
      BY <2>1 DEF Kept, Resolutions, Policy
    <2>4. \A o \in task[r].sure : Overlaps(o, o)
      BY <2>1, OverlapAssumption DEF Overlaps
    <2>5. \A i, j \in live : origin[i] = origin[j] => i = j
      BY DEF Inv, TypeInv, VaultType
    <2> QED
      BY <2>1, <2>2, <2>3, <2>4, <2>5
  <1> QED
    BY <1>1, Invariance, PTL

\* BlockedLeavesNothing: a request that a blocked value ends, in its document or in its
\* instruction, has put nothing into the vault (protection.py:49-53).
THEOREM BlockedStaysOut == Spec => []BlockedLeavesNothing
  <1>1. Inv => BlockedLeavesNothing
    BY DEF Inv, Knows, OutcomeKnows, BlockedLeavesNothing
  <1> QED
    BY <1>1, Invariance, PTL

\* ServedIsAttested: a fail-closed gateway serves no answer, and refuses none by its scan,
\* without the one row that says so, and the provider is tried no more often than the
\* adapter may (documents/pipeline.py:26-29, openai_provider.py:155).
THEOREM ServedStaysAttested == Spec => []ServedIsAttested
  <1>1. Inv => ServedIsAttested
    BY DEF Inv, Knows, OutcomeKnows, ServedIsAttested
  <1> QED
    BY <1>1, Invariance, PTL

-----------------------------------------------------------------------------
(***************************************************************************)
(* The exchange.  A batch keeps mappings, the scan lets a request be sent  *)
(* that holds none but kept ones, restoration answers it from the vault,   *)
(* and its end, which may carry a batch out, takes both back.              *)
(***************************************************************************)
LEMMA ExchangeOf ==
    ASSUME NEW r \in Requests
    PROVE  /\ Exchange!Of([q \in Requests |-> Session][r]) = DOMAIN origin
           /\ {[j \in DOMAIN origin |-> [session |-> Session, value |-> origin[j]]][i].value :
                 i \in DOMAIN origin} = {origin[i] : i \in DOMAIN origin}
  BY DEF Exchange!Of

LEMMA GrownIsGrowing == Grown => Exchange!Growing
  BY DEF Grown, VaultType, Exchange!Growing

LEMMA QuietRefines == UNCHANGED <<vault, sent, answer>> => UNCHANGED Exchange!vars
  BY DEF vault, Exchange!vars

LEMMA EndsRefines ==
    ASSUME NEW r \in Requests, Grown,
           sent' = [sent EXCEPT ![r] = None], answer' = [answer EXCEPT ![r] = None]
    PROVE  Exchange!Next
  BY GrownIsGrowing DEF Exchange!Next, Exchange!Over

LEMMA RaisesRefines ==
    ASSUME Inv, NEW r \in Requests, NEW how, Raises(r, how)
    PROVE  Exchange!Next
  BY EndsRefines, VaultStays DEF Raises, Ends

LEMMA KeepRefines == Grown /\ UNCHANGED <<sent, answer>> => Exchange!Next
  BY GrownIsGrowing DEF Exchange!Next, Exchange!Keep

LEMMA TransformRefines ==
    ASSUME Inv, NEW r \in Requests, NEW found \in SUBSET Occurrences, NEW text, NEW next,
           Transform(r, text, found, next)
    PROVE  Exchange!Next
  <1>1. PICK ids \in Mints(r, found) : Batch(ids)
    BY DEF Transform
  <1>2. Grown
    BY <1>1, BatchGrows
  <1> QED
    BY <1>2, KeepRefines DEF Transform, ends

LEMMA RequestRefines ==
    ASSUME Inv, NEW r \in Requests, Serves(r) \/ Answers(r) \/ Fails(r) \/ Again(r)
                                    \/ Fault(r) \/ Cancel(r) \/ Abandoned(r)
    PROVE  Exchange!Next \/ UNCHANGED Exchange!vars
  <1>1. CASE Route(r) \/ TakeSnapshot(r) \/ Extract(r) \/ Segment(r) \/ DetectSegments(r)
             \/ Answers(r) \/ Again(r) \/ Abandoned(r)
    BY <1>1, QuietRefines DEF Route, TakeSnapshot, Extract, Segment, DetectSegments, Answers,
       Again, Abandoned, Quiet, ends
  <1>2. CASE Label(r) \/ DetectInstruction(r)
    <2>1. UNCHANGED vault
      BY <1>2 DEF Label, DetectInstruction
    <2>2. UNCHANGED ends \/ \E how : Ends(r, how)
      BY <1>2 DEF Label, DetectInstruction
    <2> QED
      BY <2>1, <2>2, QuietRefines, EndsRefines, VaultStays DEF ends, Ends
  <1>3. CASE ProtectDocument(r)
    BY <1>3, TransformRefines DEF ProtectDocument, Inv, TypeInv, Tasks
  <1>4. CASE ProtectInstruction(r)
    BY <1>4, TransformRefines, RaisesRefines DEF ProtectInstruction, Inv, TypeInv, Tasks
  <1>5. CASE Scan(r)
    <2>1. sent[r] = None /\ At(r, "scan")
      BY <1>5 DEF Scan, At, Inv, Knows, OutcomeKnows, Unsent
    <2>2. CASE sent' = sent
      BY <1>5, <2>2, QuietRefines DEF Scan
    <2>3. CASE sent' = [sent EXCEPT ![r] = TokensIn(Texts(r))]
      <3> DEFINE ids == TokensIn(Texts(r))
      <3>1. ids \in SUBSET Exchange!Of([q \in Requests |-> Session][r])
        BY <2>1, SentTokens, ExchangeOf
      <3>2. sent' = [sent EXCEPT ![r] = ids] /\ UNCHANGED <<vault, answer>>
        BY <1>5, <2>3 DEF Scan
      <3> HIDE DEF ids
      <3>3. Exchange!Send(r)
        BY <2>1, <3>1, <3>2 DEF Exchange!Send, vault
      <3> QED
        BY <3>3 DEF Exchange!Next
    <2> QED
      BY <1>5, <2>2, <2>3 DEF Scan
  <1>6. CASE Restore(r)
    <2>1. CASE Raises(r, "failed")
      BY <2>1, RaisesRefines
    <2>2. CASE ~Raises(r, "failed")
      <3> DEFINE values == {origin[i] : i \in Resolved(r)}
      <3>1. sent[r] # None /\ answer[r] = None
        BY <1>6 DEF Restore, At, Inv, Knows, OutcomeKnows
      <3>2. answer' = [answer EXCEPT ![r] = values] /\ UNCHANGED <<vault, sent>>
        BY <1>6, <2>2 DEF Restore
      <3>3. values \in SUBSET {origin[i] : i \in DOMAIN origin}
        BY RestoredValues
      <3> HIDE DEF values
      <3>4. Exchange!Answer(r)
        BY <3>1, <3>2, <3>3, ExchangeOf DEF Exchange!Answer, vault
      <3> QED
        BY <3>4 DEF Exchange!Next
    <2> QED
      BY <2>1, <2>2
  <1>7. CASE Fails(r) \/ Deadline(r)
    BY <1>7, RaisesRefines, QuietRefines DEF Fails, Deadline, Quiet, ends
  <1>8. CASE Attest(r)
    BY <1>8, EndsRefines, VaultStays DEF Attest
  <1>9. CASE Fault(r) \/ Cancel(r)
    BY <1>9, EndsRefines, CarriedOutGrows DEF Fault, Cancel, Breaks, Ends
  <1> QED
    BY <1>1, <1>2, <1>3, <1>4, <1>5, <1>6, <1>7, <1>8, <1>9 DEF Serves

\* ImplementsExchange: a document exchange, with its two messages, its deadline and its
\* abandoned threads, is one that ProtectedExchange allows: nothing is sent before its
\* mappings are kept, and an answer holds only what was kept
\* (documents/pipeline.py:19-29, restoration/pipeline.py).
THEOREM ExchangeIsProtected == Spec => ImplementsExchange
  <1>1. Init => Exchange!Init
    BY DEF Init, Exchange!Init
  <1>2. Inv /\ [Next]_vars => [Exchange!Next]_Exchange!vars
    <2> SUFFICES ASSUME Inv, [Next]_vars
                 PROVE  Exchange!Next \/ UNCHANGED Exchange!vars
      OBVIOUS
    <2>1. CASE UNCHANGED vars
      BY <2>1, QuietRefines DEF vars, ends
    <2>2. CASE \E i \in TokenIds : Forget(i)
      <3>1. UNCHANGED <<origin, sent, answer>>
        BY <2>2 DEF Forget, ends
      <3> QED
        BY <3>1 DEF Exchange!vars
    <2> QED
      BY <2>1, <2>2, RequestRefines DEF Next, AllDone
  <1> QED
    BY <1>1, <1>2, Invariance, PTL DEF Spec, ImplementsExchange, Exchange!Spec

-----------------------------------------------------------------------------
(***************************************************************************)
(* The two semaphores: a request holds a place of the extraction only      *)
(* while it extracts, and places of the detection only while it detects.   *)
(***************************************************************************)

\* What a request still waits for, it waits for in the step that started it.
Placed(r) ==
    /\ child[r] = "awaited" => At(r, "extraction")
    /\ \A s \in Parts(r) : part[r][s].at \in {"waiting", "running", "done"} => At(r, "detection")

PlacesInv ==
    /\ IsFiniteSet(Extracting) /\ Cardinality(Extracting) <= MaxWorkers
    /\ IsFiniteSet(Detecting) /\ Cardinality(Detecting) <= Concurrency
    /\ \A r \in Requests : Placed(r)

\* A step of one request leaves the others where they are.
Alone(r) ==
    /\ UNCHANGED document
    /\ \A q \in Requests \ {r} : child'[q] = child[q] /\ part'[q] = part[q] /\ task'[q] = task[q]

LEMMA OneMore ==
    ASSUME NEW S, IsFiniteSet(S), NEW x
    PROVE  /\ IsFiniteSet(S \cup {x}) /\ Cardinality(S \cup {x}) \in Nat /\ Cardinality(S) \in Nat
           /\ Cardinality(S \cup {x}) <= Cardinality(S) + 1
  <1>1. IsFiniteSet(S \cup {x})
        /\ Cardinality(S \cup {x}) = IF x \in S THEN Cardinality(S) ELSE Cardinality(S) + 1
    BY FS_AddElement
  <1>2. Cardinality(S) \in Nat
    BY FS_CardinalityType
  <1> QED
    BY <1>1, <1>2

LEMMA OthersArePlaced ==
    ASSUME PlacesInv, NEW r \in Requests, Alone(r), Placed(r)'
    PROVE  \A q \in Requests : Placed(q)'
  BY DEF PlacesInv, Alone, Placed, At, Parts

LEMMA ExtractingKept ==
    ASSUME PlacesInv, NEW r \in Requests, Alone(r), child'[r] = "awaited" => child[r] = "awaited"
    PROVE  IsFiniteSet(Extracting') /\ Cardinality(Extracting') <= MaxWorkers
  <1>1. Extracting' \subseteq Extracting
    BY DEF Alone, Extracting
  <1>2. Cardinality(Extracting) \in Nat /\ Cardinality(Extracting') \in Nat
        /\ Cardinality(Extracting') <= Cardinality(Extracting) /\ IsFiniteSet(Extracting')
    BY <1>1, FS_Subset, FS_CardinalityType DEF PlacesInv
  <1> QED
    BY <1>2, WorkerAssumption DEF PlacesInv

LEMMA DetectingKept ==
    ASSUME PlacesInv, NEW r \in Requests, Alone(r), Running(r)' \subseteq Running(r)
    PROVE  IsFiniteSet(Detecting') /\ Cardinality(Detecting') <= Concurrency
  <1>1. \A q \in Requests : Running(q)' \subseteq Running(q)
    BY DEF Alone, Running, Parts
  <1>2. Detecting' \subseteq Detecting
    BY <1>1 DEF Detecting
  <1>3. Cardinality(Detecting) \in Nat /\ Cardinality(Detecting') \in Nat
        /\ Cardinality(Detecting') <= Cardinality(Detecting) /\ IsFiniteSet(Detecting')
    BY <1>2, FS_Subset, FS_CardinalityType DEF PlacesInv
  <1> QED
    BY <1>3, WorkerAssumption DEF PlacesInv

LEMMA FewerPlaces ==
    ASSUME PlacesInv, NEW r \in Requests, Alone(r), Placed(r)',
           child'[r] = "awaited" => child[r] = "awaited", Running(r)' \subseteq Running(r)
    PROVE  PlacesInv'
  BY OthersArePlaced, ExtractingKept, DetectingKept DEF PlacesInv

\* A request that neither extracts nor detects holds nothing, and takes nothing.
LEMMA ElsewhereHolds ==
    ASSUME PlacesInv, NEW r \in Requests, task[r].step \notin {"extraction", "detection"},
           UNCHANGED <<document, child, part>>, \A q \in Requests \ {r} : task'[q] = task[q]
    PROVE  PlacesInv'
  <1>1. Alone(r) /\ child'[r] = child[r] /\ Running(r)' = Running(r)
    BY DEF Alone, Running, Parts
  <1>2. Placed(r)'
    BY DEF PlacesInv, Placed, At, Parts
  <1> QED
    BY <1>1, <1>2, FewerPlaces

LEMMA ExtractHolds ==
    ASSUME Inv, PlacesInv, NEW r \in Requests, Extract(r)
    PROVE  PlacesInv'
  <1>1. /\ child' = [child EXCEPT ![r] = "awaited"] /\ UNCHANGED <<document, part>>
        /\ task' = [task EXCEPT ![r] = [task[r] EXCEPT !.step = "extraction"]]
        /\ task[r].step = "opening" /\ Cardinality(Extracting) < MaxWorkers
    BY DEF Extract, StartsChild, GoesOn, Goes, At
  <1>2. child \in [Requests -> {"none", "awaited", "abandoned"}] /\ task \in [Requests -> Tasks]
    BY DEF Inv, TypeInv, AnalysisType
  <1>3. Alone(r) /\ Running(r)' = Running(r)
    BY <1>1, <1>2 DEF Alone, Running, Parts
  <1>4. At(r, "extraction")'
    BY <1>1, <1>2 DEF At, Tasks
  <1>5. Placed(r)'
    BY <1>1, <1>4 DEF PlacesInv, Placed, At, Parts
  <1>6. Extracting' = Extracting \cup {r}
    BY <1>1, <1>2 DEF Extracting
  <1>7. IsFiniteSet(Extracting') /\ Cardinality(Extracting') <= Cardinality(Extracting) + 1
        /\ Cardinality(Extracting) \in Nat /\ Cardinality(Extracting') \in Nat
    <2>1. IsFiniteSet(Extracting)
      BY DEF PlacesInv
    <2> QED
      BY <1>6, <2>1, OneMore
  <1> QED
    BY <1>1, <1>3, <1>5, <1>7, OthersArePlaced, DetectingKept, WorkerAssumption DEF PlacesInv

LEMMA SegmentHolds ==
    ASSUME Inv, PlacesInv, NEW r \in Requests, Segment(r)
    PROVE  PlacesInv'
  <1>1. /\ child' = [child EXCEPT ![r] = "none"] /\ UNCHANGED document
        /\ part' = [part EXCEPT ![r] = All(r, "waiting")]
        /\ task' = [task EXCEPT ![r] = [task[r] EXCEPT !.step = "detection"]]
    BY DEF Segment, ReapsChild, StartsDetection, GoesOn, Goes
  <1>2. child \in [Requests -> {"none", "awaited", "abandoned"}] /\ task \in [Requests -> Tasks]
        /\ DOMAIN part = Requests
    BY DEF Inv, TypeInv, AnalysisType
  <1>3. Alone(r) /\ child'[r] = "none" /\ part'[r] = All(r, "waiting")
    BY <1>1, <1>2 DEF Alone
  <1>4. At(r, "detection")'
    BY <1>1, <1>2 DEF At, Tasks
  <1>5. Placed(r)'
    BY <1>3, <1>4 DEF Placed
  <1>6. Running(r)' = {}
    BY <1>1, <1>3 DEF Running, Parts, All, Part
  <1> QED
    BY <1>3, <1>5, <1>6, FewerPlaces

LEMMA DetectSegmentsHolds ==
    ASSUME Inv, PlacesInv, NEW r \in Requests, DetectSegments(r)
    PROVE  PlacesInv'
  <1>1. PICK s \in Parts(r) : TakeSegment(r, s) \/ SegmentDone(r, s)
    BY DEF DetectSegments
  <1>2. task' = task /\ At(r, "detection") /\ UNCHANGED <<document, child>>
    BY <1>1 DEF DetectSegments, TakeSegment, SegmentDone
  <1>3. DOMAIN part = Requests /\ part[r] \in [Parts(r) -> Detections]
    BY DEF Inv, TypeInv, AnalysisType
  <1>4. PICK d : part' = [part EXCEPT ![r][s] = d]
                 /\ (d.at = "running" => TakeSegment(r, s))
    <2>1. CASE TakeSegment(r, s)
      BY <1>3, <2>1, Zenon DEF TakeSegment
    <2>2. CASE SegmentDone(r, s)
      <3>1. PICK found : part' = [part EXCEPT ![r][s] = Part("done", found)]
        BY <2>2 DEF SegmentDone
      <3>2. Part("done", found).at # "running"
        BY DEF Part
      <3> QED
        BY <3>1, <3>2
    <2> QED
      BY <1>1, <2>1, <2>2
  <1>5. part' = [part EXCEPT ![r] = [part[r] EXCEPT ![s] = d]]
    BY <1>4
  <1>6. Alone(r) /\ part'[r] = [part[r] EXCEPT ![s] = d]
    BY <1>2, <1>3, <1>5 DEF Alone
  <1>7. Placed(r)'
    <2>1. child[r] # "awaited"
      BY <1>2 DEF PlacesInv, Placed, At
    <2>2. At(r, "detection")' /\ child'[r] # "awaited"
      BY <1>2, <2>1 DEF At
    <2> QED
      BY <2>2 DEF Placed
  <1>8. CASE d.at # "running"
    <2>1. Running(r)' \subseteq Running(r)
      BY <1>2, <1>3, <1>6, <1>8 DEF Running, Parts
    <2> QED
      BY <1>2, <1>6, <1>7, <2>1, FewerPlaces
  <1>9. CASE d.at = "running"
    <2>1. Cardinality(Detecting) < Concurrency
      BY <1>4, <1>9 DEF TakeSegment
    <2>2. \A q \in Requests : \A t \in Running(q)' : t \in Running(q) \/ <<q, t>> = <<r, s>>
      BY <1>2, <1>3, <1>6 DEF Alone, Running, Parts
    <2>3. Detecting' \subseteq Detecting \cup {<<r, s>>}
      BY <2>2 DEF Detecting
    <2>4. IsFiniteSet(Detecting \cup {<<r, s>>})
          /\ Cardinality(Detecting \cup {<<r, s>>}) \in Nat /\ Cardinality(Detecting) \in Nat
          /\ Cardinality(Detecting \cup {<<r, s>>}) <= Cardinality(Detecting) + 1
      <3>1. IsFiniteSet(Detecting)
        BY DEF PlacesInv
      <3> QED
        BY <3>1, OneMore
    <2>5. IsFiniteSet(Detecting') /\ Cardinality(Detecting') \in Nat
          /\ Cardinality(Detecting') <= Cardinality(Detecting \cup {<<r, s>>})
      BY <2>3, <2>4, FS_Subset, FS_CardinalityType
    <2>6. Cardinality(Detecting') <= Concurrency
      BY <2>1, <2>4, <2>5, WorkerAssumption
    <2> QED
      BY <1>2, <1>6, <1>7, <2>5, <2>6, OthersArePlaced, ExtractingKept DEF PlacesInv
  <1> QED
    BY <1>8, <1>9

\* What a request gathers or abandons gives its places back.
LEMMA OverHolds ==
    ASSUME Inv, PlacesInv, NEW r \in Requests, UNCHANGED document,
           \A q \in Requests \ {r} : task'[q] = task[q],
           \/ child' = child /\ part' = [part EXCEPT ![r] = All(r, "over")] /\ At(r, "detection")
           \/ Abandons(r)
    PROVE  PlacesInv'
  <1>1. child \in [Requests -> {"none", "awaited", "abandoned"}] /\ DOMAIN part = Requests
        /\ part[r] \in [Parts(r) -> Detections]
    BY DEF Inv, TypeInv, AnalysisType
  <1>2. /\ \A q \in Requests \ {r} : child'[q] = child[q] /\ part'[q] = part[q]
        /\ child'[r] # "awaited"
        /\ \A s \in Parts(r) : part'[r][s].at \in {"abandoned", "over"}
    <2>1. CASE child' = child /\ part' = [part EXCEPT ![r] = All(r, "over")] /\ At(r, "detection")
      <3>1. child[r] # "awaited"
        BY <2>1 DEF PlacesInv, Placed, At
      <3>2. part'[r] = All(r, "over")
        BY <1>1, <2>1
      <3> QED
        BY <1>1, <2>1, <3>1, <3>2 DEF All, Part
    <2>2. CASE Abandons(r)
      <3>1. child' = [child EXCEPT ![r] = IF @ = "awaited" THEN "abandoned" ELSE @]
        BY <2>2 DEF Abandons
      <3>2. part' = [part EXCEPT ![r] = [s \in Parts(r) |->
                Part(IF part[r][s].at \in {"running", "abandoned"} THEN "abandoned" ELSE "over", {})]]
        BY <2>2, <1>1 DEF Abandons
      <3>3. \A s \in Parts(r) : part'[r][s] =
                Part(IF part[r][s].at \in {"running", "abandoned"} THEN "abandoned" ELSE "over", {})
        BY <1>1, <3>2
      <3>4. \A s \in Parts(r) : part'[r][s].at \in {"abandoned", "over"}
        <4> SUFFICES ASSUME NEW s \in Parts(r)
                     PROVE  part'[r][s].at \in {"abandoned", "over"}
          OBVIOUS
        <4>1. part'[r][s] = Part("abandoned", {}) \/ part'[r][s] = Part("over", {})
          BY <3>3
        <4> QED
          BY <4>1 DEF Part
      <3> QED
        BY <1>1, <3>1, <3>2, <3>4
    <2> QED
      BY <2>1, <2>2
  <1>3. Alone(r) /\ Running(r)' \subseteq Running(r) /\ Placed(r)'
    BY <1>2 DEF Alone, Running, Parts, Placed
  <1> QED
    BY <1>2, <1>3, FewerPlaces

LEMMA AbandonedHolds ==
    ASSUME Inv, PlacesInv, NEW r \in Requests, Abandoned(r)
    PROVE  PlacesInv'
  <1>1. child \in [Requests -> {"none", "awaited", "abandoned"}] /\ DOMAIN part = Requests
        /\ part[r] \in [Parts(r) -> Detections]
    BY DEF Inv, TypeInv, AnalysisType
  <1>2. task' = task
    BY DEF Abandoned
  <1>3. CASE AbandonedChildEnds(r)
    <2>1. child' = [child EXCEPT ![r] = "none"] /\ UNCHANGED <<document, part>>
      BY <1>3 DEF AbandonedChildEnds
    <2>2. Alone(r) /\ child'[r] = "none" /\ Running(r)' = Running(r)
      BY <1>1, <1>2, <2>1 DEF Alone, Running, Parts
    <2>3. Placed(r)'
      BY <1>2, <2>1, <2>2 DEF PlacesInv, Placed, At, Parts
    <2> QED
      BY <2>2, <2>3, FewerPlaces
  <1>4. ASSUME NEW s \in Parts(r), AbandonedThreadEnds(r, s)
        PROVE  PlacesInv'
    <2>1. part' = [part EXCEPT ![r][s].at = "over"] /\ UNCHANGED <<document, child>>
      BY <1>4 DEF AbandonedThreadEnds
    <2>2. part' = [part EXCEPT ![r] = [part[r] EXCEPT ![s] = [part[r][s] EXCEPT !.at = "over"]]]
      BY <2>1
    <2>3. part'[r] = [part[r] EXCEPT ![s] = [part[r][s] EXCEPT !.at = "over"]]
      BY <1>1, <2>2
    <2>4. \A t \in Parts(r) : part'[r][t].at = IF t = s THEN "over" ELSE part[r][t].at
      BY <1>1, <2>3 DEF Detections
    <2>5. Alone(r)
      BY <1>1, <1>2, <2>1, <2>2 DEF Alone
    <2>6. Running(r)' \subseteq Running(r)
      BY <2>1, <2>4 DEF Running, Parts
    <2>7. Placed(r)'
      BY <1>2, <2>1, <2>4 DEF PlacesInv, Placed, At, Parts
    <2> QED
      BY <2>1, <2>5, <2>6, <2>7, FewerPlaces
  <1> QED
    BY <1>3, <1>4 DEF Abandoned

LEMMA PlacesNext == Inv /\ PlacesInv /\ [Next]_vars => PlacesInv'
  <1> SUFFICES ASSUME Inv, PlacesInv, [Next]_vars PROVE PlacesInv'
    OBVIOUS
  <1>1. CASE UNCHANGED <<document, child, part, task>>
    BY <1>1 DEF PlacesInv, Placed, Extracting, Detecting, Running, Parts, At
  <1>2. CASE UNCHANGED vars \/ AllDone \/ \E i \in TokenIds : Forget(i)
    BY <1>1, <1>2 DEF vars, analysisVars, AllDone, Forget
  <1>3. ASSUME NEW r \in Requests, NEW t, Goes(r, t)
        PROVE  \A q \in Requests \ {r} : task'[q] = task[q]
    BY <1>3 DEF Goes, Inv, TypeInv
  <1>4. ASSUME NEW r \in Requests,
               \/ Route(r) \/ TakeSnapshot(r) \/ DetectInstruction(r) \/ ProtectDocument(r)
               \/ ProtectInstruction(r) \/ Scan(r) \/ Deadline(r) \/ Restore(r) \/ Attest(r)
               \/ Answers(r) \/ Fails(r) \/ Again(r)
        PROVE  PlacesInv'
    <2>1. task[r].step \notin {"extraction", "detection"}
      BY <1>4 DEF Route, TakeSnapshot, DetectInstruction, ProtectDocument, ProtectInstruction,
         Scan, Deadline, MayExpire, Restore, Attest, Answers, Fails, Again, At
    <2>2. UNCHANGED <<document, child, part>>
      BY <1>4 DEF Route, TakeSnapshot, DetectInstruction, ProtectDocument, ProtectInstruction,
         Transform, Scan, Deadline, Restore, Attest, Answers, Fails, Again, Raises, inputs,
         analysisVars
    <2>3. \E t : Goes(r, t)
      BY <1>4 DEF Route, TakeSnapshot, DetectInstruction, ProtectDocument, ProtectInstruction,
         Transform, Scan, Deadline, Restore, Attest, Answers, Fails, Again, Raises, Ends, GoesOn
    <2> QED
      BY <1>3, <2>1, <2>2, <2>3, ElsewhereHolds
  <1>5. ASSUME NEW r \in Requests, Label(r)
        PROVE  PlacesInv'
    <2>1. /\ UNCHANGED <<document, child>> /\ At(r, "detection")
          /\ part' = [part EXCEPT ![r] = All(r, "over")]
      BY <1>5 DEF Label, Gathers, inputs
    <2>2. \E t : Goes(r, t)
      BY <1>5 DEF Label, Ends
    <2> QED
      BY <1>3, <2>1, <2>2, OverHolds
  <1>6. ASSUME NEW r \in Requests, Fault(r) \/ Cancel(r)
        PROVE  PlacesInv'
    <2>1. Abandons(r) /\ UNCHANGED document /\ \E t : Goes(r, t)
      BY <1>6 DEF Fault, Cancel, Breaks, Ends, inputs
    <2> QED
      BY <1>3, <2>1, OverHolds
  <1> QED
    BY <1>2, <1>4, <1>5, <1>6, ExtractHolds, SegmentHolds, DetectSegmentsHolds, AbandonedHolds
       DEF Next, Serves

\* A request that has been answered holds no place, and waits for none.
PlacesAreReturned ==
    \A r \in Requests : told[r] # None =>
        child[r] # "awaited" /\ \A s \in Parts(r) : part[r][s].at \in {"abandoned", "over"}
PlacesAreBounded ==
    Cardinality(Extracting) <= MaxWorkers /\ Cardinality(Detecting) <= Concurrency

\* Extraction and detection have no more callers than places, however requests fail or are
\* cancelled, and what still runs of a request that has ended is a child or a thread that
\* was abandoned, which end by themselves (documents/extraction/runner.py:145-147,
\* 192-200, documents/analysis/analyzer.py:231-235, 250-256).
THEOREM PlacesComeBack == Spec => [](PlacesAreBounded /\ PlacesAreReturned)
  <1>1. Init => PlacesInv
    <2> SUFFICES ASSUME Init PROVE PlacesInv
      OBVIOUS
    <2>1. child = [r \in Requests |-> "none"] /\ part = [r \in Requests |-> All(r, "over")]
      BY DEF Init, AnalysisInit
    <2>2. Extracting = {}
      BY <2>1 DEF Extracting
    <2>3. \A r \in Requests : \A s \in Parts(r) : part[r][s].at = "over"
      BY <2>1 DEF All, Part
    <2>4. Detecting = {}
      BY <2>3 DEF Detecting, Running
    <2> QED
      BY <2>1, <2>2, <2>3, <2>4, FS_EmptySet, WorkerAssumption DEF PlacesInv, Placed
  <1>2. Inv /\ PlacesInv => PlacesAreReturned
    <2> SUFFICES ASSUME Inv, PlacesInv, NEW r \in Requests, told[r] # None
                 PROVE  child[r] # "awaited"
                        /\ \A s \in Parts(r) : part[r][s].at \in {"abandoned", "over"}
      BY DEF PlacesAreReturned
    <2>1. task[r].step = "done"
      BY DEF Inv, Knows, OutcomeKnows
    <2>2. \A s \in Parts(r) : part[r][s].at \in {"waiting", "running", "done", "abandoned", "over"}
      BY DEF Inv, TypeInv, AnalysisType, Detections
    <2> QED
      BY <2>1, <2>2 DEF PlacesInv, Placed, At
  <1>3. PlacesInv => PlacesAreBounded
    BY DEF PlacesInv, PlacesAreBounded
  <1> QED
    BY <1>1, <1>2, <1>3, PlacesNext, Invariance, PTL DEF Spec
=============================================================================
