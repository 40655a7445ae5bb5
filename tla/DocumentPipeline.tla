--------------------------- MODULE DocumentPipeline ---------------------------
(***************************************************************************)
(* DocumentPipeline.run (app/documents/pipeline.py) with the protection,   *)
(* the outbound gateway, the provider adapter, restoration and the audit   *)
(* row it calls.  A request resolves the policy twice: the snapshot it is  *)
(* routed, scanned, restored and recorded under, and the snapshot its      *)
(* document and its instruction are protected under.                       *)
(*                                                                         *)
(* Detection is of occurrences, and so is the splice; a value may occur in *)
(* several places.  A value is its own entity type.                        *)
(* The requests belong to one session; the vault is seen as TokenVault     *)
(* shows it to a caller.                                                   *)
(***************************************************************************)
EXTENDS DocumentAnalysis

CONSTANTS
    Values,         \* the values that occur in the texts
    ValueOf,        \* the value of each occurrence
    Instructions,   \* what the callers may write: sets of occurrences
    TokenIds,       \* bound: the ids the vault may mint
    Policies,       \* the snapshots that may be active
    Replies,        \* bound: the tokens an answer may hold
    MaxEntities,    \* max_document_entities
    Attempts,       \* provider_max_retries + 1
    FailClosed,     \* AUDIT_FAIL_CLOSED
    None

Actions == {"allow", "tokenize", "redact", "block"}
ASSUME PolicyAssumption ==
    Policies \subseteq [action : [Values -> Actions], min : [Values -> Nat],
                        budget : Nat \ {0}, strict : BOOLEAN]
ASSUME ValueAssumption == ValueOf \in [Occurrences -> Values]
ASSUME InstructionAssumption == Instructions \subseteq [Requests -> SUBSET Occurrences]
ASSUME BoundAssumption == MaxEntities \in Nat \ {0} /\ Attempts \in Nat \ {0}
                          /\ FailClosed \in BOOLEAN
                          /\ Replies \subseteq SUBSET TokenIds
ASSUME NoneAssumption == /\ \A ids \in SUBSET TokenIds : ids # None
                         /\ None \notin {"ok", "outbound", "blocked"}

VARIABLES
    instruction,    \* what each caller wrote
    task,           \* each request: its step and what it has so far
    origin,         \* every id minted: for which value
    live,           \* the ids whose records the vault still has
    sent,           \* the tokens in what each open request has handed to the adapter
    answer,         \* the values each open request has restored into its answer
    told,           \* how each request ended for its caller
    rows            \* the audit rows accepted for each request

inputs == <<document, instruction, reported>>
vault == <<origin, live>>
ends == <<sent, answer, told, rows>>
vars == <<analysisVars, instruction, task, vault, ends>>

New == [step |-> "routing", routed |-> None, policy |-> None, found |-> {}, sure |-> {},
        payload |-> <<>>, minted |-> {}, attempt |-> 0, reply |-> {}, code |-> None]

Init ==
    /\ AnalysisInit
    /\ instruction \in Instructions
    /\ task = [r \in Requests |-> New]
    /\ origin = [i \in {} |-> None] /\ live = {}
    /\ sent = [r \in Requests |-> None] /\ answer = [r \in Requests |-> None]
    /\ told = [r \in Requests |-> None]
    /\ rows = [r \in Requests |-> <<>>]

At(r, step) == task[r].step = step
Goes(r, state) == task' = [task EXCEPT ![r] = state]
GoesOn(r, step) == Goes(r, [task[r] EXCEPT !.step = step])
Policy(r) == task[r].policy
Quiet == UNCHANGED <<instruction, vault, ends>>

\* run raises: the caller is told, and no row is written.
Ends(r, how) ==
    /\ Goes(r, [New EXCEPT !.step = "done", !.minted = task[r].minted,
                           !.attempt = task[r].attempt, !.code = how])
    /\ told' = [told EXCEPT ![r] = how]
    /\ sent' = [sent EXCEPT ![r] = None] /\ answer' = [answer EXCEPT ![r] = None]
    /\ UNCHANGED rows
Raises(r, how) == Ends(r, how) /\ UNCHANGED <<inputs, child, part, vault>>

-----------------------------------------------------------------------------
\* resolve and authorize, under the first snapshot; analyze takes the second.
Route(r) ==
    /\ At(r, "routing")
    /\ \E p \in Policies : Goes(r, [task[r] EXCEPT !.step = "snapshot", !.routed = p])
    /\ Quiet /\ UNCHANGED analysisVars

TakeSnapshot(r) ==
    /\ At(r, "snapshot")
    /\ \E p \in Policies : Goes(r, [task[r] EXCEPT !.step = "opening", !.policy = p])
    /\ Quiet /\ UNCHANGED analysisVars

\* The document is opened and decrypted; extraction waits for a place.
Extract(r) == At(r, "opening") /\ GoesOn(r, "extraction") /\ StartsChild(r) /\ Quiet

Segment(r) ==
    /\ At(r, "extraction") /\ ReapsChild(r)
    /\ GoesOn(r, "detection") /\ StartsDetection(r) /\ Quiet /\ UNCHANGED <<document, reported>>

DetectSegments(r) ==
    /\ At(r, "detection")
    /\ \E s \in Parts(r) : TakeSegment(r, s) \/ SegmentDone(r, s)
    /\ Quiet /\ UNCHANGED task

\* select_confident: what a snapshot is sure enough of.
Hit(hits) == {h.of : h \in hits}
Confident(p, hits) == Hit({h \in hits : h.score >= p.min[ValueOf[h.of]]})

\* resolve: whatever the order of preference, no two that are kept overlap, and what
\* is dropped overlaps one that is kept.
Apart(found) == \A o, k \in found : Overlaps(o, k) => o = k
Resolutions(confident) ==
    {kept \in SUBSET confident :
        Apart(kept) /\ \A o \in confident : \E k \in kept : Overlaps(o, k)}

\* coalesce, select_confident, resolve, _enforce_budget, _reject_blocked.
Action(r, o) == Policy(r).action[ValueOf[o]]
Blocks(r, found) == \E o \in found : Action(r, o) = "block"
Label(r) ==
    /\ At(r, "detection") /\ Gathers(r)
    /\ \E found \in Resolutions(Confident(Policy(r), Promoted(r))) :
         CASE Cardinality(found) > MaxEntities -> Ends(r, "over")
           [] Blocks(r, found)                 -> Ends(r, "blocked")
           [] OTHER -> /\ Goes(r, [task[r] EXCEPT !.step = "instruction", !.found = found])
                       /\ UNCHANGED ends
    /\ UNCHANGED <<inputs, child, vault>>

\* _detect_instruction, and the check for blocked types before anything is written:
\* it looks at every detection, the splice only at those the policy is sure of.
LeavesItToTheSplice(r, seen) == FALSE                                  \* mutant
RejectsInstruction(r, seen) == Blocks(r, seen)

DetectInstruction(r) ==
    /\ At(r, "instruction")
    /\ \E hits \in Reports(instruction[r]) :
         IF RejectsInstruction(r, Hit(hits))
         THEN Ends(r, "blocked")
         ELSE /\ Goes(r, [task[r] EXCEPT !.step = "document", !.sure = Confident(Policy(r), hits)])
              /\ UNCHANGED ends
    /\ UNCHANGED <<inputs, child, part, vault>>

-----------------------------------------------------------------------------
\* Tokenizer.transform: one vault batch, an id per value, and the splice, which puts a
\* replacement at each span that was found and leaves every other character.
Piece(kind, about) == [kind |-> kind, about |-> about]
Holding(v) == {i \in live : origin[i] = v}
Missing(r, found) ==
    {v \in {ValueOf[o] : o \in found} : Policy(r).action[v] = "tokenize" /\ Holding(v) = {}}
Mints(r, found) ==
    {ids \in [Missing(r, found) -> TokenIds \ DOMAIN origin] :
        \A v, w \in DOMAIN ids : ids[v] = ids[w] => v = w}
Minted(ids) == {ids[v] : v \in DOMAIN ids}
BatchLater(ids) == UNCHANGED <<origin, live>>                            \* mutant
Batch(ids) ==
    /\ origin' = [i \in DOMAIN origin \cup Minted(ids) |->
                    IF i \in DOMAIN origin THEN origin[i] ELSE CHOOSE v \in DOMAIN ids : ids[v] = i]
    /\ live' = live \cup Minted(ids)

TokenFor(ids, v) == IF v \in DOMAIN ids THEN ids[v] ELSE CHOOSE i \in Holding(v) : TRUE
Replacement(r, ids, o) ==
    CASE Action(r, o) = "allow"  -> Piece("plain", o)
      [] Action(r, o) = "redact" -> Piece("redaction", None)
      [] OTHER                   -> Piece("token", TokenFor(ids, ValueOf[o]))
Outside(text, found) == {o \in text : \A k \in found : ~Overlaps(o, k)}
Protected(r, text, found, ids) ==
    LET kept == {k \in found : Action(r, k) = "allow"}
    IN  {Piece("plain", o) : o \in Outside(text, found \ kept)}
            \cup {Replacement(r, ids, k) : k \in found}

Transform(r, text, found, next) ==
    \E ids \in Mints(r, found) :
        /\ Batch(ids)
        /\ Goes(r, [task[r] EXCEPT !.payload = Append(@, Protected(r, text, found, ids)),
                                   !.minted = @ \cup Minted(ids), !.step = next])
        /\ UNCHANGED <<inputs, child, part, ends>>

ProtectDocument(r) ==
    /\ At(r, "document")
    /\ Transform(r, UNION {document[r][s] : s \in Parts(r)}, task[r].found, "note")

\* The instruction is held to the snapshot's own budget.
ProtectInstruction(r) ==
    /\ At(r, "note")
    /\ CASE Cardinality(task[r].sure) > Policy(r).budget -> Raises(r, "over")
         [] Blocks(r, task[r].sure)                      -> Raises(r, "blocked")
         [] OTHER -> Transform(r, instruction[r], task[r].sure, "scan")

\* The record of an id goes: its TTL is over, or its session is deleted.  Bound: only
\* while an id is left for every value that may need one.
Needy == {v \in Values : Holding(v) = {} /\ \E p \in Policies : p.action[v] = "tokenize"}
Forget(i) ==
    /\ Cardinality(TokenIds \ DOMAIN origin) > Cardinality(Needy)
    /\ i \in live /\ live' = live \ {i}
    /\ UNCHANGED <<analysisVars, instruction, task, origin, ends>>

-----------------------------------------------------------------------------
\* OutboundGateway.send, under the first snapshot.
Texts(r) == UNION {task[r].payload[m] : m \in DOMAIN task[r].payload}
PlainIn(text) == {p.about : p \in {q \in text : q.kind = "plain"}}
Actionable(r) == {o \in PlainIn(Texts(r)) : task[r].routed.action[ValueOf[o]] # "allow"}
TokensIn(text) == {p.about : p \in {q \in text : q.kind = "token"}}

Scan(r) ==
    /\ At(r, "scan")
    /\ \E findings \in SUBSET Actionable(r) :
         IF findings # {}
         THEN Goes(r, [task[r] EXCEPT !.step = "audit", !.code = "outbound"]) /\ UNCHANGED sent
         ELSE /\ Goes(r, [task[r] EXCEPT !.step = "calling", !.attempt = 1])
              /\ sent' = [sent EXCEPT ![r] = TokensIn(Texts(r))]
    /\ UNCHANGED <<inputs, child, part, vault, answer, told, rows>>

\* OpenAIProvider.complete: an attempt answers, is refused for good, or may be tried
\* again after a pause; the deadline ends an attempt and a pause.
Answers(r) ==
    /\ At(r, "calling")
    /\ \E reply \in Replies :
         Goes(r, [task[r] EXCEPT !.step = "restoration", !.reply = reply])
    /\ Quiet /\ UNCHANGED analysisVars

MayRetry(r) == task[r].attempt < Attempts
Fails(r) ==
    /\ At(r, "calling")
    /\ \/ MayRetry(r) /\ GoesOn(r, "pause") /\ Quiet /\ UNCHANGED analysisVars
       \/ Raises(r, "failed")

Again(r) ==
    /\ At(r, "pause")
    /\ Goes(r, [task[r] EXCEPT !.step = "calling", !.attempt = @ + 1])
    /\ Quiet /\ UNCHANGED analysisVars

DeadlineOfAttempts(r) == At(r, "calling") /\ ~MayRetry(r)                \* mutant
MayExpire(r) == task[r].step \in {"calling", "pause"}
Deadline(r) == MayExpire(r) /\ Raises(r, "failed")

\* OutputPipeline.restore, under the first snapshot.
Resolved(r) == task[r].reply \cap live
Restore(r) ==
    /\ At(r, "restoration")
    /\ IF task[r].routed.strict /\ task[r].reply # Resolved(r)
       THEN Raises(r, "failed")
       ELSE /\ answer' = [answer EXCEPT ![r] = {origin[i] : i \in Resolved(r)}]
            /\ Goes(r, [task[r] EXCEPT !.step = "audit", !.code = "ok"])
            /\ UNCHANGED <<inputs, child, part, vault, sent, told, rows>>

-----------------------------------------------------------------------------
\* _attest over AuditService.submit, which keeps the row, or not, and raises, or not;
\* what it raises takes the place of the answer and of the refusal.
Submissions ==
    IF FailClosed THEN {{"kept"}, {"kept", "raised"}, {"raised"}} ELSE {{"kept"}, {}}
TellsAnyway(r, submission) == task[r].code                              \* mutant
Told(r, submission) == IF "raised" \in submission THEN "unaudited" ELSE task[r].code
Attest(r) ==
    /\ At(r, "audit")
    /\ \E submission \in Submissions :
         /\ rows' = IF "kept" \in submission THEN [rows EXCEPT ![r] = Append(@, task[r].code)] ELSE rows
         /\ Goes(r, [New EXCEPT !.step = "done", !.minted = task[r].minted,
                                !.attempt = task[r].attempt, !.code = Told(r, submission)])
         /\ told' = [told EXCEPT ![r] = Told(r, submission)]
         /\ sent' = [sent EXCEPT ![r] = None] /\ answer' = [answer EXCEPT ![r] = None]
    /\ UNCHANGED <<inputs, child, part, vault>>

\* A store, a parser, a detector or the vault fails, a segment before its siblings; or
\* the server stops and cancels the request, which comes to the same where a failure is
\* possible.  A vault batch may have been carried out.
CarriedOut(r) ==
    \/ UNCHANGED vault
    \/ At(r, "document") /\ \E ids \in Mints(r, task[r].found) : Batch(ids)
    \/ At(r, "note") /\ \E ids \in Mints(r, task[r].sure) : Batch(ids)
Breaks(r, how) ==
    /\ Ends(r, how) /\ Abandons(r) /\ CarriedOut(r)
    /\ UNCHANGED inputs

Awaits == {"routing", "snapshot", "opening", "extraction", "detection", "instruction", "document",
           "note", "scan", "restoration"}
Fault(r) == task[r].step \in Awaits /\ Breaks(r, "failed")
Cancel(r) == task[r].step \in {"calling", "pause", "audit"} /\ Breaks(r, "cancelled")

Abandoned(r) ==
    /\ \/ AbandonedChildEnds(r)
       \/ \E s \in Parts(r) : AbandonedThreadEnds(r, s)
    /\ Quiet /\ UNCHANGED task

Serves(r) ==
    \/ Route(r) \/ TakeSnapshot(r) \/ Extract(r) \/ Segment(r) \/ DetectSegments(r) \/ Label(r)
    \/ DetectInstruction(r) \/ ProtectDocument(r) \/ ProtectInstruction(r)
    \/ Scan(r) \/ Deadline(r) \/ Restore(r) \/ Attest(r)

AllDone == (\A r \in Requests : At(r, "done") /\ NothingRuns(r)) /\ UNCHANGED vars

Next ==
    \/ \E r \in Requests :
         \/ Serves(r) \/ Answers(r) \/ Fails(r) \/ Again(r) \/ Fault(r) \/ Cancel(r)
         \/ Abandoned(r)
    \/ \E i \in TokenIds : Forget(i)
    \/ AllDone

\* The stores, the parser and the detector answer, the loop fires the adapter's deadline,
\* and a child that nobody awaits is reaped by its thread.
Fairness ==
    \A r \in Requests : WF_vars(Serves(r)) /\ WF_vars(Deadline(r)) /\ WF_vars(Abandoned(r))
Spec == Init /\ [][Next]_vars /\ Fairness
-----------------------------------------------------------------------------
\* An occurrence that any segment's detection reported with the score that the snapshot
\* asks for is in the protected document in plain only where the resolution kept, at its
\* place, a reading that the snapshot allows; one it is sure of in the instruction is so
\* only if the snapshot allows it.  What scores less, or was not reported at that place,
\* may stay.  And a value that both messages show as a token has one token in both,
\* unless its record went in between (analyzer.py:179-186, protection.py:260-300).
PayloadIsProtected ==
    \A r \in Requests : task[r].step \in {"scan", "calling", "pause"} =>
        /\ \A o \in PlainIn(task[r].payload[1]) \cap Confident(Policy(r), reported[r]) :
             \E k \in task[r].found : Overlaps(o, k) /\ Action(r, k) = "allow"
        /\ \A o \in PlainIn(task[r].payload[2]) \cap task[r].sure : Action(r, o) = "allow"
        /\ \A i, j \in TokensIn(Texts(r)) :
             origin[i] = origin[j] /\ {i, j} \subseteq live => i = j

\* "A request destined to fail would leave records behind" (protection.py:49-53): one
\* that holds a blocked value, in its document or in its instruction, has left none.
BlockedLeavesNothing ==
    \A r \in Requests : told[r] = "blocked" => task[r].minted = {}

\* Behind an answer, and behind a refusal of the scan, of a fail-closed gateway there is
\* one row that says so; nothing has two rows, and the provider was called no more
\* often than the adapter may try (documents/pipeline.py:26-29, openai_provider.py:155).
ServedIsAttested ==
    \A r \in Requests :
        /\ Len(rows[r]) <= 1 /\ task[r].attempt <= Attempts
        /\ told[r] \in {"ok", "outbound"} /\ FailClosed =>
             rows[r] # <<>> /\ rows[r][1] = told[r]

\* Every request ends, and nothing of it runs on for ever: no child is left behind and
\* the attempts at the provider end with their deadline (runner.py:205-206,
\* llm/base.py:129-134).
EveryRequestEnds == \A r \in Requests : <>[](told[r] # None /\ NothingRuns(r))

\* The exchange is the one ProtectedExchange promises, which the chat pipeline
\* implements as well.
Session == "session"
Exchange == INSTANCE ProtectedExchange WITH
    Sessions <- {Session},
    session <- [r \in Requests |-> Session],
    kept <- [i \in DOMAIN origin |-> [session |-> Session, value |-> origin[i]]],
    answered <- answer
ImplementsExchange == Exchange!Spec
=============================================================================
