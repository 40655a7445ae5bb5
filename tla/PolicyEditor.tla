----------------------------- MODULE PolicyEditor -----------------------------
(***************************************************************************)
(* The page on which an operator edits a policy and publishes it           *)
(* (frontend/app/policies/[policyName]/page.tsx and components/policy/),   *)
(* over the API it calls.  A click runs one guarded operation: a list of   *)
(* calls, made one after the other, the first failure ending the list.     *)
(* The document a list saves is built from what was on screen at the       *)
(* click.  Buttons are disabled while a list runs; the table is not.       *)
(*                                                                         *)
(* At the API each call is one step here (its statements are the subject   *)
(* of PolicyLifecycle); it may be refused, or fail before or after the     *)
(* API has done it.  Other clients, another tab or this page left and      *)
(* opened again among them, write in between.                              *)
(***************************************************************************)
EXTENDS PolicyDocument, Sequences

CONSTANTS
    FirstDocument,      \* the document in force at the start
    OtherDocuments,     \* what other clients write
    EditedScores, EditedActions,    \* what the operator enters
    MaxEdits, MaxOthers, MaxPublished   \* bounds

ASSUME EditorAssumption ==
    /\ Wellformed(FirstDocument) /\ Problems(FirstDocument) = {}
    /\ EditedActions \subseteq Actions /\ EditedScores \subseteq Nat
    /\ MaxEdits \in Nat /\ MaxOthers \in Nat /\ MaxPublished \in Nat

VARIABLES
    history,        \* the published documents; the last is in force
    draft,          \* the open draft's document
    page,           \* what the page holds
    first,          \* the load the page began with: its answer, on the way
    todo,           \* the calls the guarded operation has left to make
    confirmed,      \* what was on screen when Confirm was clicked, if the list is Confirm's
    promoted,       \* what its publish put in force, with nobody writing in between
    disturbed,      \* another client has written between the list's save and its publish
    compared,       \* what the list compared, and the answer
    edits, others   \* edits made, and writes of other clients

server == <<history, draft>>
editorVars == <<history, draft, page, first, todo, confirmed, promoted, disturbed, compared,
                edits, others>>

InForce == history[Len(history)]
Call(op, document, version) == [op |-> op, document |-> document, version |-> version]
Plain(op) == Call(op, Nothing, 0)
Due == Head(todo)
Calls(op) == todo # <<>> /\ Due.op = op

EditorInit ==
    /\ history = <<FirstDocument>>
    /\ draft = Nothing
    /\ page = [seen |-> 0, draft |-> Nothing, rules |-> Nothing, dialog |-> FALSE,
               blocked |-> FALSE]
    /\ first = [stage |-> "asking", answer |-> Nothing]
    /\ todo = <<>>
    /\ confirmed = Nothing /\ promoted = Nothing /\ compared = Nothing
    /\ disturbed = FALSE
    /\ edits = 0 /\ others = 0

-----------------------------------------------------------------------------
\* The API.
CreateDraft == draft = Nothing /\ draft' = InForce /\ UNCHANGED history
SaveDraft(d) == draft # Nothing /\ Wellformed(d) /\ draft' = d /\ UNCHANGED history
DiscardDraft == draft # Nothing /\ draft' = Nothing /\ UNCHANGED history
PublishDraft ==
    /\ draft # Nothing /\ Problems(draft) = {}
    /\ Len(history) < MaxPublished
    /\ history' = Append(history, draft)
    /\ draft' = Nothing

\* The version a number names: a published one, or the draft, which is numbered next.
Numbered(n) ==
    {history[k] : k \in {n} \cap DOMAIN history}
    \cup {d \in {draft} \ {Nothing} : n = Len(history) + 1}

OtherClient ==
    /\ others < MaxOthers /\ others' = others + 1
    /\ disturbed' = (disturbed \/ Calls("publish"))
    /\ \/ CreateDraft
       \/ \E d \in OtherDocuments : SaveDraft(d)
       \/ DiscardDraft
       \/ PublishDraft
    /\ UNCHANGED <<page, first, todo, confirmed, promoted, compared, edits>>

-----------------------------------------------------------------------------
\* load.
Listed == [seen |-> Len(history), draft |-> IF draft = Nothing THEN Nothing ELSE View(draft)]
Loaded(p, answer) ==
    [p EXCEPT !.seen = answer.seen, !.draft = answer.draft,
              !.rules = IF answer.draft = Nothing THEN Nothing ELSE answer.draft.rules]
LoadFailed(p) == [p EXCEPT !.seen = 0, !.draft = Nothing]

\* The load of a page that has just been mounted is answered some time, and the answer
\* shown some time after that, whatever else the page has loaded since.
FirstLoadAnswered ==
    /\ first.stage = "asking" /\ first' = [stage |-> "answered", answer |-> Listed]
    /\ UNCHANGED <<server, page, todo, confirmed, promoted, disturbed, compared, edits, others>>
FirstLoadShown ==
    /\ first.stage # "shown" /\ first' = [stage |-> "shown", answer |-> Nothing]
    /\ \/ page' = LoadFailed(page)
       \/ first.stage = "answered" /\ page' = Loaded(page, first.answer)
    /\ UNCHANGED <<server, todo, confirmed, promoted, disturbed, compared, edits, others>>

-----------------------------------------------------------------------------
\* What the operator does.  The dialog is modal.
Editable == page.draft # Nothing /\ page.rules # Nothing /\ ~page.dialog
Idles == todo = <<>>

Entered(rules) ==
    edits < MaxEdits /\ edits' = edits + 1
    /\ page' = [page EXCEPT !.rules = rules]
    /\ UNCHANGED <<server, first, todo, confirmed, promoted, disturbed, compared, others>>

Patches(rule) ==
    {[rule EXCEPT !.enabled = ~rule.enabled]}
    \cup {[rule EXCEPT !.score = s] : s \in EditedScores}
    \cup {[rule EXCEPT !.action = a] : a \in EditedActions}
Update ==
    Editable /\ \E r \in page.rules, new \in UNION {Patches(q.rule) : q \in page.rules} :
        /\ new \in Patches(r.rule)
        /\ Entered((page.rules \ {r}) \cup {[type |-> r.type, rule |-> new]})
Remove == Editable /\ \E r \in page.rules : Entered(page.rules \ {r})
Add ==
    Editable /\ \E t \in Supported \ TypesOf(page.rules) :
        Entered(page.rules \cup {[type |-> t, rule |-> CatalogRule(t)]})

Runs(calls) ==
    /\ Idles /\ todo' = calls
    /\ promoted' = Nothing /\ compared' = Nothing /\ disturbed' = FALSE
    /\ UNCHANGED <<server, page, first, edits, others>>
NotConfirmed == confirmed' = Nothing
Confirmed == confirmed' = [draft |-> page.draft, rules |-> page.rules]

OnScreen == DocumentFrom(page.draft, page.rules)
ClickCreate ==
    /\ ~page.dialog /\ page.draft = Nothing
    /\ Runs(<<Plain("create"), Plain("load")>>) /\ NotConfirmed
ClickDiscard ==
    /\ ~page.dialog /\ page.draft # Nothing
    /\ Runs(<<Plain("discard"), Plain("load")>>) /\ NotConfirmed
ClickSave ==
    /\ Editable
    /\ Runs(<<Call("save", OnScreen, 0), Plain("validate")>>) /\ NotConfirmed
ClickCompare ==
    /\ ~page.dialog
    /\ \E n \in 2..(page.seen + IF page.draft = Nothing THEN 0 ELSE 1) :
         Runs(<<Call("diff", Nothing, n)>>)
    /\ NotConfirmed

\* PublishDialog: opened, cancelled at any time, confirmed unless the last validation failed.
Dialog(open) ==
    /\ page' = [page EXCEPT !.dialog = open]
    /\ UNCHANGED <<server, first, todo, confirmed, promoted, disturbed, compared, edits, others>>
OpenDialog == page.draft # Nothing /\ ~page.dialog /\ Idles /\ Dialog(TRUE)
CloseDialog == page.dialog /\ Dialog(FALSE)
PublishUnsaved ==                                                           \* mutant
    /\ page.dialog /\ ~page.blocked /\ page.draft # Nothing
    /\ Runs(<<Plain("publish"), Plain("load")>>)
    /\ Confirmed
ConfirmPublish ==
    /\ page.dialog /\ ~page.blocked /\ page.draft # Nothing
    /\ Runs(<<Call("save", OnScreen, 0), Plain("publish"), Plain("load")>>)
    /\ Confirmed

-----------------------------------------------------------------------------
\* guarded: the next call of the list.  An answer lets the list go on; a failure, which
\* may come after the API has done what was asked, ends it.
GoesOn(p) == todo' = Tail(todo) /\ page' = p
Stops == todo' = <<>> /\ page' = page
Kept == UNCHANGED <<first, confirmed, edits, others>>

CallCreate ==
    /\ Calls("create") /\ CreateDraft
    /\ GoesOn(page) \/ Stops
    /\ Kept /\ UNCHANGED <<promoted, disturbed, compared>>
CallSave ==
    /\ Calls("save") /\ SaveDraft(Due.document)
    /\ GoesOn(page) \/ Stops
    /\ Kept /\ UNCHANGED <<promoted, disturbed, compared>>
CallValidate ==
    /\ Calls("validate") /\ draft # Nothing
    /\ GoesOn([page EXCEPT !.blocked = ~Validated(draft).valid])
    /\ Kept /\ UNCHANGED <<server, promoted, disturbed, compared>>
CallDiscard ==
    /\ Calls("discard") /\ DiscardDraft
    /\ GoesOn([page EXCEPT !.blocked = FALSE]) \/ Stops
    /\ Kept /\ UNCHANGED <<promoted, disturbed, compared>>
CallPublish ==
    /\ Calls("publish") /\ PublishDraft
    /\ GoesOn([page EXCEPT !.dialog = FALSE, !.blocked = FALSE]) \/ Stops
    /\ promoted' = IF disturbed THEN Nothing ELSE draft
    /\ Kept /\ UNCHANGED <<disturbed, compared>>
CallDiff ==
    /\ Calls("diff")
    /\ \E a \in Numbered(Due.version - 1), b \in Numbered(Due.version) :
         compared' = [before |-> a, after |-> b, changes |-> Diff(a, b)]
    /\ GoesOn(page)
    /\ Kept /\ UNCHANGED <<server, promoted, disturbed>>
CallLoad ==
    /\ Calls("load")
    /\ GoesOn(Loaded(page, Listed)) \/ GoesOn(LoadFailed(page))
    /\ Kept /\ UNCHANGED <<server, promoted, disturbed, compared>>

\* Refused, or not delivered.  load reports its own failures.
CallFails ==
    /\ todo # <<>> /\ Due.op # "load"
    /\ Stops
    /\ Kept /\ UNCHANGED <<server, promoted, disturbed, compared>>

EditorNext ==
    \/ OtherClient \/ FirstLoadAnswered \/ FirstLoadShown
    \/ Update \/ Remove \/ Add
    \/ ClickCreate \/ ClickDiscard \/ ClickSave \/ ClickCompare
    \/ OpenDialog \/ CloseDialog \/ ConfirmPublish
    \/ CallCreate \/ CallSave \/ CallValidate \/ CallDiscard \/ CallPublish
    \/ CallDiff \/ CallLoad \/ CallFails

EditorSpec == EditorInit /\ [][EditorNext]_editorVars

-----------------------------------------------------------------------------
\* Publishing puts in force what was on screen when Confirm was clicked: the rules as
\* edited and nothing else, every setting of the draft as it was loaded.  Edits made while
\* the calls run, late answers and repeated tries change nothing of it; only another
\* client's write between the page's save and its publish can (page.tsx:398-407).
PublishedAsShown ==
    promoted # Nothing =>
        LET shown == confirmed.rules
            is == promoted.entities
        IN  /\ confirmed.draft = [View(promoted) EXCEPT !.rules = confirmed.draft.rules]
            /\ \A r \in shown : r.type \in DOMAIN is /\ is[r.type] = r.rule
            /\ \A t \in DOMAIN is : \E r \in shown : r.type = t

\* Two versions the page calls identical treat every hit alike, unless its score is
\* written as the threshold is, and agree on every setting but the providers, of which
\* only the text is the same (diff_documents; DiffView, "These versions are identical.").
DiffIsComplete ==
    (compared # Nothing /\ compared.changes = [entities |-> {}, settings |-> {}]) =>
        LET a == compared.before
            b == compared.after
        IN  /\ \A t \in Supported, s \in 0..MaxScore :
                 Written(s) # Written(MinScoreFor(a, t)) => Treatment(a, t, s) = Treatment(b, t, s)
            /\ <<a.ttl, a.budget, a.unknown>> = <<b.ttl, b.budget, b.unknown>>
            /\ ProvidersText(a.providers) = ProvidersText(b.providers)
=============================================================================
