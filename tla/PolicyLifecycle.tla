--------------------------- MODULE PolicyLifecycle ---------------------------
(***************************************************************************)
(* The versions of one policy name of one tenant: the handlers of          *)
(* app/api/v1/policies.py over app/repositories/policies.py.  A handler is *)
(* one transaction at PostgreSQL's READ COMMITTED: each SELECT sees what   *)
(* is committed when it runs and locks nothing, so each is a step.  What a *)
(* handler flushes is held by row locks until it commits a moment later,   *)
(* and is one step.  A row an ORM session has loaded keeps the attributes  *)
(* it was loaded with; its UPDATE and DELETE go by primary key.            *)
(***************************************************************************)
EXTENDS Naturals, FiniteSets, FiniteSetsExt

CONSTANTS
    Operators,      \* callers with policies:write, one request at a time each
    RowIds,         \* primary keys
    FirstRow,       \* the key of the seeded version
    Documents,      \* documents that satisfy the schema
    Publishable,    \* those validate_draft accepts as well
    Seed,           \* the document of the seeded version
    None

ASSUME DocumentAssumption == Publishable \subseteq Documents /\ Seed \in Publishable
ASSUME RowAssumption == FirstRow \in RowIds
ASSUME NoneAssumption == None \notin RowIds /\ None \notin Documents

VARIABLES
    rows,           \* the committed rows of the policies table, by key
    issued,         \* the keys used so far
    task            \* what each operator's open request has read

vars == <<rows, issued, task>>

Row(version, status, active, document) ==
    [version |-> version, status |-> status, active |-> active, document |-> document]

Drafts    == {i \in DOMAIN rows : rows[i].status = "draft"}
Published == {i \in DOMAIN rows : rows[i].status = "published"}
Active    == {i \in DOMAIN rows : rows[i].active}
Versions  == {rows[i].version : i \in DOMAIN rows}

Steps == {"idle", "seeding", "numbering", "inserting", "updating", "discarding",
          "publishing", "promoting"}
Task(step, row, version, document) ==
    [step |-> step, row |-> row, version |-> version, document |-> document]
Idle == Task("idle", None, 0, None)

At(o, step) == task[o].step = step
Begins(o, t) == task' = [task EXCEPT ![o] = t]
Ends(o) == task' = [task EXCEPT ![o] = Idle]

With(i, row) == [k \in DOMAIN rows \cup {i} |-> IF k = i THEN row ELSE rows[k]]
Without(i) == [k \in DOMAIN rows \ {i} |-> rows[k]]

Init ==
    /\ rows = [i \in {FirstRow} |-> Row(1, "published", TRUE, Seed)]
    /\ issued = {FirstRow}
    /\ task = [o \in Operators |-> Idle]

-----------------------------------------------------------------------------
\* POST draft: no open draft, the active version's document, the next number,
\* the row.  A second draft or a number taken violates a unique index.
CreateFindsDraft(o) == At(o, "idle") /\ Drafts # {} /\ UNCHANGED vars

RowsLeft == Cardinality(RowIds \ issued) >= Cardinality(Operators)  \* the bound

CreateFindsNoDraft(o) ==
    /\ At(o, "idle")
    /\ RowsLeft
    /\ Drafts = {}
    /\ Begins(o, Task("seeding", None, 0, None))
    /\ UNCHANGED <<rows, issued>>

CreateCopiesActive(o) ==
    /\ At(o, "seeding")
    /\ IF Active = {} THEN Ends(o)
       ELSE \E i \in Active : Begins(o, Task("numbering", None, 0, rows[i].document))
    /\ UNCHANGED <<rows, issued>>

NextVersion == IF Versions = {} THEN 1 ELSE Max(Versions) + 1

CreateTakesNumber(o) ==
    /\ At(o, "numbering")
    /\ Begins(o, [task[o] EXCEPT !.step = "inserting", !.version = NextVersion])
    /\ UNCHANGED <<rows, issued>>

ViolatesOnlyVersion(o) == task[o].version \in Versions              \* mutant
ViolatesIndex(o) == Drafts # {} \/ task[o].version \in Versions

CreateInserts(o) ==
    /\ At(o, "inserting")
    /\ Ends(o)
    /\ IF ViolatesIndex(o) THEN UNCHANGED <<rows, issued>>
       ELSE \E i \in RowIds \ issued :
              /\ rows' = With(i, Row(task[o].version, "draft", FALSE, task[o].document))
              /\ issued' = issued \cup {i}

-----------------------------------------------------------------------------
\* PATCH, DELETE and publish are refused when there is no open draft.
FindsNoDraft(o) == At(o, "idle") /\ Drafts = {} /\ UNCHANGED vars

\* PATCH draft.  The write names the row by key, whatever it has become; a row
\* that is gone makes it fail.
UpdateFindsDraft(o, d) ==
    /\ At(o, "idle")
    /\ \E i \in Drafts : Begins(o, Task("updating", i, 0, d))
    /\ UNCHANGED <<rows, issued>>

UpdateWrites(o) ==
    /\ At(o, "updating")
    /\ Ends(o)
    /\ LET i == task[o].row
       IN rows' = IF i \notin DOMAIN rows THEN rows
                  ELSE With(i, [rows[i] EXCEPT !.document = task[o].document])
    /\ UNCHANGED issued

\* DELETE draft, by key as well.
DiscardFindsDraft(o) ==
    /\ At(o, "idle")
    /\ \E i \in Drafts : Begins(o, Task("discarding", i, 0, None))
    /\ UNCHANGED <<rows, issued>>

DiscardDeletes(o) ==
    /\ At(o, "discarding")
    /\ Ends(o)
    /\ rows' = Without(task[o].row)
    /\ UNCHANGED issued

-----------------------------------------------------------------------------
\* POST publish: the handler validates the draft it reads, publish_draft reads
\* it a second time, then every other row is deactivated and the draft, if it is
\* still there, becomes published and active.
PublishUnchecked(o) ==                                              \* mutant
    /\ At(o, "idle")
    /\ \E i \in Drafts : Begins(o, Task("publishing", i, 0, None))
    /\ UNCHANGED <<rows, issued>>
PublishValidates(o) ==
    /\ At(o, "idle")
    /\ \E i \in Drafts :
         /\ rows[i].document \in Publishable
         /\ Begins(o, Task("publishing", i, 0, None))
    /\ UNCHANGED <<rows, issued>>

PublishFindsDraft(o) ==
    /\ At(o, "publishing")
    /\ IF Drafts = {} THEN Ends(o)
       ELSE \E i \in Drafts : Begins(o, Task("promoting", i, 0, None))
    /\ UNCHANGED <<rows, issued>>

PromotedAlone(i) ==                                                 \* mutant
    [k \in DOMAIN rows |->
        IF k = i THEN [rows[k] EXCEPT !.status = "published", !.active = TRUE]
        ELSE rows[k]]
Promoted(i) ==
    [k \in DOMAIN rows |->
        IF k = i THEN [rows[k] EXCEPT !.status = "published", !.active = TRUE]
        ELSE [rows[k] EXCEPT !.active = FALSE]]

PublishWrites(o) ==
    /\ At(o, "promoting")
    /\ Ends(o)
    /\ LET i == task[o].row
       IN rows' = IF i \in DOMAIN rows THEN Promoted(i) ELSE rows
    /\ UNCHANGED issued

Creates(o) == \/ CreateFindsDraft(o) \/ CreateFindsNoDraft(o) \/ CreateCopiesActive(o)
              \/ CreateTakesNumber(o) \/ CreateInserts(o)
Updates(o) == (\E d \in Documents : UpdateFindsDraft(o, d)) \/ UpdateWrites(o)
Discards(o) == DiscardFindsDraft(o) \/ DiscardDeletes(o)
Publishes(o) == PublishValidates(o) \/ PublishFindsDraft(o) \/ PublishWrites(o)

Next == \E o \in Operators :
    Creates(o) \/ FindsNoDraft(o) \/ Updates(o) \/ Discards(o) \/ Publishes(o)

Spec == Init /\ [][Next]_vars

-----------------------------------------------------------------------------
Rows == [version : Nat \ {0}, status : {"draft", "published"}, active : BOOLEAN,
         document : Documents]
Tasks == [step : Steps, row : RowIds \cup {None}, version : Nat,
          document : Documents \cup {None}]

\* The state has its shape, and keys are used once (db/models.py:138-206).
TypeOK ==
    /\ DOMAIN rows \subseteq issued /\ issued \subseteq RowIds
    /\ rows \in [DOMAIN rows -> Rows]
    /\ task \in [Operators -> Tasks]

\* Whatever overlaps, at most one version is active and it is no draft, at most
\* one draft is open, and a version number belongs to one row
\* (repositories/policies.py:276-302, db/models.py:178-200).
OneOfEach ==
    /\ \A i, j \in Active : i = j
    /\ Active \cap Drafts = {}
    /\ \A i, j \in Drafts : i = j
    /\ \A i, j \in DOMAIN rows : rows[i].version = rows[j].version => i = j

\* "Published policy versions are immutable ... The only column that ever changes
\* on an already-published row is is_active" (docs/adr/0037:34, 48).
PublishedNeverChanges ==
    [][\A i \in Published \cap DOMAIN rows' :
          [rows'[i] EXCEPT !.active = rows[i].active] = rows[i]]_vars

\* With one request at a time the published rows are the history ADR-0037
\* promises: the detailed specification implements the abstract one.
VersionsPublished == {rows[i].version : i \in Published}
RowOf(v) == CHOOSE i \in Published : rows[i].version = v
History == INSTANCE PublishedHistory WITH
               history <- [v \in VersionsPublished |-> rows[RowOf(v)].document],
               inForce <- Max({rows[i].version : i \in Active})
ImplementsHistory == History!Spec
=============================================================================
