---------------------------- MODULE PolicyProofs ----------------------------
(***************************************************************************)
(* What holds of the versions of a policy, for any number of operators     *)
(* whose transactions overlap; of the history they form when one operator  *)
(* acts at a time; of the snapshots requests are given, for any number of  *)
(* lookups and any TTL; and of the page a policy is edited on, for any     *)
(* documents, edits and other clients.                                     *)
(*                                                                         *)
(* The argument for the snapshots: a version in force is remembered as in  *)
(* force now; what a query reads was in force no earlier than the lookup   *)
(* began; and an entry expires within a TTL of a moment at which its       *)
(* snapshot was in force.                                                  *)
(***************************************************************************)
EXTENDS PolicyResolution, PolicyEditor, WellFoundedInduction, TLAPS

\* The inductive invariant of the table: the numbers in use have a largest one, and a
\* request that will write has a document, and a number if it needs one.
NumbersBounded == \E n \in Nat : \A v \in Versions : v <= n
Knows(t) ==
    /\ t.step \in {"numbering", "inserting", "updating"} => t.document \in Documents
    /\ t.step = "inserting" => t.version # 0
TasksKnow == \A o \in Operators : Knows(task[o])
LifecycleInv == TypeOK /\ OneOfEach /\ NumbersBounded /\ TasksKnow

LEMMA IdleKnows == Idle \in Tasks /\ Knows(Idle)
BY DEF Idle, Task, Tasks, Steps, Knows

LEMMA TableHolds == Init => LifecycleInv
<1> SUFFICES ASSUME Init PROVE LifecycleInv
    OBVIOUS
<1>1. /\ DOMAIN rows = {FirstRow} /\ issued = {FirstRow}
      /\ rows = [i \in {FirstRow} |-> Row(1, "published", TRUE, Seed)]
      /\ task = [o \in Operators |-> Idle]
    BY DEF Init
<1>2. Row(1, "published", TRUE, Seed) \in Rows
    BY DocumentAssumption DEF Row, Rows
<1>4. TypeOK
    BY <1>1, <1>2, IdleKnows, RowAssumption DEF TypeOK
<1>5. rows[FirstRow].version = 1 /\ rows[FirstRow].status = "published"
    BY <1>1 DEF Row
<1>6. OneOfEach
    BY <1>1, <1>5 DEF OneOfEach, Active, Drafts
<1>7. NumbersBounded
  <2>1. Versions = {1}
    BY <1>1, <1>5 DEF Versions
  <2>2. \A v \in {1} : v <= 1
    OBVIOUS
  <2> QED BY <2>1, <2>2 DEF NumbersBounded
<1>8. TasksKnow
    BY <1>1, IdleKnows DEF TasksKnow
<1> QED BY <1>4, <1>6, <1>7, <1>8 DEF LifecycleInv

\* The numbers in use have a largest one: their least bound.
LEMMA HasLargest ==
    ASSUME LifecycleInv, Versions # {}
    PROVE  \E v \in Versions : \A w \in Versions : v >= w
<1> DEFINE bounds == {n \in Nat : \A v \in Versions : v <= n}
<1>1. Versions \subseteq Nat \ {0}
    BY DEF LifecycleInv, TypeOK, Versions, Rows
<1>2. bounds # {} /\ bounds \subseteq Nat
    BY DEF LifecycleInv, NumbersBounded
<1>3. PICK n \in bounds : \A m \in bounds : ~(m < n)
  <2> DEFINE below == {p \in Nat \X Nat : p[1] < p[2]}
  <2>1. IsWellFoundedOn(below, Nat)
    BY Zenon, NatLessThanWellFounded DEF OpToRel, below
  <2> HIDE DEF bounds, below
  <2>2. PICK n \in bounds : \A m \in bounds : ~(<<m, n>> \in below)
    BY <1>2, <2>1, WFMin
  <2> QED BY <1>2, <2>2 DEF below
<1>4. n \in Versions
  <2> SUFFICES ASSUME n \notin Versions PROVE FALSE
    OBVIOUS
  <2>1. \A v \in Versions : v <= n - 1 /\ n - 1 \in Nat
    BY <1>1
  <2>2. n - 1 \in bounds
    BY <2>1
  <2> QED BY <1>3, <2>2
<1> QED BY <1>1, <1>4

LEMMA NextVersionIsNumber ==
    ASSUME LifecycleInv
    PROVE  NextVersion \in Nat \ {0}
<1>2. Versions \subseteq Nat
    BY DEF LifecycleInv, TypeOK, Versions, Rows
<1>3. CASE Versions = {}
    BY <1>3 DEF NextVersion
<1>4. CASE Versions # {}
  <2>3. Max(Versions) \in Versions
    BY <1>4, HasLargest DEF Max
  <2>4. NextVersion = Max(Versions) + 1
    BY Zenon, <1>4 DEF NextVersion
  <2> DEFINE top == Max(Versions)
  <2>5. top \in Nat
    BY <2>3, <1>2
  <2> HIDE DEF top
  <2>6. top + 1 \in Nat \ {0}
    BY <2>5
  <2> QED BY <2>4, <2>6 DEF top
<1> QED BY <1>3, <1>4

\* A step that only reads.
LEMMA ReadsKeep ==
    ASSUME LifecycleInv, rows' = rows, issued' = issued, task' \in [Operators -> Tasks], TasksKnow'
    PROVE  LifecycleInv'
BY DEF LifecycleInv, TypeOK, OneOfEach, NumbersBounded, Active, Drafts, Versions

\* A step that changes rows, keeps their numbers, opens no draft, and leaves one active.
LEMMA WritesKeep ==
    ASSUME LifecycleInv, issued' = issued, task' \in [Operators -> Tasks], TasksKnow',
           DOMAIN rows' \subseteq DOMAIN rows, rows' \in [DOMAIN rows' -> Rows],
           \A i \in DOMAIN rows' : rows'[i].version = rows[i].version,
           Drafts' \subseteq Drafts, Active' \cap Drafts' = {},
           \A i, j \in Active' : i = j
    PROVE  LifecycleInv'
<1>1. TypeOK'
    BY DEF LifecycleInv, TypeOK
<1>2. OneOfEach'
    BY DEF LifecycleInv, OneOfEach
<1>3. NumbersBounded'
  <2>1. Versions' \subseteq Versions
    BY DEF Versions
  <2> QED BY <2>1 DEF LifecycleInv, NumbersBounded
<1> QED BY <1>1, <1>2, <1>3 DEF LifecycleInv

LEMMA TaskMoves ==
    ASSUME LifecycleInv, NEW o \in Operators, NEW t \in Tasks, Knows(t),
           task' = [task EXCEPT ![o] = t]
    PROVE  task' \in [Operators -> Tasks] /\ TasksKnow'
BY DEF LifecycleInv, TypeOK, TasksKnow

LEMMA EndKeeps ==
    ASSUME LifecycleInv, NEW o \in Operators, Ends(o)
    PROVE  task' \in [Operators -> Tasks] /\ TasksKnow'
BY IdleKnows, TaskMoves DEF Ends

LEMMA BeginKeeps ==
    ASSUME LifecycleInv, NEW o \in Operators, NEW t \in Tasks, Knows(t), Begins(o, t),
           rows' = rows, issued' = issued
    PROVE  LifecycleInv'
BY TaskMoves, ReadsKeep DEF Begins

LEMMA CreateKeeps ==
    ASSUME LifecycleInv, NEW o \in Operators, Creates(o)
    PROVE  LifecycleInv'
<1>1. /\ TypeOK /\ OneOfEach /\ NumbersBounded /\ rows \in [DOMAIN rows -> Rows]
      /\ task[o] \in Tasks /\ Knows(task[o]) /\ task \in [Operators -> Tasks]
    BY DEF LifecycleInv, TypeOK, TasksKnow
<1>2. CASE CreateFindsDraft(o)
    BY <1>2, ReadsKeep, <1>1 DEF CreateFindsDraft, vars, LifecycleInv, TasksKnow
<1>3. CASE CreateFindsNoDraft(o)
  <2>1. Task("seeding", None, 0, None) \in Tasks /\ Knows(Task("seeding", None, 0, None))
    BY DEF Task, Tasks, Steps, Knows
  <2> QED BY <2>1, <1>3, BeginKeeps DEF CreateFindsNoDraft
<1>4. CASE CreateCopiesActive(o)
  <2>1. CASE Active = {}
    BY <2>1, <1>4, EndKeeps, ReadsKeep DEF CreateCopiesActive
  <2>2. CASE Active # {}
    <3>1. PICK i \in Active : Begins(o, Task("numbering", None, 0, rows[i].document))
      BY <2>2, <1>4 DEF CreateCopiesActive
    <3>2. rows[i].document \in Documents
      BY <1>1 DEF Active, Rows
    <3> DEFINE t == Task("numbering", None, 0, rows[i].document)
    <3>3. t \in Tasks /\ Knows(t)
      BY <3>2 DEF Task, Tasks, Steps, Knows
    <3>4. rows' = rows /\ issued' = issued
      BY <1>4 DEF CreateCopiesActive
    <3> HIDE DEF t
    <3> QED BY <3>1, <3>3, <3>4, BeginKeeps DEF t
  <2> QED BY <2>1, <2>2
<1>5. CASE CreateTakesNumber(o)
  <2> DEFINE t == [task[o] EXCEPT !.step = "inserting", !.version = NextVersion]
  <2>1. task[o].document \in Documents /\ NextVersion \in Nat \ {0}
    BY <1>1, <1>5, NextVersionIsNumber DEF CreateTakesNumber, At, Knows
  <2>2. t \in Tasks /\ t.step = "inserting" /\ t.version = NextVersion /\ t.document = task[o].document
    BY <2>1, <1>1 DEF Tasks, Steps
  <2>3. Knows(t)
    BY <2>1, <2>2 DEF Knows
  <2>4. Begins(o, t) /\ rows' = rows /\ issued' = issued
    BY <1>5 DEF CreateTakesNumber
  <2> HIDE DEF t
  <2> QED BY <2>2, <2>3, <2>4, BeginKeeps
<1>6. CASE CreateInserts(o)
  <2>1. task' \in [Operators -> Tasks] /\ TasksKnow'
    BY <1>6, EndKeeps DEF CreateInserts
  <2>2. CASE ViolatesIndex(o)
    BY <2>1, <2>2, <1>6, ReadsKeep DEF CreateInserts
  <2>3. CASE ~ViolatesIndex(o)
    <3> DEFINE row == Row(task[o].version, "draft", FALSE, task[o].document)
    <3>1. PICK i \in RowIds \ issued : rows' = With(i, row) /\ issued' = issued \cup {i}
      BY <2>3, <1>6 DEF CreateInserts
    <3>2. Drafts = {} /\ task[o].version \notin Versions
      BY <2>3 DEF ViolatesIndex
    <3>3. /\ row \in Rows /\ row.version = task[o].version /\ row.status = "draft" /\ row.active = FALSE
          /\ task[o].version \in Nat
      BY <1>1, <1>6 DEF CreateInserts, At, Knows, Row, Rows, Tasks
    <3> HIDE DEF row
    <3>4. /\ i \notin DOMAIN rows /\ DOMAIN rows' = DOMAIN rows \cup {i} /\ rows'[i] = row
          /\ \A k \in DOMAIN rows : rows'[k] = rows[k]
          /\ rows' = [k \in DOMAIN rows \cup {i} |-> IF k = i THEN row ELSE rows[k]]
      BY <3>1, <1>1 DEF With, TypeOK
    <3>5. TypeOK'
      BY <3>1, <3>3, <3>4, <2>1, <1>1 DEF TypeOK
    <3>6. Active' = Active /\ Drafts' = {i}
      BY <3>2, <3>3, <3>4 DEF Active, Drafts
    <3>7. ASSUME NEW v \in Versions' PROVE v \in Versions \/ v = task[o].version
      <4>1. PICK k \in DOMAIN rows' : v = rows'[k].version
        BY DEF Versions
      <4>2. k = i \/ (k \in DOMAIN rows /\ v = rows[k].version)
        BY <4>1, <3>4
      <4> QED BY <4>1, <4>2, <3>3, <3>4 DEF Versions
    <3>8. OneOfEach'
      <4>1. \A k \in DOMAIN rows : rows[k].version # rows'[i].version
        BY <3>2, <3>3, <3>4 DEF Versions
      <4>2. \A k, l \in DOMAIN rows' : rows'[k].version = rows'[l].version => k = l
        BY <4>1, <3>4, <1>1 DEF OneOfEach
      <4>3. i \notin Active
        BY <3>4 DEF Active
      <4> QED BY <4>2, <4>3, <3>6, <1>1 DEF OneOfEach
    <3>9. NumbersBounded'
      <4>1. PICK n \in Nat : \A v \in Versions : v <= n
        BY <1>1 DEF NumbersBounded
      <4>2. Versions \subseteq Nat
        BY <1>1 DEF Versions, Rows
      <4>3. ASSUME NEW v \in Versions' PROVE v <= n + task[o].version
        <5>1. CASE v \in Versions
          <6>1. v \in Nat /\ v <= n
            BY <5>1, <4>1, <4>2
          <6> QED BY <6>1, <3>3
        <5>2. CASE v = task[o].version
          BY <5>2, <3>3
        <5> QED BY <5>1, <5>2, <3>7
      <4>4. n + task[o].version \in Nat
        BY <3>3
      <4> QED BY <4>3, <4>4 DEF NumbersBounded
    <3> QED BY <3>5, <3>8, <3>9, <2>1 DEF LifecycleInv
  <2> QED BY <2>2, <2>3
<1> QED BY <1>2, <1>3, <1>4, <1>5, <1>6 DEF Creates

LEMMA UpdateKeeps ==
    ASSUME LifecycleInv, NEW o \in Operators, Updates(o)
    PROVE  LifecycleInv'
<1>1. /\ TypeOK /\ OneOfEach /\ rows \in [DOMAIN rows -> Rows]
      /\ task[o] \in Tasks /\ Knows(task[o]) /\ DOMAIN rows \subseteq RowIds
    BY DEF LifecycleInv, TypeOK, TasksKnow
<1>2. ASSUME NEW d \in Documents, UpdateFindsDraft(o, d) PROVE LifecycleInv'
  <2>1. PICK i \in Drafts : Begins(o, Task("updating", i, 0, d))
    BY <1>2 DEF UpdateFindsDraft
  <2> DEFINE t == Task("updating", i, 0, d)
  <2>2. t \in Tasks /\ Knows(t)
    BY <2>1, <1>1 DEF Task, Tasks, Steps, Knows, Drafts
  <2>3. rows' = rows /\ issued' = issued /\ Begins(o, t)
    BY <2>1, <1>2 DEF UpdateFindsDraft
  <2> HIDE DEF t
  <2> QED BY <2>2, <2>3, BeginKeeps
<1>3. CASE UpdateWrites(o)
  <2>1. task' \in [Operators -> Tasks] /\ TasksKnow' /\ issued' = issued
    BY <1>3, EndKeeps DEF UpdateWrites
  <2> DEFINE i == task[o].row
  <2>2. CASE i \notin DOMAIN rows
    BY <2>1, <2>2, <1>3, ReadsKeep DEF UpdateWrites
  <2>3. CASE i \in DOMAIN rows
    <3> DEFINE row == [rows[i] EXCEPT !.document = task[o].document]
    <3>1. task[o].document \in Documents /\ rows[i] \in Rows
      BY <2>3, <1>1, <1>3 DEF UpdateWrites, At, Knows
    <3>2. /\ row \in Rows /\ row.version = rows[i].version
          /\ row.status = rows[i].status /\ row.active = rows[i].active
      BY <3>1 DEF Rows
    <3>3. rows' = With(i, row)
      BY <2>3, <1>3 DEF UpdateWrites
    <3> HIDE DEF row, i
    <3>4. /\ DOMAIN rows' = DOMAIN rows /\ rows' \in [DOMAIN rows' -> Rows]
          /\ rows'[i] = row /\ \A k \in DOMAIN rows : k # i => rows'[k] = rows[k]
      BY <2>3, <3>2, <3>3, <1>1 DEF With
    <3>5. /\ \A k \in DOMAIN rows' : rows'[k].version = rows[k].version
          /\ Active' = Active /\ Drafts' = Drafts
      BY <3>2, <3>4 DEF Active, Drafts
    <3> QED BY <2>1, <3>4, <3>5, <1>1, WritesKeep DEF OneOfEach
  <2> QED BY <2>2, <2>3
<1> QED BY <1>2, <1>3 DEF Updates

LEMMA DiscardKeeps ==
    ASSUME LifecycleInv, NEW o \in Operators, Discards(o)
    PROVE  LifecycleInv'
<1>1. /\ TypeOK /\ OneOfEach /\ rows \in [DOMAIN rows -> Rows] /\ DOMAIN rows \subseteq RowIds
    BY DEF LifecycleInv, TypeOK
<1>2. CASE DiscardFindsDraft(o)
  <2>1. PICK i \in Drafts : Begins(o, Task("discarding", i, 0, None))
    BY <1>2 DEF DiscardFindsDraft
  <2> DEFINE t == Task("discarding", i, 0, None)
  <2>2. t \in Tasks /\ Knows(t)
    BY <2>1, <1>1 DEF Task, Tasks, Steps, Knows, Drafts
  <2>3. rows' = rows /\ issued' = issued /\ Begins(o, t)
    BY <2>1, <1>2 DEF DiscardFindsDraft
  <2> HIDE DEF t
  <2> QED BY <2>2, <2>3, BeginKeeps
<1>3. CASE DiscardDeletes(o)
  <2>1. task' \in [Operators -> Tasks] /\ TasksKnow' /\ issued' = issued
    BY <1>3, EndKeeps DEF DiscardDeletes
  <2>2. /\ DOMAIN rows' \subseteq DOMAIN rows /\ rows' \in [DOMAIN rows' -> Rows]
        /\ \A k \in DOMAIN rows' : rows'[k] = rows[k]
    BY <1>1, <1>3 DEF DiscardDeletes, Without
  <2>3. Active' \subseteq Active /\ Drafts' \subseteq Drafts
    BY <2>2 DEF Active, Drafts
  <2> QED BY <2>1, <2>2, <2>3, <1>1, WritesKeep DEF OneOfEach
<1> QED BY <1>2, <1>3 DEF Discards

LEMMA PublishKeeps ==
    ASSUME LifecycleInv, NEW o \in Operators, Publishes(o)
    PROVE  LifecycleInv'
<1>1. /\ TypeOK /\ OneOfEach /\ rows \in [DOMAIN rows -> Rows] /\ DOMAIN rows \subseteq RowIds
    BY DEF LifecycleInv, TypeOK
<1>2. ASSUME NEW i \in Drafts, NEW s \in {"publishing", "promoting"},
             Begins(o, Task(s, i, 0, None)), rows' = rows, issued' = issued
      PROVE  LifecycleInv'
  <2> DEFINE t == Task(s, i, 0, None)
  <2>1. t \in Tasks /\ Knows(t)
    BY <1>1 DEF Task, Tasks, Steps, Knows, Drafts
  <2>2. Begins(o, t)
    BY <1>2
  <2> HIDE DEF t
  <2> QED BY <2>1, <2>2, <1>2, BeginKeeps
<1>3. CASE PublishValidates(o)
    BY <1>2, <1>3 DEF PublishValidates
<1>4. CASE PublishFindsDraft(o)
  <2>1. CASE Drafts = {}
    BY <2>1, <1>4, EndKeeps, ReadsKeep DEF PublishFindsDraft
  <2>2. CASE Drafts # {}
    BY <2>2, <1>2, <1>4 DEF PublishFindsDraft
  <2> QED BY <2>1, <2>2
<1>5. CASE PublishWrites(o)
  <2>1. task' \in [Operators -> Tasks] /\ TasksKnow' /\ issued' = issued
    BY <1>5, EndKeeps DEF PublishWrites
  <2> DEFINE i == task[o].row
  <2>2. CASE i \notin DOMAIN rows
    BY <2>1, <2>2, <1>5, ReadsKeep DEF PublishWrites
  <2>3. CASE i \in DOMAIN rows
    <3>1. rows' = Promoted(i)
      BY <2>3, <1>5 DEF PublishWrites
    <3> HIDE DEF i
    <3>2. /\ DOMAIN rows' = DOMAIN rows
          /\ \A k \in DOMAIN rows : rows'[k] = IF k = i
               THEN [rows[k] EXCEPT !.status = "published", !.active = TRUE]
               ELSE [rows[k] EXCEPT !.active = FALSE]
      BY <3>1 DEF Promoted
    <3>3. \A k \in DOMAIN rows :
            /\ rows'[k] \in Rows /\ rows'[k].version = rows[k].version
            /\ rows'[k].active = (k = i)
            /\ rows'[k].status = IF k = i THEN "published" ELSE rows[k].status
      <4> SUFFICES ASSUME NEW k \in DOMAIN rows
                   PROVE  /\ rows'[k] \in Rows /\ rows'[k].version = rows[k].version
                          /\ rows'[k].active = (k = i)
                          /\ rows'[k].status = IF k = i THEN "published" ELSE rows[k].status
        OBVIOUS
      <4>1. rows[k] \in Rows
        BY <1>1
      <4>2. CASE k = i
        BY <4>1, <4>2, <3>2 DEF Rows
      <4>3. CASE k # i
        BY <4>1, <4>3, <3>2 DEF Rows
      <4> QED BY <4>2, <4>3
    <3>4. rows' \in [DOMAIN rows' -> Rows]
      BY <3>1, <3>2, <3>3 DEF Promoted
    <3>5. Active' = {i} /\ Drafts' \subseteq Drafts /\ i \notin Drafts'
      BY <2>3, <3>2, <3>3 DEF Active, Drafts
    <3> QED BY <2>1, <3>2, <3>3, <3>4, <3>5, <1>1, WritesKeep
  <2> QED BY <2>2, <2>3
<1> QED BY <1>3, <1>4, <1>5 DEF Publishes

LEMMA TableIsKept == LifecycleInv /\ [Next]_vars => LifecycleInv'
<1> SUFFICES ASSUME LifecycleInv, [Next]_vars PROVE LifecycleInv'
    OBVIOUS
<1>1. ASSUME UNCHANGED vars PROVE LifecycleInv'
    BY <1>1, ReadsKeep DEF vars, LifecycleInv, TypeOK, TasksKnow
<1>2. ASSUME NEW o \in Operators,
             Creates(o) \/ FindsNoDraft(o) \/ Updates(o) \/ Discards(o) \/ Publishes(o)
      PROVE  LifecycleInv'
  <2>1. CASE FindsNoDraft(o)
    BY <2>1, <1>1 DEF FindsNoDraft
  <2> QED BY <2>1, <1>2, CreateKeeps, UpdateKeeps, DiscardKeeps, PublishKeeps
<1> QED BY <1>1, <1>2 DEF Next

\* The rows and the requests keep their shape, and no key is used twice.
THEOREM TypeCorrect == Spec => []TypeOK
<1>1. LifecycleInv => TypeOK
    BY DEF LifecycleInv
<1> QED BY <1>1, TableHolds, TableIsKept, PTL DEF Spec

\* Whatever transactions overlap, at READ COMMITTED and without a lock on what was
\* read, there is one active version and one draft at most, the active one is no draft,
\* and a number belongs to one row (repositories/policies.py:276-302).
THEOREM OneOfEachAlways == Spec => []OneOfEach
<1>1. LifecycleInv => OneOfEach
    BY DEF LifecycleInv
<1> QED BY <1>1, TableHolds, TableIsKept, PTL DEF Spec

-----------------------------------------------------------------------------
\* The inductive invariant of the table under one operator at a time: the row in force
\* is the newest published one, an open draft is numbered next, and what the open
\* request has read of the table is still so.
Sequential == \A o, p \in Operators : o = p
NewestInForce ==
    /\ Active # {}
    /\ \A a \in Active :
         /\ \A i \in Published : rows[i].version <= rows[a].version
         /\ \A i \in Drafts : rows[i].version = rows[a].version + 1
StillSo(t) ==
    /\ t.step \in {"seeding", "numbering", "inserting"} => Drafts = {}
    /\ t.step = "inserting" => \A a \in Active : t.version = rows[a].version + 1
    /\ t.step \in {"updating", "discarding", "publishing", "promoting"} => t.row \in Drafts
    /\ t.step \in {"publishing", "promoting"} => rows[t.row].document \in Publishable
SequentialInv == LifecycleInv /\ NewestInForce /\ \A o \in Operators : StillSo(task[o])

LEMMA SequentialHolds == Init => SequentialInv
<1> SUFFICES ASSUME Init PROVE SequentialInv
    OBVIOUS
<1>1. /\ DOMAIN rows = {FirstRow}
      /\ rows[FirstRow] = Row(1, "published", TRUE, Seed)
      /\ task = [o \in Operators |-> Idle]
    BY DEF Init
<1>2. Active = {FirstRow} /\ Published = {FirstRow} /\ Drafts = {} /\ rows[FirstRow].version = 1
    BY <1>1 DEF Row, Active, Published, Drafts
<1>3. NewestInForce
    BY <1>2 DEF NewestInForce
<1>4. \A o \in Operators : StillSo(task[o])
    BY <1>1 DEF StillSo, Idle, Task
<1> QED BY <1>3, <1>4, TableHolds DEF SequentialInv

\* What the table's rows are.
LEMMA RowFacts ==
    ASSUME SequentialInv
    PROVE  /\ rows \in [DOMAIN rows -> Rows] /\ task \in [Operators -> Tasks]
           /\ OneOfEach /\ NewestInForce
           /\ Active \subseteq Published /\ Active \subseteq DOMAIN rows
           /\ \A i \in DOMAIN rows : i \in Published \/ i \in Drafts
           /\ Published \cap Drafts = {}
           /\ \A i \in DOMAIN rows : /\ rows[i].version \in Nat
                                     /\ i \in Active <=> rows[i].active = TRUE
<1>1. rows \in [DOMAIN rows -> Rows] /\ task \in [Operators -> Tasks] /\ OneOfEach /\ NewestInForce
    BY DEF SequentialInv, LifecycleInv, TypeOK
<1>2. \A i \in DOMAIN rows : rows[i] \in Rows
    BY <1>1
<1>3. \A i \in DOMAIN rows : /\ rows[i].version \in Nat /\ rows[i].active \in BOOLEAN
                             /\ rows[i].status \in {"draft", "published"}
    BY <1>2 DEF Rows
<1> QED BY <1>1, <1>3 DEF Active, Published, Drafts, OneOfEach

\* The only open request goes on, and reads.
LEMMA MovesOn ==
    ASSUME Sequential, SequentialInv, LifecycleInv', NEW o \in Operators, NEW t, StillSo(t),
           task' = [task EXCEPT ![o] = t], rows' = rows
    PROVE  SequentialInv'
<1>1. \A p \in Operators : task'[p] = t
    BY RowFacts DEF Sequential
<1>2. /\ Active' = Active /\ Published' = Published /\ Drafts' = Drafts
    BY DEF Active, Published, Drafts
<1>3. NewestInForce'
    BY <1>2 DEF SequentialInv, NewestInForce
<1>4. StillSo(t)'
    BY <1>2 DEF StillSo
<1> QED BY <1>1, <1>3, <1>4 DEF SequentialInv, StillSo

\* It ends, and leaves the newest in force.
LEMMA EndsWell ==
    ASSUME Sequential, SequentialInv, LifecycleInv', NEW o \in Operators, Ends(o), NewestInForce'
    PROVE  SequentialInv'
<1>1. \A p \in Operators : task'[p] = Idle
    BY RowFacts DEF Sequential, Ends
<1>2. StillSo(Idle)'
    BY DEF StillSo, Idle, Task
<1> QED BY <1>1, <1>2 DEF SequentialInv, StillSo

\* A write that leaves the published rows as they are.
PublishedKept ==
    /\ Published' = Published /\ Active' = Active
    /\ \A i \in Published : rows'[i] = rows[i]

LEMMA KeptIsNewest ==
    ASSUME SequentialInv, PublishedKept, \A i \in Drafts', a \in Active : rows'[i].version = rows[a].version + 1
    PROVE  NewestInForce'
<1>1. \A i \in Published' \cup Active' : i \in Published /\ rows'[i] = rows[i]
    BY RowFacts DEF PublishedKept
<1>2. NewestInForce
    BY DEF SequentialInv
<1> QED BY <1>1, <1>2 DEF NewestInForce, PublishedKept

LEMMA CreateIsSequential ==
    ASSUME Sequential, SequentialInv, LifecycleInv', NEW o \in Operators, Creates(o)
    PROVE  SequentialInv' /\ (PublishedKept \/ rows' = rows)
<1>1. StillSo(task[o]) /\ NewestInForce
    BY DEF SequentialInv
<1>2. CASE CreateFindsDraft(o)
    BY <1>2 DEF CreateFindsDraft, vars, SequentialInv, NewestInForce, StillSo, Active, Published, Drafts
<1>3. CASE CreateFindsNoDraft(o)
  <2>1. StillSo(Task("seeding", None, 0, None))
    BY <1>3 DEF CreateFindsNoDraft, StillSo, Task
  <2> QED BY <2>1, <1>3, MovesOn DEF CreateFindsNoDraft, Begins
<1>4. CASE CreateCopiesActive(o)
  <2>1. PICK i \in Active : Begins(o, Task("numbering", None, 0, rows[i].document)) /\ rows' = rows
    BY <1>1, <1>4 DEF CreateCopiesActive, NewestInForce
  <2> DEFINE t == Task("numbering", None, 0, rows[i].document)
  <2>2. StillSo(t)
    BY <1>1, <1>4 DEF CreateCopiesActive, At, StillSo, Task
  <2>3. task' = [task EXCEPT ![o] = t]
    BY <2>1 DEF Begins
  <2> HIDE DEF t
  <2> QED BY <2>1, <2>2, <2>3, MovesOn
<1>5. CASE CreateTakesNumber(o)
  <2> DEFINE t == [task[o] EXCEPT !.step = "inserting", !.version = NextVersion]
  <2>1. task[o] \in Tasks
    BY RowFacts
  <2>2. Drafts = {}
    BY <1>1, <1>5 DEF CreateTakesNumber, At, StillSo
  <2>3. ASSUME NEW a \in Active PROVE NextVersion = rows[a].version + 1
    <3>1. a \in DOMAIN rows /\ \A i \in DOMAIN rows : i \in Published
      BY <2>2, RowFacts
    <3>2. \A i \in DOMAIN rows : rows[i].version \in Nat /\ rows[i].version <= rows[a].version
      BY <1>1, <3>1, RowFacts DEF NewestInForce
    <3>3. rows[a].version \in Versions /\ \A v \in Versions : v \in Nat /\ v <= rows[a].version
      BY <3>1, <3>2 DEF Versions
    <3>4. Max(Versions) = rows[a].version
      <4> DEFINE top == rows[a].version
      <4>1. top \in Versions /\ \A v \in Versions : v \in Nat /\ top >= v
        BY <3>3
      <4> HIDE DEF top
      <4>2. \A x \in Versions : (\A y \in Versions : x >= y) => x = top
        BY <4>1
      <4> QED BY <4>1, <4>2 DEF Max, top
    <3> QED BY <3>3, <3>4 DEF NextVersion
  <2>4. t.step = "inserting" /\ t.version = NextVersion
    BY <2>1 DEF Tasks
  <2>5. StillSo(t)
    BY <2>2, <2>3, <2>4 DEF StillSo
  <2>6. task' = [task EXCEPT ![o] = t] /\ rows' = rows
    BY <1>5 DEF CreateTakesNumber, Begins
  <2> HIDE DEF t
  <2> QED BY <2>5, <2>6, MovesOn
<1>6. CASE CreateInserts(o)
  <2>1. CASE ViolatesIndex(o)
    <3>1. rows' = rows /\ Ends(o)
      BY <1>6, <2>1 DEF CreateInserts
    <3>2. NewestInForce'
      BY <1>1, <3>1 DEF NewestInForce, Active, Published, Drafts
    <3> QED BY <3>1, <3>2, EndsWell
  <2>2. CASE ~ViolatesIndex(o)
    <3> DEFINE new == Row(task[o].version, "draft", FALSE, task[o].document)
    <3>1. PICK i \in RowIds \ issued : rows' = With(i, new) /\ Ends(o)
      BY <1>6, <2>2 DEF CreateInserts
    <3>2. i \notin DOMAIN rows
      BY DEF SequentialInv, LifecycleInv, TypeOK
    <3>3. new.version = task[o].version /\ new.status = "draft" /\ new.active = FALSE
      BY DEF Row
    <3> HIDE DEF new
    <3>4. /\ DOMAIN rows' = DOMAIN rows \cup {i} /\ rows'[i] = new
          /\ \A k \in DOMAIN rows : rows'[k] = rows[k]
      BY <3>1, <3>2 DEF With
    <3>5. PublishedKept /\ Drafts' = Drafts \cup {i} /\ Drafts = {}
      BY <3>2, <3>3, <3>4, <1>1, <1>6 DEF PublishedKept, Published, Active, Drafts, CreateInserts, At, StillSo
    <3>6. \A k \in Drafts', a \in Active : rows'[k].version = rows[a].version + 1
      BY <3>3, <3>4, <3>5, <1>1, <1>6 DEF CreateInserts, At, StillSo
    <3>7. NewestInForce'
      BY <3>5, <3>6, KeptIsNewest
    <3> QED BY <3>1, <3>5, <3>7, EndsWell
  <2> QED BY <2>1, <2>2
<1> QED BY <1>2, <1>3, <1>4, <1>5, <1>6 DEF Creates, CreateFindsNoDraft, CreateCopiesActive,
           CreateTakesNumber

LEMMA UpdateIsSequential ==
    ASSUME Sequential, SequentialInv, LifecycleInv', NEW o \in Operators, Updates(o)
    PROVE  SequentialInv' /\ (PublishedKept \/ rows' = rows)
<1>1. StillSo(task[o]) /\ NewestInForce
    BY DEF SequentialInv
<1>2. CASE \E d \in Documents : UpdateFindsDraft(o, d)
  <2>1. PICK d \in Documents, i \in Drafts : Begins(o, Task("updating", i, 0, d)) /\ rows' = rows
    BY <1>2 DEF UpdateFindsDraft
  <2> DEFINE t == Task("updating", i, 0, d)
  <2>2. StillSo(t)
    BY DEF StillSo, Task
  <2>3. task' = [task EXCEPT ![o] = t]
    BY <2>1 DEF Begins
  <2> HIDE DEF t
  <2> QED BY <2>1, <2>2, <2>3, MovesOn
<1>3. CASE UpdateWrites(o)
  <2> DEFINE i == task[o].row
             new == [rows[i] EXCEPT !.document = task[o].document]
  <2>1. i \in Drafts /\ i \in DOMAIN rows
    BY <1>1, <1>3 DEF UpdateWrites, At, StillSo, Drafts
  <2>2. rows' = With(i, new) /\ Ends(o)
    BY <1>3, <2>1 DEF UpdateWrites
  <2>3. new.version = rows[i].version /\ new.status = rows[i].status /\ new.active = rows[i].active
    BY <2>1, RowFacts DEF Rows
  <2> HIDE DEF i, new
  <2>4. /\ DOMAIN rows' = DOMAIN rows /\ rows'[i] = new
        /\ \A k \in DOMAIN rows \ {i} : rows'[k] = rows[k]
    BY <2>1, <2>2 DEF With
  <2>5. PublishedKept /\ Drafts' = Drafts
    BY <2>1, <2>3, <2>4, RowFacts DEF PublishedKept, Published, Active, Drafts
  <2>6. \A k \in Drafts', a \in Active : rows'[k].version = rows[a].version + 1
    <3>1. \A k \in Drafts : k \in DOMAIN rows
      BY DEF Drafts
    <3> QED BY <2>3, <2>4, <2>5, <3>1, <1>1 DEF NewestInForce
  <2> QED BY <2>2, <2>5, <2>6, KeptIsNewest, EndsWell
<1> QED BY <1>2, <1>3 DEF Updates

LEMMA DiscardIsSequential ==
    ASSUME Sequential, SequentialInv, LifecycleInv', NEW o \in Operators, Discards(o)
    PROVE  SequentialInv' /\ (PublishedKept \/ rows' = rows)
<1>1. StillSo(task[o]) /\ NewestInForce
    BY DEF SequentialInv
<1>2. CASE DiscardFindsDraft(o)
  <2>1. PICK i \in Drafts : Begins(o, Task("discarding", i, 0, None)) /\ rows' = rows
    BY <1>2 DEF DiscardFindsDraft
  <2> DEFINE t == Task("discarding", i, 0, None)
  <2>2. StillSo(t)
    BY DEF StillSo, Task
  <2>3. task' = [task EXCEPT ![o] = t]
    BY <2>1 DEF Begins
  <2> HIDE DEF t
  <2> QED BY <2>1, <2>2, <2>3, MovesOn
<1>3. CASE DiscardDeletes(o)
  <2> DEFINE i == task[o].row
  <2>1. i \in Drafts /\ rows' = Without(i) /\ Ends(o)
    BY <1>1, <1>3 DEF DiscardDeletes, At, StillSo
  <2> HIDE DEF i
  <2>2. /\ DOMAIN rows' = DOMAIN rows \ {i}
        /\ \A k \in DOMAIN rows \ {i} : rows'[k] = rows[k]
    BY <2>1 DEF Without
  <2>3. PublishedKept /\ Drafts' = Drafts \ {i}
    BY <2>1, <2>2, RowFacts DEF PublishedKept, Published, Active, Drafts
  <2>4. \A k \in Drafts', a \in Active : rows'[k].version = rows[a].version + 1
    <3>1. \A k \in Drafts : k \in DOMAIN rows
      BY DEF Drafts
    <3> QED BY <2>2, <2>3, <3>1, <1>1 DEF NewestInForce
  <2> QED BY <2>1, <2>3, <2>4, KeptIsNewest, EndsWell
<1> QED BY <1>2, <1>3 DEF Discards

\* A publish puts the one draft in force, with the next number.
PublishedNext ==
    \E i \in Drafts, a \in Active :
        /\ rows' = Promoted(i) /\ rows[i].document \in Publishable
        /\ Published' = Published \cup {i} /\ Active' = {i} /\ Drafts' = {}
        /\ rows[i].version = rows[a].version + 1
        /\ \A k \in DOMAIN rows : /\ rows'[k].version = rows[k].version
                                  /\ rows'[k].document = rows[k].document

LEMMA PublishIsSequential ==
    ASSUME Sequential, SequentialInv, LifecycleInv', NEW o \in Operators, Publishes(o)
    PROVE  SequentialInv' /\ (PublishedNext \/ rows' = rows)
<1>1. StillSo(task[o]) /\ NewestInForce
    BY DEF SequentialInv
<1>2. ASSUME NEW i \in Drafts, NEW s \in {"publishing", "promoting"},
             rows[i].document \in Publishable, Begins(o, Task(s, i, 0, None)), rows' = rows
      PROVE  SequentialInv'
  <2> DEFINE t == Task(s, i, 0, None)
  <2>1. StillSo(t)
    BY <1>2 DEF StillSo, Task
  <2>2. task' = [task EXCEPT ![o] = t]
    BY <1>2 DEF Begins
  <2> HIDE DEF t
  <2> QED BY <2>1, <2>2, <1>2, MovesOn
<1>3. CASE PublishValidates(o)
    BY <1>2, <1>3 DEF PublishValidates
<1>4. CASE PublishFindsDraft(o)
  <2>1. task[o].row \in Drafts /\ rows[task[o].row].document \in Publishable
    BY <1>1, <1>4 DEF PublishFindsDraft, At, StillSo
  <2>2. PICK i \in Drafts : Begins(o, Task("promoting", i, 0, None)) /\ rows' = rows
    BY <2>1, <1>4 DEF PublishFindsDraft
  <2>3. i = task[o].row
    BY <2>1, RowFacts DEF OneOfEach
  <2> QED BY <2>1, <2>2, <2>3, <1>2
<1>5. CASE PublishWrites(o)
  <2> DEFINE i == task[o].row
  <2>1. i \in Drafts /\ i \in DOMAIN rows /\ rows[i].document \in Publishable
    BY <1>1, <1>5 DEF PublishWrites, At, StillSo, Drafts
  <2>2. rows' = Promoted(i) /\ Ends(o)
    BY <1>5, <2>1 DEF PublishWrites
  <2> HIDE DEF i
  <2>3. /\ DOMAIN rows' = DOMAIN rows
        /\ \A k \in DOMAIN rows : rows'[k] = IF k = i
             THEN [rows[k] EXCEPT !.status = "published", !.active = TRUE]
             ELSE [rows[k] EXCEPT !.active = FALSE]
    BY <2>2 DEF Promoted
  <2>4. \A k \in DOMAIN rows :
          /\ rows'[k].version = rows[k].version /\ rows'[k].document = rows[k].document
          /\ rows'[k].active = (k = i)
          /\ rows'[k].status = IF k = i THEN "published" ELSE rows[k].status
    <3> SUFFICES ASSUME NEW k \in DOMAIN rows
                 PROVE  /\ rows'[k].version = rows[k].version /\ rows'[k].document = rows[k].document
                        /\ rows'[k].active = (k = i)
                        /\ rows'[k].status = IF k = i THEN "published" ELSE rows[k].status
      OBVIOUS
    <3>1. rows[k] \in Rows
      BY RowFacts
    <3>2. CASE k = i
      BY <3>1, <3>2, <2>3 DEF Rows
    <3>3. CASE k # i
      BY <3>1, <3>3, <2>3 DEF Rows
    <3> QED BY <3>2, <3>3
  <2>5. \A k \in Drafts : k = i
    BY <2>1, RowFacts DEF OneOfEach
  <2>6. Active' = {i}
    BY <2>1, <2>3, <2>4 DEF Active
  <2>7. Published' = Published \cup {i}
    BY <2>1, <2>3, <2>4 DEF Published
  <2>8. Drafts' = {}
    <3>1. \A k \in DOMAIN rows : rows'[k].status # "draft"
      BY <2>4, <2>5 DEF Drafts
    <3> QED BY <3>1, <2>3 DEF Drafts
  <2>9. PICK a \in Active : TRUE
    BY <1>1 DEF NewestInForce
  <2>10. rows[i].version = rows[a].version + 1
    BY <2>1, <1>1 DEF NewestInForce
  <2>11. PublishedNext
    BY <2>1, <2>2, <2>4, <2>6, <2>7, <2>8, <2>10 DEF PublishedNext
  <2>12. \A k \in Published' : rows'[k].version <= rows'[i].version
    <3>1. \A k \in Published : k \in DOMAIN rows /\ rows[k].version <= rows[a].version
      BY <1>1 DEF NewestInForce, Published
    <3>2. \A k \in Published' : k \in DOMAIN rows /\ (k = i \/ k \in Published)
      BY <2>1, <2>7, <3>1
    <3>3. a \in DOMAIN rows /\ \A k \in DOMAIN rows : rows[k].version \in Nat
      BY RowFacts
    <3>4. ASSUME NEW k \in Published' PROVE rows[k].version <= rows[i].version
      <4>1. CASE k = i
        BY <4>1, <2>1, <3>3
      <4>2. CASE k \in Published
        BY <4>2, <3>1, <3>3, <2>10
      <4> QED BY <4>1, <4>2, <3>2
    <3> QED BY <3>2, <3>4, <2>1, <2>4
  <2>13. NewestInForce'
    BY <2>6, <2>8, <2>12 DEF NewestInForce
  <2> QED BY <2>2, <2>11, <2>13, EndsWell
<1> QED BY <1>3, <1>4, <1>5 DEF Publishes, PublishValidates, PublishFindsDraft

\* What the two variables of the history are.
LEMMA MaxOfOne ==
    ASSUME NEW n \in Nat
    PROVE  Max({n}) = n
BY DEF Max

HistoryOf == [v \in VersionsPublished |-> rows[RowOf(v)].document]
InForceNow == Max({rows[i].version : i \in Active})

LEMMA RowsAreNumbered ==
    ASSUME SequentialInv
    PROVE  \A i \in Published : i \in DOMAIN rows /\ RowOf(rows[i].version) = i
<1>1. \A i \in Published : i \in DOMAIN rows
    BY DEF Published
<1> QED BY <1>1, RowFacts DEF RowOf, OneOfEach

LEMMA OneInForce ==
    ASSUME SequentialInv, NEW a \in Active
    PROVE  InForceNow = rows[a].version /\ rows[a].version \in Nat
<1>1. Active = {a} /\ rows[a].version \in Nat
    BY RowFacts DEF OneOfEach
<1> QED BY <1>1, MaxOfOne DEF InForceNow

LEMMA BeginsAsHistory == Init => HistoryOf = [v \in {1} |-> Seed] /\ InForceNow = 1
<1> SUFFICES ASSUME Init PROVE HistoryOf = [v \in {1} |-> Seed] /\ InForceNow = 1
    OBVIOUS
<1>1. SequentialInv /\ rows = [i \in {FirstRow} |-> Row(1, "published", TRUE, Seed)]
    BY SequentialHolds DEF Init
<1>2. /\ Active = {FirstRow} /\ Published = {FirstRow}
      /\ rows[FirstRow].version = 1 /\ rows[FirstRow].document = Seed
    BY <1>1 DEF Row, Active, Published
<1>3. VersionsPublished = {1} /\ RowOf(1) = FirstRow
    BY <1>1, <1>2, RowsAreNumbered DEF VersionsPublished
<1> QED BY <1>1, <1>2, <1>3, OneInForce DEF HistoryOf

LEMMA WritesAsHistory ==
    ASSUME SequentialInv, SequentialInv', PublishedKept \/ rows' = rows
    PROVE  HistoryOf' = HistoryOf /\ InForceNow' = InForceNow
<1>1. PublishedKept
    BY DEF PublishedKept, Published, Active
<1>2. \A i \in Published : rows'[i] = rows[i] /\ Published' = Published /\ Active' = Active
    BY <1>1 DEF PublishedKept
<1>3. VersionsPublished' = VersionsPublished
    BY <1>1, <1>2 DEF VersionsPublished, PublishedKept
<1>4. \A i \in Published : rows[i].version = rows'[i].version
    BY <1>2
<1>5. \A v \in VersionsPublished : RowOf(v)' = RowOf(v) /\ RowOf(v) \in Published
    BY <1>1, <1>2, RowsAreNumbered DEF VersionsPublished, RowOf, PublishedKept
<1>6. HistoryOf' = HistoryOf
    BY <1>2, <1>3, <1>5 DEF HistoryOf
<1>7. InForceNow' = InForceNow
  <2>1. {rows'[i].version : i \in Active'} = {rows[i].version : i \in Active}
    BY <1>1, <1>2, RowFacts DEF PublishedKept
  <2> QED BY <2>1 DEF InForceNow
<1> QED BY <1>6, <1>7

LEMMA PublishAsHistory ==
    ASSUME SequentialInv, SequentialInv', PublishedNext
    PROVE  \E d \in Publishable :
             /\ InForceNow' \in Nat /\ InForceNow' > InForceNow
             /\ HistoryOf' = [v \in DOMAIN HistoryOf \cup {InForceNow'} |->
                                IF v = InForceNow' THEN d ELSE HistoryOf[v]]
<1>1. PICK i \in Drafts, a \in Active :
        /\ rows' = Promoted(i) /\ rows[i].document \in Publishable
        /\ Published' = Published \cup {i} /\ Active' = {i} /\ Drafts' = {}
        /\ rows[i].version = rows[a].version + 1
        /\ \A k \in DOMAIN rows : /\ rows'[k].version = rows[k].version
                                  /\ rows'[k].document = rows[k].document
    BY DEF PublishedNext
<1>2. i \in DOMAIN rows /\ a \in DOMAIN rows /\ DOMAIN rows' = DOMAIN rows
    BY <1>1, RowFacts DEF Drafts, Promoted
<1> DEFINE n == rows[i].version
           d == rows[i].document
<1>3. InForceNow' = n
  <2>0. rows'[i].version = n /\ Active' = {i}
    BY <1>1, <1>2
  <2>1. {rows'[k].version : k \in Active'} = {n} /\ n \in Nat
    <3>1. \A k \in DOMAIN rows : rows[k].version \in Nat
      BY RowFacts
    <3>2. n \in Nat
      BY <1>2, <3>1
    <3> HIDE DEF n
    <3> QED
      BY <2>0, <3>2
  <2> HIDE DEF n
  <2> QED BY <2>1, MaxOfOne DEF InForceNow
<1>4. InForceNow' \in Nat /\ InForceNow' > InForceNow
  <2>1. InForceNow' = rows[a].version + 1 /\ InForceNow = rows[a].version
    BY <1>1, <1>3, OneInForce
  <2>2. rows[a].version \in Nat
    BY <1>2, RowFacts
  <2> QED BY <2>1, <2>2
<1>5. VersionsPublished' = VersionsPublished \cup {n}
  <2>1. \A k \in Published : k \in DOMAIN rows
    BY RowsAreNumbered
  <2> QED BY <2>1, <1>1, <1>2 DEF VersionsPublished
<1>6. \A k \in Published' : /\ k \in DOMAIN rows
                            /\ \A j \in Published' : rows'[j].version = rows'[k].version => j = k
  <2>1. \A k \in Published' : k \in DOMAIN rows'
    BY DEF Published
  <2>2. OneOfEach'
    BY DEF SequentialInv, LifecycleInv
  <2> QED BY <2>1, <2>2, <1>2 DEF OneOfEach
<1>7. \A k \in Published' : RowOf(rows[k].version)' = k
    BY <1>1, <1>6 DEF RowOf
<1>8. \A k \in Published : rows[k].version # n
  <2>1. \A k \in Published : k \in DOMAIN rows /\ k # i
    BY <1>1, RowFacts, RowsAreNumbered
  <2> QED BY <2>1, <1>2, RowFacts DEF OneOfEach
<1>9. ASSUME NEW v \in VersionsPublished \cup {n}
      PROVE  HistoryOf'[v] = IF v = n THEN d ELSE HistoryOf[v]
  <2>1. CASE v = n
    <3>1. RowOf(v)' = i
      <4>1. i \in Published' /\ rows'[i].version = v
        BY <2>1, <1>1, <1>2
      <4> QED BY <4>1, <1>7
    <3> QED BY <3>1, <2>1, <1>1, <1>2, <1>5 DEF HistoryOf
  <2>2. CASE v # n
    <3>1. PICK k \in Published : v = rows[k].version
      BY <1>9, <2>2 DEF VersionsPublished
    <3>2. RowOf(v) = k /\ RowOf(v)' = k /\ k \in DOMAIN rows
      BY <3>1, <1>1, <1>7, RowsAreNumbered
    <3>3. HistoryOf'[v] = rows'[k].document /\ HistoryOf[v] = rows[k].document
      BY <3>1, <3>2, <1>5, <2>2, <1>9 DEF HistoryOf
    <3> QED BY <3>2, <3>3, <2>2, <1>1
  <2> QED BY <2>1, <2>2
<1>10. HistoryOf' = [v \in DOMAIN HistoryOf \cup {n} |-> IF v = n THEN d ELSE HistoryOf[v]]
  <2>1. DOMAIN HistoryOf = VersionsPublished /\ HistoryOf' = [v \in VersionsPublished' |-> HistoryOf'[v]]
    BY DEF HistoryOf
  <2> HIDE DEF n, d
  <2> QED BY <2>1, <1>5, <1>9
<1> QED BY <1>1, <1>3, <1>4, <1>10

LEMMA OneStep ==
    ASSUME Sequential, SequentialInv, [Next]_vars
    PROVE  SequentialInv' /\ (PublishedNext \/ PublishedKept \/ rows' = rows)
<1>1. LifecycleInv'
    BY TableIsKept DEF SequentialInv
<1>2. CASE UNCHANGED vars
    BY <1>1, <1>2 DEF vars, SequentialInv, NewestInForce, StillSo, Active, Published, Drafts
<1>3. ASSUME NEW o \in Operators,
             Creates(o) \/ FindsNoDraft(o) \/ Updates(o) \/ Discards(o) \/ Publishes(o)
      PROVE  SequentialInv' /\ (PublishedNext \/ PublishedKept \/ rows' = rows)
  <2>1. CASE FindsNoDraft(o)
    BY <1>2, <2>1 DEF FindsNoDraft
  <2> QED BY <1>1, <1>3, <2>1, CreateIsSequential, UpdateIsSequential, DiscardIsSequential,
             PublishIsSequential
<1> QED BY <1>2, <1>3 DEF Next

\* ImplementsHistory: under one operator at a time the table is the history that
\* ADR-0037 promises, which a publish extends by one version of a larger number and
\* nothing else changes (docs/adr/0037:34, 48, 176; repositories/policies.py:226-303).
THEOREM OneOperatorKeepsHistory ==
    ASSUME \A o, p \in Operators : o = p
    PROVE  Spec => ImplementsHistory
<1>1. Sequential
    BY DEF Sequential
<1>2. SequentialInv /\ [Next]_vars => SequentialInv'
    BY <1>1, OneStep
<1>3. Init => History!Init
    BY BeginsAsHistory DEF History!Init, HistoryOf, InForceNow
<1>4. SequentialInv /\ SequentialInv' /\ [Next]_vars => [History!Next]_History!vars
  <2> SUFFICES ASSUME SequentialInv, SequentialInv', [Next]_vars
               PROVE  [History!Next]_History!vars
    OBVIOUS
  <2>1. PublishedNext \/ PublishedKept \/ rows' = rows
    BY <1>1, OneStep
  <2>2. CASE PublishedNext
    <3>1. \E d \in Publishable :
             /\ InForceNow' \in Nat /\ InForceNow' > InForceNow
             /\ HistoryOf' = [v \in DOMAIN HistoryOf \cup {InForceNow'} |->
                                IF v = InForceNow' THEN d ELSE HistoryOf[v]]
      BY <2>2, PublishAsHistory
    <3> QED BY <3>1 DEF History!Next, History!Publish, HistoryOf, InForceNow
  <2>3. CASE PublishedKept \/ rows' = rows
    <3>1. HistoryOf' = HistoryOf /\ InForceNow' = InForceNow
      BY <2>3, WritesAsHistory
    <3> QED BY <3>1 DEF History!vars, HistoryOf, InForceNow
  <2> QED BY <2>1, <2>2, <2>3
<1> QED BY <1>2, <1>3, <1>4, SequentialHolds, PTL DEF Spec, ImplementsHistory, History!Spec

\* PublishedNeverChanges, which two overlapping operators break: under one operator at a
\* time a published row keeps everything but is_active (docs/adr/0037:34, 48).
THEOREM OneOperatorKeepsPublished ==
    ASSUME \A o, p \in Operators : o = p
    PROVE  Spec => PublishedNeverChanges
<1>1. Sequential
    BY DEF Sequential
<1>2. SequentialInv /\ [Next]_vars => SequentialInv'
    BY <1>1, OneStep
<1>3. ASSUME SequentialInv, [Next]_vars, NEW i \in Published \cap DOMAIN rows'
      PROVE  [rows'[i] EXCEPT !.active = rows[i].active] = rows[i]
  <2>1. i \in DOMAIN rows /\ rows[i] \in Rows
    BY <1>3, RowFacts DEF Published
  <2>2. CASE rows' = rows \/ PublishedKept
    <3>1. rows'[i] = rows[i]
      BY <1>3, <2>2 DEF PublishedKept
    <3> QED BY <3>1, <2>1 DEF Rows
  <2>3. CASE PublishedNext
    <3>1. PICK j \in Drafts : rows' = Promoted(j)
      BY <2>3 DEF PublishedNext
    <3>2. i # j
      BY <1>3, RowFacts
    <3>3. rows'[i] = [rows[i] EXCEPT !.active = FALSE]
      BY <2>1, <3>1, <3>2 DEF Promoted
    <3> QED BY <3>3, <2>1 DEF Rows
  <2> QED BY <1>1, <1>3, <2>2, <2>3, OneStep
<1>4. SequentialInv /\ [Next]_vars =>
        \A i \in Published \cap DOMAIN rows' :
            [rows'[i] EXCEPT !.active = rows[i].active] = rows[i]
    BY <1>3
<1> QED BY <1>2, <1>4, SequentialHolds, PTL DEF Spec, PublishedNeverChanges

-----------------------------------------------------------------------------
\* The inductive invariant of the cache.

Snapshots == [version : Nat, document : Documents] \cup {NoPolicy}
LookupSteps == {"idle", "asking", "asked", "answered"}
ClockOK == clock \in Nat
EntryOK == entry \in [snapshot : Snapshots, expires : Nat]
LookupsOK == lookup \in [Lookups -> [step : LookupSteps, now : Nat, snapshot : Snapshots]]
MemoryOK == lastInForce \in [DOMAIN lastInForce -> Nat]

ActiveIsNow == \A s \in ActiveSnapshots : s \in DOMAIN lastInForce /\ lastInForce[s] = clock
MemoryIsPast == \A s \in DOMAIN lastInForce : lastInForce[s] <= clock
EntryIsRecent ==
    entry.snapshot # NoPolicy =>
        /\ entry.snapshot \in DOMAIN lastInForce
        /\ entry.expires <= lastInForce[entry.snapshot] + CacheTtl
LookupKnows(l) ==
    /\ lookup[l].step = "asking" => lookup[l].now <= clock
    /\ lookup[l].step = "asked" /\ lookup[l].snapshot # NoPolicy =>
         lookup[l].snapshot \in DOMAIN lastInForce /\ lookup[l].now <= lastInForce[lookup[l].snapshot]
    /\ lookup[l].step = "answered" /\ lookup[l].snapshot # NoPolicy =>
         /\ lookup[l].snapshot \in DOMAIN lastInForce
         /\ lookup[l].now < lastInForce[lookup[l].snapshot] + CacheTtl
LookupsKnow == \A l \in Lookups : LookupKnows(l)
CacheInv ==
    /\ ClockOK /\ EntryOK /\ LookupsOK /\ MemoryOK
    /\ ActiveIsNow /\ MemoryIsPast /\ EntryIsRecent /\ LookupsKnow

LEMMA ActiveAreSnapshots ==
    ASSUME LifecycleInv
    PROVE  /\ ActiveSnapshots \subseteq Snapshots
           /\ Active # {} => ActiveSnapshot \in ActiveSnapshots
<1>1. /\ \A i \in DOMAIN rows : rows[i] \in Rows
      /\ \A i, j \in Active : i = j
    BY DEF LifecycleInv, TypeOK, OneOfEach
<1>2. \A i \in Active : Stored(i) \in [version : Nat, document : Documents]
    BY <1>1 DEF Active, Stored, Rows
<1>3. ASSUME Active # {} PROVE ActiveSnapshot \in ActiveSnapshots
  <2>1. PICK i \in Active : TRUE
    BY <1>3
  <2>2. ActiveSnapshots = {Stored(i)}
    BY <2>1, <1>1 DEF ActiveSnapshots
  <2>3. Stored(i).version \in Nat
    BY <2>1, <1>2
  <2>4. \A t \in {Stored(i)} : t.version <= Stored(i).version
    BY <2>3
  <2>5. \E s \in ActiveSnapshots : \A t \in ActiveSnapshots : t.version <= s.version
    BY <2>2, <2>4
  <2> QED BY <2>5, <1>3 DEF ActiveSnapshot
<1> QED BY <1>2, <1>3 DEF ActiveSnapshots, Snapshots

LEMMA CacheHolds == ResolutionInit => LifecycleInv /\ CacheInv
<1> SUFFICES ASSUME ResolutionInit PROVE LifecycleInv /\ CacheInv
    OBVIOUS
<1>1. LifecycleInv
    BY TableHolds DEF ResolutionInit
<1>2. /\ clock = 0 /\ entry = NoEntry /\ lastInForce = [s \in ActiveSnapshots |-> 0]
      /\ lookup = [l \in Lookups |-> NotAsking]
    BY DEF ResolutionInit
<1>3. ClockOK /\ MemoryOK /\ ActiveIsNow /\ MemoryIsPast
    BY <1>2 DEF ClockOK, MemoryOK, ActiveIsNow, MemoryIsPast
<1>4. EntryOK /\ EntryIsRecent
    BY <1>2 DEF EntryOK, EntryIsRecent, NoEntry, Snapshots
<1>5. LookupsOK /\ LookupsKnow
    BY <1>2 DEF LookupsOK, LookupsKnow, LookupKnows, NotAsking, Waiting, LookupSteps, Snapshots
<1> QED BY <1>1, <1>3, <1>4, <1>5 DEF CacheInv

\* A step of one lookup, which may fill the cache.
LEMMA LookupKeeps ==
    ASSUME CacheInv, NEW l \in Lookups,
           NEW new \in [step : LookupSteps, now : Nat, snapshot : Snapshots],
           Becomes(l, new), UNCHANGED <<rows, issued, task, clock, lastInForce>>,
           EntryOK', EntryIsRecent', LookupKnows(l)'
    PROVE  CacheInv'
<1>1. /\ rows' = rows /\ clock' = clock /\ lastInForce' = lastInForce
      /\ lookup' = [lookup EXCEPT ![l] = new]
    BY DEF Becomes
<1>2. ClockOK' /\ MemoryOK' /\ MemoryIsPast'
    BY <1>1 DEF CacheInv, ClockOK, MemoryOK, MemoryIsPast
<1>3. ActiveIsNow'
    BY <1>1 DEF CacheInv, ActiveIsNow, ActiveSnapshots, Active, Stored
<1>4. LookupsOK'
    BY <1>1 DEF CacheInv, LookupsOK
<1>5. ASSUME NEW k \in Lookups PROVE LookupKnows(k)'
  <2>1. CASE k = l
    BY <2>1
  <2>2. CASE k # l
    <3>1. lookup'[k] = lookup[k] /\ LookupKnows(k)
      BY <2>2, <1>1 DEF CacheInv, LookupsOK, LookupsKnow
    <3> QED BY <3>1, <1>1 DEF LookupKnows
  <2> QED BY <2>1, <2>2
<1> QED BY <1>2, <1>3, <1>4, <1>5 DEF CacheInv, LookupsKnow

LEMMA LooksUp ==
    ASSUME LifecycleInv, CacheInv, NEW l \in Lookups,
           Hit(l) \/ Miss(l) \/ Query(l) \/ QueryFails(l) \/ Fill(l) \/ Leaves(l)
    PROVE  CacheInv'
<1> DEFINE States == [step : LookupSteps, now : Nat, snapshot : Snapshots]
<1>1. /\ clock \in Nat /\ entry \in [snapshot : Snapshots, expires : Nat]
      /\ lookup \in [Lookups -> States] /\ lookup[l] \in States /\ LookupKnows(l)
      /\ EntryIsRecent /\ MemoryOK /\ EntryOK /\ CacheTtl \in Nat \ {0}
    BY TtlAssumption DEF CacheInv, ClockOK, EntryOK, LookupsOK, LookupsKnow
<1>2. NotAsking \in States
    BY DEF NotAsking, Waiting, LookupSteps, Snapshots
<1>3. CASE Hit(l)
  <2> DEFINE new == Waiting("answered", clock, entry.snapshot)
  <2>1. /\ new \in States /\ new.step = "answered" /\ new.now = clock /\ new.snapshot = entry.snapshot
    BY <1>1 DEF Waiting, LookupSteps
  <2>2. /\ Becomes(l, new) /\ UNCHANGED <<rows, issued, task, clock, lastInForce>> /\ entry' = entry
        /\ clock < entry.expires
    BY <1>3, <1>1 DEF Hit
  <2>3. EntryOK' /\ EntryIsRecent'
    BY <2>2, <1>1 DEF EntryOK, EntryIsRecent
  <2> HIDE DEF new
  <2>4. lookup'[l] = new
    BY <2>2, <1>1 DEF Becomes
  <2>5. LookupKnows(l)'
    <3> SUFFICES ASSUME entry.snapshot # NoPolicy
                 PROVE  /\ entry.snapshot \in DOMAIN lastInForce
                        /\ clock < lastInForce[entry.snapshot] + CacheTtl
      BY <2>1, <2>2, <2>4 DEF LookupKnows
    <3>1. /\ entry.snapshot \in DOMAIN lastInForce /\ lastInForce[entry.snapshot] \in Nat
          /\ entry.expires <= lastInForce[entry.snapshot] + CacheTtl /\ entry.expires \in Nat
      BY <1>1 DEF EntryIsRecent, MemoryOK
    <3> QED BY <3>1, <2>2, <1>1
  <2> QED BY <2>1, <2>2, <2>3, <2>5, LookupKeeps
<1>4. CASE Miss(l)
  <2> DEFINE new == Waiting("asking", clock, NoPolicy)
  <2>1. new \in States /\ new.step = "asking" /\ new.now = clock
    BY <1>1 DEF Waiting, LookupSteps, Snapshots
  <2>2. /\ Becomes(l, new) /\ UNCHANGED <<rows, issued, task, clock, lastInForce>> /\ entry' = entry
    BY <1>4 DEF Miss
  <2>3. EntryOK' /\ EntryIsRecent'
    BY <2>2, <1>1 DEF EntryOK, EntryIsRecent
  <2> HIDE DEF new
  <2>4. LookupKnows(l)'
    BY <2>1, <2>2, <1>1 DEF Becomes, LookupKnows
  <2> QED BY <2>1, <2>2, <2>3, <2>4, LookupKeeps
<1>5. CASE Query(l)
  <2> DEFINE new == Waiting("asked", lookup[l].now, ActiveSnapshot)
  <2>1. ActiveSnapshot \in Snapshots
    <3>1. CASE Active = {}
      BY <3>1 DEF ActiveSnapshot, Snapshots
    <3>2. CASE Active # {}
      BY <3>2, ActiveAreSnapshots
    <3> QED BY <3>1, <3>2
  <2>2. ActiveSnapshot # NoPolicy =>
           /\ ActiveSnapshot \in DOMAIN lastInForce
           /\ lastInForce[ActiveSnapshot] = clock
    <3>1. CASE Active = {}
      BY <3>1 DEF ActiveSnapshot
    <3>2. CASE Active # {}
      BY <3>2, ActiveAreSnapshots DEF CacheInv, ActiveIsNow
    <3> QED BY <3>1, <3>2
  <2>3. lookup[l].now <= clock
    BY <1>1, <1>5 DEF Query, LookupKnows
  <2>4. /\ new \in States /\ new.step = "asked" /\ new.now = lookup[l].now
        /\ new.snapshot = ActiveSnapshot
    BY <2>1, <1>1 DEF Waiting, LookupSteps
  <2>5. /\ Becomes(l, new) /\ UNCHANGED <<rows, issued, task, clock, lastInForce>> /\ entry' = entry
    BY <1>5 DEF Query
  <2>6. EntryOK' /\ EntryIsRecent'
    BY <2>5, <1>1 DEF EntryOK, EntryIsRecent
  <2> HIDE DEF new
  <2>7. lookup'[l] = new
    BY <2>5, <1>1 DEF Becomes
  <2>8. LookupKnows(l)'
    BY <2>2, <2>3, <2>4, <2>5, <2>7 DEF LookupKnows
  <2> QED BY <2>4, <2>5, <2>6, <2>8, LookupKeeps
<1>6. CASE QueryFails(l) \/ Leaves(l)
  <2>1. /\ Becomes(l, NotAsking) /\ UNCHANGED <<rows, issued, task, clock, lastInForce>> /\ entry' = entry
    BY <1>6 DEF QueryFails, Leaves
  <2>2. EntryOK' /\ EntryIsRecent'
    BY <2>1, <1>1 DEF EntryOK, EntryIsRecent
  <2>3. LookupKnows(l)'
    BY <2>1, <1>1 DEF Becomes, LookupKnows, NotAsking, Waiting
  <2> QED BY <1>2, <2>1, <2>2, <2>3, LookupKeeps
<1>7. CASE Fill(l)
  <2> DEFINE new == [lookup[l] EXCEPT !.step = "answered"]
  <2>1. /\ new \in States /\ new.step = "answered" /\ new.now = lookup[l].now
        /\ new.snapshot = lookup[l].snapshot
    BY <1>1 DEF LookupSteps
  <2>2. /\ Becomes(l, new) /\ UNCHANGED <<rows, issued, task, clock, lastInForce>>
        /\ lookup[l].step = "asked"
        /\ entry' = IF lookup[l].snapshot = NoPolicy THEN NoEntry
                    ELSE [snapshot |-> lookup[l].snapshot, expires |-> lookup[l].now + CacheTtl]
    BY <1>7 DEF Fill, Expires
  <2> HIDE DEF new
  <2>3. lookup[l].snapshot # NoPolicy =>
           /\ lookup[l].snapshot \in DOMAIN lastInForce
           /\ lastInForce[lookup[l].snapshot] \in Nat
           /\ lookup[l].now <= lastInForce[lookup[l].snapshot]
    BY <2>2, <1>1 DEF LookupKnows, MemoryOK
  <2>4. EntryOK'
    BY <2>2, <1>1 DEF EntryOK, NoEntry, Snapshots
  <2>5. EntryIsRecent'
    <3>1. CASE lookup[l].snapshot = NoPolicy
      BY <3>1, <2>2 DEF EntryIsRecent, NoEntry
    <3>2. CASE lookup[l].snapshot # NoPolicy
      BY <3>2, <2>2, <2>3, <1>1 DEF EntryIsRecent
    <3> QED BY <3>1, <3>2
  <2>6. lookup'[l] = new
    BY <2>2, <1>1 DEF Becomes
  <2>7. LookupKnows(l)'
    BY <2>1, <2>2, <2>3, <2>6, <1>1 DEF LookupKnows
  <2> QED BY <2>1, <2>2, <2>4, <2>5, <2>7, LookupKeeps
<1> QED BY <1>3, <1>4, <1>5, <1>6, <1>7

\* Time passes or the table changes: what is in force is remembered as in force now.
LEMMA MemoryGrows ==
    ASSUME CacheInv, UNCHANGED <<entry, lookup>>, clock' \in Nat, clock <= clock',
           lastInForce' = Remembered(ActiveSnapshots', clock')
    PROVE  CacheInv'
<1>1. /\ clock \in Nat /\ lastInForce \in [DOMAIN lastInForce -> Nat] /\ MemoryIsPast
      /\ CacheTtl \in Nat /\ entry' = entry /\ lookup' = lookup
      /\ EntryOK /\ LookupsOK
    BY TtlAssumption DEF CacheInv, ClockOK, MemoryOK
<1>2. /\ DOMAIN lastInForce' = DOMAIN lastInForce \cup ActiveSnapshots'
      /\ \A s \in DOMAIN lastInForce' :
           lastInForce'[s] = IF s \in ActiveSnapshots' THEN clock' ELSE lastInForce[s]
      /\ lastInForce' = [s \in DOMAIN lastInForce' |-> lastInForce'[s]]
    BY DEF Remembered
<1>3. \A s \in DOMAIN lastInForce :
         /\ s \in DOMAIN lastInForce' /\ lastInForce'[s] \in Nat
         /\ lastInForce[s] \in Nat /\ lastInForce[s] <= lastInForce'[s]
    BY <1>1, <1>2 DEF MemoryIsPast
<1>4. ClockOK' /\ EntryOK' /\ LookupsOK'
    BY <1>1 DEF ClockOK, EntryOK, LookupsOK
<1>5. \A s \in DOMAIN lastInForce' : lastInForce'[s] \in Nat /\ lastInForce'[s] <= clock'
  <2> SUFFICES ASSUME NEW s \in DOMAIN lastInForce'
               PROVE  lastInForce'[s] \in Nat /\ lastInForce'[s] <= clock'
    OBVIOUS
  <2>1. CASE s \in ActiveSnapshots'
    BY <2>1, <1>2
  <2>2. CASE s \notin ActiveSnapshots'
    <3>1. /\ s \in DOMAIN lastInForce /\ lastInForce'[s] = lastInForce[s]
      BY <2>2, <1>2
    <3> QED BY <3>1, <1>1 DEF MemoryIsPast
  <2> QED BY <2>1, <2>2
<1>6. MemoryOK' /\ MemoryIsPast'
    BY <1>2, <1>5 DEF MemoryOK, MemoryIsPast
<1>7. ActiveIsNow'
    BY <1>2 DEF ActiveIsNow
<1>8. EntryIsRecent'
  <2> SUFFICES ASSUME entry.snapshot # NoPolicy
               PROVE  /\ entry.snapshot \in DOMAIN lastInForce'
                      /\ entry.expires <= lastInForce'[entry.snapshot] + CacheTtl
    BY <1>1 DEF EntryIsRecent
  <2>1. /\ entry.snapshot \in DOMAIN lastInForce /\ entry.expires \in Nat
        /\ entry.expires <= lastInForce[entry.snapshot] + CacheTtl
    BY <1>1 DEF CacheInv, EntryIsRecent, EntryOK
  <2> QED BY <2>1, <1>1, <1>3
<1>9. ASSUME NEW l \in Lookups PROVE LookupKnows(l)'
  <2>1. LookupKnows(l) /\ lookup[l].now \in Nat
    BY <1>1 DEF CacheInv, LookupsKnow, LookupsOK
  <2>2. lookup[l].step = "asking" => lookup[l].now <= clock'
    BY <2>1, <1>1 DEF LookupKnows
  <2>3. lookup[l].step = "asked" /\ lookup[l].snapshot # NoPolicy =>
           /\ lookup[l].snapshot \in DOMAIN lastInForce'
           /\ lookup[l].now <= lastInForce'[lookup[l].snapshot]
    BY <2>1, <1>3 DEF LookupKnows
  <2>4. lookup[l].step = "answered" /\ lookup[l].snapshot # NoPolicy =>
           /\ lookup[l].snapshot \in DOMAIN lastInForce'
           /\ lookup[l].now < lastInForce'[lookup[l].snapshot] + CacheTtl
    BY <2>1, <1>1, <1>3 DEF LookupKnows
  <2> QED BY <2>2, <2>3, <2>4, <1>1 DEF LookupKnows
<1> QED BY <1>4, <1>6, <1>7, <1>8, <1>9 DEF CacheInv, LookupsKnow

LEMMA CacheIsKept ==
    LifecycleInv /\ CacheInv /\ [ResolutionNext]_allVars => LifecycleInv' /\ CacheInv'
<1> SUFFICES ASSUME LifecycleInv, CacheInv, [ResolutionNext]_allVars
             PROVE  LifecycleInv' /\ CacheInv'
    OBVIOUS
<1>1. ASSUME NEW l \in Lookups,
             Hit(l) \/ Miss(l) \/ Query(l) \/ QueryFails(l) \/ Fill(l) \/ Leaves(l)
      PROVE  LifecycleInv' /\ CacheInv'
  <2>1. UNCHANGED vars
    BY <1>1 DEF vars, Hit, Miss, Query, QueryFails, Fill, Leaves
  <2> QED BY <1>1, <2>1, TableIsKept, LooksUp
<1>2. CASE Tick
  <2>1. UNCHANGED vars /\ UNCHANGED <<entry, lookup>>
    BY <1>2 DEF vars, Tick
  <2>2. clock \in Nat /\ clock' = clock + 1
    BY <1>2 DEF Tick, CacheInv, ClockOK
  <2>3. ActiveSnapshots' = ActiveSnapshots
    BY <2>1 DEF vars, ActiveSnapshots, Active, Stored
  <2>4. lastInForce' = Remembered(ActiveSnapshots', clock')
    BY <1>2, <2>3 DEF Tick
  <2>5. clock' \in Nat /\ clock <= clock'
    BY <2>2
  <2> QED BY <2>1, <2>4, <2>5, TableIsKept, MemoryGrows
<1>3. CASE Edits
  <2>1. clock \in Nat /\ clock' = clock /\ UNCHANGED <<entry, lookup>> /\ Next
    BY <1>3 DEF Edits, CacheInv, ClockOK
  <2>2. lastInForce' = Remembered(ActiveSnapshots', clock')
    BY <1>3, <2>1 DEF Edits
  <2>3. clock' \in Nat /\ clock <= clock'
    BY <2>1
  <2> QED BY <2>1, <2>2, <2>3, TableIsKept, MemoryGrows
<1>4. CASE UNCHANGED allVars
  <2>1. UNCHANGED vars
    BY <1>4 DEF allVars, vars
  <2>2. CacheInv'
    <3> USE <1>4 DEF allVars
    <3>1. ClockOK' /\ EntryOK' /\ LookupsOK' /\ MemoryOK' /\ MemoryIsPast' /\ EntryIsRecent'
      BY DEF CacheInv, ClockOK, EntryOK, LookupsOK, MemoryOK, MemoryIsPast, EntryIsRecent
    <3>2. ActiveIsNow'
      BY DEF CacheInv, ActiveIsNow, ActiveSnapshots, Active, Stored
    <3>3. LookupsKnow'
      BY DEF CacheInv, LookupsKnow, LookupKnows
    <3> QED BY <3>1, <3>2, <3>3 DEF CacheInv
  <2> QED BY <2>1, <2>2, TableIsKept
<1> QED BY <1>1, <1>2, <1>3, <1>4 DEF ResolutionNext

\* What a lookup answers with was in force less than a TTL before the lookup began,
\* whoever publishes while its query is awaited and whichever fill of the cache comes
\* last (policy/service.py:31-38, 166-195).
THEOREM StalenessIsBounded == ResolutionSpec => []StalenessBounded
<1>1. LifecycleInv /\ CacheInv => StalenessBounded
    BY DEF CacheInv, LookupsKnow, LookupKnows, StalenessBounded
<1> QED BY <1>1, CacheHolds, CacheIsKept, PTL DEF ResolutionSpec

-----------------------------------------------------------------------------
\* The inductive invariant of the page.  What it shows is a view, with one rule of a
\* type; and from the click on Confirm to the end of its list, what is saved, what is
\* published and what was promoted are one document, unless another client has written
\* between the save and the publish.
IsView(v) ==
    v = [rules |-> v.rules, ttl |-> v.ttl, budget |-> v.budget, unknown |-> v.unknown,
         providers |-> v.providers]
OneOfAType(rules) == \A r, q \in rules : r.type = q.type => r = q

ServerInv ==
    /\ history \in Seq({history[k] : k \in DOMAIN history}) /\ history # <<>>
    /\ \A k \in DOMAIN history : Wellformed(history[k])
    /\ draft # Nothing => Wellformed(draft)
ShownInv ==
    /\ DOMAIN page = {"seen", "draft", "rules", "dialog", "blocked"}
    /\ page.draft # Nothing => IsView(page.draft) /\ OneOfAType(page.rules)
    /\ first.stage = "answered" /\ first.answer.draft # Nothing =>
         IsView(first.answer.draft) /\ OneOfAType(first.answer.draft.rules)

IsConfirmed == IsView(confirmed.draft) /\ OneOfAType(confirmed.rules)
ConfirmedDocument == DocumentFrom(confirmed.draft, confirmed.rules)
ToSave ==
    /\ todo = <<Call("save", ConfirmedDocument, 0), Plain("publish"), Plain("load")>>
    /\ IsConfirmed /\ ~disturbed
ToPublish ==
    /\ todo = <<Plain("publish"), Plain("load")>>
    /\ IsConfirmed /\ (~disturbed => draft = ConfirmedDocument)
NotToPublish ==
    \/ todo = <<>>
    \/ /\ Due.op # "publish"
       /\ todo = <<Due>> \/ (todo = <<Due, todo[2]>> /\ todo[2].op # "publish")
PlanInv ==
    /\ disturbed \in BOOLEAN
    /\ ToSave \/ ToPublish \/ NotToPublish
    /\ promoted # Nothing => IsConfirmed /\ promoted = ConfirmedDocument
ComparedInv ==
    compared # Nothing =>
        \E a \in {compared.before}, b \in {compared.after} :
            /\ Wellformed(a) /\ Wellformed(b)
            /\ compared = [before |-> a, after |-> b, changes |-> Diff(a, b)]
EditorInv == ServerInv /\ ShownInv /\ PlanInv /\ ComparedInv

LEMMA EditorHolds == EditorInit => EditorInv
<1> SUFFICES ASSUME EditorInit PROVE EditorInv
    OBVIOUS
<1>1. ServerInv
    BY EditorAssumption DEF EditorInit, ServerInv
<1>2. ShownInv
    BY DEF EditorInit, ShownInv
<1>3. PlanInv
    BY DEF EditorInit, PlanInv, NotToPublish
<1>4. ComparedInv
    BY DEF EditorInit, ComparedInv
<1> QED BY <1>1, <1>2, <1>3, <1>4 DEF EditorInv

\* A view is one, with one rule of a type; the server's and the page's parts by themselves.
LEMMA ViewIsView ==
    ASSUME NEW d
    PROVE  IsView(View(d)) /\ OneOfAType(View(d).rules)
BY DEF IsView, View, RulesOf, OneOfAType

LEMMA ListedIsView ==
    Listed.draft # Nothing => IsView(Listed.draft) /\ OneOfAType(Listed.draft.rules)
<1>1. Listed.draft = IF draft = Nothing THEN Nothing ELSE View(draft)
    BY DEF Listed
<1> QED BY <1>1, ViewIsView

LEMMA LoadedIsShown ==
    ASSUME ShownInv, NEW answer,
           answer.draft # Nothing => IsView(answer.draft) /\ OneOfAType(answer.draft.rules),
           first' = first \/ first'.stage # "answered", page' = Loaded(page, answer)
    PROVE  ShownInv'
<1>1. /\ DOMAIN page' = DOMAIN page /\ page'.draft = answer.draft
      /\ answer.draft # Nothing => page'.rules = answer.draft.rules
    BY DEF ShownInv, Loaded
<1> QED BY <1>1 DEF ShownInv

LEMMA NotLoadedIsShown ==
    ASSUME ShownInv, first' = first \/ first'.stage # "answered", page' = LoadFailed(page)
    PROVE  ShownInv'
<1>1. DOMAIN page' = DOMAIN page /\ page'.draft = Nothing
    BY DEF ShownInv, LoadFailed
<1> QED BY <1>1 DEF ShownInv

LEMMA ServerKeeps ==
    ASSUME ServerInv
    PROVE  /\ CreateDraft => ServerInv'
           /\ \A d : SaveDraft(d) => ServerInv'
           /\ DiscardDraft => ServerInv'
           /\ PublishDraft => ServerInv'
           /\ UNCHANGED server => ServerInv'
<1>1. Len(history) \in DOMAIN history
    BY DEF ServerInv
<1>2. CASE CreateDraft
    BY <1>1, <1>2 DEF CreateDraft, ServerInv, InForce
<1>3. ASSUME NEW d, SaveDraft(d) PROVE ServerInv'
    BY <1>3 DEF SaveDraft, ServerInv
<1>4. CASE DiscardDraft
    BY <1>4 DEF DiscardDraft, ServerInv
<1>5. CASE PublishDraft
  <2> DEFINE S == {history[k] : k \in DOMAIN history} \cup {draft}
  <2>1. history \in Seq(S) /\ draft \in S /\ history' = Append(history, draft)
    BY <1>5 DEF PublishDraft, ServerInv
  <2> HIDE DEF S
  <2>2. /\ history' \in Seq(S) /\ DOMAIN history' = 1..Len(history) + 1
        /\ \A k \in 1..Len(history) : history'[k] = history[k]
        /\ history'[Len(history) + 1] = draft
    BY <2>1
  <2>3. Len(history) \in Nat /\ DOMAIN history = 1..Len(history)
    BY <2>1
  <2>4. \A k \in DOMAIN history' : Wellformed(history'[k])
    BY <1>5, <2>2, <2>3 DEF PublishDraft, ServerInv
  <2>5. history' \in Seq({history'[k] : k \in DOMAIN history'}) /\ history' # <<>>
    BY <2>2, <2>3
  <2> QED BY <1>5, <2>4, <2>5 DEF PublishDraft, ServerInv
<1>6. CASE UNCHANGED server
    BY <1>6 DEF server, ServerInv
<1> QED BY <1>2, <1>3, <1>4, <1>5, <1>6

\* The lists: what is at the head of the two that publish, and what is left of any.
LEMMA ListFacts ==
    /\ ToSave => /\ Calls("save") /\ Due.document = ConfirmedDocument
                 /\ \A op \in {"create", "validate", "discard", "publish", "diff", "load"} : ~Calls(op)
                 /\ Tail(todo) = <<Plain("publish"), Plain("load")>>
    /\ ToPublish => /\ Calls("publish")
                    /\ \A op \in {"create", "save", "validate", "discard", "diff", "load"} : ~Calls(op)
                    /\ Tail(todo) = <<Plain("load")>>
    /\ NotToPublish => ~Calls("publish")
<1>1. ASSUME ToSave
      PROVE  /\ Calls("save") /\ Due.document = ConfirmedDocument
             /\ \A op \in {"create", "validate", "discard", "publish", "diff", "load"} : ~Calls(op)
             /\ Tail(todo) = <<Plain("publish"), Plain("load")>>
  <2> DEFINE c == Call("save", ConfirmedDocument, 0)
             x == Plain("publish")
             y == Plain("load")
  <2>1. todo = <<c, x, y>> /\ c.op = "save" /\ c.document = ConfirmedDocument
    BY <1>1 DEF ToSave, Call
  <2> HIDE DEF c, x, y
  <2>2. Head(todo) = c /\ Tail(todo) = <<x, y>> /\ todo # <<>>
    BY <2>1
  <2>3. Due = c
    BY <2>2 DEF Due
  <2> QED BY <2>1, <2>2, <2>3 DEF Calls, x, y
<1>2. ASSUME ToPublish
      PROVE  /\ Calls("publish")
             /\ \A op \in {"create", "save", "validate", "discard", "diff", "load"} : ~Calls(op)
             /\ Tail(todo) = <<Plain("load")>>
  <2> DEFINE x == Plain("publish")
             y == Plain("load")
  <2>1. todo = <<x, y>> /\ x.op = "publish"
    BY <1>2 DEF ToPublish, Plain, Call
  <2> HIDE DEF x, y
  <2>2. Head(todo) = x /\ Tail(todo) = <<y>> /\ todo # <<>>
    BY <2>1
  <2>3. Due = x
    BY <2>2 DEF Due
  <2> QED BY <2>1, <2>2, <2>3 DEF Calls, y
<1>3. NotToPublish => ~Calls("publish")
    BY DEF NotToPublish, Calls
<1> QED BY <1>1, <1>2, <1>3

\* The next call of a list that does not publish: what is left does not publish either.
LEMMA RestOfList ==
    ASSUME NotToPublish, todo # <<>>, todo' = Tail(todo) \/ todo' = <<>>
    PROVE  NotToPublish'
<1>1. CASE todo' = <<>>
    BY <1>1 DEF NotToPublish
<1>2. CASE todo' = Tail(todo) /\ todo = <<Due>>
  <2> DEFINE c == Due
  <2>1. todo = <<c>>
    BY <1>2
  <2> HIDE DEF c
  <2>2. Tail(todo) = <<>>
    BY <2>1
  <2> QED BY <1>1, <1>2, <2>2
<1>3. CASE todo' = Tail(todo) /\ todo = <<Due, todo[2]>> /\ todo[2].op # "publish"
  <2> DEFINE c == Due
             e == todo[2]
  <2>1. todo = <<c, e>> /\ e.op # "publish"
    BY <1>3
  <2> HIDE DEF c, e
  <2>2. Tail(todo) = <<e>>
    BY <2>1
  <2>3. Head(<<e>>) = e
    OBVIOUS
  <2>4. todo' = <<e>> /\ Head(todo') = e
    BY <1>3, <2>2, <2>3
  <2> QED BY <2>1, <2>4 DEF NotToPublish, Due
<1> QED BY <1>1, <1>2, <1>3 DEF NotToPublish

LEMMA OneLoad ==
    ASSUME todo' = <<Plain("load")>>
    PROVE  NotToPublish'
<1> DEFINE y == Plain("load")
<1>1. todo' = <<y>> /\ y.op # "publish"
    BY DEF Plain, Call
<1> HIDE DEF y
<1>2. Head(todo') = y
    BY <1>1
<1> QED BY <1>1, <1>2 DEF NotToPublish, Due

\* Steps of others: the plan goes on unless the server is written between the two calls.
LEMMA OtherClientKeeps ==
    ASSUME EditorInv, OtherClient
    PROVE  EditorInv'
<1>1. ServerInv'
    BY ServerKeeps DEF OtherClient, EditorInv
<1>2. ShownInv'
    BY DEF OtherClient, EditorInv, ShownInv
<1>3. ComparedInv'
    BY DEF OtherClient, EditorInv, ComparedInv
<1>4. disturbed' = (disturbed \/ Calls("publish")) /\ todo' = todo /\ confirmed' = confirmed
      /\ promoted' = promoted
    BY DEF OtherClient
<1>5. IsConfirmed' = IsConfirmed /\ ConfirmedDocument' = ConfirmedDocument
    BY <1>4 DEF IsConfirmed, ConfirmedDocument
<1>6. ToSave \/ ToPublish \/ NotToPublish
    BY DEF EditorInv, PlanInv
<1>7. CASE ToSave
  <2>1. ToSave'
    BY <1>4, <1>5, <1>7, ListFacts DEF ToSave
  <2> QED BY <2>1, <1>1, <1>2, <1>3, <1>4, <1>5 DEF EditorInv, PlanInv
<1>8. CASE ToPublish
  <2>1. ToPublish' /\ disturbed' = TRUE
    BY <1>4, <1>5, <1>8, ListFacts DEF ToPublish
  <2> QED BY <2>1, <1>1, <1>2, <1>3, <1>4, <1>5 DEF EditorInv, PlanInv
<1>9. CASE NotToPublish
  <2>1. NotToPublish' /\ disturbed' = disturbed
    BY <1>4, <1>9, ListFacts DEF NotToPublish, Due, EditorInv, PlanInv
  <2> QED BY <2>1, <1>1, <1>2, <1>3, <1>4, <1>5 DEF EditorInv, PlanInv
<1> QED BY <1>6, <1>7, <1>8, <1>9

\* The plan and the comparison are left alone.
LEMMA PlanUntouched ==
    ASSUME PlanInv, UNCHANGED <<draft, todo, confirmed, promoted, disturbed>>
    PROVE  PlanInv'
BY DEF PlanInv, ToSave, ToPublish, NotToPublish, Due, IsConfirmed, ConfirmedDocument

LEMMA ShownKeeps ==
    ASSUME EditorInv, FirstLoadAnswered \/ FirstLoadShown
    PROVE  EditorInv'
<1>1. UNCHANGED <<server, todo, confirmed, promoted, disturbed, compared>>
    BY DEF FirstLoadAnswered, FirstLoadShown
<1>2. ServerInv' /\ PlanInv' /\ ComparedInv'
    BY <1>1, ServerKeeps, PlanUntouched DEF EditorInv, server, ComparedInv
<1>3. CASE FirstLoadAnswered
  <2>1. first'.answer = Listed /\ page' = page
    BY <1>3 DEF FirstLoadAnswered
  <2>2. ShownInv'
    BY <2>1, ListedIsView DEF EditorInv, ShownInv
  <2> QED BY <1>2, <2>2 DEF EditorInv
<1>4. CASE FirstLoadShown
  <2>1. first'.stage # "answered"
    BY <1>4 DEF FirstLoadShown
  <2>2. ShownInv'
    BY <1>4, <2>1, LoadedIsShown, NotLoadedIsShown DEF FirstLoadShown, EditorInv, ShownInv
  <2> QED BY <1>2, <2>2 DEF EditorInv
<1> QED BY <1>3, <1>4

LEMMA EntryKeeps ==
    ASSUME EditorInv, NEW rules, page.draft # Nothing => OneOfAType(rules), Entered(rules)
    PROVE  EditorInv'
<1>1. UNCHANGED <<server, first, todo, confirmed, promoted, disturbed, compared>>
    BY DEF Entered
<1>2. ServerInv' /\ PlanInv' /\ ComparedInv'
    BY <1>1, ServerKeeps, PlanUntouched DEF EditorInv, server, ComparedInv
<1>3. DOMAIN page' = DOMAIN page /\ page'.draft = page.draft /\ page'.rules = rules
    BY DEF Entered, EditorInv, ShownInv
<1>4. ShownInv'
    BY <1>1, <1>3 DEF EditorInv, ShownInv
<1> QED BY <1>2, <1>4 DEF EditorInv

LEMMA EditKeeps ==
    ASSUME EditorInv, Update \/ Remove \/ Add
    PROVE  EditorInv'
<1>1. OneOfAType(page.rules)
    BY DEF EditorInv, ShownInv, Update, Remove, Add, Editable
<1>2. CASE Update
  <2>1. PICK r \in page.rules, new \in UNION {Patches(q.rule) : q \in page.rules} :
          Entered((page.rules \ {r}) \cup {[type |-> r.type, rule |-> new]})
    BY <1>2 DEF Update
  <2>2. OneOfAType((page.rules \ {r}) \cup {[type |-> r.type, rule |-> new]})
    BY <1>1 DEF OneOfAType
  <2> QED BY <2>1, <2>2, EntryKeeps
<1>3. CASE Remove
  <2>1. PICK r \in page.rules : Entered(page.rules \ {r})
    BY <1>3 DEF Remove
  <2>2. OneOfAType(page.rules \ {r})
    BY <1>1 DEF OneOfAType
  <2> QED BY <2>1, <2>2, EntryKeeps
<1>4. CASE Add
  <2>1. PICK t \in Supported \ TypesOf(page.rules) :
          Entered(page.rules \cup {[type |-> t, rule |-> CatalogRule(t)]})
    BY <1>4 DEF Add
  <2>2. OneOfAType(page.rules \cup {[type |-> t, rule |-> CatalogRule(t)]})
    BY <1>1, <2>1 DEF OneOfAType, TypesOf
  <2> QED BY <2>1, <2>2, EntryKeeps
<1> QED BY <1>2, <1>3, <1>4

\* A click replaces the plan; only Confirm's publishes.
LEMMA ClickKeeps ==
    ASSUME EditorInv, ClickCreate \/ ClickDiscard \/ ClickSave \/ ClickCompare \/ ConfirmPublish
    PROVE  EditorInv'
<1>1. PICK calls : Runs(calls)
    BY DEF ClickCreate, ClickDiscard, ClickSave, ClickCompare, ConfirmPublish
<1>2. ServerInv' /\ ShownInv' /\ ComparedInv' /\ disturbed' \in BOOLEAN /\ ~disturbed'
      /\ promoted' = Nothing
    BY <1>1, ServerKeeps DEF Runs, EditorInv, ShownInv, ComparedInv
<1>3. CASE ConfirmPublish
  <2>1. /\ todo' = <<Call("save", OnScreen, 0), Plain("publish"), Plain("load")>>
        /\ confirmed' = [draft |-> page.draft, rules |-> page.rules]
        /\ page.draft # Nothing
    BY <1>3 DEF ConfirmPublish, Runs, Confirmed
  <2>2. ConfirmedDocument' = OnScreen
    BY <2>1 DEF ConfirmedDocument, OnScreen
  <2>3. IsConfirmed'
    BY <2>1 DEF IsConfirmed, EditorInv, ShownInv
  <2>4. ToSave'
    BY <1>2, <2>1, <2>2, <2>3 DEF ToSave
  <2> QED BY <1>2, <2>4 DEF EditorInv, PlanInv
<1>4. ASSUME NEW c, NEW e, c.op # "publish", e.op # "publish", todo' = <<c>> \/ todo' = <<c, e>>
      PROVE  EditorInv'
  <2>1. Head(<<c>>) = c /\ Head(<<c, e>>) = c /\ <<c, e>>[2] = e
    OBVIOUS
  <2>2. NotToPublish'
    BY <1>4, <2>1 DEF NotToPublish, Due
  <2> QED BY <1>2, <2>2 DEF EditorInv, PlanInv
<1>5. CASE ClickCreate
    BY <1>4, <1>5 DEF ClickCreate, Runs, Plain, Call
<1>6. CASE ClickDiscard
    BY <1>4, <1>6 DEF ClickDiscard, Runs, Plain, Call
<1>7. CASE ClickSave
  <2> DEFINE c == Call("save", OnScreen, 0)
             e == Plain("validate")
  <2>1. c.op = "save" /\ e.op = "validate"
    BY DEF Plain, Call
  <2>2. todo' = <<c, e>>
    BY <1>7 DEF ClickSave, Runs
  <2> HIDE DEF c, e
  <2> QED BY <1>4, <2>1, <2>2
<1>8. CASE ClickCompare
  <2>1. PICK n : todo' = <<Call("diff", Nothing, n)>>
    BY <1>8 DEF ClickCompare, Runs
  <2> DEFINE c == Call("diff", Nothing, n)
  <2>2. c.op = "diff" /\ todo' = <<c>>
    BY <2>1 DEF Call
  <2> HIDE DEF c
  <2> QED BY <1>4, <2>2
<1> QED BY <1>3, <1>5, <1>6, <1>7, <1>8

LEMMA DialogKeeps ==
    ASSUME EditorInv, OpenDialog \/ CloseDialog
    PROVE  EditorInv'
<1>1. PICK open \in BOOLEAN : Dialog(open)
    BY DEF OpenDialog, CloseDialog
<1>2. UNCHANGED <<server, first, todo, confirmed, promoted, disturbed, compared>>
    BY <1>1 DEF Dialog
<1>3. ServerInv' /\ PlanInv' /\ ComparedInv'
    BY <1>2, ServerKeeps, PlanUntouched DEF EditorInv, server, ComparedInv
<1>4. DOMAIN page' = DOMAIN page /\ page'.draft = page.draft /\ page'.rules = page.rules
    BY <1>1 DEF Dialog, EditorInv, ShownInv
<1>5. ShownInv'
    BY <1>2, <1>4 DEF EditorInv, ShownInv
<1> QED BY <1>3, <1>5 DEF EditorInv

\* A call that neither saves nor publishes, one that fails, or one of a list that does
\* not publish.
LEMMA RestKeeps ==
    ASSUME PlanInv, todo # <<>>, UNCHANGED <<confirmed, promoted, disturbed>>,
           \/ todo' = <<>>
           \/ todo' = Tail(todo) /\ ~Calls("save") /\ ~Calls("publish")
           \/ todo' = Tail(todo) /\ NotToPublish
    PROVE  PlanInv'
<1>1. IsConfirmed' = IsConfirmed /\ ConfirmedDocument' = ConfirmedDocument
    BY DEF IsConfirmed, ConfirmedDocument
<1>2. NotToPublish'
  <2>1. CASE todo' = <<>>
    BY <2>1 DEF NotToPublish
  <2>2. CASE todo' = Tail(todo) /\ NotToPublish
    BY <2>2, RestOfList
  <2>3. CASE todo' = Tail(todo) /\ ~Calls("save") /\ ~Calls("publish")
    BY <2>2, <2>3, ListFacts DEF PlanInv
  <2> QED BY <2>1, <2>2, <2>3
<1> QED BY <1>1, <1>2 DEF PlanInv

LEMMA PageKeeps ==
    ASSUME ShownInv, first' = first, DOMAIN page' = DOMAIN page,
           page'.draft = page.draft, page'.rules = page.rules
    PROVE  ShownInv'
BY DEF ShownInv

LEMMA CallKeeps ==
    ASSUME EditorInv,
           CallCreate \/ CallSave \/ CallValidate \/ CallDiscard \/ CallPublish
             \/ CallDiff \/ CallLoad \/ CallFails
    PROVE  EditorInv'
<1>1. /\ todo # <<>> /\ UNCHANGED <<first, confirmed>>
      /\ ServerInv /\ ShownInv /\ PlanInv /\ ComparedInv
      /\ todo' = Tail(todo) \/ todo' = <<>>
    BY DEF CallCreate, CallSave, CallValidate, CallDiscard, CallPublish, CallDiff, CallLoad,
           CallFails, Calls, Kept, GoesOn, Stops, EditorInv
<1>2. \A x, y \in {"create", "save", "validate", "discard", "publish", "diff", "load"} :
        Calls(x) /\ Calls(y) => x = y
    BY DEF Calls
<1>3. CASE CallCreate \/ CallValidate \/ CallDiscard
  <2>1. ServerInv' /\ ComparedInv'
    BY <1>1, <1>3, ServerKeeps DEF CallCreate, CallValidate, CallDiscard, ComparedInv
  <2>2. DOMAIN page' = DOMAIN page /\ page'.draft = page.draft /\ page'.rules = page.rules
    BY <1>1, <1>3 DEF CallCreate, CallValidate, CallDiscard, GoesOn, Stops, ShownInv
  <2>3. ~Calls("save") /\ ~Calls("publish") /\ UNCHANGED <<promoted, disturbed>>
    BY <1>2, <1>3 DEF CallCreate, CallValidate, CallDiscard
  <2> QED BY <2>1, <2>2, <2>3, <1>1, PageKeeps, RestKeeps DEF EditorInv
<1>4. CASE CallLoad
  <2>1. ServerInv' /\ ComparedInv'
    BY <1>1, <1>4, ServerKeeps DEF CallLoad, ComparedInv
  <2>2. ShownInv'
    BY <1>1, <1>4, LoadedIsShown, NotLoadedIsShown, ListedIsView DEF CallLoad, GoesOn
  <2>3. ~Calls("save") /\ ~Calls("publish") /\ UNCHANGED <<promoted, disturbed>>
    BY <1>2, <1>4 DEF CallLoad
  <2> QED BY <2>1, <2>2, <2>3, <1>1, RestKeeps DEF EditorInv
<1>5. CASE CallFails
  <2>1. ServerInv' /\ ComparedInv' /\ page' = page /\ todo' = <<>> /\ UNCHANGED <<promoted, disturbed>>
    BY <1>1, <1>5, ServerKeeps DEF CallFails, Stops, ComparedInv
  <2> QED BY <2>1, <1>1, PageKeeps, RestKeeps DEF EditorInv
<1>6. CASE CallDiff
  <2>1. ServerInv' /\ page' = page /\ UNCHANGED <<promoted, disturbed>> /\ Calls("diff")
    BY <1>1, <1>6, ServerKeeps DEF CallDiff, GoesOn
  <2>2. PICK a \in Numbered(Due.version - 1), b \in Numbered(Due.version) :
          compared' = [before |-> a, after |-> b, changes |-> Diff(a, b)]
    BY <1>6 DEF CallDiff
  <2>3. Wellformed(a) /\ Wellformed(b)
    BY <1>1, <2>2 DEF Numbered, ServerInv
  <2>4. ComparedInv'
    BY <2>2, <2>3 DEF ComparedInv
  <2> QED BY <2>1, <2>4, <1>1, <1>2, PageKeeps, RestKeeps DEF EditorInv
<1>7. CASE CallSave
  <2>1. ServerInv' /\ ComparedInv' /\ page' = page /\ draft' = Due.document
        /\ UNCHANGED <<promoted, disturbed>> /\ Calls("save")
    BY <1>1, <1>7, ServerKeeps DEF CallSave, SaveDraft, GoesOn, Stops, ComparedInv
  <2>2. IsConfirmed' = IsConfirmed /\ ConfirmedDocument' = ConfirmedDocument
    BY <1>1 DEF IsConfirmed, ConfirmedDocument
  <2>3. CASE ToSave /\ todo' = Tail(todo)
    <3>1. ToPublish'
      BY <2>1, <2>2, <2>3, ListFacts DEF ToPublish, ToSave
    <3> QED BY <3>1, <2>1, <2>2, <1>1, PageKeeps DEF EditorInv, PlanInv
  <2>4. CASE NotToPublish \/ todo' = <<>>
    BY <2>1, <2>4, <1>1, PageKeeps, RestKeeps DEF EditorInv
  <2> QED BY <2>1, <2>3, <2>4, <1>1, ListFacts DEF PlanInv
<1>8. CASE CallPublish
  <2>1. /\ ServerInv' /\ ComparedInv' /\ Calls("publish") /\ disturbed' = disturbed
        /\ promoted' = IF disturbed THEN Nothing ELSE draft
    BY <1>1, <1>8, ServerKeeps DEF CallPublish, ComparedInv
  <2>2. DOMAIN page' = DOMAIN page /\ page'.draft = page.draft /\ page'.rules = page.rules
    BY <1>1, <1>8 DEF CallPublish, GoesOn, Stops, ShownInv
  <2>3. IsConfirmed' = IsConfirmed /\ ConfirmedDocument' = ConfirmedDocument
    BY <1>1 DEF IsConfirmed, ConfirmedDocument
  <2>4. ToPublish
    BY <2>1, <1>1, <1>2, ListFacts DEF PlanInv
  <2>5. NotToPublish'
    <3>1. CASE todo' = <<>>
      BY <3>1 DEF NotToPublish
    <3>2. CASE todo' = Tail(todo)
      BY <3>2, <2>4, ListFacts, OneLoad
    <3> QED BY <3>1, <3>2, <1>1
  <2>6. PlanInv'
    BY <2>1, <2>3, <2>4, <2>5, <1>1 DEF PlanInv, ToPublish
  <2> QED BY <2>1, <2>2, <2>6, <1>1, PageKeeps DEF EditorInv
<1> QED BY <1>3, <1>4, <1>5, <1>6, <1>7, <1>8

LEMMA EditorIsKept == EditorInv /\ [EditorNext]_editorVars => EditorInv'
<1> SUFFICES ASSUME EditorInv, [EditorNext]_editorVars PROVE EditorInv'
    OBVIOUS
<1>1. CASE UNCHANGED editorVars
  <2>1. UNCHANGED <<server, draft, page, first, todo, confirmed, promoted, disturbed, compared>>
    BY <1>1 DEF editorVars, server
  <2> QED BY <2>1, ServerKeeps, PlanUntouched DEF EditorInv, ShownInv, ComparedInv
<1>2. CASE EditorNext
    BY <1>2, OtherClientKeeps, ShownKeeps, EditKeeps, ClickKeeps, DialogKeeps, CallKeeps DEF EditorNext
<1> QED BY <1>1, <1>2

\* PublishedAsShown: whatever the operator enters while the calls run, whichever of them
\* fail, and however late the first load is shown, what Confirm's list put in force is
\* what was on screen at the click (page.tsx:398-407).
THEOREM WhatIsPublishedWasShown == EditorSpec => []PublishedAsShown
<1>1. ASSUME EditorInv, promoted # Nothing
      PROVE  LET shown == confirmed.rules
                 is == promoted.entities
             IN  /\ confirmed.draft = [View(promoted) EXCEPT !.rules = confirmed.draft.rules]
                 /\ \A r \in shown : r.type \in DOMAIN is /\ is[r.type] = r.rule
                 /\ \A t \in DOMAIN is : \E r \in shown : r.type = t
  <2> DEFINE shown == confirmed.rules
             is == promoted.entities
             v == confirmed.draft
  <2>1. IsView(v) /\ OneOfAType(shown) /\ promoted = DocumentFrom(v, shown)
    BY <1>1 DEF EditorInv, PlanInv, IsConfirmed, ConfirmedDocument
  <2>2. /\ promoted.ttl = v.ttl /\ promoted.budget = v.budget
        /\ promoted.providers = v.providers /\ promoted.unknown = v.unknown
        /\ is = [t \in TypesOf(shown) |-> RuleOf(shown, t)]
    BY <2>1 DEF DocumentFrom
  <2>3. v = [View(promoted) EXCEPT !.rules = v.rules]
    BY <2>1, <2>2 DEF IsView, View
  <2>4. ASSUME NEW r \in shown PROVE r.type \in DOMAIN is /\ is[r.type] = r.rule
    <3>1. r.type \in TypesOf(shown)
      BY DEF TypesOf
    <3>2. (CHOOSE q \in shown : q.type = r.type) = r
      BY <2>1 DEF OneOfAType
    <3> QED BY <2>2, <3>1, <3>2 DEF RuleOf
  <2>5. \A t \in DOMAIN is : \E r \in shown : r.type = t
    BY <2>2 DEF TypesOf
  <2> QED BY <2>3, <2>4, <2>5
<1>2. EditorInv => PublishedAsShown
    BY <1>1 DEF PublishedAsShown
<1> QED BY <1>2, EditorHolds, EditorIsKept, PTL DEF EditorSpec

LEMMA WrittenIsMonotone ==
    ASSUME NEW s \in Nat, NEW x \in Nat, s <= x
    PROVE  Written(s) \in Nat /\ Written(x) \in Nat /\ Written(s) <= Written(x)
<1>1. Digit \in Nat \ {0}
    BY VocabularyAssumption
<1>2. \A n \in Nat : /\ n \div Digit \in Nat
                     /\ Digit * (n \div Digit) <= n /\ n < Digit * (n \div Digit) + Digit
    BY <1>1
<1> DEFINE a == s \div Digit
           b == x \div Digit
<1>3. /\ a \in Nat /\ b \in Nat
      /\ Digit * a <= s /\ x < Digit * b + Digit
    BY <1>2
<1> HIDE DEF a, b
<1>4. a <= b
  <2> SUFFICES ASSUME b + 1 <= a PROVE FALSE
    BY <1>3
  <2>1. Digit * (b + 1) <= Digit * a
    BY <1>1, <1>3
  <2>2. Digit * (b + 1) = Digit * b + Digit
    BY <1>1, <1>3
  <2>3. Digit * a \in Nat /\ Digit * b \in Nat
    BY <1>1, <1>3
  <2> QED BY <1>1, <1>3, <2>1, <2>2, <2>3
<1> QED BY <1>3, <1>4 DEF a, b, Written

\* Two scores that are written alike are on one side of any that is written otherwise.
LEMMA WrittenAlike ==
    ASSUME NEW x \in Nat, NEW y \in Nat, NEW s \in Nat,
           Written(x) = Written(y), Written(s) # Written(x)
    PROVE  s >= x <=> s >= y
<1>1. CASE s >= x /\ s < y
    BY <1>1, WrittenIsMonotone
<1>2. CASE s >= y /\ s < x
    BY <1>2, WrittenIsMonotone
<1> QED BY <1>1, <1>2

LEMMA NoChanges ==
    ASSUME NEW a, NEW b, Diff(a, b) = [entities |-> {}, settings |-> {}]
    PROVE  /\ DOMAIN a.entities = DOMAIN b.entities
           /\ \A t \in DOMAIN a.entities :
                /\ a.entities[t].action = b.entities[t].action
                /\ a.entities[t].enabled = b.entities[t].enabled
                /\ Written(a.entities[t].score) = Written(b.entities[t].score)
           /\ a.ttl = b.ttl /\ a.budget = b.budget /\ a.unknown = b.unknown
           /\ ProvidersText(a.providers) = ProvidersText(b.providers)
<1>1. EntityChanges(a, b) = {} /\ SettingChanges(a, b) = {}
    BY DEF Diff
<1>2. /\ a.ttl = b.ttl /\ a.budget = b.budget /\ a.unknown = b.unknown
      /\ ProvidersText(a.providers) = ProvidersText(b.providers)
  <2>1. \A f \in {"ttl", "budget", "unknown"} : a[f] = b[f]
    BY <1>1 DEF SettingChanges
  <2>2. ProvidersText(a.providers) = ProvidersText(b.providers)
    BY <1>1 DEF SettingChanges
  <2> QED BY <2>1, <2>2
<1> DEFINE common == DOMAIN a.entities \cap DOMAIN b.entities
           old(t) == RuleFields(a.entities[t])
           new(t) == RuleFields(b.entities[t])
           of(t) == {<<t, f>> : f \in {g \in DOMAIN old(t) : old(t)[g] # new(t)[g]}}
           added == {<<t, "added">> : t \in DOMAIN b.entities \ DOMAIN a.entities}
           gone == {<<t, "removed">> : t \in DOMAIN a.entities \ DOMAIN b.entities}
<1>3. added = {} /\ gone = {} /\ UNION {of(t) : t \in common} = {}
  <2>1. EntityChanges(a, b) = added \cup gone \cup UNION {of(t) : t \in common}
    BY DEF EntityChanges
  <2> HIDE DEF added, gone, of, common
  <2> QED BY <1>1, <2>1
<1>4. DOMAIN a.entities = DOMAIN b.entities
    BY <1>3
<1>5. ASSUME NEW t \in DOMAIN a.entities
      PROVE  /\ a.entities[t].action = b.entities[t].action
             /\ a.entities[t].enabled = b.entities[t].enabled
             /\ Written(a.entities[t].score) = Written(b.entities[t].score)
  <2>1. of(t) = {}
    <3>1. t \in common
      BY <1>4
    <3> HIDE DEF of, common
    <3> QED BY <1>3, <3>1
  <2>2. \A g \in DOMAIN old(t) : old(t)[g] = new(t)[g]
    BY <2>1
  <2>3. old(t).action = new(t).action /\ old(t).enabled = new(t).enabled /\ old(t).score = new(t).score
    BY <2>2 DEF RuleFields
  <2> QED BY <2>3 DEF RuleFields
<1> QED BY <1>2, <1>4, <1>5

\* DiffIsComplete: two versions that the page compared and called identical treat every
\* hit of a known entity alike, but for scores that are written alike, and agree in every
\* setting but the providers, of which it says that their texts are one: for any documents
\* and whatever names are joined into the same text (authoring.py:195-270; DiffView).
THEOREM IdenticalTreatsAlike == EditorSpec => []DiffIsComplete
<1>1. ASSUME NEW a, NEW b, Wellformed(a), Wellformed(b),
             Diff(a, b) = [entities |-> {}, settings |-> {}],
             NEW t \in Supported, NEW s \in 0..MaxScore, Written(s) # Written(MinScoreFor(a, t))
      PROVE  Treatment(a, t, s) = Treatment(b, t, s)
  <2>1. DOMAIN Snapshot(a) = DOMAIN Snapshot(b)
    BY <1>1, NoChanges DEF Snapshot
  <2>2. CASE t \notin DOMAIN Snapshot(a)
    BY <2>1, <2>2 DEF Treatment, MinScoreFor, ActionFor
  <2>3. CASE t \in DOMAIN Snapshot(a)
    <3> DEFINE x == a.entities[t].score
               y == b.entities[t].score
    <3>1. t \in DOMAIN a.entities /\ t \in DOMAIN b.entities
      BY <2>1, <2>3 DEF Snapshot
    <3>2. /\ MinScoreFor(a, t) = x /\ MinScoreFor(b, t) = y
          /\ ActionFor(a, t) = a.entities[t].action /\ ActionFor(b, t) = b.entities[t].action
      BY <2>1, <2>3 DEF MinScoreFor, ActionFor, Snapshot
    <3>3. x \in Nat /\ y \in Nat /\ s \in Nat
      BY <1>1, <3>1, VocabularyAssumption DEF Wellformed, WellformedRule
    <3>4. Written(x) = Written(y) /\ a.entities[t].action = b.entities[t].action
      BY <1>1, <3>1, NoChanges
    <3> HIDE DEF x, y
    <3>5. s >= x <=> s >= y
      BY <1>1, <3>2, <3>3, <3>4, WrittenAlike
    <3> QED BY <3>2, <3>4, <3>5 DEF Treatment
  <2> QED BY <2>2, <2>3
<1>2. ASSUME EditorInv PROVE DiffIsComplete
  <2> SUFFICES ASSUME compared # Nothing, compared.changes = [entities |-> {}, settings |-> {}]
               PROVE  LET a == compared.before
                          b == compared.after
                      IN  /\ \A t \in Supported, s \in 0..MaxScore :
                               Written(s) # Written(MinScoreFor(a, t)) => Treatment(a, t, s) = Treatment(b, t, s)
                          /\ <<a.ttl, a.budget, a.unknown>> = <<b.ttl, b.budget, b.unknown>>
                          /\ ProvidersText(a.providers) = ProvidersText(b.providers)
    BY DEF DiffIsComplete
  <2> DEFINE a == compared.before
             b == compared.after
  <2>1. Wellformed(a) /\ Wellformed(b) /\ compared.changes = Diff(a, b)
    BY <1>2 DEF EditorInv, ComparedInv
  <2> HIDE DEF a, b
  <2>2. Diff(a, b) = [entities |-> {}, settings |-> {}]
    BY <2>1
  <2>3. \A t \in Supported, s \in 0..MaxScore :
           Written(s) # Written(MinScoreFor(a, t)) => Treatment(a, t, s) = Treatment(b, t, s)
    BY <1>1, <2>1, <2>2
  <2>4. /\ a.ttl = b.ttl /\ a.budget = b.budget /\ a.unknown = b.unknown
        /\ ProvidersText(a.providers) = ProvidersText(b.providers)
    BY <2>2, NoChanges
  <2> QED BY <2>3, <2>4 DEF a, b
<1>3. EditorInv => DiffIsComplete
    BY <1>2
<1> QED BY <1>3, EditorHolds, EditorIsKept, PTL DEF EditorSpec
=============================================================================
