------------------------- MODULE AuditServiceProofs -------------------------
(***************************************************************************)
(* Proofs about AuditService, for any set of records and any capacity of   *)
(* the queue, in both failure modes.                                       *)
(***************************************************************************)
EXTENDS AuditService, FiniteSetTheorems, SequenceTheorems, TLAPS

\* What is still open: lost since the last success, or on its way for a request
\* that was served.
Open == outage \cup (Held \cap Served)

\* Degradation is noticed with the first loss, and what it leaves open is finite
\* and bounded by what could be on its way when it set in.
OpenIsBounded ==
    failClosed => /\ outage # {} => degraded
                  /\ outage \subseteq Served
                  /\ IsFiniteSet(Open)
                  /\ Cardinality(Open) <= Capacity + 1

\* A service that does not run has no record in flight, and counted what its queue
\* still holds.  A stop that waits has a writer to wait for.
AtRest == ~running => /\ writing = Nothing
                      /\ \A r \in Queued : "dropped" \in counted[r]
StopHasWriter == shutdown # "no" => running /\ stopped

\* A request that was not answered yet has no record anywhere.
Fresh == \A r \in Held : answer[r] # "pending"

Inv == TypeOK /\ AtRest /\ StopHasWriter /\ Fresh /\ NoSilentLoss

-----------------------------------------------------------------------------
\* What a queue holds after an append and after its head is taken.
LEMMA QueueSteps ==
    ASSUME NEW q \in Seq(Records)
    PROVE  /\ \A r \in Records :
                /\ Append(q, r) \in Seq(Records)
                /\ Len(Append(q, r)) = Len(q) + 1
                /\ {Append(q, r)[n] : n \in 1..Len(Append(q, r))}
                     = {q[n] : n \in 1..Len(q)} \cup {r}
           /\ q # <<>> =>
                /\ Head(q) \in Records /\ Tail(q) \in Seq(Records)
                /\ Len(Tail(q)) = Len(q) - 1
                /\ {q[n] : n \in 1..Len(q)}
                     = {Tail(q)[n] : n \in 1..Len(Tail(q))} \cup {Head(q)}
  <1>0. Len(q) \in Nat
    OBVIOUS
  <1>1. ASSUME NEW r \in Records
        PROVE  /\ Append(q, r) \in Seq(Records)
               /\ Len(Append(q, r)) = Len(q) + 1
               /\ {Append(q, r)[n] : n \in 1..Len(Append(q, r))}
                    = {q[n] : n \in 1..Len(q)} \cup {r}
    <2> DEFINE p == Append(q, r)
    <2>1. /\ p \in Seq(Records) /\ Len(p) = Len(q) + 1 /\ p[Len(q) + 1] = r
          /\ \A n \in 1..Len(q) : p[n] = q[n]
      BY AppendProperties
    <2> HIDE DEF p
    <2>3. {p[n] : n \in 1..Len(p)} = {q[n] : n \in 1..Len(q)} \cup {r}
      <3>1. \A n \in 1..Len(p) : p[n] \in {q[k] : k \in 1..Len(q)} \cup {r}
        <4>1. SUFFICES ASSUME NEW n \in 1..Len(p)
                       PROVE  p[n] = r \/ \E k \in 1..Len(q) : p[n] = q[k]
          OBVIOUS
        <4>2. n \in 1..Len(q) \/ n = Len(q) + 1
          BY <1>0, <2>1, <4>1
        <4> QED BY <2>1, <4>2
      <3>2. \A n \in 1..Len(q) : q[n] \in {p[k] : k \in 1..Len(p)}
        <4>1. SUFFICES ASSUME NEW n \in 1..Len(q)
                       PROVE  n \in 1..Len(p) /\ p[n] = q[n]
          OBVIOUS
        <4> QED BY <1>0, <2>1, <4>1
      <3>3. r \in {p[k] : k \in 1..Len(p)}
        <4>1. Len(p) \in 1..Len(p)
          BY <1>0, <2>1
        <4> QED BY <2>1, <4>1
      <3> QED
        BY <3>1, <3>2, <3>3
    <2> QED
      BY <2>1, <2>3 DEF p
  <1>2. ASSUME q # <<>>
        PROVE  /\ Head(q) \in Records /\ Tail(q) \in Seq(Records)
               /\ Len(Tail(q)) = Len(q) - 1
               /\ {q[n] : n \in 1..Len(q)}
                    = {Tail(q)[n] : n \in 1..Len(Tail(q))} \cup {Head(q)}
    <2> DEFINE p == Tail(q)
    <2>1. /\ Head(q) \in Records /\ p \in Seq(Records) /\ Len(p) = Len(q) - 1
          /\ \A n \in 1..Len(p) : p[n] = q[n + 1]
      BY <1>2, HeadTailProperties
    <2>2. Head(q) = q[1] /\ Len(q) >= 1
      BY <1>2
    <2> HIDE DEF p
    <2>3. \A n \in 1..Len(q) : n = 1 \/ (n - 1 \in 1..Len(p) /\ p[n - 1] = q[n])
      BY <1>0, <2>1, <2>2
    <2>4. \A n \in 1..Len(p) : n + 1 \in 1..Len(q)
      BY <1>0, <2>1
    <2>5. {q[n] : n \in 1..Len(q)} \subseteq {p[n] : n \in 1..Len(p)} \cup {Head(q)}
      BY <2>2, <2>3
    <2>6. 1 \in 1..Len(q)
      BY <1>0, <2>2
    <2>7. {p[n] : n \in 1..Len(p)} \cup {Head(q)} \subseteq {q[n] : n \in 1..Len(q)}
      BY <2>1, <2>2, <2>4, <2>6
    <2> QED
      BY <2>1, <2>5, <2>7 DEF p
  <1> QED
    BY <1>1, <1>2

\* A queue holds no more records than it is long.
LEMMA QueueCardinality ==
    ASSUME NEW q \in Seq(Records)
    PROVE  LET S == {q[n] : n \in 1..Len(q)}
           IN  IsFiniteSet(S) /\ Cardinality(S) <= Len(q)
  <1> DEFINE S == {q[n] : n \in 1..Len(q)}
  <1>1. q \in Surjection(1..Len(q), S)
    BY DEF Surjection
  <1>2. Len(q) \in Nat
    OBVIOUS
  <1>3. IsFiniteSet(1..Len(q)) /\ Cardinality(1..Len(q)) = Len(q)
    BY <1>2, FS_Interval
  <1> HIDE DEF S
  <1>4. IsFiniteSet(S) /\ Cardinality(S) <= Len(q)
    BY <1>1, <1>3, FS_Surjection
  <1> QED
    BY <1>4 DEF S

\* With the record in flight: at most one more than the queue may hold.
LEMMA HeldCardinality ==
    ASSUME NEW q \in Seq(Records), Len(q) <= Capacity, NEW w
    PROVE  LET H == {q[n] : n \in 1..Len(q)} \cup ({w} \ {Nothing})
           IN  IsFiniteSet(H) /\ Cardinality(H) <= Capacity + 1
  <1> DEFINE S == {q[n] : n \in 1..Len(q)}
             H == S \cup ({w} \ {Nothing})
  <1>1. IsFiniteSet(S) /\ Cardinality(S) <= Len(q) /\ Len(q) \in Nat
    BY QueueCardinality
  <1> HIDE DEF S
  <1>2. Cardinality(S) \in Nat
    BY <1>1, FS_CardinalityType
  <1>3. /\ IsFiniteSet(S \cup {w})
        /\ Cardinality(S \cup {w}) = IF w \in S THEN Cardinality(S) ELSE Cardinality(S) + 1
    BY <1>1, FS_AddElement
  <1>4. IsFiniteSet(H) /\ Cardinality(H) <= Cardinality(S \cup {w})
    BY <1>3, FS_Subset
  <1>5. Cardinality(H) \in Nat
    BY <1>4, FS_CardinalityType
  <1>6. IsFiniteSet(H) /\ Cardinality(H) <= Capacity + 1
    BY <1>1, <1>2, <1>3, <1>4, <1>5, CapacityAssumption
  <1> QED
    BY <1>6 DEF S

LEMMA HeldRecords == TypeOK => Held \subseteq Records
  BY DEF TypeOK, Held, Queued, InFlight

\* How each action moves the records: what is held, and who was served.
LEMMA HeldAfter ==
    ASSUME TypeOK
    PROVE  /\ \A r \in Records : Enqueue(r) /\ UNCHANGED writing =>
                Queued' = Queued \cup {r} /\ Held' = Held \cup {r}
           /\ Take => Held' = Held /\ Queued' \subseteq Queued
           /\ queue' = queue => Queued' = Queued
  <1>1. queue \in Seq(Records)
    BY DEF TypeOK
  <1>2. \A r \in Records : Enqueue(r) => Queued' = Queued \cup {r}
    BY <1>1, QueueSteps DEF Enqueue, Queued
  <1>3. ASSUME Take
        PROVE  Queued = Queued' \cup {Head(queue)} /\ Head(queue) \in Records
    <2>1. queue' = Tail(queue) /\ queue # <<>>
      BY <1>3 DEF Take
    <2>2. /\ Head(queue) \in Records
          /\ {queue[n] : n \in 1..Len(queue)}
               = {Tail(queue)[n] : n \in 1..Len(Tail(queue))} \cup {Head(queue)}
      BY <1>1, <2>1, QueueSteps
    <2>3. Queued' = {Tail(queue)[n] : n \in 1..Len(Tail(queue))}
      BY <2>1, Zenon DEF Queued
    <2> QED
      BY <2>2, <2>3 DEF Queued
  <1>4. ASSUME Take
        PROVE  Held' = Held
    BY <1>3, <1>4, NothingAssumption DEF Take, Held, InFlight
  <1> QED
    BY <1>2, <1>3, <1>4 DEF Held, InFlight, Queued

LEMMA TypeStep == TypeOK /\ [Next]_vars => TypeOK'
  <1> SUFFICES ASSUME TypeOK, [Next]_vars PROVE TypeOK'
    OBVIOUS
  <1> USE NothingAssumption, CapacityAssumption DEF TypeOK, Outcomes, Answers
  <1>1. CASE UNCHANGED vars
    BY <1>1 DEF vars, state
  <1>2. CASE Next
    <2> failClosed' = failClosed
      BY <1>2 DEF Next
    <2>1. ASSUME NEW r \in Records, Submit(r)
          PROVE  TypeOK'
      <3>1. queue' \in Seq(Records) /\ Len(queue') <= Capacity
        <4>1. CASE Enqueue(r) /\ ~Full
          BY <4>1, QueueSteps DEF Enqueue, Full
        <4> QED
          BY <2>1, <4>1 DEF Submit, Refuse
      <3>2. counted' \in [Records -> SUBSET Outcomes] /\ answer' \in [Records -> Answers]
        BY <2>1 DEF Submit, Refuse, Enqueue, Count
      <3> QED
        BY <2>1, <3>1, <3>2 DEF Submit
    <2>2. CASE Take
      BY <2>2, QueueSteps DEF Take
    <2>3. CASE WriteSucceeds
      BY <2>3 DEF WriteSucceeds, Writing, Count
    <2>4. CASE WriteFails
      BY <2>4 DEF WriteFails, Writing, Count, InFlight
    <2>5. CASE StorageChanges
      BY <2>5 DEF StorageChanges
    <2>6. CASE Start \/ StopBegins \/ DrainEnds \/ DrainTimesOut
      BY <2>6 DEF Start, StopBegins, DrainEnds, DrainTimesOut
    <2>7. CASE StopEnds
      BY <2>7 DEF StopEnds, InFlight
    <2> QED
      BY <1>2, <2>1, <2>2, <2>3, <2>4, <2>5, <2>6, <2>7 DEF Next
  <1> QED
    BY <1>1, <1>2

-----------------------------------------------------------------------------
LEMMA InitInv == Init => Inv /\ OpenIsBounded
  <1> SUFFICES ASSUME Init PROVE Inv /\ OpenIsBounded
    OBVIOUS
  <1>1. TypeOK
    <2>1. queue \in Seq(Records) /\ Len(queue) <= Capacity
      BY CapacityAssumption DEF Init
    <2> QED
      BY <2>1 DEF Init, TypeOK, Outcomes, Answers
  <1>2. Queued = {} /\ Held = {} /\ Served = {}
    BY DEF Init, Queued, Held, InFlight, Served
  <1>3. Inv
    BY <1>1, <1>2 DEF Inv, Init, AtRest, StopHasWriter, Fresh, NoSilentLoss
  <1>4. IsFiniteSet(Open) /\ Cardinality(Open) = 0
    BY <1>2, FS_EmptySet DEF Open, Init
  <1> QED
    BY <1>2, <1>3, <1>4, CapacityAssumption DEF OpenIsBounded, Init

\* A submit settles the request it answers, and no other.
LEMMA SubmitInv ==
    ASSUME Inv, TypeOK', NEW r \in Records, Submit(r), failClosed' = failClosed
    PROVE  Inv'
  <1> USE DEF Inv, TypeOK
  <1>1. r \notin Held
    BY DEF Submit, Fresh
  <1>2. CASE Refuse(r)
    <2>1. Queued' = Queued /\ Held' = Held
      BY <1>2 DEF Refuse, Submit, Queued, Held, InFlight
    <2>2. \A x \in Records \ {r} : counted'[x] = counted[x] /\ answer'[x] = answer[x]
      BY <1>2 DEF Refuse, Count
    <2>3. AtRest' /\ StopHasWriter'
      BY <1>2, <2>1, <2>2 DEF Submit, Refuse, Count, AtRest, StopHasWriter
    <2>4. Fresh'
      BY <1>2, <2>1, <2>2 DEF Submit, Refuse, Fresh
    <2>5. NoSilentLoss'
      <3> SUFFICES ASSUME NEW x \in Records, answer'[x] = "served"
                   PROVE  Settled(x)' \/ x \in interrupted'
        BY DEF NoSilentLoss, Served
      <3>1. CASE x = r
        BY <1>2, <3>1 DEF Refuse, Count, Settled
      <3>2. CASE x # r
        BY <2>1, <2>2, <3>2 DEF Submit, NoSilentLoss, Served, Settled
      <3> QED
        BY <3>1, <3>2
    <2> QED
      BY <2>3, <2>4, <2>5
  <1>3. CASE Enqueue(r) /\ ~stopped
    <2>1. Queued' = Queued \cup {r} /\ Held' = Held \cup {r}
      BY <1>3, HeldAfter DEF Submit
    <2>2. running
      BY <1>3 DEF Submit
    <2>3. \A x \in Records \ {r} : counted'[x] = counted[x] /\ answer'[x] = answer[x]
      BY <1>3 DEF Enqueue, Count
    <2>4. answer'[r] # "pending"
      BY <1>3 DEF Enqueue
    <2>5. Fresh'
      BY <2>1, <2>3, <2>4, HeldRecords DEF Fresh
    <2>6. NoSilentLoss'
      BY <1>3, <2>1, <2>2, <2>3 DEF Submit, NoSilentLoss, Served, Settled
    <2> QED
      BY <2>2, <2>5, <2>6 DEF Submit, AtRest, StopHasWriter
  <1> QED
    BY <1>2, <1>3 DEF Submit

\* The writer's steps: what leaves the queue is in flight, and what leaves the
\* writer is in the table or counted.
LEMMA WriterInv ==
    ASSUME Inv, TypeOK', Take \/ WriteSucceeds \/ WriteFails
    PROVE  Inv'
  <1> USE NothingAssumption DEF Inv, TypeOK
  <1>1. CASE Take
    <2>1. Held' = Held /\ Queued' \subseteq Queued
      BY <1>1, HeldAfter
    <2> QED
      BY <1>1, <2>1 DEF Take, AtRest, StopHasWriter, Fresh, NoSilentLoss, Served, Settled
  <1>2. CASE WriteSucceeds \/ WriteFails
    <2>1. writing \in Records /\ writing' = Nothing /\ InFlight = {writing}
      BY <1>2 DEF WriteSucceeds, WriteFails, Writing, InFlight
    <2>2. Queued' = Queued /\ Held = Held' \cup {writing}
      BY <1>2, <2>1 DEF WriteSucceeds, WriteFails, Held, Queued, InFlight
    <2>3. running
      BY <2>1 DEF AtRest
    <2>4. /\ \A x \in Records : counted[x] \subseteq counted'[x]
          /\ stored \subseteq stored'
          /\ writing \in stored' \/ "failed" \in counted'[writing]
      BY <1>2, <2>1 DEF WriteSucceeds, WriteFails, Count
    <2>5. NoSilentLoss'
      BY <1>2, <2>2, <2>4 DEF WriteSucceeds, WriteFails, NoSilentLoss, Served, Settled
    <2> QED
      BY <1>2, <2>2, <2>3, <2>5
         DEF WriteSucceeds, WriteFails, AtRest, StopHasWriter, Fresh
  <1> QED
    BY <1>1, <1>2

\* start and stop: only the end of a stop takes a record out of the queue's care.
LEMMA LifespanInv ==
    ASSUME Inv, TypeOK',
           StorageChanges \/ Start \/ StopBegins \/ DrainEnds \/ DrainTimesOut \/ StopEnds
    PROVE  Inv'
  <1> USE NothingAssumption DEF Inv, TypeOK
  <1>1. CASE StorageChanges \/ DrainEnds \/ DrainTimesOut
    <2>1. UNCHANGED <<queue, writing, running, stopped, stored, counted, answer, interrupted>>
      BY <1>1 DEF StorageChanges, DrainEnds, DrainTimesOut
    <2>2. Queued' = Queued /\ Held' = Held
      BY <2>1 DEF Queued, Held, InFlight
    <2>3. StopHasWriter'
      BY <1>1 DEF StorageChanges, DrainEnds, DrainTimesOut, StopHasWriter
    <2> QED
      BY <2>1, <2>2, <2>3 DEF AtRest, Fresh, NoSilentLoss, Served, Settled
  <1>2. CASE Start
    <2>1. Queued' = Queued /\ Held' = Held
      BY <1>2 DEF Start, Queued, Held, InFlight
    <2> QED
      BY <1>2, <2>1 DEF Start, AtRest, StopHasWriter, Fresh, NoSilentLoss, Served, Settled
  <1>3. CASE StopBegins
    <2>1. Queued' = Queued /\ Held' = Held
      BY <1>3 DEF StopBegins, Queued, Held, InFlight
    <2>2. NoSilentLoss'
      BY <1>3, <2>1, HeldRecords
         DEF StopBegins, AtRest, NoSilentLoss, Served, Settled, Held, InFlight
    <2> QED
      BY <1>3, <2>1, <2>2 DEF StopBegins, AtRest, StopHasWriter, Fresh
  <1>4. CASE StopEnds
    <2>1. Queued' = Queued /\ Held' \subseteq Held /\ Held \subseteq Queued \cup InFlight
      BY <1>4 DEF StopEnds, Queued, Held, InFlight
    <2>2. Queued \subseteq Records
      BY HeldRecords DEF Held
    <2>3. NoSilentLoss'
      BY <1>4, <2>1, <2>2 DEF StopEnds, NoSilentLoss, Served, Settled
    <2> QED
      BY <1>4, <2>1, <2>2, <2>3 DEF StopEnds, AtRest, StopHasWriter, Fresh
  <1> QED
    BY <1>1, <1>2, <1>3, <1>4

LEMMA NextInv == Inv /\ [Next]_vars => Inv'
  <1> SUFFICES ASSUME Inv, [Next]_vars PROVE Inv'
    OBVIOUS
  <1>1. TypeOK'
    BY TypeStep DEF Inv
  <1>2. CASE UNCHANGED vars
    BY <1>1, <1>2 DEF vars, state, Inv, AtRest, StopHasWriter, Fresh, NoSilentLoss, Served,
       Settled, Held, Queued, InFlight
  <1>3. CASE Next
    BY <1>1, <1>3, SubmitInv, WriterInv, LifespanInv DEF Next
  <1> QED
    BY <1>2, <1>3

-----------------------------------------------------------------------------
\* What is open grows only by a request that is served, and then nothing was lost
\* since the last success: all that is open is on its way.
LEMMA OpenStep ==
    ASSUME Inv, Inv', OpenIsBounded, Next
    PROVE  OpenIsBounded'
  <1> USE NothingAssumption DEF Inv, TypeOK
  <1> SUFFICES ASSUME failClosed
               PROVE  /\ outage' # {} => degraded'
                      /\ outage' \subseteq Served'
                      /\ IsFiniteSet(Open') /\ Cardinality(Open') <= Capacity + 1
    BY DEF Next, OpenIsBounded
  <1> USE DEF OpenIsBounded
  <1>1. ASSUME Open' \subseteq Open
        PROVE  IsFiniteSet(Open') /\ Cardinality(Open') <= Capacity + 1
    <2>1. IsFiniteSet(Open') /\ Cardinality(Open') <= Cardinality(Open)
      BY <1>1, FS_Subset
    <2>2. Cardinality(Open') \in Nat /\ Cardinality(Open) \in Nat
      BY <2>1, FS_CardinalityType
    <2> QED
      BY <2>1, <2>2, CapacityAssumption
  <1>2. ASSUME outage' = {}
        PROVE  IsFiniteSet(Open') /\ Cardinality(Open') <= Capacity + 1
    <2>1. IsFiniteSet(Held') /\ Cardinality(Held') <= Capacity + 1
      BY HeldCardinality DEF Held, Queued, InFlight
    <2>2. Open' \subseteq Held'
      BY <1>2 DEF Open
    <2>3. IsFiniteSet(Open') /\ Cardinality(Open') <= Cardinality(Held')
      BY <2>1, <2>2, FS_Subset
    <2>4. Cardinality(Open') \in Nat /\ Cardinality(Held') \in Nat
      BY <2>1, <2>3, FS_CardinalityType
    <2> QED
      BY <2>1, <2>3, <2>4, CapacityAssumption
  <1>3. ASSUME NEW r \in Records, Submit(r)
        PROVE  OpenIsBounded'
    <2>1. answer[r] = "pending" /\ r \notin Served /\ r \notin Held
      BY <1>3 DEF Submit, Served, Fresh
    <2>2. outage' = outage /\ degraded' = degraded
      BY <1>3 DEF Submit
    <2>3. CASE answer'[r] = "rejected"
      <3>1. Served' = Served
        BY <1>3, <2>1, <2>3 DEF Submit, Refuse, Enqueue, Served
      <3>2. Held' \subseteq Held \cup {r}
        BY <1>3, HeldAfter DEF Submit, Refuse, Held, InFlight
      <3>3. Open' \subseteq Open
        BY <2>1, <2>2, <3>1, <3>2 DEF Open
      <3> QED
        BY <1>1, <2>2, <3>1, <3>3
    <2>4. CASE answer'[r] # "rejected"
      <3>1. ~degraded
        BY <1>3, <2>4 DEF Submit, Refuse, Enqueue
      <3>2. outage' = {} /\ degraded' = degraded
        BY <2>2, <3>1
      <3> QED
        BY <1>2, <3>2
    <2> QED
      BY <2>3, <2>4
  <1>4. CASE Take
    <2>1. Held' = Held /\ UNCHANGED <<outage, degraded, answer>>
      BY <1>4, HeldAfter DEF Take
    <2>2. Open' = Open /\ Served' = Served
      BY <2>1 DEF Open, Served
    <2> QED
      BY <1>1, <2>1, <2>2
  <1>5. CASE WriteSucceeds
    <2>1. outage' = {}
      BY <1>5 DEF WriteSucceeds
    <2> QED
      BY <1>2, <2>1
  <1>6. CASE WriteFails
    <2>1. /\ outage' = outage \cup (InFlight \cap Served) /\ degraded'
          /\ UNCHANGED <<queue, answer>> /\ writing' = Nothing
      BY <1>6 DEF WriteFails
    <2>2. Served' = Served /\ Held' = Queued /\ Held = Queued \cup InFlight
      BY <2>1 DEF Served, Held, Queued, InFlight
    <2>3. Open' \subseteq Open
      BY <2>1, <2>2 DEF Open
    <2> QED
      BY <1>1, <2>1, <2>2, <2>3
  <1>7. CASE StorageChanges \/ Start \/ StopBegins \/ DrainEnds \/ DrainTimesOut \/ StopEnds
    <2>1. /\ UNCHANGED <<outage, degraded, queue, answer>>
          /\ writing' \in {writing, Nothing}
      BY <1>7 DEF StorageChanges, Start, StopBegins, DrainEnds, DrainTimesOut, StopEnds
    <2>2. Served' = Served /\ Held' \subseteq Held
      BY <2>1 DEF Served, Held, Queued, InFlight
    <2>3. Open' \subseteq Open
      BY <2>1, <2>2 DEF Open
    <2> QED
      BY <1>1, <2>1, <2>2, <2>3
  <1> QED
    BY <1>3, <1>4, <1>5, <1>6, <1>7 DEF Next

LEMMA OpenInv == Inv /\ Inv' /\ OpenIsBounded /\ [Next]_vars => OpenIsBounded'
  <1>1. ASSUME Inv, Inv', OpenIsBounded, UNCHANGED vars
        PROVE  OpenIsBounded'
    BY <1>1 DEF vars, state, OpenIsBounded, Open, Held, Queued, InFlight, Served
  <1> QED
    BY <1>1, OpenStep

THEOREM Invariance == Spec => [](Inv /\ OpenIsBounded)
  BY InitInv, NextInv, OpenInv, PTL DEF Spec

\* TypeOK: submit never lets the queue outgrow its capacity, whatever the writer
\* and the storage do (audit/service.py:249-256).
THEOREM TypeCorrect == Spec => []TypeOK
  BY Invariance, PTL DEF Inv

\* LossIsBounded: with audit_fail_closed no more served requests lose their event
\* in an outage than the queue and the writer can hold (audit/service.py:38-45).
THEOREM LossBound == Spec => []LossIsBounded
  <1>1. OpenIsBounded => LossIsBounded
    BY DEF OpenIsBounded, Open, LossIsBounded
  <1> QED
    BY <1>1, Invariance, PTL

\* NoSilentLoss: the event of a served request is on its way, stored or counted,
\* but for one in flight when stop cancelled the writer (audit/service.py:191-221).
THEOREM NothingVanishes == Spec => []NoSilentLoss
  BY Invariance, PTL DEF Inv
=============================================================================
