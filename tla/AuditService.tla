---------------------------- MODULE AuditService ----------------------------
(***************************************************************************)
(* The audit service: app/audit/service.py, a bounded queue between the    *)
(* requests and the table their events are written to.  Requests submit    *)
(* from the event loop, so a submit is one step; the writer and stop()     *)
(* wait in between, and what they wait for is a step of its own.           *)
(*                                                                         *)
(* A record is submitted at most once, by the request it describes, which  *)
(* is then answered: served, or rejected with AuditUnavailableError.       *)
(***************************************************************************)
EXTENDS Naturals, Sequences, FiniteSets

CONSTANTS
    Records,        \* the events of the requests that will be audited
    Capacity,       \* max_queue_size
    Nothing         \* the writer holds no record

ASSUME CapacityAssumption == Capacity \in Nat \ {0}
ASSUME NothingAssumption == Nothing \notin Records

VARIABLES
    failClosed,     \* audit_fail_closed, as configured: it never changes
    queue,          \* accepted records, in order
    writing,        \* the record the writer has taken and not finished
    running,        \* the writer task exists
    stopped,        \* submits are refused
    degraded,       \* a write failed and none has succeeded since
    shutdown,       \* where stop() waits: "no", "draining" or "cancelling"
    storage,        \* the audit table can be written to
    stored,         \* the records that are in the table
    counted,        \* the outcomes counted for each record
    answer,         \* what became of each record's request
    outage,         \* history: the served records lost since the last success
    interrupted     \* history: the records in flight when a writer was cancelled

state == <<queue, writing, running, stopped, degraded, shutdown,
                   storage, stored, counted, answer, outage, interrupted>>
vars == <<failClosed, state>>

Outcomes == {"enqueued", "written", "dropped", "rejected", "failed"}
Answers  == {"pending", "served", "rejected"}

Queued == {queue[n] : n \in 1..Len(queue)}
InFlight == {writing} \ {Nothing}
Held   == Queued \cup InFlight
Served == {r \in Records : answer[r] = "served"}

Count(r, outcome) == [counted EXCEPT ![r] = @ \cup {outcome}]

Init ==
    /\ failClosed \in BOOLEAN
    /\ queue = <<>>
    /\ writing = Nothing
    /\ running = FALSE
    /\ stopped = FALSE
    /\ degraded = FALSE
    /\ shutdown = "no"
    /\ storage = TRUE
    /\ stored = {}
    /\ counted = [r \in Records |-> {}]
    /\ answer = [r \in Records |-> "pending"]
    /\ outage = {}
    /\ interrupted = {}

-----------------------------------------------------------------------------
\* submit.  Rejected, or dropped from the trail, as the failure mode says.
Refuse(r) ==
    /\ counted' = Count(r, IF failClosed THEN "rejected" ELSE "dropped")
    /\ answer' = [answer EXCEPT ![r] = IF failClosed THEN "rejected" ELSE "served"]
    /\ UNCHANGED queue

\* Accepted; under degradation the request fails all the same, and its record
\* stays queued so that a successful write can end the degradation.
EnqueueAndServe(r) ==                                               \* mutant
    /\ queue' = Append(queue, r)
    /\ counted' = Count(r, "enqueued")
    /\ answer' = [answer EXCEPT ![r] = "served"]
Enqueue(r) ==
    /\ queue' = Append(queue, r)
    /\ IF degraded /\ failClosed
       THEN /\ counted' = [counted EXCEPT ![r] = @ \cup {"enqueued", "rejected"}]
            /\ answer' = [answer EXCEPT ![r] = "rejected"]
       ELSE /\ counted' = Count(r, "enqueued")
            /\ answer' = [answer EXCEPT ![r] = "served"]

Full == Len(queue) >= Capacity

\* Requests come in once the lifespan has started the service.
Submit(r) ==
    /\ running \/ stopped
    /\ answer[r] = "pending"
    /\ IF stopped \/ Full THEN Refuse(r) ELSE Enqueue(r)
    /\ UNCHANGED <<writing, running, stopped, degraded, shutdown,
                   storage, stored, outage, interrupted>>

-----------------------------------------------------------------------------
\* The writer: takes a record, waits for the sink, and calls task_done.
Take ==
    /\ running
    /\ shutdown # "cancelling"
    /\ writing = Nothing
    /\ queue # <<>>
    /\ writing' = Head(queue)
    /\ queue' = Tail(queue)
    /\ UNCHANGED <<running, stopped, degraded, shutdown, storage,
                   stored, counted, answer, outage, interrupted>>

\* A writer that was cancelled ends without seeing what its write came to.
Writing == writing # Nothing /\ shutdown # "cancelling"

WriteKeepingDegraded ==                                             \* mutant
    /\ Writing
    /\ storage
    /\ stored' = stored \cup {writing}
    /\ counted' = Count(writing, "written")
    /\ writing' = Nothing
    /\ UNCHANGED <<queue, running, stopped, degraded, shutdown, storage, answer,
                   outage, interrupted>>
WriteSucceeds ==
    /\ Writing
    /\ storage
    /\ stored' = stored \cup {writing}
    /\ counted' = Count(writing, "written")
    /\ degraded' = FALSE
    /\ outage' = {}
    /\ writing' = Nothing
    /\ UNCHANGED <<queue, running, stopped, shutdown, storage, answer, interrupted>>

WriteFailsUncounted ==                                              \* mutant
    /\ Writing
    /\ ~storage
    /\ degraded' = TRUE
    /\ outage' = outage \cup (InFlight \cap Served)
    /\ writing' = Nothing
    /\ UNCHANGED <<queue, running, stopped, shutdown, storage, stored, counted,
                   answer, interrupted>>
\* The record is not tried again.  The row may be there all the same, when the
\* answer to its commit was lost.
WriteFails ==
    /\ Writing
    /\ ~storage
    /\ stored' \in {stored, stored \cup InFlight}
    /\ counted' = Count(writing, "failed")
    /\ degraded' = TRUE
    /\ outage' = outage \cup (InFlight \cap Served)
    /\ writing' = Nothing
    /\ UNCHANGED <<queue, running, stopped, shutdown, storage, answer,
                   interrupted>>

\* The database goes down or comes back.
StorageChanges ==
    /\ storage' = ~storage
    /\ UNCHANGED <<queue, writing, running, stopped, degraded, shutdown,
                   stored, counted, answer, outage, interrupted>>

-----------------------------------------------------------------------------
Start ==
    /\ ~running
    /\ running' = TRUE
    /\ stopped' = FALSE
    /\ UNCHANGED <<queue, writing, degraded, shutdown, storage, stored,
                   counted, answer, outage, interrupted>>

\* stop(), up to its first wait.  With an empty queue there is no drain, even
\* while the writer is in the middle of a write.
StopBegins ==
    /\ shutdown = "no"
    /\ stopped' = TRUE
    /\ shutdown' = IF ~running THEN "no"
                   ELSE IF queue # <<>> THEN "draining" ELSE "cancelling"
    /\ UNCHANGED <<queue, writing, running, degraded, storage, stored, counted,
                   answer, outage, interrupted>>

\* queue.join() returns once every record taken has been finished.
DrainEnds ==
    /\ shutdown = "draining"
    /\ queue = <<>> /\ writing = Nothing
    /\ shutdown' = "cancelling"
    /\ UNCHANGED <<queue, writing, running, stopped, degraded, storage,
                   stored, counted, answer, outage, interrupted>>

DrainNeverTimesOut == FALSE                                         \* mutant
DrainTimesOut ==
    /\ shutdown = "draining"
    /\ shutdown' = "cancelling"
    /\ UNCHANGED <<queue, writing, running, stopped, degraded, storage, stored,
                   counted, answer, outage, interrupted>>

\* The writer is cancelled where it waits.  A write that was under way may or
\* may not have been committed, and nobody counts it.  What is still queued is
\* counted as dropped.
StopWithoutCounting ==                                              \* mutant
    /\ shutdown = "cancelling"
    /\ running' = FALSE
    /\ stored' \in {stored, stored \cup InFlight}
    /\ interrupted' = interrupted \cup InFlight
    /\ writing' = Nothing
    /\ shutdown' = "no"
    /\ UNCHANGED <<queue, stopped, degraded, storage, counted, answer, outage>>
StopEnds ==
    /\ shutdown = "cancelling"
    /\ running' = FALSE
    /\ stored' \in {stored, stored \cup InFlight}
    /\ interrupted' = interrupted \cup InFlight
    /\ writing' = Nothing
    /\ counted' = [r \in Records |->
                     IF r \in Queued THEN counted[r] \cup {"dropped"} ELSE counted[r]]
    /\ shutdown' = "no"
    /\ UNCHANGED <<queue, stopped, degraded, storage, answer, outage>>

Next ==
    /\ \/ \E r \in Records : Submit(r)
       \/ Take \/ WriteSucceeds \/ WriteFails
       \/ StorageChanges
       \/ Start \/ StopBegins \/ DrainEnds \/ DrainTimesOut \/ StopEnds
    /\ UNCHANGED failClosed

\* The event loop resumes a writer that has a record and a join that is over,
\* wait_for fires its timeout, and a cancelled writer ends.  A write against a
\* database that is up comes back; one against a database that is down may hang.
Fairness ==
    /\ WF_state(Take)
    /\ WF_state(WriteSucceeds)
    /\ WF_state(DrainEnds)
    /\ WF_state(DrainTimesOut)
    /\ WF_state(StopEnds)

Spec == Init /\ [][Next]_vars /\ Fairness

-----------------------------------------------------------------------------
\* The state has its shape, and submit never lets the queue outgrow its bound
\* (service.py:250).
TypeOK ==
    /\ failClosed \in BOOLEAN
    /\ queue \in Seq(Records) /\ Len(queue) <= Capacity
    /\ writing \in Records \cup {Nothing}
    /\ running \in BOOLEAN /\ stopped \in BOOLEAN /\ degraded \in BOOLEAN
    /\ shutdown \in {"no", "draining", "cancelling"}
    /\ storage \in BOOLEAN
    /\ stored \subseteq Records
    /\ counted \in [Records -> SUBSET Outcomes]
    /\ answer \in [Records -> Answers]
    /\ outage \subseteq Records /\ interrupted \subseteq Records

\* What a served request can lose.  When audit fails closed, the requests served
\* whose events were lost since the last write that succeeded, with those whose
\* events are still waiting, never outnumber the queue and the record in flight:
\* degradation stops the serving in time (service.py:38-45, 258-270).
LossIsBounded ==
    failClosed => Cardinality(outage \cup (Held \cap Served)) <= Capacity + 1

\* No event vanishes silently: that of a served request is on its way, in the
\* table, or counted as failed or dropped; once stop() has returned nothing is
\* on its way.  The one exception is the record in flight when stop() cancelled
\* the writer (service.py:191-221, 300-323).
Settled(r) == \/ r \in Held /\ ~(stopped /\ ~running)
              \/ r \in stored
              \/ counted[r] \cap {"failed", "dropped"} # {}
NoSilentLoss == \A r \in Served : Settled(r) \/ r \in interrupted

\* "Storage coming back clears the state without a restart" (service.py:42): a
\* degraded service that holds a record leaves the degraded state, unless the
\* storage goes away again or the service is stopped.
Recovers == degraded /\ Held # {} /\ running ~> ~degraded \/ ~storage \/ stopped

\* "Shutdown must complete even when the audit database is the thing that is
\* broken" (service.py:195): a stop that has begun ends.
ShutdownCompletes == shutdown # "no" ~> ~running
=============================================================================
