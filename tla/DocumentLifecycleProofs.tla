---------------------- MODULE DocumentLifecycleProofs ----------------------
(***************************************************************************)
(* Proofs about DocumentLifecycle, for any number of documents, deletions  *)
(* and downloads, and any failures and crashes.                            *)
(***************************************************************************)
EXTENDS DocumentLifecycle, TLAPS

\* What each call of an upload may rely on: nothing before the row, the row while
\* the object is put, the whole object when the row is marked.  Once an upload is
\* over only a deletion, which takes the object first, removes anything.
UploadKnows(d) ==
    /\ upload[d] = "new" => row[d] = "none" /\ object[d] = "absent"
    /\ upload[d] = "putting" => row[d] = "receiving" /\ object[d] # "whole"
    /\ upload[d] \in {"abandoning", "marking"} => row[d] = "receiving"
    /\ upload[d] = "recording" => row[d] = "receiving" /\ object[d] = "whole"
    /\ upload[d] = "failed" => /\ object[d] # "absent" => row[d] # "none"
                               /\ row[d] = "stored" => object[d] = "whole"
    /\ upload[d] = "returned" => /\ row[d] \in {"stored", "none"}
                                 /\ row[d] = "none" => d \in removed
                                 /\ IF d \in removed THEN object[d] = "absent"
                                                     ELSE object[d] = "whole"

\* A deletion has a document that an upload returned; its row goes only after the
\* object has, and an answer comes only after the row has gone.
DeletionKnows(t) ==
    deletion[t] # Idle =>
        /\ upload[deletion[t].document] = "returned"
        /\ deletion[t].step = "row" => deletion[t].document \in removed

RemovedKnows(d) ==
    /\ d \in removed => upload[d] = "returned" /\ object[d] = "absent"
    /\ d \in gone => d \in removed /\ row[d] = "none"

ReaderKnows(r) ==
    reader[r] # Idle =>
        /\ upload[reader[r].document] = "returned"
        /\ reader[r].step = "absent" => reader[r].document \in removed

Inv ==
    /\ TypeOK
    /\ \A d \in Documents : UploadKnows(d) /\ RemovedKnows(d)
    /\ \A t \in Deleters : DeletionKnows(t)
    /\ \A r \in Readers : ReaderKnows(r)

LEMMA InitInv == Init => Inv
  BY NoneAssumption DEF Init, Inv, TypeOK, UploadKnows, RemovedKnows, DeletionKnows,
     ReaderKnows, Idle, Busy, Statuses, Objects, Uploads

\* An upload's own calls: only its document changes, and no deletion or download
\* has it yet.
LEMMA UploadingInv ==
    ASSUME Inv, NEW d \in Documents, Uploading(d)
    PROVE  Inv'
  <1> USE DEF Inv, TypeOK, Set, Statuses, Objects, Uploads
  <1>1. upload[d] \notin {"returned", "failed"}
    BY DEF Uploading, Insert, PutPart, PutSucceeds, PutFails, AbandonObject, AbandonRow, Record
  <1>2. UNCHANGED <<deletion, reader, removed, gone>>
    BY DEF Uploading, Insert, PutPart, PutSucceeds, PutFails, AbandonObject, AbandonRow, Record
  <1>3. \A e \in Documents \ {d} : UNCHANGED <<row[e], object[e], upload[e]>>
    BY DEF Uploading, Insert, PutPart, PutSucceeds, PutFails, AbandonObject, AbandonRow,
           Record, WithoutObject
  <1>4. TypeOK'
    BY <1>2 DEF Uploading, Insert, PutPart, PutSucceeds, PutFails, AbandonObject, AbandonRow,
           Record, WithoutObject
  <1>5. d \notin removed /\ d \notin gone
    BY <1>1 DEF RemovedKnows
  <1>6. UploadKnows(d)'
    <2>1. CASE Insert(d)
      BY <2>1, <1>5 DEF Insert, UploadKnows
    <2>2. CASE PutPart(d)
      BY <2>2 DEF PutPart, UploadKnows
    <2>3. CASE PutSucceeds(d)
      BY <2>3 DEF PutSucceeds, UploadKnows
    <2>4. CASE PutFails(d)
      BY <2>4 DEF PutFails, UploadKnows
    <2>5. CASE AbandonObject(d)
      BY <2>5 DEF AbandonObject, UploadKnows
    <2>6. CASE AbandonRow(d)
      BY <2>6 DEF AbandonRow, UploadKnows
    <2>7. CASE Record(d)
      BY <2>7, <1>5 DEF Record, UploadKnows
    <2> QED
      BY <2>1, <2>2, <2>3, <2>4, <2>5, <2>6, <2>7 DEF Uploading
  <1>7. \A e \in Documents : UploadKnows(e)' /\ RemovedKnows(e)'
    BY <1>2, <1>3, <1>5, <1>6 DEF UploadKnows, RemovedKnows
  <1>8. \A t \in Deleters : DeletionKnows(t)'
    BY <1>1, <1>2, <1>3, NoneAssumption DEF DeletionKnows, Idle, Busy
  <1>9. \A r \in Readers : ReaderKnows(r)'
    BY <1>1, <1>2, <1>3, NoneAssumption DEF ReaderKnows, Idle, Busy
  <1> QED
    BY <1>4, <1>7, <1>8, <1>9

\* A deletion's calls, which touch the document it was asked for.
LEMMA DeletingInv ==
    ASSUME Inv, NEW t \in Deleters, Deleting(t)
    PROVE  Inv'
  <1> USE NoneAssumption DEF Inv, TypeOK, Set, Statuses, Objects, Uploads, Idle, Busy
  <1>1. CASE \E d \in Documents : DeleteFinds(t, d)
    <2> PICK d \in Documents : DeleteFinds(t, d)
      BY <1>1
    <2>1. \A e \in Documents : UploadKnows(e)'
      BY DEF DeleteFinds, UploadKnows
    <2>2. \A e \in Documents : RemovedKnows(e)'
      BY DEF DeleteFinds, RemovedKnows, UploadKnows, Known
    <2>3. \A u \in Deleters : DeletionKnows(u)'
      BY DEF DeleteFinds, DeletionKnows, Known
    <2>4. \A r \in Readers : ReaderKnows(r)'
      BY DEF DeleteFinds, ReaderKnows
    <2>5. TypeOK'
      BY DEF DeleteFinds
    <2> QED
      BY <2>1, <2>2, <2>3, <2>4, <2>5
  <1>2. CASE DeleteObject(t) \/ DeleteObjectFails(t)
    <2> DEFINE d == deletion[t].document
    <2>1. d \in Documents /\ upload[d] = "returned"
      BY <1>2 DEF DeleteObject, DeleteObjectFails, DeletionKnows
    <2>2. \/ object' = object /\ removed' = removed
          \/ object' = [object EXCEPT ![d] = "absent"] /\ removed' = removed \cup {d}
      BY <1>2, <2>1 DEF DeleteObject, DeleteObjectFails, WithoutObject, UploadKnows
    <2>3. \A e \in Documents : UploadKnows(e)'
      BY <1>2, <2>1, <2>2 DEF DeleteObject, DeleteObjectFails, UploadKnows
    <2>4. \A e \in Documents : RemovedKnows(e)'
      BY <1>2, <2>1, <2>2 DEF DeleteObject, DeleteObjectFails, RemovedKnows
    <2>5. \A u \in Deleters : DeletionKnows(u)'
      BY <1>2, <2>1 DEF DeleteObject, DeleteObjectFails, DeletionKnows
    <2>6. \A r \in Readers : ReaderKnows(r)'
      BY <1>2, <2>1, <2>2 DEF DeleteObject, DeleteObjectFails, ReaderKnows
    <2>7. TypeOK'
      BY <1>2, <2>1, <2>2 DEF DeleteObject, DeleteObjectFails
    <2> QED
      BY <2>3, <2>4, <2>5, <2>6, <2>7
  <1>3. CASE DeleteRow(t) \/ DeleteRowFails(t)
    <2> DEFINE d == deletion[t].document
    <2>1. d \in Documents /\ upload[d] = "returned" /\ d \in removed
      BY <1>3 DEF DeleteRow, DeleteRowFails, DeletionKnows
    <2>2. \A e \in Documents : UploadKnows(e)'
      BY <1>3, <2>1 DEF DeleteRow, DeleteRowFails, UploadKnows
    <2>3. \A e \in Documents : RemovedKnows(e)'
      BY <1>3, <2>1 DEF DeleteRow, DeleteRowFails, RemovedKnows
    <2>4. \A u \in Deleters : DeletionKnows(u)'
      BY <1>3 DEF DeleteRow, DeleteRowFails, DeletionKnows
    <2>5. \A r \in Readers : ReaderKnows(r)'
      BY <1>3 DEF DeleteRow, DeleteRowFails, ReaderKnows
    <2>6. TypeOK'
      BY <1>3, <2>1 DEF DeleteRow, DeleteRowFails
    <2> QED
      BY <2>2, <2>3, <2>4, <2>5, <2>6
  <1> QED
    BY <1>1, <1>2, <1>3 DEF Deleting

\* A download changes nothing but itself; it finds nothing only of a document whose
\* object a deletion has taken.
LEMMA ReadingInv ==
    ASSUME Inv, NEW r \in Readers, Downloading(r)
    PROVE  Inv'
  <1> USE NoneAssumption DEF Inv, TypeOK, Set, Statuses, Objects, Uploads, Idle, Busy
  <1>1. CASE \E d \in Documents : Open(r, d)
    BY <1>1 DEF Open, Known, UploadKnows, RemovedKnows, DeletionKnows, ReaderKnows
  <1>2. CASE Read(r)
    BY <1>2 DEF Read, UploadKnows, RemovedKnows, DeletionKnows, ReaderKnows
  <1> QED
    BY <1>1, <1>2 DEF Downloading

\* A crash leaves the row and the object as the call it interrupts found them.
LEMMA CrashInv ==
    ASSUME Inv, Crash
    PROVE  Inv'
  <1> USE NoneAssumption DEF Inv, TypeOK, Statuses, Objects, Uploads, Idle, Busy, Crash
  <1>1. TypeOK'
    BY DEF InProgress
  <1>2. \A d \in Documents : UploadKnows(d)' /\ RemovedKnows(d)'
    BY DEF UploadKnows, RemovedKnows, InProgress
  <1> QED
    BY <1>1, <1>2 DEF DeletionKnows, ReaderKnows

LEMMA NextInv == Inv /\ [Next]_vars => Inv'
  <1> SUFFICES ASSUME Inv, [Next]_vars PROVE Inv'
    OBVIOUS
  <1>1. CASE UNCHANGED vars
    BY <1>1 DEF vars, Inv, TypeOK, UploadKnows, RemovedKnows, DeletionKnows, ReaderKnows
  <1>2. CASE Next
    BY <1>2, UploadingInv, DeletingInv, ReadingInv, CrashInv DEF Next
  <1> QED
    BY <1>1, <1>2

THEOREM Invariance == Spec => []Inv
  BY InitInv, NextInv, PTL DEF Spec

\* TypeOK holds in every reachable state: no call of documents/service.py leaves a
\* row, an object or a request in a shape the others do not expect.
THEOREM TypeCorrect == Spec => []TypeOK
  BY Invariance, PTL DEF Inv

\* BytesHaveARow: however many uploads and deletions overlap, fail or crash, the
\* store holds nothing that no row names (documents/service.py:194-211).
THEOREM NothingUnnamed == Spec => []BytesHaveARow
  <1>1. Inv => BytesHaveARow
    BY DEF Inv, TypeOK, Uploads, Statuses, Objects, UploadKnows, BytesHaveARow
  <1> QED
    BY <1>1, Invariance, PTL

\* StoredIsThere: a row says stored only of a whole object, until a deletion has
\* taken that (documents/service.py:137-175).
THEOREM StoredIsWhole == Spec => []StoredIsThere
  <1>1. Inv => StoredIsThere
    BY DEF Inv, TypeOK, Uploads, UploadKnows, StoredIsThere
  <1> QED
    BY <1>1, Invariance, PTL

\* DeletedStaysGone: an answered deletion has left neither row nor object, and no
\* later call of any request brings one back (documents/service.py:186-211).
THEOREM DeletionIsFinal == Spec => []DeletedStaysGone
  <1>1. Inv => DeletedStaysGone
    BY DEF Inv, TypeOK, RemovedKnows, DeletedStaysGone
  <1> QED
    BY <1>1, Invariance, PTL

\* ReturnedIsReadable: what an upload has returned is stored and whole until a deletion
\* takes it, so a download that finds no object has met a deletion; store failures and
\* failed checks cut others (documents/service.py:163-184, 240-281, 324-348).
THEOREM AcknowledgedIsReadable == Spec => []ReturnedIsReadable
  <1>1. ASSUME Inv, NEW d \in Documents, upload[d] = "returned", d \notin removed
        PROVE  row[d] = "stored" /\ object[d] = "whole"
    BY <1>1 DEF Inv, UploadKnows
  <1>2. ASSUME Inv, NEW r \in Readers, reader[r].step = "absent"
        PROVE  reader[r].document \in removed
    BY <1>2, NoneAssumption DEF Inv, TypeOK, ReaderKnows, Idle, Busy
  <1>3. Inv => ReturnedIsReadable
    BY <1>1, <1>2 DEF ReturnedIsReadable
  <1> QED
    BY <1>3, Invariance, PTL
=============================================================================
