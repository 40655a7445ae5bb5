-------------------------- MODULE DocumentLifecycle --------------------------
(***************************************************************************)
(* Stored documents: DocumentService (app/documents/service.py) over its   *)
(* metadata table and an S3-compatible store.  An upload, a deletion and a *)
(* download each make several calls to the two, any of which may fail with *)
(* or without effect; the process may crash between any two.               *)
(*                                                                         *)
(* A document's id is returned by the upload that succeeds and by nothing  *)
(* else, so only such a document is ever read or deleted.                  *)
(***************************************************************************)
EXTENDS FiniteSets

CONSTANTS
    Documents,      \* the documents of the uploads that will be made
    Deleters,       \* concurrent DELETE requests
    Readers,        \* concurrent downloads
    None

ASSUME NoneAssumption == None \notin Documents

VARIABLES
    row,            \* each document's row: its status, or "none"
    object,         \* what the store holds of it: "absent", "parts" or "whole"
    upload,         \* where its upload is
    deletion,       \* each deletion: its document and its next call
    reader,         \* each download: its document and how it went
    removed,        \* history: documents whose object a deletion has removed
    gone            \* history: documents whose deletion was answered

vars == <<row, object, upload, deletion, reader, removed, gone>>

Statuses == {"none", "receiving", "stored", "failed"}
Objects  == {"absent", "parts", "whole"}
Uploads  == {"new", "putting", "abandoning", "marking", "recording",
             "returned", "failed"}
InProgress == {"putting", "abandoning", "marking", "recording"}

Busy(d, step) == [document |-> d, step |-> step]
Idle == Busy(None, "idle")

Init ==
    /\ row = [d \in Documents |-> "none"]
    /\ object = [d \in Documents |-> "absent"]
    /\ upload = [d \in Documents |-> "new"]
    /\ deletion = [t \in Deleters |-> Idle]
    /\ reader = [r \in Readers |-> Idle]
    /\ removed = {} /\ gone = {}

Set(f, d, value) == [f EXCEPT ![d] = value]

-----------------------------------------------------------------------------
\* store: the row first, as receiving.
Insert(d) ==
    /\ upload[d] = "new"
    /\ \/ row' = Set(row, d, "receiving") /\ upload' = Set(upload, d, "putting")
       \/ row' \in {row, Set(row, d, "receiving")} /\ upload' = Set(upload, d, "failed")
    /\ UNCHANGED <<object, deletion, reader, removed, gone>>

\* put: a large body goes up in parts, which become the object when they are
\* completed.
PutPart(d) ==
    /\ upload[d] = "putting"
    /\ object[d] = "absent"
    /\ object' = Set(object, d, "parts")
    /\ UNCHANGED <<row, upload, deletion, reader, removed, gone>>

PutSucceeds(d) ==
    /\ upload[d] = "putting"
    /\ object' = Set(object, d, "whole")
    /\ upload' = Set(upload, d, "recording")
    /\ UNCHANGED <<row, deletion, reader, removed, gone>>

\* The body is refused half way, the store fails, or the client goes away: the
\* parts are aborted if the store lets them be.  When the answer was lost the
\* object may be complete.
PutFailsUnnoticed(d) ==                                             \* mutant
    /\ upload[d] = "putting"
    /\ object' \in {Set(object, d, "absent"), object, Set(object, d, "whole")}
    /\ upload' = Set(upload, d, "recording")
    /\ UNCHANGED <<row, deletion, reader, removed, gone>>
PutFails(d) ==
    /\ upload[d] = "putting"
    /\ object' \in {Set(object, d, "absent"), object, Set(object, d, "whole")}
    /\ upload' = Set(upload, d, "abandoning")
    /\ UNCHANGED <<row, deletion, reader, removed, gone>>

\* delete_object removes an object and knows nothing of parts.
WithoutObject(d) == IF object[d] = "parts" THEN object ELSE Set(object, d, "absent")

\* _abandon: the object, failures suppressed, then the status.
AbandonObject(d) ==
    /\ upload[d] = "abandoning"
    /\ object' \in {object, WithoutObject(d)}
    /\ upload' = Set(upload, d, "marking")
    /\ UNCHANGED <<row, deletion, reader, removed, gone>>

AbandonRow(d) ==
    /\ upload[d] = "marking"
    /\ row' \in {row, Set(row, d, "failed")}
    /\ upload' = Set(upload, d, "failed")
    /\ UNCHANGED <<object, deletion, reader, removed, gone>>

\* mark_stored; nothing cleans up when it fails.
RecordAnyway(d) ==                                                  \* mutant
    /\ upload[d] = "recording"
    /\ row' \in {row, Set(row, d, "stored")} /\ upload' = Set(upload, d, "returned")
    /\ UNCHANGED <<object, deletion, reader, removed, gone>>
Record(d) ==
    /\ upload[d] = "recording"
    /\ \/ row' = Set(row, d, "stored") /\ upload' = Set(upload, d, "returned")
       \/ row' \in {row, Set(row, d, "stored")} /\ upload' = Set(upload, d, "failed")
    /\ UNCHANGED <<object, deletion, reader, removed, gone>>

-----------------------------------------------------------------------------
Known(d) == upload[d] = "returned"

\* delete: the row is looked up, the object removed, then the row.
DeleteFinds(t, d) ==
    /\ deletion[t] = Idle
    /\ Known(d)
    /\ IF row[d] = "none"
       THEN gone' = gone \cup {d} /\ UNCHANGED deletion
       ELSE deletion' = Set(deletion, t, Busy(d, "object")) /\ UNCHANGED gone
    /\ UNCHANGED <<row, object, upload, reader, removed>>

DeleteObject(t) ==
    /\ deletion[t].step = "object"
    /\ LET d == deletion[t].document
       IN /\ object' = WithoutObject(d)
          /\ removed' = removed \cup {d}
          /\ deletion' = Set(deletion, t, Busy(d, "row"))
    /\ UNCHANGED <<row, upload, reader, gone>>

DeleteObjectSuppressed(t) ==                                        \* mutant
    /\ deletion[t].step = "object"
    /\ deletion' = Set(deletion, t, Busy(deletion[t].document, "row"))
    /\ UNCHANGED <<row, object, upload, reader, removed, gone>>
\* The store does not answer: the request fails, and the row stays.
DeleteObjectFails(t) ==
    /\ deletion[t].step = "object"
    /\ LET d == deletion[t].document
       IN \/ UNCHANGED <<object, removed>>
          \/ object' = WithoutObject(d) /\ removed' = removed \cup {d}
    /\ deletion' = Set(deletion, t, Idle)
    /\ UNCHANGED <<row, upload, reader, gone>>

DeleteRow(t) ==
    /\ deletion[t].step = "row"
    /\ LET d == deletion[t].document
       IN row' = Set(row, d, "none") /\ gone' = gone \cup {d}
    /\ deletion' = Set(deletion, t, Idle)
    /\ UNCHANGED <<object, upload, reader, removed>>

DeleteRowFailsAnswered(t) ==                                        \* mutant
    /\ deletion[t].step = "row"
    /\ row' \in {row, Set(row, deletion[t].document, "none")}
    /\ gone' = gone \cup {deletion[t].document}
    /\ deletion' = Set(deletion, t, Idle)
    /\ UNCHANGED <<object, upload, reader, removed>>
DeleteRowFails(t) ==
    /\ deletion[t].step = "row"
    /\ row' \in {row, Set(row, deletion[t].document, "none")}
    /\ deletion' = Set(deletion, t, Idle)
    /\ UNCHANGED <<object, upload, reader, removed, gone>>

-----------------------------------------------------------------------------
\* open answers for a stored document.  Its body is asked for once the response has
\* begun, which breaks off when the object is not there, and also when the store
\* fails, a frame does not authenticate or the checksum is another one: as nothing
\* says when, a download may be cut wherever it is.
Open(r, d) ==
    /\ reader[r].step \in {"idle", "read", "absent", "cut"}
    /\ Known(d)
    /\ row[d] = "stored"
    /\ reader' = Set(reader, r, Busy(d, "begun"))
    /\ UNCHANGED <<row, object, upload, deletion, removed, gone>>

\* get_object: what it has begun to send is sent on, though the object be deleted.
Read(r) ==
    /\ \/ /\ reader[r].step = "begun"
          /\ LET d == reader[r].document
             IN \E s \in {IF object[d] = "whole" THEN "reading" ELSE "absent", "cut"} :
                    reader' = Set(reader, r, Busy(d, s))
       \/ /\ reader[r].step = "reading"
          /\ \E s \in {"read", "cut"} :
                 reader' = Set(reader, r, Busy(reader[r].document, s))
    /\ UNCHANGED <<row, object, upload, deletion, removed, gone>>

\* The process dies, and with it every request.
Crash ==
    /\ upload' = [d \in Documents |-> IF upload[d] \in InProgress THEN "failed" ELSE upload[d]]
    /\ deletion' = [t \in Deleters |-> Idle]
    /\ reader' = [r \in Readers |-> Idle]
    /\ UNCHANGED <<row, object, removed, gone>>

Uploading(d) ==
    \/ Insert(d) \/ PutPart(d) \/ PutSucceeds(d) \/ PutFails(d)
    \/ AbandonObject(d) \/ AbandonRow(d) \/ Record(d)

Deleting(t) ==
    \/ \E d \in Documents : DeleteFinds(t, d)
    \/ DeleteObject(t) \/ DeleteObjectFails(t)
    \/ DeleteRow(t) \/ DeleteRowFails(t)
Downloading(r) == (\E d \in Documents : Open(r, d)) \/ Read(r)

Next ==
    \/ \E d \in Documents : Uploading(d)
    \/ \E t \in Deleters : Deleting(t)
    \/ \E r \in Readers : Downloading(r)
    \/ Crash

Spec == Init /\ [][Next]_vars

-----------------------------------------------------------------------------
\* The state has its shape, and a request in progress has a document.
TypeOK ==
    /\ row \in [Documents -> Statuses]
    /\ object \in [Documents -> Objects]
    /\ upload \in [Documents -> Uploads]
    /\ deletion \in [Deleters -> {Idle} \cup
                        [document : Documents, step : {"object", "row"}]]
    /\ reader \in [Readers -> {Idle} \cup
                      [document : Documents, step : {"begun", "reading", "read", "absent", "cut"}]]
    /\ removed \subseteq Documents /\ gone \subseteq Documents

\* "The other order can leave bytes in the bucket with nothing left pointing at
\* them" (documents/service.py:194-196): whatever fails, whatever deletions
\* overlap, a row names every object and every part the store holds.
BytesHaveARow == \A d \in Documents : object[d] # "absent" => row[d] # "none"

\* "Only once the object is complete does the row become stored" (service.py:12):
\* a stored row has its whole object, until a deletion takes that first.
StoredIsThere ==
    \A d \in Documents : row[d] = "stored" => object[d] = "whole" \/ d \in removed

\* A deletion that was answered has left nothing, whatever else was going on, and
\* nothing brings the document back: "the document is gone, whether or not it ever
\* existed" (api/v1/documents.py:255).
DeletedStaysGone == \A d \in gone : row[d] = "none" /\ object[d] = "absent"

\* An upload whose caller has its id can be read until a deletion takes its object:
\* the row is stored and the object whole, and no download, however it overlaps with
\* uploads, deletions, failures and crashes, finds nothing behind a stored row but
\* where a deletion has been (service.py:163-184, 240-281).
ReturnedIsReadable ==
    /\ \A d \in Documents :
          upload[d] = "returned" /\ d \notin removed => row[d] = "stored" /\ object[d] = "whole"
    /\ \A r \in Readers : reader[r].step = "absent" => reader[r].document \in removed
=============================================================================
