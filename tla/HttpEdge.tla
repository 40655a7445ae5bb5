------------------------------- MODULE HttpEdge -------------------------------
(***************************************************************************)
(* The middleware around every handler (app/api/middleware.py, added in    *)
(* main.py) and the exception handlers (app/api/errors.py), for one        *)
(* request.  From the outside in: the server's own error layer,            *)
(* RequestIdMiddleware, MetricsMiddleware, BodySizeLimitMiddleware,        *)
(* SecurityHeadersMiddleware, the handlers of raised errors, the route.    *)
(* The route reads the body through counting_receive and answers through   *)
(* guarded_send, one message at a time.                                    *)
(***************************************************************************)
EXTENDS Integers, Sequences

CONSTANTS
    Calls,          \* [upload, declared, ends, reads, whole]: requests, see below
    MaxBytes,       \* max_request_bytes
    UploadMaxBytes, \* max_document_bytes and the overhead of multipart
    Absent, Malformed

\* ends[i] is where the i-th chunk that the server delivers ends in the body; declared is
\* the Content-Length, by which the server frames the body, Absent when it comes chunked;
\* reads says whether the route reads its body, whole after how many chunks the body is a
\* complete one already (padding follows).
ASSUME CallAssumption ==
    /\ MaxBytes \in Nat /\ UploadMaxBytes \in Nat /\ MaxBytes <= UploadMaxBytes
    /\ {Absent, Malformed} \cap Nat = {} /\ Absent # Malformed
    /\ \A c \in Calls : /\ c.upload \in BOOLEAN /\ c.reads \in BOOLEAN
                        /\ c.ends \in Seq(Nat) /\ c.whole \in 1..Len(c.ends)
                        /\ \A i, j \in 1..Len(c.ends) : i <= j => c.ends[i] <= c.ends[j]
                        /\ c.declared \in {c.ends[Len(c.ends)], Absent, Malformed}

VARIABLES
    message,        \* the request
    arrived,        \* how many of its chunks have been received
    received, exceeded, sentStart,  \* the locals of BodySizeLimitMiddleware.__call__
    held,           \* the bytes the route has been given
    route,          \* where the route is
    answer,         \* the status it answers with
    handled,        \* whether the handler has done its work
    wire,           \* what the server was told to send
    counted,        \* the statuses observe_request was called with
    inFlight        \* sgw_active_requests

edgeVars == <<message, arrived, received, exceeded, sentStart, held, route, answer, handled, wire, counted, inFlight>>

EdgeInit ==
    /\ message \in Calls
    /\ arrived = 0 /\ received = 0 /\ exceeded = FALSE /\ sentStart = FALSE
    /\ held = 0 /\ route = "arriving" /\ answer = 0 /\ handled = FALSE
    /\ wire = <<>> /\ counted = <<>> /\ inFlight = 0

LimitFor == IF message.upload THEN UploadMaxBytes ELSE MaxBytes

\* The headers of an answer: those of SecurityHeadersMiddleware, the two of an error's
\* own, and the request id where RequestIdMiddleware has seen the answer pass.
Start(status, headers) == [type |-> "start", status |-> status, headers |-> headers]
Body == [type |-> "body"]
Own == {"no-store", "nosniff"}
All == Own \cup {"frame-options", "referrer-policy", "permissions-policy"}

\* error_response, sent by _reject past every layer inside this one.
Rejected(status) == <<Start(status, Own \cup {"request-id"}), Body>>

\* An answer passes MetricsMiddleware: it is counted, and the gauge goes down, when it
\* starts.
Passes(status) == counted' = Append(counted, status) /\ inFlight' = inFlight - 1

TooLong == message.declared \in Nat /\ message.declared > LimitFor
Arrive ==
    /\ route = "arriving" /\ message.declared # Malformed /\ ~TooLong
    /\ inFlight' = inFlight + 1
    /\ route' = IF message.reads THEN "reading" ELSE "handling"
    /\ UNCHANGED <<message, arrived, received, exceeded, sentStart, held, answer, handled, wire, counted>>

RejectDeclared ==
    /\ route = "arriving" /\ (message.declared = Malformed \/ TooLong)
    /\ wire' = Rejected(IF TooLong THEN 413 ELSE 400)
    /\ counted' = Append(counted, wire'[1].status)
    /\ route' = "over"
    /\ UNCHANGED <<message, arrived, received, exceeded, sentStart, held, answer, handled, inFlight>>

EndOf(n) == IF n = 0 THEN 0 ELSE message.ends[n]

\* counting_receive: the chunk that passes the limit is replaced by an end of the body.
Receive ==
    LET size == EndOf(arrived + 1) - EndOf(arrived)
    IN  /\ route = "reading"
        /\ arrived' = arrived + 1
        /\ received' = received + size
        /\ exceeded' = (received' > LimitFor)
        /\ held' = IF exceeded' THEN held ELSE held + size
        /\ route' = IF exceeded' \/ arrived' = Len(message.ends) THEN "parsing" ELSE "reading"
        /\ UNCHANGED <<message, sentStart, answer, handled, wire, counted, inFlight>>

\* The body is valid, or RequestValidationError makes a 422 a 400 of the envelope.
Given == IF exceeded THEN arrived - 1 ELSE arrived
Parse ==
    /\ route = "parsing"
    /\ IF Given >= message.whole
       THEN route' = "handling" /\ UNCHANGED answer
       ELSE route' = "starting" /\ answer' = 400
    /\ UNCHANGED <<message, arrived, received, exceeded, sentStart, held, handled, wire, counted, inFlight>>

\* The handler answers, or raises an error that has a handler of its own: an upload that
\* this middleware lets through may be over the limit for documents.  (The other statuses
\* of the catalog go the way of the 404.)  Or it has done some of its work and raises an
\* error that has no handler.
Answers == {200, 404, 503} \cup {s \in {413} : message.upload /\ message.reads}
Handles ==
    /\ route = "handling"
    /\ handled' = TRUE
    /\ \/ route' = "starting" /\ answer' \in Answers
       \/ route' = "raising" /\ UNCHANGED answer
    /\ UNCHANGED <<message, arrived, received, exceeded, sentStart, held, wire, counted, inFlight>>

\* guarded_send.  Of an answer that is discarded, the first message is replaced by the
\* error and the rest dropped.
ForgetsIt == UNCHANGED sentStart                                           \* mutant
Remembers == sentStart' = TRUE
Replaces == exceeded /\ ~sentStart
SendStart ==
    /\ route = "starting"
    /\ Remembers
    /\ IF Replaces
       THEN wire' = wire \o Rejected(413) /\ Passes(413)
       ELSE /\ wire' = Append(wire, Start(answer, All \cup {"request-id"}))
            /\ Passes(answer)
    /\ route' = "sending"
    /\ UNCHANGED <<message, arrived, received, exceeded, held, answer, handled>>

SendBody ==
    /\ route = "sending"
    /\ wire' = CASE Replaces -> wire \o Rejected(413)
                 [] exceeded /\ ~Replaces -> wire
                 [] OTHER -> Append(wire, Body)
    /\ route' = "over"
    /\ UNCHANGED <<message, arrived, received, exceeded, sentStart, held, answer, handled, counted, inFlight>>

\* A download is streamed: the store, a frame or the checksum fails it after its start,
\* and the error passes every layer with nothing sent or counted that could take it back.
Streams == message.upload /\ ~message.reads /\ answer = 200
BreaksOff ==
    /\ route = "sending" /\ Streams
    /\ route' = "over"
    /\ UNCHANGED <<message, arrived, received, exceeded, sentStart, held, answer, handled, wire, counted, inFlight>>

\* An error nobody handles passes every layer; MetricsMiddleware counts it, and the
\* outermost one answers, without the headers the others would have set.
Raise ==
    /\ route = "raising"
    /\ Passes(500)
    /\ wire' = <<Start(500, Own), Body>>
    /\ route' = "over"
    /\ UNCHANGED <<message, arrived, received, exceeded, sentStart, held, answer, handled>>

EdgeNext ==
    \/ Arrive \/ RejectDeclared \/ Receive \/ Parse \/ Handles
    \/ SendStart \/ SendBody \/ BreaksOff \/ Raise

EdgeSpec == EdgeInit /\ [][EdgeNext]_edgeVars
-----------------------------------------------------------------------------
\* A request has one answer, of one status, however its body came and wherever it went
\* wrong: whole, unless it is a download that had begun well; that status is what the
\* metrics counted, once, and the gauge is back where it was; the route never held more
\* than its limit; a body whose excess it has met is answered 413 or 500; one within the
\* limit gets what the route made of it, and 413 only when the route says so; and no answer
\* may be kept by a cache (middleware.py:1-13, 137-145, observability/metrics.py:110-116).
OneAnswer ==
    /\ held <= LimitFor
    /\ inFlight \in {0, 1}
    /\ route = "over" =>
         /\ Len(wire) \in {1, 2} /\ wire[1].type = "start"
         /\ IF Len(wire) = 2 THEN wire[2] = Body ELSE Streams /\ wire[1].status = 200
         /\ counted = <<wire[1].status>> /\ inFlight = 0
         /\ EndOf(arrived) > LimitFor => wire[1].status \in {413, 500}
         /\ handled /\ EndOf(arrived) <= LimitFor => wire[1].status \in {answer, 500}
         /\ wire[1].status = 413 => answer = 413 \/ EndOf(Len(message.ends)) > LimitFor
         /\ Own \subseteq wire[1].headers

\* "Reject bodies over the configured limit before any expensive work"
\* (middleware.py:138), and "reject oversized bodies before detection, tokenization, or
\* a provider call can spend time on them" (7-8): who gets this middleware's 413 was not
\* served.
RefusedIsNotServed ==
    route = "over" /\ wire = Rejected(413) => ~handled
=============================================================================
