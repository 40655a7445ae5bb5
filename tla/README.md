# Verification of AIPrivacyGateway

The gateway stands between an application and a language-model provider. It
detects personal values in a request, replaces them by tokens whose originals
are kept in an encrypted vault, scans what it is about to send, calls the
provider, puts the originals back into the answer, and writes an audit event.
This directory holds TLA+ models of the parts of the service where order,
concurrency and failure matter, the TLC runs that check them on small instances,
and TLAPS proofs of the most important properties for instances of any size.

Paths below are relative to `src/`; `app/` is the Python service.

## 1. Inventory

### Components with state

**Token vault** (`app/vault`, ids from `app/tokenization/ids.py`).
State: in Redis, per tenant and session, a sealed record per token, an index entry per fingerprint
of a value, and a meta set of every key of the session; each has a TTL.
Operations: `get_or_create_many` (one Lua script), `resolve_many` (one MGET),
`delete_session` (SMEMBERS, then DELs in a MULTI block).
Hard: a batch between the two steps of a deletion; three TTLs that end at
different times; policies that ask for different TTLs in one session; replies
that are lost after the script ran.
Correct when: an index entry names its own value's token and never outlives the
record; a value keeps its token; a session resolves its own tokens only; a
deletion reaches every key.

**Audit service** (`app/audit`, wired by `app/api/composition.py`).
State: a bounded in-memory queue, a writer task, the `degraded` and `stopped`
flags, counters of outcomes; the audit table.
Operations: `submit` (from a request, never waiting), the writer loop, `start`,
`stop` with drain, timeout and cancellation.
Hard: storage goes down after requests were answered; a stop during a write; a
commit whose reply is lost; fail-closed and fail-open.
Correct when: losses are bounded and counted, a fail-closed gateway stops
serving in an outage and starts again after it, and shutdown ends.

**Policy lifecycle** (`app/api/v1/policies.py`, `app/repositories/policies.py`;
the document itself in `app/policy`). State: the versions of a policy in one table, each a draft or published, at most
one active.
Operations: create a draft, patch it, discard it, publish it; each a transaction
of several statements at READ COMMITTED, without row locks on what it reads.
Hard: two operators whose statements interleave.
Correct when: one draft and one active version at most, published versions
immutable, the version in force the last one published.

**Policy resolution** (`app/policy/service.py`).
State: one cached snapshot per tenant with an expiry.
Operations: `snapshot_for`: answer from the cache or await a query and fill it.
Hard: the query is awaited between the reading of the clock and the fill, so
fills overtake each other and publications.
Correct when: what it answers with was in force less than a TTL ago, and is a
published version unchanged.

**Document storage** (`app/documents/service.py`, `repository.py`,
`storage/s3.py`). State: a metadata row per document, an object (or multipart
parts) per document in an S3-compatible store, and where each request is.
Operations: upload (row, parts, object, status), delete (object, row), download
(row, then body). Hard: two systems without a common transaction; any call may
fail with or without effect; crashes; overlapping deletions and downloads.
Correct when: no bytes without a row, a stored row has its object, a deletion
that was answered is final.

**Secure pipeline** (`app/pipeline`, with `app/outbound`, `app/tokenization`,
`app/restoration`). State: per request, the snapshot, detections, protected
messages, the provider's reply; shared, the vault, the semaphore of provider
calls, the audit service. Operations: the stages of `invoke`: policy, detection,
guards, tokenization, outbound scan, provider call, restoration, audit record.
Hard: requests of one session interleave; each stage can fail, run into its
deadline or be cancelled, and a vault batch that is cancelled may be carried out
all the same; records expire between tokenization and restoration.
Correct when: what was found in a message is protected in it, one value has one
token in all a session sends, nothing refused is sent, mappings are kept before they are used, answers hold the session's own values
only, slots come back, what is served is recorded, every request ends.

**Document pipeline** (`app/documents/pipeline.py`, `protection.py`,
`processing.py`, `analysis/`, `extraction/runner.py`). State: per request, a
snapshot it is routed, scanned and recorded under and another it is protected
under; the spans of document and instruction, the payload, the provider's
attempts; shared, the vault, the places of the extraction pool and of detection,
the child processes. Operations: authorize, extract in a subprocess, detect every
segment in threads, protect the document and then the instruction, scan, call the
provider with retries under a deadline, restore, write the attestation.
Hard: two snapshots of one request; a cancelled coroutine whose thread and child
run on; the first failure of a task group while others still run; a back-off that
ends after the deadline; a failure after the mappings were written.
Correct when: no occurrence reported with the score its snapshot asks for leaves in
clear unless a reading the snapshot allows was kept at its place, what is refused
leaves nothing, what is served has an attestation, every request
ends.

**Document text** (`app/documents/extraction/extractors.py`,
`segmentation.py`, `analysis/spans.py`, `app/detection`,
`app/tokenization/selection.py`): extraction, cutting into overlapping segments,
promotion and merging of hits, two overlap rules, two thresholds.
Hard: offsets and boundaries. Correct when: page ranges fall on their text,
segments cover it without a gap and end, and what is dropped is dropped for
something at least as severe. That this is then acted on is what finding 2 refutes.

**Sealed documents** (`app/documents/crypto.py`). State: the chunk in hand, its
index, the buffer of a stream whose blocks have any size. Hard: truncation,
reordering, a final chunk that is or is not full, a header across blocks. Correct
when what is released is what was sealed, up to the point of failure.

**Admission** (`app/auth`): the key lookup, the **rate limiter**
(`rate_limit.py`, two sliding logs in Redis under WATCH and MULTI), the
**last-used tracker** (`last_used.py`, a bounded LRU of claims), and the two
connections each request takes from one pool. Hard: transactions that overlap,
an EXEC whose reply is lost, a claim before its write, requests that hold one
connection while they wait for another, or for a row. Correct when: no window
lets in more than its limit, the wait a caller is told is enough, writes are
bounded by the interval, and nobody waits for good.

**HTTP edge** (`app/api/middleware.py`, `errors.py`). State, per request: bytes
counted, what has been sent, what is counted. Hard: a body that grows past its
limit while it is read, a download that fails after its answer has begun, an upload
that is refused with 413 by its route and not by the limit. Correct when each
request has one answer, counted once, and whole unless it is such a download.

**Process life** (`app/config/settings.py`, `app/api/composition.py`, `main.py`,
`api/v1/health.py`). State: which handles are open, the agenda of start and stop.
Hard: one step of several failing, two first users of a lazily opened client, a
start that fails half way. Correct when production has the keys it seals with and
what a stopped process leaves open is accounted for.

**Policy page** (`frontend/app/policies/[policyName]/page.tsx`,
`frontend/components/policy`, `frontend/lib/policies.ts`). State: rules and
settings as loaded and edited, dialog, calls in flight. Hard: edits while calls
run, another client between the save and the publish, two loads. Correct when
Confirm puts in force what was on screen, and the comparison it rests on shows
every difference that changes what is protected.

### Components without state of their own

Normalization, fingerprints and restoration's substitution are pure functions
and are modelled where their callers are. Privacy preview, audit queries,
migrations, scripts and the read-only pages change no state; section 6 says what
is left out. `PROJECT.json` lists every component with its status.

### How they interact

A request passes the HTTP edge and admission, resolves its policy through the
policy cache (twice, if it is about a document), writes to and reads from the
vault, holds a provider slot or a detection place during the call, and ends by
submitting its audit event or writing its attestation. Operators change policies,
by the page or the API, while requests hold snapshots. Shutdown stops the audit
service after the last request. Documents are stored and deleted independently of
the pipeline that reads them.

## 2. Modules

| Module | Models | Checked by | Proved in |
|---|---|---|---|
| `TokenVault` | vault over Redis | `MCTokenVault` | `TokenVaultProofs` |
| `AuditService` | queue, writer, start and stop | `MCAuditService` | `AuditServiceProofs` |
| `PublishedHistory` | abstract: an append-only history, the last in force | refined by `PolicyResolution` | `PolicyProofs` |
| `PolicyLifecycle` | the four writing handlers | `MCPolicyLifecycle` | `PolicyProofs` |
| `PolicyResolution` | the cache, over `PolicyLifecycle` | `MCPolicyResolution` | `PolicyProofs` |
| `PolicyDocument` | the schema, validation, summary and diff of a policy | with `PolicyEditor` | `PolicyProofs` |
| `PolicyEditor` | the page that edits and publishes | `MCPolicyLifecycle` | `PolicyProofs` |
| `DocumentLifecycle` | upload, delete, download | `MCDocumentLifecycle` | `DocumentLifecycleProofs` |
| `ProtectedExchange` | abstract: keep mappings, send, answer | refined by both pipelines | with each pipeline |
| `SecurePipeline` | the chat path, concurrent requests | `MCSecurePipeline` | `SecurePipelineProofs` |
| `DocumentAnalysis` | extraction pool and detection task group | with `DocumentPipeline` | `DocumentPipelineProofs` |
| `DocumentPipeline` | the document path, over `DocumentAnalysis` | `MCDocumentPipeline` | `DocumentPipelineProofs` |
| `Extraction` | text and pages of a parsed file | `MCParts` | `PartsProofs` |
| `Segmentation` | the cutting loop | `MCParts` | `PartsProofs` |
| `SpanSelection` | from hits to the spans that are spliced | `MCParts` | `PartsProofs` |
| `SealedStream` | sealing in chunks, opening of a tampered stream | `MCParts` | `PartsProofs` |
| `RateLimiter` | `acquire` under WATCH and MULTI | `MCParts` | `PartsProofs` |
| `Admission` | authentication, tracker, pool, row lock | `MCAdmission` | `AdmissionProofs` |
| `HttpEdge` | the middleware and the exception handlers | `MCAdmission` | `AdmissionProofs` |
| `Lifespan` | settings, construction, start, probe, stop | `MCAdmission` | `AdmissionProofs` |

`MCParts`, `MCAdmission` and `MCPolicyLifecycle` join components that do not
touch each other: a behaviour is one of them at work while the others stay as
they began, so the states add up instead of multiplying.

A definition marked `mutant` in a module is no part of its specification: it is
a plausible wrong version of the definition beside it, and `PROJECT.json` names
the property that each one breaks.

**TokenVault.** `ttl`, `pointer`, `sealed` and `members` are the Redis keys; a
key whose time is 0 does not exist. `GetOrCreateMany` is the Lua script: it
reuses a fingerprint's id while entry and record live, mints an id otherwise,
and extends each key's TTL to the batch's, never shortening a record. A failed
authentication fails the whole `ResolveMany`. `ReadMembers` and `DeleteMembers`
are the two steps of `delete_session`, with everything else in between. `Tick`
takes a unit from every TTL. A call that fails before its script ran changes
nothing, and one whose reply is lost looks like one that succeeded.

**AuditService.** A `Submit` is one step, as there is no await in `submit`; the
writer's take and the end of its write are separate steps, and `StopBegins`,
`DrainEnds`, `DrainTimesOut` and `StopEnds` are the stretches of `stop` between
awaits. A failed write may have committed. `outage` and `interrupted` are
history variables that only the properties read.

**PolicyLifecycle.** One tenant, one policy name. Each SELECT is a step that sees
what is committed; flush and commit are one step, because the row locks of the
flush are held until the commit. Rows the ORM has loaded keep their attributes,
and UPDATE and DELETE go by primary key, which is what lets a stale handler write
over a row that was published meanwhile. Unique indexes make a write fail.

**PolicyResolution** extends it with the cache and lookups; the clock is read in
`Miss`, the query runs in `Query`, and the answer is stored in `Fill`.

**DocumentLifecycle.** Each call to table or store is a step, with outcomes
success, failure without effect and failure with effect. A large upload is parts
until it is completed, and `delete_object` knows nothing of parts. `Crash` ends
every request where it is.

**SecurePipeline.** One step per stretch between awaits. A text is a set of
pieces: plain values, tokens, redactions, surrogates; a value occurs once in it, so that
which occurrence a span covers is not told apart here (it is in `DocumentAnalysis`). Detection reports any
subset of what is there, the scan finds any subset of what it would act on, and
the provider answers with any tokens, its own inventions included. The
vault is `TokenVault` as a caller sees it: ids are fresh, a batch reuses or mints
one id per value and session, and records go at any time (`Forget`). The audit
service is what `submit` can do to a caller in either failure mode. `Fails`,
`Deadline` and `Cancel` end a stage; only the first two are reported.

**DocumentAnalysis and DocumentPipeline.** One step per stretch between awaits.
A text is a set of occurrences, places at which the detector may report an entity with
a score; two readings of the same characters are two occurrences that overlap. A value
may occur in several places and is its own entity type. A document is a sequence of
segments, each detected in a thread that outlives its coroutine; an occurrence at the
cut of two segments lies in both, and one detection may report it, or a reading that
overlaps it, and the other not. `Reports` is what `finalize` may return for a text: any hits, no two
of which overlap. `Label` merges the reports, drops what scores less than the snapshot
asks for and takes any resolution of what overlaps; `Protected` splices at the spans that
are left. So a weak hit, or an occurrence that is not reported at its place, stays in
clear though the same value is replaced elsewhere. An occurrence that a replaced
span covers in part counts as gone: the uncovered rest is in `SpanSelection`,
as the hazard at `tokenization/selection.py:55` has it.
`reported` remembers what any segment's detection said, so a merge that loses a
span shows. The two snapshots are chosen apart, as the two calls of `snapshot_for`
may answer differently. An adapter's attempts, back-off and overall deadline are
steps; a transport may fail with or without having been sent.

**Extraction, Segmentation, SpanSelection, SealedStream.** One step per round of
the loop in the code: a page, a segment, a stage of the selection, a frame read or
released. In `SealedStream` a frame opens for the index and the finality it was sealed
with and for nothing else; what the store returns is any sequence of frames, cut
at any byte and delivered in blocks of any size.

**RateLimiter.** A round trip to Redis is a step; ZREMRANGEBYSCORE, ZCARD and
ZRANGE of both buckets are one, because a change between them sends the
transaction back as a change after them does. `stale` is what Redis marks under
WATCH. `LosesReply` is an EXEC that took effect and runs again with a new member.

**Admission.** A request holds one connection from the key lookup to the end and
takes a second one for its handler; `rowLock` is the lock of the uncommitted
`last_used_at`. **HttpEdge** sends and receives message by message, from the outermost
layer in; a body is given by where each of its chunks ends. **Lifespan** runs one process through its validators, constructors,
start and stop; a constructor or a close may fail, and two users may find the
object store's client unopened at once.

**PolicyEditor.** A click runs a list of calls, each of which may be refused or
fail before or after the API has done it; the document a list saves is the one on
screen at the click. `PolicyDocument` is what the server and the browser compute
from a document: problems, the risky changes, the diff with its rounding.

## 3. Runs

| Run | Instance | Question |
|---|---|---|
| `vault` | 2 sessions, 3 originals over 2 fingerprints, 2 ids, TTLs 0..3 with a maximum of 2, 2 deletions | do index, records and meta set agree under expiry, reuse, mixed TTLs and overlapping deletions? |
| `audit` | 3 requests, queue of 1, both failure modes | are losses bounded and counted, does the service recover, does shutdown end? |
| `policy_two_operators` | 2 operators, 4 rows, 3 documents, one of them invalid; or the page with 2 edits beside 1 write of another client | does the table keep one draft, one active version, unique numbers; does Confirm publish what was on screen; does the diff show every difference? |
| `policy_immutable` | the same operators | is a published version immutable? **Violated**: finding 1 |
| `policy_resolution` | 1 operator, 2 lookups, a TTL of 2 over 4 units | are snapshots fresh enough; is the table the promised history? |
| `documents` | 2 documents, 2 deletions, 1 download, crashes | do rows and bytes agree whatever fails? Can what was returned be read until it is deleted? |
| `pipeline` | 2 requests of 2 messages, 1 or 2 sessions, 3 snapshots, 2 ids, 1 slot | the properties of section 1, and the refinement of `ProtectedExchange` |
| `document_pipeline` | 2 requests, of two segments and of one, 5 occurrences of 2 values, two of which overlap at the cut, 2 scores, 2 snapshots resolved apart, 1 extraction place, 1 detection place, 2 attempts | the same of the document path |
| `parts` | texts of up to 7 characters under 7 sizes; documents of up to 3 bytes; up to 3 hits; files of up to 3 units; 3 requests of 2 keys of a tenant, 5 ticks, 1 broken connection | each of the five components that stand alone, one at a time |
| `confident_dropped` | the hits of the same instance | is a confident hit acted on? **Violated**: finding 2 |
| `admission` | 3 requests on a pool of 2, a tracker of 1 key; or one request with any body of up to 3 chunks; or one process under sound configurations and those that differ in one setting or two | does everyone get an answer, one, counted once; what does a process leave open? |
| `refused_served` | the same | is a request that is answered 413 not served? **Violated**: finding 3 |

Why the bounds are enough to matter. Two sessions are what crossing needs; two
spellings of one value are what reuse needs; a second id is what a lost race
needs; TTLs of 0 and above the maximum exercise the refusal, and two legal TTLs
the shortening. Three requests over a queue of one give one record in flight, one
queued and one refused. Two operators suffice for every race of two handlers;
four rows let one version be published, replaced and followed by another draft.
Two units of TTL over four units of time let a fill be late, overtaken and
expired. Two deletions and a download meet on one document while another is
uploaded. Two requests with one slot make one wait; the three snapshots hold
every action; a block in the second message is what the guard must see before the
first message is tokenized. In `document_pipeline` the characters at the cut of two
segments are a blocked value to one detection and another value to the other, a hit
is strong enough for one snapshot and too weak for the other, a block may be in the
instruction, the instruction repeats a value of its document,
the budget of entities is met and passed, and a strict snapshot meets a lenient one. Seven characters under sizes up to six give
breaks of each pattern before, at and after the end of a segment, and overlaps from none to nearly all. Three bytes in
chunks of one or two give no chunk, full and partial last ones; three hits of two
types are what the overlap rules need to be intransitive. In the limiter the
tenant's bucket is shared by two keys, windows and limits differ, and five ticks
are longer than either window. A pool of two under three requests of two
connections each is the smallest on which all can wait. Ids are capped at what
the requests can mint, `RowsLeft` stops drafts when the keys run out, and
`Horizon`, `MaxFaults`, `MaxEdits`, `MaxOthers` and `MaxPublished` stop clocks,
faults, edits and writes. Sets that play interchangeable roles are symmetric,
except in the runs with liveness.

**Fairness.** `AuditService`: the event loop resumes a writer with a record, a
join that is over and a cancelled task, and `wait_for` fires; a write returns
when the database is up, and may hang when it is down. `SecurePipeline`: the
event loop fires deadlines and runs the audit record, and the detector answers
the outbound scan, which no deadline covers (`pipeline/service.py:272`, against
`pipeline/stages.py:3-10`). The provider, the vault and every other detector call
get no fairness at all: the deadline must do. `DocumentPipeline`: its awaits,
other than the adapter's, have no deadline, so its stores, parser and detector are
assumed to answer (`Serves`), threads and children to end (`Abandoned`), and the
adapter's deadline to fire; the provider is not assumed to answer. `Admission`: a
request runs until it waits, the pool's timeout fires, and the database grants a
lock that is free. The other modules claim no liveness.

Deadlock is checked in every run but those of `MCParts` and `MCAdmission`, whose
components do come to rest: a text is cut, a stream is read, requests are answered
and the clock has reached its horizon, a process has stopped.

## 4. Findings

Each is a disagreement of the code with its own documentation that a run shows.

1. `policy_immutable`: a PATCH that read the draft before a publish writes over
   the published, active row (`repositories/policies.py:265` against
   `docs/adr/0037-immutable-versioned-policies.md:48`). The same window lets a
   DELETE remove the version in force, and lets a late publish bring an older
   version back. `policy_resolution` shows that with one operator the table does
   implement the promised history.
2. `confident_dropped`: overlaps are resolved among the hits that clear the
   detector's thresholds, before the policy's `min_score` is looked at. A more
   severe hit that the policy will find too weak removes a confident one and is
   then dropped itself (`detection/postprocess.py:112` against
   `documents/analysis/spans.py:32`). `AlikeThresholdsDropNothing` says when it does not
   happen.
3. `refused_served`: a chunked body that is complete before the excess begins is
   handled, and its caller is then answered 413 (`api/middleware.py:200` against
   lines 7-9, 138 and 200-201). `DeclaredRefusedIsNotServed`: a declared length is
   always checked first.

### Smaller disagreements

Met while modelling; the models contain them, no run is spent on them.

Vault and pipelines:
- `delete_session` deletes what an earlier SMEMBERS listed, and the meta set
  whole; a batch in between leaves live records in no meta set
  (`redis_vault.py:393-407` against 21-22). A batch under a lower TTL shortens the
  meta set's life below its members' (`redis_vault.py:119-143`).
  `OrphansHaveTwoCauses` says that there is no third cause.
- `redis_vault.py:75-76` calls 7200 the "top of the configurable policy range";
  `policy/models.py:66` allows 86400.
- The outbound scan of the chat path is awaited outside `run_stage`
  (`pipeline/service.py:272` against `pipeline/stages.py:3-10`).
- `outbound/gateway.py:163-164` says the scan "cannot be stricter than the
  protection it is checking": a surrogate keeps an address's shape and can be
  detected again, and a document is protected under another snapshot than the
  one it is scanned under.
- `domain/models.py:113-114` calls pseudonymization "reversible via the vault";
  restoration resolves tokens only.
- A document request that fails after its transmission (provider, restoration,
  vault) writes no audit row (`documents/pipeline.py:24-28`). An instruction over
  its budget is refused after the document's mappings were written.
- `api/v1/documents.py:338-340` says that the instruction is "**not** tokenized" and
  refers to `documents/pipeline.py`; `DocumentProtector.protect` detects it, refuses
  its blocked types and tokenizes it in the document's session
  (`documents/protection.py:277-340`), as `DetectInstruction` and `ProtectInstruction` do.
- The analyzer reports the first failure in order of completion where its helper
  speaks of segment order. A cancelled request gives its extraction place back
  while its child runs on, so that more than `extraction_max_workers` children can
  run (`settings.py:189-196`).

Audit and storage:
- `stop()` waits only when the queue is not empty; the record in the writer's
  hand is not in the queue, and its write is cancelled uncounted
  (`audit/service.py:202` against `api/composition.py:14`).
- A fail-closed record queued under degradation says status 200 while its caller
  gets 503; a blocked transmission is audited on the chat path without the
  digests that `outbound/gateway.py:115-116` speaks of.
- An upload whose `mark_stored` fails leaves the complete object and a row that
  stays `receiving` (`documents/service.py:137-175` against
  `api/v1/documents.py:175`). A deletion that stops half way leaves a `stored` row
  without its object, which `documents/service.py:12-17` rules out for uploads. A
  download of it is a 200 that breaks off, as is one whose object goes after its row
  was read, where `api/v1/documents.py:206-207` promises a missing document a clean
  404. What else may cut a download after its 200 (the store, a frame that does not
  authenticate, the checksum) is in the model too, and no property excludes it.
- `open_stream` refuses a first block of 27 bytes or more that is shorter than the
  header as truncated, though the rest of the header is in the next block.
- The limit on a PDF's text does not count the page separators: the buffer may
  exceed it by the number of pages less one.

Detection over documents:
- "An entity shorter than the overlap is guaranteed to appear whole"
  (`settings.py:220-228`) fails when a segment is cut at a break and the overlap
  is more than about three quarters of its maximum; `SegmentsCoverText` claims it under `Roomy`.

Admission and the edge:
- `get_api_key_authenticator` leaves its session without a commit, so that
  `last_used_at` is never stored (`auth/dependencies.py:110-116`); while the
  request runs, the row stays locked, and a revocation of the key waits for it.
- 413 and 400 rejections and an unhandled 500 lack three of the five security
  headers (`api/middleware.py:10-11`), and an unhandled 500 its X-Request-ID. The
  in-flight gauge and the duration end when the answer begins
  (`observability/metrics.py:110-116` says "for the duration of one request").
  CORS does not allow PATCH (`main.py:112`), which the policy page uses.

Process:
- `stop_services` does not close the provider registry, against "close in reverse
  order of opening" (`api/composition.py:328`); a failure inside `build_services`
  releases nothing; two first users of the object store leak a client
  (`documents/storage/s3.py:127-139`).
- In production the length of `AUDIT_HMAC_KEY` is not held to `MIN_SECRET_CHARS`,
  which is said to be the shortest acceptable pepper or HMAC key; `VAULT_KEY_A` and
  `VAULT_KEY_a` are one name after `lower()`; the document ring may hold the
  vault's key. `/v1/detect` builds a second policy service with a cache of its own.

Policies and the page:
- ADR-0037 says that version numbers include those "consumed by drafts that were
  discarded", that a discarded draft leaves a gap, and that this is preferable to
  reusing a number (`docs/adr/0037:176-178`). The next number is one more than the
  largest among the rows that remain (`repositories/policies.py:226-235`) and a
  discard deletes its row (269-275): the number is used again. What is published
  is not touched by it: `PublishedHistory` asks for a larger number, with or
  without gaps, and `ImplementsHistory` holds.
- The risky changes of `PublishDialog.tsx` do not name an added `allow` rule, an
  `allow` rule that is enabled, a raise below 0.2, or an added rule with a raised
  threshold, though the dialog "warns about anything that weakens a control"
  (11-12).
- The diff writes `min_score` with `:g`, shows an empty recognizer as a dash, and
  compares providers as one text, aliases joined by "; " and models by ", ", which
  names may hold themselves (`policy/authoring.py:185-270`): different values may
  look alike, and versions of different providers be called identical. A
  description is not compared. `DiffIsComplete` says what does show; of the
  providers only that their texts are the same.
- The page's save writes back the settings it loaded, over those another client
  has changed; another client's PATCH between the page's save and its publish is
  published unseen; Save & validate does not load again, so its summary is against the
  version as loaded; a load that fails is covered up by the ok that follows.
- The playground slices offsets of an answer into a text edited since
  (`frontend/app/test/page.tsx:23-25`); Clear session during a request brings the
  old session back when its answer comes.

## 5. Proofs

The eight proof modules are checked by TLAPS without assumptions beyond the named
ASSUMEs of the modules, which TLC evaluates in every run. The theorems hold for every
value of the constants: any number of sessions, requests, documents, records,
ids, operators, lookups, chunks, keys, TTLs, limits, windows and slots, and any
capacity. Each follows one pattern: an inductive invariant stronger than the
property, `Init => Inv`, one lemma per action or group of actions for
`Inv /\ [Next]_vars => Inv'`, and the property from `Inv`. An action property adds to
it what a step of each action does. Five assumptions are there for the proofs:
`FinitenessAssumption` of `SecurePipeline` (a message is a finite set of pieces),
`NoneAssumption` (the absent answer is no answer, no code and no document), those
that give units, chunks and frames a length, `InputAssumption` of `SpanSelection` (a text
has finitely many hits, none of them empty) and, in the `ProcessAssumption` of
`Admission`, that the requests under way are finitely many.

**TokenVaultProofs**: `TypeCorrect`, `IndexesNameOwnValues`, `IndexesNeverDangle`,
`OrphansAccountedFor`, `ValuesHaveOneToken`, `TokensAreStable`.
`VaultInv` adds to the properties that a live record is sealed, that a record and
the entry that names it have equal TTLs, and that a deletion's old copy of the meta set
is closed: it takes with a record the entry that names it. The argument needs that
key names never collide (`KeyShapes`) and that a batch's new ids are distinct and
unused (`BatchFacts`, `BatchSeals`). `OneTokenPerValue` is inductive on top of
that, because a deletion that holds an old entry and not the record the entry now names takes the
meta key too, and with it the set that listed the record.

**AuditServiceProofs**: `TypeCorrect`, `LossBound`, `NothingVanishes`.
`LossIsBounded` is not inductive: it needs that losses are remembered as
degradation (`outage # {} => degraded`). A request is served only while not
degraded, when nothing is lost yet and all that is open fits in the queue and the
writer's hand (`HeldCardinality`); in every other step what is open only shrinks.
`NoSilentLoss` needs that a service at rest has counted what its queue still
holds (`AtRest`).

**DocumentLifecycleProofs**: `TypeCorrect`, `NothingUnnamed`, `StoredIsWhole`,
`DeletionIsFinal`, `AcknowledgedIsReadable`. `UploadKnows` says what row and object
are at each call of an upload; the core is that once the upload has returned, the row goes only
after the object has, so bytes never lose their row.

**SecurePipelineProofs**: `PayloadsHideWhatIsFound`, `RefusalComesFirst`, `RefusalLeavesNothing`,
`ServedHasItsRow`, `SlotsAreNeverLost`, and `ExchangeIsProtected`, that the
pipeline implements `ProtectedExchange`. `PayloadKnows` says that from the guards
to the call the tokens of a protected message stand for just the values found in it
that are to be tokenized, kept for the request's own session, and of the values found
only the allowed ones are in plain; it survives other requests because the vault only
ever adds ids (`Grown`). That two messages, or two requests of a session, never show one
value under two live tokens is `VaultInv`: a batch mints only for values that have no
live record. `OutcomeKnows`
ties what was sent, answered, told and recorded to the request's step. The
count of slots is kept by `SlotMoves`: every step takes a slot, returns
one, or touches neither slots nor callers. That a refused request has minted
nothing needs that the guards have looked at every message before the first is
tokenized (`Guarded`), for the count of entities as for the blocked ones.

**DocumentPipelineProofs**: `PayloadStaysProtected`, `BlockedStaysOut`,
`ServedStaysAttested`, and `ExchangeIsProtected`, the refinement of
`ProtectedExchange` by the document path. `DetectionKnows` says that until the
threads are through, what they have found is what was reported, whichever of them fails,
waits or is abandoned, so that the merge loses nothing. A confident hit that the
resolution drops overlaps one it keeps (`Resolutions`), and what the splice leaves in
plain overlaps nothing it replaced (`PlainWhereAllowed`): so at the place of a confident
hit in plain a reading was kept that the snapshot allows. `PayloadKnows` says this of
both messages, and that their tokens are kept for the values they stand for;
`OutcomeKnows` relates attempts, answers, rows and what was minted. A request is
framed against the others by `Grown`, since two requests share a live token of one value.
`PlacesComeBack` is the part of `EveryRequestEnds` that is safety: no more callers
than places in either semaphore, and an answered request holds none. `PlacesInv` says in
which step a place may be held (`Placed`), so that whatever ends a request in another
step has none to forget; the children and threads that still run are the abandoned ones,
which are outside the count.

**PolicyProofs**, of the table: `TypeCorrect`, `OneOfEachAlways`, for operators whose
transactions overlap in any way. `OneOfEach` is inductive once the numbers in use are
known to have a largest one (`NumbersBounded`), which is what makes the next number a
number, and once a request that will write is known to hold a document.
`OneOperatorKeepsHistory` (the refinement of `PublishedHistory`) and
`OneOperatorKeepsPublished` have the hypothesis that there is one operator, which is the
hypothesis of `policy_resolution` and what `policy_immutable` shows they need:
`SequentialInv` adds that the version in force is the newest, an open draft is numbered
next, and what the open request has read of the table is still so, which is false
of two operators. Of the cache: `StalenessIsBounded`; `CacheInv` relates
everything to `lastInForce`: the version in force was so until now, what a query
read was in force no earlier than its lookup began, and an entry expires within a
TTL of a moment at which its snapshot was in force. Operators may overlap here, where
the run has one. Of the page: `WhatIsPublishedWasShown` and `IdenticalTreatsAlike`;
`EditorInv` says of the list of calls that is still due what it will save and publish,
that this is what was confirmed unless another client has written between the two calls,
and that every document at hand has one rule of a type.

**PartsProofs**, of the components that stand alone.
- Segmentation, `TextIsCovered`: every cut text is covered without a gap,
  segments advance, none is longer than the maximum or inside the one before it,
  and under `Roomy` neighbours overlap as promised; the lemmas say where the last
  break in a range is (`LargestExists`) and that a step back still advances.
- Rate limiter, `TypeCorrect`, `WindowsAreBounded`, `WaitIsEnough`: `WindowsHold`
  speaks of every window, not only of those that requests counted, and
  is not inductive: it needs that while a request watches its buckets and neither
  has changed, every member ever added arrived no later than the request and is
  either still there or had left the request's window (`SeesAll`), and that
  a key Redis drops holds only such members (`Times`). Then what a window that ends
  with or after the new hit can hold is what the request counted, and the hit
  (`AddsFit`). The wait rests on the oldest live member (`HasOldest`) and on the
  rounding up to seconds (`RoundsUp`).
- Sealed documents, `StreamOpensAsSealed`: `StreamInv` says what each frame of the
  sealed object holds, which is a whole chunk for all but the last (`FrameFacts`), and
  that the reader has yielded as many chunks as it has opened frames. A frame
  that opens is then the next one of the document (`OpensTheNext`), in whatever order the
  store gives the frames back. That an untouched object does open needs where its
  frames begin, which is a count of the units before them (`UnitsOfStream`,
  `WhereFramesBegin`), and that what is left at the end is exactly the last frame.
- Span selection, `ConfidentIsNotDropped` and `AlikeThresholdsDropNothing`: the second
  is the promise that `confident_dropped` refutes, proved for a text of one segment under
  a policy that asks of no type for more than the detector reports. The greedy loop is
  the recursive function `Kept`; that it keeps a span if and only if it keeps none that
  drops it (`KeptIsGreedy`) is an induction over the size of the set, made by way of
  a smallest counterexample (`GreedyExists`), since the induction theorems cannot
  be used. Who is better is a total order of sort keys that never tie for different
  spans (`LessIsTotal`). `SelectionInv` says that what is labelled keeps a rival for
  every confident detection that is gone (`Answers`).
- Extraction, `TextIsExtracted`: `Orderly` says of a text that it holds the units up
  to one of them, each once and in order, with separators anywhere; it survives the adding of
  a unit or a separator, which is how the one page of a DOCX grows while it is read and
  the buffer of the others while it is joined. The ranges follow each other, so a
  character is in one page only, and no document that was read is refused for
  its ranges.

**AdmissionProofs**, of the three components of its run.
- Requests, `NoCircleOfWaits`: a pool lends no more connections than it has, and who
  waits for the row of its key waits for a request of that key that itself waits for no
  row (`PoolInv`). This is what `EveryRequestIsAnswered` rests on besides fairness.
- Tracker, `ClaimsAreBounded`: while a key is remembered its claims are paid for by
  the time of the last one, and when it is forgotten the eviction pays for one more
  (`Paid`); the LRU holds a key once, so its places move without a count changing.
- HTTP edge, `AnswersAreSingle`: `EdgeInv` says what the body measures so far
  (`Measured`: the excess is noticed as it arrives and not forgotten; `ReadsNothing`: a
  route that reads no body never meets it, so what breaks off is not a rejection) and
  what an answer that has started or is over may be (`Answered`, `AnswerIs`). `DeclaredRefusedIsNotServed`
  (`DeclaredInv`) is the promise that `refused_served` refutes, for the bodies that
  declare a length.
- Process, `LittleStaysOpen` and `AcceptedProductionSeals`: `LifeInv` says which
  handles the closers still on the agenda will close, and that what none of them
  names is a close that failed, the provider's pool or a client that two first users
  opened at once; and that the writer runs only while its engine is open.

The type invariants and `IndexNamesOwnValue` of the vault are proved and in no
run: the proofs need them, and the runs' properties say more. Every safety property
and refinement that a passing run checks is proved, and for each of the three
promises that a run refutes a theorem says when it does hold: for one operator
(`OneOperatorKeepsPublished`), for a policy that is no stricter than the detector
(`AlikeThresholdsDropNothing`), for a declared length (`DeclaredRefusedIsNotServed`).

Model-checked only is liveness: `Recovers`, `ShutdownCompletes`, `EveryRequestEnds` of
both pipelines and `EveryRequestIsAnswered` rest on fairness and ENABLED, which are
outside this prover. `PlacesComeBack`, `SlotsAreNeverLost` and `NoCircleOfWaits` prove
the safety below them. What a recursive definition computes for every input is proved
only where a smallest counterexample can replace the induction.

## 6. Not modelled

- Cryptography: an envelope opens for what it was sealed for and for nothing
  else, and a digest names its input. Parsing of PDF and DOCX, statistical
  detection: any units, any hits.
- The wire format of providers, wording, layout, logging and its redaction.
- Privacy preview, audit queries, `/v1/detect` and the status pages: they read and
  change nothing. The chat and test pages keep a few fields of one tab; what goes
  wrong in them is listed above.
- The schema of the audit table, migrations, seed and deployment scripts: they
  run once, in order, by one process.
- Detection beyond the selection of hits (recognizers, engine), tokenization's
  splicing and restoration's substitution appear as what their callers see in the two pipelines.
- Listing and filtering of documents and policies have no state beyond
  `DocumentLifecycle` and `PolicyLifecycle`.
