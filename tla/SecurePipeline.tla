--------------------------- MODULE SecurePipeline ---------------------------
(***************************************************************************)
(* The one path of a chat request: SecurePipeline.invoke                   *)
(* (app/pipeline/service.py) with the guards, the tokenizer, the outbound  *)
(* gateway, restoration and the audit report it calls.  Requests run as    *)
(* coroutines of one event loop: what lies between two awaits is one step. *)
(* They share the vault, the provider slots and the audit service.         *)
(*                                                                         *)
(* A text is a set of values, each occurring once in it, and a value is    *)
(* its own entity type.                                                    *)
(* A session stands for a tenant's session, as every key of the vault has  *)
(* both.  The vault is seen as TokenVault shows it to a caller: a batch    *)
(* reuses or mints one id per value and session; ids are fresh; records    *)
(* go with their TTL or by delete_session.                                 *)
(***************************************************************************)
EXTENDS Naturals, Sequences, FiniteSets

CONSTANTS
    Requests,       \* chat requests
    Sessions,       \* the sessions they may name
    Assignments,    \* which requests name which
    Values,         \* the values that occur in their messages
    TokenIds,       \* bound: the ids the vault may mint
    Conversations,  \* the message lists a caller may send: sequences of sets of values
    Policies,       \* the snapshots that may be active
    MaxEntities,    \* max_entities_per_request of the deployment
    Slots,          \* max_concurrent_provider_calls
    None

Actions == {"allow", "tokenize", "redact", "pseudonymize", "block"}
UnknownTokenActions == {"preserve", "redact", "fail"}

ASSUME PolicyAssumption ==
    Policies \subseteq [action : [Values -> Actions], budget : Nat \ {0},
                        unknown : UnknownTokenActions]
ASSUME AssignmentAssumption == Assignments \subseteq [Requests -> Sessions]
ASSUME ConversationAssumption == Conversations \subseteq Seq(SUBSET Values) \ {<<>>}
ASSUME FinitenessAssumption == \A c \in Conversations : \A m \in DOMAIN c : IsFiniteSet(c[m])
ASSUME NoneAssumption ==
    /\ \A ids \in SUBSET TokenIds : ids # None
    /\ None \notin {"ok", "refused", "outbound", "failed"}
ASSUME BoundAssumption == MaxEntities \in Nat \ {0} /\ Slots \in Nat \ {0}

VARIABLES
    session,        \* each request's session
    messages,       \* each request's messages
    failClosed,     \* the setting AUDIT_FAIL_CLOSED
    task,           \* each request: its stage and what it has so far
    origin,         \* every id minted: for which session and value
    live,           \* the ids whose records the vault still has
    slots,          \* the free provider slots
    sent,           \* the tokens in what each open request has handed to the provider
    answer,         \* the values each open request has restored into its answer
    told,           \* how each request ended for its caller
    rows            \* the audit rows accepted for each request

inputs == <<session, messages, failClosed>>
vault == <<origin, live>>
ends == <<answer, told, rows>>
vars == <<inputs, task, vault, slots, sent, ends>>

Piece(kind, about) == [kind |-> kind, about |-> about]
Plain(v) == Piece("plain", v)
PlainIn(text) == {p.about : p \in {q \in text : q.kind = "plain"}}
TokensIn(texts) == {p.about : p \in {q \in UNION {texts[m] : m \in DOMAIN texts} : q.kind = "token"}}

New == [step |-> "policy", policy |-> None, found |-> <<>>, payload |-> <<>>,
        reply |-> {}, minted |-> {}, code |-> None]

Init ==
    /\ session \in Assignments
    /\ messages \in [Requests -> Conversations]
    /\ failClosed \in BOOLEAN
    /\ task = [r \in Requests |-> New]
    /\ origin = [i \in {} |-> None] /\ live = {}
    /\ slots = Slots
    /\ sent = [r \in Requests |-> None]
    /\ answer = [r \in Requests |-> None]
    /\ told = [r \in Requests |-> None]
    /\ rows = [r \in Requests |-> <<>>]

At(r, step) == task[r].step = step
Goes(r, state) == task' = [task EXCEPT ![r] = state]
Policy(r) == task[r].policy
ActionFor(r, v) == Policy(r).action[v]

\* A refusal frees the slot the request holds, and is reported next.
HeldOnRefusal(r) == slots                                           \* mutant
Released(r) == IF At(r, "calling") THEN slots + 1 ELSE slots
Refused(r, code) ==
    /\ Goes(r, [New EXCEPT !.step = "audit", !.code = code, !.minted = task[r].minted])
    /\ slots' = Released(r)
    /\ UNCHANGED <<inputs, sent, ends>>

-----------------------------------------------------------------------------
\* _resolve_policy and the registry lookup.
Resolve(r) ==
    /\ At(r, "policy")
    /\ \E p \in Policies : Goes(r, [task[r] EXCEPT !.step = "detection", !.policy = p])
    /\ UNCHANGED <<inputs, vault, slots, sent, ends>>

\* _detect finds some of the values of each message; _guard_request then looks at
\* all messages at once.
Detections(r) ==
    {f \in [DOMAIN messages[r] -> SUBSET Values] :
        \A m \in DOMAIN f : f[m] \subseteq messages[r][m]}

Spans(found) == {s \in (DOMAIN found) \X Values : s[2] \in found[s[1]]}

Refusal(found, p) ==
    CASE Cardinality(Spans(found)) > p.budget            -> "refused"
      [] Cardinality(Spans(found)) > MaxEntities         -> "refused"
      [] \E s \in Spans(found) : p.action[s[2]] = "block" -> "refused"
      [] OTHER                                           -> None

GuardsFirstMessage(found, p) == Refusal(SubSeq(found, 1, 1), p)     \* mutant
Guards(found, p) == Refusal(found, p)

Detect(r) ==
    /\ At(r, "detection")
    /\ \E found \in Detections(r) :
         LET refusal == Guards(found, Policy(r))
         IN IF refusal = None
            THEN /\ Goes(r, [task[r] EXCEPT !.step = "tokenization", !.found = found])
                 /\ UNCHANGED <<inputs, slots, sent, ends>>
            ELSE Refused(r, refusal)
    /\ UNCHANGED vault

-----------------------------------------------------------------------------
\* _tokenize, message by message: the tokenizer checks the message on its own
\* (nothing is left to refuse once the whole request has passed the guards), then
\* one vault batch reuses or mints an id per value that needs one, then the text is
\* spliced.
Mapping == {"tokenize", "pseudonymize"}
Message(r) == Len(task[r].payload) + 1
Found(r) == task[r].found[Message(r)]
Needed(r) == {v \in Found(r) : ActionFor(r, v) \in Mapping}
Entry(r, v) == [session |-> session[r], value |-> v]
Holding(r, v) == {i \in live : origin[i] = Entry(r, v)}
Missing(r) == {v \in Needed(r) : Holding(r, v) = {}}
Unused == TokenIds \ DOMAIN origin

Mints(r) == {ids \in [Missing(r) -> Unused] :
                \A v, w \in Missing(r) : ids[v] = ids[w] => v = w}
Minted(ids) == {ids[v] : v \in DOMAIN ids}
Batch(r, ids) ==
    /\ origin' = [i \in DOMAIN origin \cup Minted(ids) |->
                    IF i \in DOMAIN origin THEN origin[i]
                    ELSE Entry(r, CHOOSE v \in DOMAIN ids : ids[v] = i)]
    /\ live' = live \cup Minted(ids)
TokenFor(r, ids, v) ==
    IF v \in DOMAIN ids THEN ids[v] ELSE CHOOSE i \in Holding(r, v) : TRUE

ReplacementFallsThrough(r, ids, v) ==                               \* mutant
    CASE ActionFor(r, v) = "redact"   -> Piece("redaction", None)
      [] ActionFor(r, v) = "tokenize" -> Piece("token", TokenFor(r, ids, v))
      [] OTHER                        -> Plain(v)
Replacement(r, ids, v) ==
    CASE ActionFor(r, v) = "allow"        -> Plain(v)
      [] ActionFor(r, v) = "redact"       -> Piece("redaction", None)
      [] ActionFor(r, v) = "pseudonymize" -> Piece("surrogate", v)
      [] OTHER                            -> Piece("token", TokenFor(r, ids, v))

Protected(r, ids) ==
    {Plain(v) : v \in messages[r][Message(r)] \ Found(r)}
        \cup {Replacement(r, ids, v) : v \in Found(r)}

Tokenize(r) ==
    /\ At(r, "tokenization")
    /\ LET refusal == Refusal(<<Found(r)>>, Policy(r))
       IN IF refusal # None THEN Refused(r, refusal) /\ UNCHANGED vault
          ELSE \E ids \in Mints(r) :
                 /\ Batch(r, ids)
                 /\ Goes(r, [task[r] EXCEPT
                       !.payload = Append(@, Protected(r, ids)),
                       !.minted = @ \cup Minted(ids),
                       !.step = IF Message(r) = Len(messages[r]) THEN "scan" ELSE @])
                 /\ UNCHANGED <<inputs, slots, sent, ends>>

\* The record of an id goes: its TTL is over, or its session is deleted.
Forget(i) ==
    /\ i \in live
    /\ live' = live \ {i}
    /\ UNCHANGED <<inputs, task, origin, slots, sent, ends>>

-----------------------------------------------------------------------------
\* OutboundGateway.send scans the payload, surrogates included, for anything the
\* policy would act on; this await is not a stage, and has no deadline.
Actionable(r) ==
    {p \in UNION {task[r].payload[m] : m \in DOMAIN task[r].payload} :
        p.kind \in {"plain", "surrogate"} /\ ActionFor(r, p.about) # "allow"}

Scan(r) ==
    /\ At(r, "scan")
    /\ \E findings \in SUBSET Actionable(r) :
         IF findings = {}
         THEN /\ Goes(r, [task[r] EXCEPT !.step = "waiting"])
              /\ UNCHANGED <<inputs, slots, sent, ends>>
         ELSE Refused(r, "outbound")
    /\ UNCHANGED vault

\* _bounded_complete: a slot, then the call.
Call(r) ==
    /\ At(r, "waiting")
    /\ slots > 0
    /\ slots' = slots - 1
    /\ Goes(r, [task[r] EXCEPT !.step = "calling"])
    /\ sent' = [sent EXCEPT ![r] = TokensIn(task[r].payload)]
    /\ UNCHANGED <<inputs, vault, ends>>

\* The provider may write any token, or none.
Reply(r) ==
    /\ At(r, "calling")
    /\ \E reply \in SUBSET TokenIds :
         Goes(r, [task[r] EXCEPT !.step = "restoration", !.reply = reply])
    /\ slots' = slots + 1
    /\ UNCHANGED <<inputs, vault, sent, ends>>

ResolvedInAnySession(r) == task[r].reply \cap live                  \* mutant
Resolved(r) == {i \in task[r].reply \cap live : origin[i].session = session[r]}

\* What stands in for an unknown token, when the policy lets it pass, is the token
\* or a placeholder.
Restore(r) ==
    /\ At(r, "restoration")
    /\ IF Policy(r).unknown = "fail" /\ task[r].reply # Resolved(r)
       THEN Refused(r, "failed")
       ELSE /\ answer' = [answer EXCEPT ![r] = {origin[i].value : i \in Resolved(r)}]
            /\ Goes(r, [New EXCEPT !.step = "audit", !.code = "ok"])
            /\ UNCHANGED <<inputs, slots, sent, told, rows>>
    /\ UNCHANGED vault

-----------------------------------------------------------------------------
\* run_stage ends a stage with the stage's error or with the deadline.  A vault
\* call that ends so may have been carried out.
Stages == {"policy", "detection", "tokenization", "waiting", "calling", "restoration"}

CarriedOut(r) ==
    \/ UNCHANGED vault
    \/ At(r, "tokenization") /\ \E ids \in Mints(r) : Batch(r, ids)

Fails(r) ==
    /\ task[r].step \in (Stages \ {"waiting"}) \cup {"scan"}
    /\ Refused(r, "failed")
    /\ CarriedOut(r)

DeadlineAfterSlot(r) ==                                             \* mutant
    /\ task[r].step \in Stages \ {"waiting"}
    /\ Refused(r, "failed")
    /\ CarriedOut(r)
Deadline(r) ==
    /\ task[r].step \in Stages
    /\ Refused(r, "failed")
    /\ CarriedOut(r)

Ended(r, how) ==
    /\ told' = [told EXCEPT ![r] = how]
    /\ Goes(r, [New EXCEPT !.step = "done"])
    /\ sent' = [sent EXCEPT ![r] = None]
    /\ answer' = [answer EXCEPT ![r] = None]

\* The server stops and cancels the request: no stage reports it.
Cancel(r) ==
    /\ task[r].step \in Stages \cup {"scan"}
    /\ Ended(r, "cancelled")
    /\ slots' = Released(r)
    /\ CarriedOut(r)
    /\ UNCHANGED <<inputs, rows>>

\* record_outcome and record_failure over AuditService.submit, which keeps the
\* row, or not, and raises, or not; a fail-closed service that keeps a row while
\* its storage is out raises as well.
Submissions ==
    IF failClosed THEN {{"kept"}, {"kept", "raised"}, {"raised"}} ELSE {{"kept"}, {}}

RecordSwallows(r) ==                                                \* mutant
    /\ At(r, "audit")
    /\ \E s \in Submissions :
         /\ rows' = IF "kept" \in s THEN [rows EXCEPT ![r] = Append(@, task[r].code)] ELSE rows
         /\ Ended(r, task[r].code)
    /\ UNCHANGED <<inputs, vault, slots>>
Record(r) ==
    /\ At(r, "audit")
    /\ \E s \in Submissions :
         /\ rows' = IF "kept" \in s THEN [rows EXCEPT ![r] = Append(@, task[r].code)] ELSE rows
         /\ Ended(r, IF "raised" \in s /\ task[r].code = "ok" THEN "unaudited" ELSE task[r].code)
    /\ UNCHANGED <<inputs, vault, slots>>

Serves(r) ==
    \/ Resolve(r) \/ Detect(r) \/ Tokenize(r) \/ Scan(r) \/ Call(r) \/ Reply(r)
    \/ Restore(r) \/ Fails(r) \/ Deadline(r) \/ Cancel(r) \/ Record(r)

AllDone == (\A r \in Requests : At(r, "done")) /\ UNCHANGED vars

Next == (\E r \in Requests : Serves(r)) \/ (\E i \in TokenIds : Forget(i)) \/ AllDone

\* The event loop fires deadlines and runs what is ready.  No deadline covers the
\* outbound scan: that the detector answers it is assumed.
Fairness == \A r \in Requests : WF_vars(Deadline(r)) /\ WF_vars(Record(r)) /\ WF_vars(Scan(r))
Spec == Init /\ [][Next]_vars /\ Fairness
-----------------------------------------------------------------------------
\* A slot is either free or held by one request that calls the provider, however its
\* call ends (pipeline/service.py:418-430).
SlotsAreReturned == slots + Cardinality({r \in Requests : At(r, "calling")}) = Slots

\* What a request hands to the provider: in no message is a value in plain that detection
\* found in that message, unless the request's own snapshot allows it (one that it missed
\* there may be, though it was found in another message); the tokens of a message stand
\* for just the values to be tokenized that were found in it, in the request's session;
\* and a value has one token in all messages of all requests of a session that call, as
\* long as the records are there (pipeline/service.py:10-21, tokenization/tokenizer.py:
\* 98-130, 264-285).
TokensOf(text) == {p.about : p \in {q \in text : q.kind = "token"}}
PayloadsAreProtected ==
    \A r \in Requests : At(r, "calling") =>
        /\ \A m \in DOMAIN task[r].payload :
             LET text == task[r].payload[m]
                 found == task[r].found[m]
             IN  /\ \A v \in PlainIn(text) \cap found : ActionFor(r, v) = "allow"
                 /\ {origin[i] : i \in TokensOf(text)} =
                      {Entry(r, v) : v \in {w \in found : ActionFor(r, w) = "tokenize"}}
        /\ \A q \in Requests :
             At(q, "calling") =>
               \A i \in TokensIn(task[r].payload) \cap live,
                  j \in TokensIn(task[q].payload) \cap live :
                    origin[i] = origin[j] => i = j

\* A request that a guard or the scan refuses was never handed to a provider
\* ("after transmission a check is a report rather than a control",
\* outbound/gateway.py:17-18).
RefusedIsNotSent ==
    \A r \in Requests :
        task[r].code \in {"refused", "outbound"} => sent[r] = None

\* "A request destined to fail leaves nothing behind" (pipeline/guards.py:17-18):
\* one that exceeds the budget or holds a blocked value in any of its messages has
\* put nothing into the vault.
RefusedLeavesNothing ==
    \A r \in Requests : task[r].code = "refused" => task[r].minted = {}

\* "Nothing is served that could not be audited" (audit/service.py:23-24): behind
\* an answer of a fail-closed gateway there is one row, and it says so; no request
\* has two.
ServedIsRecorded ==
    \A r \in Requests :
        /\ Len(rows[r]) <= 1
        /\ told[r] = "ok" /\ failClosed => rows[r] = <<"ok">>

\* "A detector that wedges still cannot hold a request open" (pipeline/stages.py:
\* 9-10): every request ends, if the outbound scan does.
EveryRequestEnds == \A r \in Requests : <>(told[r] # None)

\* The exchange is the one ProtectedExchange promises.
Exchange == INSTANCE ProtectedExchange WITH kept <- origin, answered <- answer
ImplementsExchange == Exchange!Spec
=============================================================================
