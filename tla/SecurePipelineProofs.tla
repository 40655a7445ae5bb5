------------------------ MODULE SecurePipelineProofs ------------------------
(***************************************************************************)
(* Proofs about SecurePipeline, for any requests, sessions, values, ids,   *)
(* conversations, policies and number of provider slots.                   *)
(***************************************************************************)
EXTENDS SecurePipeline, FiniteSetTheorems, TLAPS

Pieces == [kind : {"plain", "token", "redaction", "surrogate"},
           about : Values \cup TokenIds \cup {None}]
Before == {"policy", "detection", "tokenization", "scan", "waiting"}
Codes == {None, "ok", "refused", "outbound", "failed"}
Outcomes == Codes \cup {"cancelled", "unaudited"}

Tasks == [step : Stages \cup {"scan", "audit", "done"},
          policy : Policies \cup {None},
          found : Seq(SUBSET Values), payload : Seq(SUBSET Pieces),
          reply : SUBSET TokenIds, minted : SUBSET TokenIds,
          code : Codes]

\* A value of a session has one live record.
VaultInv ==
    /\ \A i \in DOMAIN origin : origin[i] \in [session : Sessions, value : Values]
    /\ live \subseteq DOMAIN origin /\ DOMAIN origin \subseteq TokenIds
    /\ \A i, j \in live : origin[i] = origin[j] => i = j

TypeInv ==
    /\ session \in [Requests -> Sessions]
    /\ messages \in [Requests -> Conversations]
    /\ failClosed \in BOOLEAN
    /\ task \in [Requests -> Tasks]
    /\ VaultInv
    /\ sent \in [Requests -> (SUBSET TokenIds) \cup {None}]
    /\ answer \in [Requests -> (SUBSET Values) \cup {None}]
    /\ told \in [Requests -> Outcomes]
    /\ rows \in [Requests -> Seq(Codes)]

\* The values found in a message that are to be tokenized, and the token that stands
\* for one of them in the request's session.
Due(r, m) == {v \in task[r].found[m] : ActionFor(r, v) = "tokenize"}
StandsFor(r, i, v) == i \in DOMAIN origin /\ origin[i] = Entry(r, v)

\* What a protected message may hold of a request: in plain only what was not found in
\* it or is allowed, and tokens of just what is due.
Harmless(r, m, p) ==
    /\ p.kind = "token" => \E v \in Due(r, m) : StandsFor(r, p.about, v)
    /\ p.kind = "plain" /\ p.about \in task[r].found[m] => ActionFor(r, p.about) = "allow"
HidesAll(r, m) ==
    \A v \in Due(r, m) :
        \E p \in task[r].payload[m] : p.kind = "token" /\ StandsFor(r, p.about, v)

\* From the guards to the call, a request keeps its snapshot and what was found, and
\* its payload grows message by message.
PayloadKnows(r) ==
    /\ task[r].step \in {"detection", "tokenization", "scan", "waiting", "calling", "restoration"}
         => Policy(r) \in Policies
    /\ task[r].step \in {"policy", "detection"} => task[r].payload = <<>>
    /\ task[r].step \in {"tokenization", "scan", "waiting", "calling"} =>
         /\ Len(task[r].found) = Len(messages[r])
         /\ Len(task[r].payload) <= Len(messages[r])
         /\ task[r].step = "tokenization" => Len(task[r].payload) < Len(messages[r])
         /\ \A m \in 1..Len(task[r].payload) :
              HidesAll(r, m) /\ \A p \in task[r].payload[m] : Harmless(r, m, p)

\* How far a request has come, and what its caller and the trail have seen of it.
OutcomeKnows(r) ==
    /\ task[r].step \in Before => sent[r] = None
    /\ task[r].step \in {"calling", "restoration"} => sent[r] # None
    /\ task[r].step # "audit" => task[r].code = None /\ answer[r] = None
    /\ task[r].step = "done" => sent[r] = None
    /\ task[r].step # "done" => told[r] = None /\ rows[r] = <<>>
    /\ task[r].code \in {"refused", "outbound"} => sent[r] = None
    /\ Len(rows[r]) <= 1
    /\ told[r] = "ok" /\ failClosed => rows[r] = <<"ok">>

Inv == TypeInv /\ \A r \in Requests : PayloadKnows(r) /\ OutcomeKnows(r)

-----------------------------------------------------------------------------
\* The vault only grows, and keeps what it has kept.
Grown ==
    /\ VaultInv'
    /\ DOMAIN origin \subseteq DOMAIN origin'
    /\ \A i \in DOMAIN origin : origin'[i] = origin[i]

\* A batch keeps what was kept, mints only for values that have no live record, and
\* leaves every value that needs one with an id of the request's session.
LEMMA BatchGrows ==
    ASSUME Inv, NEW r \in Requests, At(r, "tokenization"),
           NEW ids \in Mints(r), Batch(r, ids)
    PROVE  /\ Grown
           /\ Minted(ids) \subseteq TokenIds
           /\ \A v \in Needed(r) : /\ TokenFor(r, ids, v) \in DOMAIN origin'
                                   /\ origin'[TokenFor(r, ids, v)] = Entry(r, v)
  <1>1. Found(r) \in SUBSET Values
    <2>1. Message(r) \in 1..Len(task[r].found) /\ task[r].found \in Seq(SUBSET Values)
      BY DEF Inv, TypeInv, PayloadKnows, At, Message, Tasks
    <2> QED
      BY <2>1 DEF Found
  <1>2. /\ DOMAIN ids = Missing(r) /\ Missing(r) \subseteq Needed(r) /\ Needed(r) \subseteq Values
        /\ \A v \in DOMAIN ids : ids[v] \in TokenIds \ DOMAIN origin
    BY <1>1 DEF Mints, Missing, Needed, Unused
  <1>3. Minted(ids) \subseteq TokenIds \ DOMAIN origin
    BY <1>2 DEF Minted
  <1>4. \A i \in DOMAIN origin : origin'[i] = origin[i]
    BY DEF Batch
  <1>5. ASSUME NEW v \in DOMAIN ids
        PROVE  origin'[ids[v]] = Entry(r, v) /\ ids[v] \in DOMAIN origin'
    <2> DEFINE i == ids[v]
               chosen == CHOOSE w \in DOMAIN ids : ids[w] = i
    <2>1. chosen \in DOMAIN ids /\ ids[chosen] = ids[v]
      OBVIOUS
    <2>2. chosen = v
      BY <2>1 DEF Mints
    <2>3. i \in Minted(ids) /\ i \notin DOMAIN origin
      BY <1>3 DEF Minted
    <2>4. origin'[i] = Entry(r, chosen) /\ i \in DOMAIN origin'
      BY <2>3 DEF Batch
    <2> QED
      BY <2>2, <2>4
  <1>6. session[r] \in Sessions
    BY DEF Inv, TypeInv
  <1>7. DOMAIN origin' = DOMAIN origin \cup Minted(ids) /\ live' = live \cup Minted(ids)
    BY DEF Batch
  <1>8. Grown
    <2> DEFINE was == live
               new == Minted(ids)
    <2>1. \A i \in DOMAIN origin' : origin'[i] \in [session : Sessions, value : Values]
      <3>1. \A v \in Values : Entry(r, v) \in [session : Sessions, value : Values]
        BY <1>6 DEF Entry
      <3>2. \A i \in Minted(ids) : \E v \in DOMAIN ids : ids[v] = i
        BY DEF Minted
      <3> QED
        BY <1>2, <1>4, <1>5, <1>7, <3>1, <3>2 DEF Inv, TypeInv, VaultInv
    <2>2. live' \subseteq DOMAIN origin' /\ DOMAIN origin' \subseteq TokenIds
      BY <1>3, <1>7 DEF Inv, TypeInv, VaultInv
    <2>3. was \subseteq DOMAIN origin /\ \A i, j \in was : origin[i] = origin[j] => i = j
      BY DEF Inv, TypeInv, VaultInv
    <2>4. ASSUME NEW i \in was, NEW j \in new
          PROVE  origin'[i] # origin'[j]
      <3>1. PICK v \in DOMAIN ids : ids[v] = j
        BY DEF Minted
      <3>2. Holding(r, v) = {} /\ origin'[i] = origin[i] /\ origin'[j] = Entry(r, v)
        BY <1>2, <1>4, <1>5, <2>3, <3>1 DEF Missing
      <3> QED
        BY <3>2 DEF Holding
    <2>5. ASSUME NEW i \in new, NEW j \in new, origin'[i] = origin'[j]
          PROVE  i = j
      <3>1. PICK v \in DOMAIN ids, w \in DOMAIN ids : ids[v] = i /\ ids[w] = j
        BY DEF Minted
      <3>2. Entry(r, v) = Entry(r, w)
        BY <1>5, <2>5, <3>1
      <3> QED
        BY <3>1, <3>2 DEF Entry
    <2>6. \A i, j \in live' : origin'[i] = origin'[j] => i = j
      BY <1>4, <1>7, <2>3, <2>4, <2>5
    <2> QED
      BY <1>4, <1>7, <2>1, <2>2, <2>6 DEF Grown, VaultInv
  <1>9. ASSUME NEW v \in Needed(r)
        PROVE  /\ TokenFor(r, ids, v) \in DOMAIN origin'
               /\ origin'[TokenFor(r, ids, v)] = Entry(r, v)
    <2>1. CASE v \in DOMAIN ids
      BY <1>5, <2>1 DEF TokenFor
    <2>2. CASE v \notin DOMAIN ids
      <3>1. Holding(r, v) # {}
        BY <1>2, <2>2 DEF Missing
      <3>2. TokenFor(r, ids, v) \in Holding(r, v)
        BY <2>2, <3>1 DEF TokenFor
      <3> QED
        BY <3>2, <1>4, <1>7 DEF Holding, Entry, Inv, TypeInv, VaultInv
    <2> QED
      BY <2>1, <2>2
  <1> QED
    BY <1>3, <1>8, <1>9

LEMMA CarriedOutGrows ==
    ASSUME Inv, NEW r \in Requests, CarriedOut(r)
    PROVE  Grown
  <1>1. CASE UNCHANGED vault
    BY <1>1 DEF vault, Grown, Inv, TypeInv, VaultInv
  <1> QED
    BY <1>1, BatchGrows DEF CarriedOut

LEMMA UnchangedGrows ==
    ASSUME Inv, UNCHANGED vault
    PROVE  Grown
  BY DEF vault, Grown, Inv, TypeInv, VaultInv

-----------------------------------------------------------------------------
Stood(r, i, v) == i \in DOMAIN origin' /\ origin'[i] = Entry(r, v)

\* A message the tokenizer has been through is harmless and hides what it should.
LEMMA ProtectedHarmless ==
    ASSUME Inv, NEW r \in Requests, At(r, "tokenization"),
           Refusal(<<Found(r)>>, Policy(r)) = None,
           NEW ids \in Mints(r), Batch(r, ids)
    PROVE  /\ Protected(r, ids) \in SUBSET Pieces
           /\ \A p \in Protected(r, ids) :
                /\ p.kind = "token" => \E v \in Due(r, Message(r)) : Stood(r, p.about, v)
                /\ p.kind = "plain" /\ p.about \in Found(r) => ActionFor(r, p.about) = "allow"
           /\ \A v \in Due(r, Message(r)) :
                \E p \in Protected(r, ids) : p.kind = "token" /\ Stood(r, p.about, v)
  <1>1. Message(r) \in 1..Len(task[r].found) /\ task[r].found \in Seq(SUBSET Values)
        /\ Message(r) \in 1..Len(messages[r])
    BY DEF Inv, TypeInv, PayloadKnows, At, Message, Tasks
  <1>2. Found(r) \in SUBSET Values
    BY <1>1 DEF Found
  <1>3. messages[r][Message(r)] \in SUBSET Values
    BY <1>1, ConversationAssumption DEF Inv, TypeInv
  <1>4. Policy(r).action \in [Values -> Actions]
    BY PolicyAssumption DEF Inv, PayloadKnows, At, Policy
  <1>5. ASSUME NEW v \in messages[r][Message(r)] \ Found(r)
        PROVE  Plain(v) \in Pieces /\ Plain(v).kind = "plain" /\ Plain(v).about \notin Found(r)
    BY <1>3 DEF Plain, Piece, Pieces
  <1>6. ASSUME NEW v \in Found(r)
        PROVE  LET p == Replacement(r, ids, v)
               IN  /\ p \in Pieces
                   /\ p.kind = "token" <=> ActionFor(r, v) = "tokenize"
                   /\ p.kind = "token" => Stood(r, p.about, v)
                   /\ p.kind = "plain" => p.about = v /\ ActionFor(r, v) = "allow"
    <2>1. v \in Values /\ ActionFor(r, v) \in Actions
      BY <1>2, <1>4 DEF ActionFor
    <2>2. CASE ActionFor(r, v) = "allow"
      BY <2>1, <2>2 DEF Replacement, Plain, Piece, Pieces
    <2>3. CASE ActionFor(r, v) = "redact"
      BY <2>1, <2>3 DEF Replacement, Piece, Pieces
    <2>4. CASE ActionFor(r, v) = "pseudonymize"
      BY <2>1, <2>4 DEF Replacement, Piece, Pieces
    <2>5. CASE ActionFor(r, v) = "tokenize"
      <3>1. Stood(r, TokenFor(r, ids, v), v)
        BY <2>5, BatchGrows DEF Needed, Mapping, Stood
      <3>2. TokenFor(r, ids, v) \in TokenIds
        BY <3>1, BatchGrows DEF Grown, VaultInv, Stood
      <3> QED
        BY <2>5, <3>1, <3>2 DEF Replacement, Piece, Pieces
    <2>6. CASE ActionFor(r, v) = "block"
      <3>1. <<1, v>> \in Spans(<<Found(r)>>)
        BY <2>1 DEF Spans
      <3>2. \E s \in Spans(<<Found(r)>>) : Policy(r).action[s[2]] = "block"
        BY <2>6, <3>1 DEF ActionFor
      <3> QED
        BY <3>2, NoneAssumption DEF Refusal
    <2> QED
      BY <2>1, <2>2, <2>3, <2>4, <2>5, <2>6 DEF Actions
  <1>7. Due(r, Message(r)) = {v \in Found(r) : ActionFor(r, v) = "tokenize"}
    BY DEF Due, Found
  <1> QED
    BY <1>5, <1>6, <1>7 DEF Protected

-----------------------------------------------------------------------------
\* A task whose step and one or two of its other fields change stays a task.
LEMMA TaskStays ==
    ASSUME NEW t \in Tasks, NEW u, NEW step \in Stages \cup {"scan", "audit", "done"},
           \/ \E reply \in SUBSET TokenIds : u = [t EXCEPT !.step = step, !.reply = reply]
           \/ \E payload \in Seq(SUBSET Pieces), minted \in SUBSET TokenIds :
                 u = [t EXCEPT !.payload = payload, !.minted = minted, !.step = step]
    PROVE  u \in Tasks
  BY DEF Tasks

LEMMA NewTask == New \in Tasks
  <1>1. <<>> \in Seq(SUBSET Values) /\ <<>> \in Seq(SUBSET Pieces)
    OBVIOUS
  <1> QED
    BY <1>1 DEF New, Tasks, Stages, Codes

\* What holds of a message of a request goes on to hold while the vault grows.
LEMMA MessagesStay ==
    ASSUME Grown, NEW r \in Requests, UNCHANGED inputs, task'[r].policy = task[r].policy,
           task'[r].found = task[r].found, task'[r].payload = task[r].payload
    PROVE  \A m : /\ HidesAll(r, m) => HidesAll(r, m)'
                  /\ \A p : Harmless(r, m, p) => Harmless(r, m, p)'
  <1>1. \A v : ActionFor(r, v)' = ActionFor(r, v)
    BY DEF ActionFor, Policy
  <1>2. \A m : Due(r, m)' = Due(r, m)
    BY <1>1 DEF Due
  <1>3. \A i, v : StandsFor(r, i, v) => StandsFor(r, i, v)'
    BY DEF StandsFor, Entry, Grown, inputs
  <1> QED
    BY <1>1, <1>2, <1>3 DEF HidesAll, Harmless

\* What one request does leaves every other request as it is.
LEMMA OthersStep ==
    ASSUME Inv, Grown, NEW r \in Requests, NEW q \in Requests \ {r},
           UNCHANGED inputs, task'[q] = task[q],
           sent'[q] = sent[q], answer'[q] = answer[q], told'[q] = told[q], rows'[q] = rows[q]
    PROVE  PayloadKnows(q)' /\ OutcomeKnows(q)'
  BY MessagesStay DEF Inv, inputs, PayloadKnows, OutcomeKnows, Policy

\* A request that is refused keeps what the caller and the trail have of it.
LEMMA RefusedStep ==
    ASSUME Inv, NEW r \in Requests, NEW code \in {"refused", "outbound", "failed"},
           At(r, "detection") \/ At(r, "tokenization") \/ At(r, "scan") \/ code = "failed",
           task[r].step \notin {"audit", "done"},
           Refused(r, code), Grown
    PROVE  Inv'
  <1> USE DEF Inv
  <1>1. task' = [task EXCEPT ![r] = [New EXCEPT !.step = "audit", !.code = code,
                                                !.minted = task[r].minted]]
    BY DEF Refused, Goes
  <1>2. UNCHANGED <<session, messages, failClosed, sent, answer, told, rows>>
    BY DEF Refused, inputs, ends
  <1>3. task' \in [Requests -> Tasks]
    <2>1. [New EXCEPT !.step = "audit", !.code = code, !.minted = task[r].minted] \in Tasks
      BY NewTask DEF TypeInv, Tasks, Codes
    <2> QED
      BY <1>1, <2>1 DEF TypeInv
  <1>4. TypeInv'
    BY <1>2, <1>3 DEF TypeInv, Grown
  <1>5. PayloadKnows(r)' /\ OutcomeKnows(r)'
    <2>1. task'[r].step = "audit" /\ task'[r].code = code
      BY <1>1 DEF TypeInv, New
    <2>2. sent[r] = None \/ code = "failed"
      BY DEF OutcomeKnows, Before, At
    <2> QED
      BY <1>2, <2>1, <2>2 DEF PayloadKnows, OutcomeKnows, Before
  <1>6. ASSUME NEW q \in Requests \ {r}
        PROVE  PayloadKnows(q)' /\ OutcomeKnows(q)'
    <2>1. task'[q] = task[q] /\ UNCHANGED inputs
      BY <1>1, <1>2 DEF TypeInv, inputs
    <2> QED
      BY <1>2, <2>1, OthersStep
  <1> QED
    BY <1>4, <1>5, <1>6

-----------------------------------------------------------------------------
LEMMA ResolveInv ==
    ASSUME Inv, NEW r \in Requests, Resolve(r)
    PROVE  Inv'
  <1> USE DEF Inv
  <1>1. PICK p \in Policies :
          task' = [task EXCEPT ![r] = [task[r] EXCEPT !.step = "detection", !.policy = p]]
    BY DEF Resolve, Goes
  <1>2. UNCHANGED <<inputs, vault, sent, ends>> /\ Grown
    BY UnchangedGrows DEF Resolve
  <1>3. TypeInv'
    <2>1. task'[r] \in Tasks
      BY <1>1 DEF TypeInv, Tasks, Stages
    <2>2. task' \in [Requests -> Tasks]
      BY <1>1, <2>1 DEF TypeInv
    <2> QED
      BY <1>2, <2>2 DEF TypeInv, inputs, ends, Grown
  <1>4. task'[r].step = "detection" /\ task'[r].policy = p /\ task'[r].payload = task[r].payload
        /\ task'[r].code = task[r].code
    BY <1>1 DEF TypeInv, Tasks
  <1>5. PayloadKnows(r)' /\ OutcomeKnows(r)'
    BY <1>2, <1>4 DEF Resolve, At, PayloadKnows, OutcomeKnows, Before, Policy, inputs, ends
  <1>6. \A q \in Requests \ {r} : PayloadKnows(q)' /\ OutcomeKnows(q)'
    BY <1>1, <1>2, OthersStep DEF TypeInv, ends
  <1> QED
    BY <1>3, <1>5, <1>6

LEMMA DetectInv ==
    ASSUME Inv, NEW r \in Requests, Detect(r)
    PROVE  Inv'
  <1> USE DEF Inv
  <1>1. PICK found \in Detections(r) :
          LET refusal == Guards(found, Policy(r))
          IN IF refusal = None
             THEN /\ Goes(r, [task[r] EXCEPT !.step = "tokenization", !.found = found])
                  /\ UNCHANGED <<inputs, slots, sent, ends>>
             ELSE Refused(r, refusal)
    BY DEF Detect
  <1>2. UNCHANGED vault /\ Grown
    BY UnchangedGrows DEF Detect
  <1>3. CASE Guards(found, Policy(r)) # None
    <2>1. Guards(found, Policy(r)) = "refused"
      BY <1>3 DEF Guards, Refusal
    <2> QED
      BY <1>1, <1>2, <2>1, <1>3, RefusedStep DEF Detect, At
  <1>4. CASE Guards(found, Policy(r)) = None
    <2>1. /\ task' = [task EXCEPT ![r] = [task[r] EXCEPT !.step = "tokenization", !.found = found]]
          /\ UNCHANGED <<inputs, sent, ends>>
      BY <1>1, <1>4 DEF Goes
    <2>2. messages[r] \in Seq(SUBSET Values) /\ messages[r] # <<>>
      BY ConversationAssumption DEF TypeInv
    <2>3. Len(messages[r]) \in Nat /\ Len(messages[r]) > 0
      BY <2>2
    <2>4. found \in [1..Len(messages[r]) -> SUBSET Values]
      BY <2>2 DEF Detections
    <2>5. found \in Seq(SUBSET Values) /\ Len(found) = Len(messages[r])
      BY <2>3, <2>4
    <2>6. TypeInv'
      <3>1. task'[r] \in Tasks
        BY <2>1, <2>5 DEF TypeInv, Tasks, Stages
      <3>2. task' \in [Requests -> Tasks]
        BY <2>1, <3>1 DEF TypeInv
      <3> QED
        BY <1>2, <2>1, <3>2 DEF TypeInv, inputs, ends, Grown
    <2>7. /\ task'[r].step = "tokenization" /\ task'[r].policy = task[r].policy
          /\ task'[r].found = found
          /\ task'[r].payload = task[r].payload /\ task'[r].code = task[r].code
      BY <2>1 DEF TypeInv, Tasks
    <2>8. task[r].step = "detection"
      BY DEF Detect, At
    <2>9. task'[r].payload = <<>> /\ Len(task'[r].payload) = 0
      BY <2>7, <2>8 DEF PayloadKnows
    <2>10. PayloadKnows(r)'
      BY <2>1, <2>3, <2>5, <2>7, <2>8, <2>9 DEF PayloadKnows, Policy, inputs
    <2>11. OutcomeKnows(r)'
      BY <2>1, <2>7, <2>8 DEF OutcomeKnows, Before, inputs, ends
    <2>12. \A q \in Requests \ {r} : PayloadKnows(q)' /\ OutcomeKnows(q)'
      BY <2>1, <1>2, OthersStep DEF TypeInv, ends
    <2> QED
      BY <2>6, <2>10, <2>11, <2>12
  <1> QED
    BY <1>3, <1>4

LEMMA TokenizeInv ==
    ASSUME Inv, NEW r \in Requests, Tokenize(r)
    PROVE  Inv'
  <1> USE DEF Inv
  <1> DEFINE refusal == Refusal(<<Found(r)>>, Policy(r))
  <1>1. CASE refusal # None
    <2>1. refusal = "refused" /\ Refused(r, refusal) /\ UNCHANGED vault /\ At(r, "tokenization")
      BY <1>1 DEF Tokenize, Refusal
    <2> QED
      BY <2>1, RefusedStep, UnchangedGrows DEF At
  <1>2. CASE refusal = None
    <2>1. PICK ids \in Mints(r) :
            /\ Batch(r, ids)
            /\ Goes(r, [task[r] EXCEPT
                  !.payload = Append(@, Protected(r, ids)),
                  !.minted = @ \cup Minted(ids),
                  !.step = IF Message(r) = Len(messages[r]) THEN "scan" ELSE @])
            /\ UNCHANGED <<inputs, slots, sent, ends>>
      BY <1>2 DEF Tokenize
    <2> DEFINE P == Protected(r, ids)
               payload == task[r].payload
    <2>2. At(r, "tokenization") /\ task[r].step = "tokenization"
      BY DEF Tokenize, At
    <2>3. /\ Grown /\ Minted(ids) \subseteq TokenIds
          /\ P \in SUBSET Pieces
          /\ \A p \in P :
               /\ p.kind = "token" => \E v \in Due(r, Message(r)) : Stood(r, p.about, v)
               /\ p.kind = "plain" /\ p.about \in Found(r) => ActionFor(r, p.about) = "allow"
          /\ \A v \in Due(r, Message(r)) : \E p \in P : p.kind = "token" /\ Stood(r, p.about, v)
      BY <1>2, <2>1, <2>2, BatchGrows, ProtectedHarmless
    <2> HIDE DEF P
    <2>4. /\ task'[r].step = IF Message(r) = Len(messages[r]) THEN "scan" ELSE "tokenization"
          /\ task'[r].policy = task[r].policy /\ task'[r].found = task[r].found
          /\ task'[r].payload = Append(payload, P)
          /\ task'[r].code = task[r].code
      BY <2>1, <2>2 DEF Goes, TypeInv, Tasks, P
    <2>5. /\ payload \in Seq(SUBSET Pieces)
          /\ Len(payload) < Len(messages[r]) /\ Message(r) = Len(payload) + 1
          /\ Len(messages[r]) \in Nat /\ Len(payload) \in Nat
      <3>1. messages[r] \in Seq(SUBSET Values)
        BY ConversationAssumption DEF TypeInv
      <3> QED
        BY <2>2, <3>1 DEF TypeInv, Tasks, PayloadKnows, Message
    <2>6. /\ Append(payload, P) \in Seq(SUBSET Pieces)
          /\ Len(Append(payload, P)) = Len(payload) + 1
          /\ Append(payload, P)[Len(payload) + 1] = P
          /\ \A m \in 1..Len(payload) : Append(payload, P)[m] = payload[m]
      BY <2>3, <2>5
    <2>7. TypeInv'
      <3>1. task'[r] \in Tasks
        <4> DEFINE longer == Append(payload, P)
                   minted == task[r].minted \cup Minted(ids)
                   step == IF Message(r) = Len(messages[r]) THEN "scan" ELSE "tokenization"
        <4>1. task[r] \in Tasks
          BY DEF TypeInv
        <4>2. task'[r] = [task[r] EXCEPT !.payload = longer, !.minted = minted, !.step = step]
          BY <2>1, <2>2, <4>1 DEF Goes, TypeInv, P
        <4>3. longer \in Seq(SUBSET Pieces)
          BY <2>6
        <4>4. minted \in SUBSET TokenIds
          BY <2>3, <4>1 DEF Tasks
        <4>5. step \in Stages \cup {"scan"}
          BY DEF Stages
        <4> HIDE DEF longer, minted, step
        <4> QED
          BY <4>1, <4>2, <4>3, <4>4, <4>5, TaskStays
      <3>2. task' \in [Requests -> Tasks]
        BY <2>1, <3>1 DEF Goes, TypeInv
      <3> QED
        BY <2>1, <2>3, <3>2 DEF TypeInv, inputs, ends, Grown
    <2>8. PayloadKnows(r)'
      <3>0. /\ \A m : Due(r, m)' = Due(r, m)
            /\ \A i, v : Stood(r, i, v) => StandsFor(r, i, v)'
            /\ \A i, v : StandsFor(r, i, v) => StandsFor(r, i, v)'
        BY <2>1, <2>3, <2>4 DEF Due, Stood, StandsFor, Entry, Policy, ActionFor, inputs, Grown
      <3>1. ASSUME NEW m \in 1..Len(task'[r].payload)
            PROVE  HidesAll(r, m)' /\ \A p \in task'[r].payload[m] : Harmless(r, m, p)'
        <4>1. CASE m = Len(payload) + 1
          <5>1. m = Message(r) /\ task'[r].payload[m] = P /\ Found(r) = task'[r].found[m]
            BY <2>4, <2>5, <2>6, <3>1, <4>1 DEF Found
          <5> QED
            BY <2>1, <2>3, <2>4, <3>0, <5>1 DEF Harmless, HidesAll, Policy, ActionFor, inputs
        <4>2. CASE m \in 1..Len(payload)
          <5>1. task'[r].payload[m] = payload[m]
            BY <2>4, <2>6, <4>2
          <5>2. HidesAll(r, m) /\ \A p \in payload[m] : Harmless(r, m, p)
            BY <2>2, <4>2 DEF PayloadKnows
          <5> QED
            BY <2>1, <2>4, <3>0, <5>1, <5>2 DEF Harmless, HidesAll, Policy, ActionFor, inputs
        <4> QED
          BY <2>4, <2>5, <2>6, <4>1, <4>2
      <3>2. Len(task'[r].payload) = Message(r) /\ messages' = messages
        BY <2>1, <2>4, <2>5, <2>6 DEF inputs
      <3> QED
        BY <2>2, <2>4, <2>5, <3>1, <3>2 DEF PayloadKnows, Policy
    <2>9. OutcomeKnows(r)'
      BY <2>1, <2>2, <2>4 DEF OutcomeKnows, Before, inputs, ends
    <2>10. \A q \in Requests \ {r} : PayloadKnows(q)' /\ OutcomeKnows(q)'
      BY <2>1, <2>3, OthersStep DEF TypeInv, ends, Goes
    <2> QED
      BY <2>7, <2>8, <2>9, <2>10
  <1> QED
    BY <1>1, <1>2

LEMMA ForgetInv ==
    ASSUME Inv, NEW i \in TokenIds, Forget(i)
    PROVE  Inv'
  <1>1. Grown /\ UNCHANGED inputs
    BY DEF Forget, Grown, Inv, TypeInv, VaultInv
  <1>2. TypeInv'
    BY <1>1 DEF Inv, Forget, Grown, TypeInv, inputs, ends
  <1>3. \A r \in Requests : PayloadKnows(r)' /\ OutcomeKnows(r)'
    BY <1>1, MessagesStay DEF Inv, Forget, PayloadKnows, OutcomeKnows, Policy, inputs, ends
  <1> QED
    BY <1>2, <1>3 DEF Inv

\* A request that goes on to its next step with the same payload.
LEMMA MovesStep ==
    ASSUME Inv, UNCHANGED <<inputs, vault, answer, told, rows>>, NEW r \in Requests,
           NEW step \in {"waiting", "calling", "restoration"}, NEW reply \in SUBSET TokenIds,
           task[r].step \in {"scan", "waiting", "calling"},
           step = "restoration" <=> task[r].step = "calling",
           task' = [task EXCEPT ![r] = [task[r] EXCEPT !.step = step, !.reply = reply]],
           \/ sent' = sent /\ (step = "waiting" <=> sent[r] = None)
           \/ step = "calling" /\ \E ids \in SUBSET TokenIds : sent' = [sent EXCEPT ![r] = ids]
    PROVE  Inv'
  <1> USE DEF Inv
  <1>1. /\ task'[r].step = step /\ task'[r].policy = task[r].policy
        /\ task'[r].found = task[r].found /\ task'[r].payload = task[r].payload
        /\ task'[r].code = task[r].code
    BY DEF TypeInv, Tasks
  <1>2. TypeInv'
    <2>1. task'[r] \in Tasks
      <3>1. task[r] \in Tasks
        BY DEF TypeInv
      <3>2. task'[r] = [task[r] EXCEPT !.step = step, !.reply = reply]
        BY DEF TypeInv
      <3>3. step \in Stages
        BY DEF Stages
      <3> QED
        BY <3>1, <3>2, <3>3, TaskStays
    <2>2. task' \in [Requests -> Tasks]
      BY <2>1 DEF TypeInv
    <2>3. sent' \in [Requests -> (SUBSET TokenIds) \cup {None}]
      BY DEF TypeInv
    <2> QED
      BY <2>2, <2>3 DEF TypeInv, inputs, vault, VaultInv
  <1>3. PayloadKnows(r)'
    BY <1>1, MessagesStay, UnchangedGrows DEF PayloadKnows, Policy, inputs
  <1>4. OutcomeKnows(r)'
    BY <1>1, NoneAssumption DEF OutcomeKnows, Before, inputs, TypeInv
  <1>5. Grown
    BY UnchangedGrows
  <1>6. \A q \in Requests \ {r} : PayloadKnows(q)' /\ OutcomeKnows(q)'
    BY <1>5, OthersStep DEF TypeInv
  <1> QED
    BY <1>2, <1>3, <1>4, <1>6

LEMMA SentTokens ==
    ASSUME Inv, NEW r \in Requests, At(r, "waiting")
    PROVE  \A i \in TokensIn(task[r].payload) :
             i \in DOMAIN origin /\ origin[i].session = session[r]
  <1> SUFFICES ASSUME NEW i \in TokensIn(task[r].payload)
               PROVE  i \in DOMAIN origin /\ origin[i].session = session[r]
    OBVIOUS
  <1>1. DOMAIN task[r].payload = 1..Len(task[r].payload)
    BY DEF Inv, TypeInv, Tasks
  <1>2. PICK m \in 1..Len(task[r].payload) :
          \E p \in task[r].payload[m] : p.kind = "token" /\ i = p.about
    BY <1>1 DEF TokensIn
  <1>3. PICK p \in task[r].payload[m] : p.kind = "token" /\ i = p.about
    BY <1>2
  <1> QED
    <2>1. Harmless(r, m, p)
      BY <1>3 DEF At, Inv, PayloadKnows
    <2>2. PICK v : StandsFor(r, i, v)
      BY <1>3, <2>1 DEF Harmless
    <2> QED
      BY <2>2 DEF StandsFor, Entry

LEMMA ProviderInv ==
    ASSUME Inv, NEW r \in Requests, Scan(r) \/ Call(r) \/ Reply(r)
    PROVE  Inv'
  <1> USE DEF Inv, Goes, ends
  <1>0. \A step : [task[r] EXCEPT !.step = step]
                 = [task[r] EXCEPT !.step = step, !.reply = task[r].reply]
    BY DEF TypeInv, Tasks
  <1>1. CASE Scan(r)
    <2>1. CASE Refused(r, "outbound")
      BY <1>1, <2>1, RefusedStep, UnchangedGrows DEF Scan, At
    <2>2. CASE ~Refused(r, "outbound")
      <3>1. /\ task' = [task EXCEPT ![r] = [task[r] EXCEPT !.step = "waiting"]]
            /\ UNCHANGED <<inputs, vault, sent, answer, told, rows>>
            /\ task[r].step = "scan"
        BY <1>1, <2>2 DEF Scan, At
      <3>2. sent[r] = None /\ task[r].reply \in SUBSET TokenIds
        BY <3>1 DEF TypeInv, Tasks, OutcomeKnows, Before
      <3> QED
        BY <1>0, <3>1, <3>2, MovesStep
    <2> QED
      BY <2>1, <2>2
  <1>2. CASE Call(r)
    <2>1. TokensIn(task[r].payload) \in SUBSET TokenIds
      BY <1>2, SentTokens DEF Call, TypeInv, VaultInv
    <2> QED
      BY <1>0, <1>2, <2>1, MovesStep DEF Call, At, TypeInv, Tasks
  <1>3. CASE Reply(r)
    BY <1>3, MovesStep DEF Reply, At, OutcomeKnows
  <1> QED
    BY <1>1, <1>2, <1>3

\* What restoration puts into an answer was kept for the request's own session.
LEMMA RestoredValues ==
    ASSUME Inv, NEW r \in Requests
    PROVE  /\ \A i \in Resolved(r) : i \in DOMAIN origin /\ origin[i].session = session[r]
           /\ {origin[i].value : i \in Resolved(r)} \in SUBSET Values
  BY DEF Inv, TypeInv, VaultInv, Resolved

LEMMA RestoreInv ==
    ASSUME Inv, NEW r \in Requests, Restore(r)
    PROVE  Inv'
  <1> USE DEF Inv
  <1>1. UNCHANGED vault /\ Grown /\ task[r].step = "restoration"
    BY UnchangedGrows DEF Restore, At
  <1>2. CASE Refused(r, "failed")
    BY <1>1, <1>2, RefusedStep
  <1>3. CASE ~Refused(r, "failed")
    <2>1. /\ answer' = [answer EXCEPT ![r] = {origin[i].value : i \in Resolved(r)}]
          /\ task' = [task EXCEPT ![r] = [New EXCEPT !.step = "audit", !.code = "ok"]]
          /\ UNCHANGED <<inputs, sent, told, rows>>
      BY <1>3 DEF Restore, Goes
    <2>2. task'[r].step = "audit" /\ task'[r].code = "ok"
      BY <2>1 DEF TypeInv, New
    <2>3. TypeInv'
      <3>1. task'[r] \in Tasks
        BY <2>1, NewTask DEF TypeInv, Tasks, Codes
      <3>2. task' \in [Requests -> Tasks]
        BY <2>1, <3>1 DEF TypeInv
      <3>3. answer' \in [Requests -> (SUBSET Values) \cup {None}]
        BY <2>1, RestoredValues DEF TypeInv
      <3> QED
        BY <1>1, <2>1, <3>2, <3>3 DEF TypeInv, inputs, Grown
    <2>4. PayloadKnows(r)' /\ OutcomeKnows(r)'
      BY <1>1, <2>1, <2>2 DEF PayloadKnows, OutcomeKnows, Before, inputs
    <2>5. \A q \in Requests \ {r} : PayloadKnows(q)' /\ OutcomeKnows(q)'
      BY <1>1, <2>1, OthersStep DEF TypeInv
    <2> QED
      BY <2>3, <2>4, <2>5
  <1> QED
    BY <1>2, <1>3

LEMMA EndedStep ==
    ASSUME Inv, Grown, UNCHANGED inputs, NEW r \in Requests, NEW how \in Outcomes,
           task[r].step # "done", Ended(r, how),
           \/ rows' = rows
           \/ \E code \in Codes : rows' = [rows EXCEPT ![r] = Append(@, code)],
           how = "ok" /\ failClosed => rows' = [rows EXCEPT ![r] = Append(@, "ok")]
    PROVE  Inv'
  <1> USE DEF Inv
  <1>1. /\ told' = [told EXCEPT ![r] = how]
        /\ task' = [task EXCEPT ![r] = [New EXCEPT !.step = "done"]]
        /\ sent' = [sent EXCEPT ![r] = None] /\ answer' = [answer EXCEPT ![r] = None]
    BY DEF Ended, Goes
  <1>2. task'[r].step = "done" /\ task'[r].code = None
    BY <1>1 DEF TypeInv, New
  <1>3. rows[r] = <<>>
    BY DEF OutcomeKnows
  <1>4. /\ rows' \in [Requests -> Seq(Codes)]
        /\ Len(rows'[r]) <= 1
        /\ how = "ok" /\ failClosed => rows'[r] = <<"ok">>
        /\ \A q \in Requests \ {r} : rows'[q] = rows[q]
    <2>1. \A code \in Codes : /\ Append(rows[r], code) \in Seq(Codes)
                               /\ Append(rows[r], code) = <<code>>
                               /\ Len(Append(rows[r], code)) = 1
      BY <1>3
    <2>2. "ok" \in Codes
      BY DEF Codes
    <2>3. rows \in [Requests -> Seq(Codes)]
      BY DEF TypeInv
    <2>4. Len(rows[r]) = 0
      BY <1>3
    <2>5. CASE rows' = rows
      BY <2>3, <2>4, <2>5, <1>3
    <2>6. CASE \E code \in Codes : rows' = [rows EXCEPT ![r] = Append(@, code)]
      <3>1. PICK code \in Codes : rows' = [rows EXCEPT ![r] = Append(@, code)]
        BY <2>6
      <3> DEFINE row == Append(rows[r], code)
      <3>2. row \in Seq(Codes) /\ row = <<code>> /\ Len(row) = 1
        BY <2>1
      <3> HIDE DEF row
      <3>3. rows' = [rows EXCEPT ![r] = row]
        BY <3>1 DEF row
      <3>4. /\ rows' \in [Requests -> Seq(Codes)] /\ rows'[r] = row
            /\ \A q \in Requests \ {r} : rows'[q] = rows[q]
        BY <2>3, <3>2, <3>3
      <3>5. how = "ok" /\ failClosed => rows'[r] = <<"ok">>
        BY <2>1, <2>2, <2>3
      <3> QED
        BY <3>2, <3>4, <3>5
    <2> QED
      BY <2>5, <2>6
  <1>5. TypeInv'
    <2>1. task'[r] \in Tasks
      BY <1>1, NewTask DEF TypeInv, Tasks
    <2>2. task' \in [Requests -> Tasks]
      BY <1>1, <2>1 DEF TypeInv
    <2> QED
      <3>1. told' \in [Requests -> Outcomes]
        BY <1>1 DEF TypeInv
      <3>2. sent' \in [Requests -> (SUBSET TokenIds) \cup {None}]
        BY <1>1 DEF TypeInv
      <3>3. answer' \in [Requests -> (SUBSET Values) \cup {None}]
        BY <1>1 DEF TypeInv
      <3> QED
        BY <1>4, <2>2, <3>1, <3>2, <3>3 DEF TypeInv, inputs, Grown
  <1>6. PayloadKnows(r)' /\ OutcomeKnows(r)'
    BY <1>1, <1>2, <1>4, NoneAssumption DEF TypeInv, PayloadKnows, OutcomeKnows, Before, inputs
  <1>7. \A q \in Requests \ {r} : PayloadKnows(q)' /\ OutcomeKnows(q)'
    BY <1>1, <1>4, OthersStep DEF TypeInv
  <1> QED
    BY <1>5, <1>6, <1>7

LEMMA EndingInv ==
    ASSUME Inv, NEW r \in Requests, Fails(r) \/ Deadline(r) \/ Cancel(r) \/ Record(r)
    PROVE  Inv'
  <1>1. CASE Fails(r) \/ Deadline(r)
    BY <1>1, RefusedStep, CarriedOutGrows DEF Fails, Deadline, Stages
  <1>2. CASE Cancel(r)
    BY <1>2, EndedStep, CarriedOutGrows, NoneAssumption DEF Cancel, Stages, Outcomes
  <1>3. CASE Record(r)
    <2>1. PICK s \in Submissions :
            /\ rows' = IF "kept" \in s THEN [rows EXCEPT ![r] = Append(@, task[r].code)] ELSE rows
            /\ Ended(r, IF "raised" \in s /\ task[r].code = "ok" THEN "unaudited" ELSE task[r].code)
      BY <1>3 DEF Record
    <2>2. /\ UNCHANGED <<inputs, vault>> /\ Grown /\ task[r].step # "done"
          /\ task[r].code \in Codes
      BY <1>3, UnchangedGrows DEF Record, At, Inv, TypeInv, Tasks
    <2>3. failClosed /\ "raised" \notin s => "kept" \in s
      BY DEF Submissions
    <2> DEFINE how == IF "raised" \in s /\ task[r].code = "ok" THEN "unaudited" ELSE task[r].code
    <2>4. how \in Outcomes /\ (how = "ok" /\ failClosed => "kept" \in s /\ task[r].code = "ok")
      BY <2>2, <2>3 DEF Outcomes
    <2> QED
      BY <2>1, <2>2, <2>4, EndedStep
  <1> QED
    BY <1>1, <1>2, <1>3

LEMMA InitInv == Init => Inv
  <1> SUFFICES ASSUME Init PROVE Inv
    OBVIOUS
  <1>1. TypeInv
    <2>1. <<>> \in Seq(Codes)
      OBVIOUS
    <2> QED
      <3>1. VaultInv
        BY DEF Init, VaultInv
      <3>2. session \in [Requests -> Sessions] /\ task \in [Requests -> Tasks]
        BY NewTask, AssignmentAssumption DEF Init
      <3>3. told \in [Requests -> Outcomes] /\ rows \in [Requests -> Seq(Codes)]
        BY <2>1 DEF Init, Outcomes, Codes
      <3>4. sent \in [Requests -> (SUBSET TokenIds) \cup {None}]
        BY DEF Init
      <3>5. answer \in [Requests -> (SUBSET Values) \cup {None}]
        BY DEF Init
      <3>6. failClosed \in BOOLEAN /\ messages \in [Requests -> Conversations]
        BY DEF Init
      <3> QED
        BY <3>1, <3>2, <3>3, <3>4, <3>5, <3>6 DEF TypeInv
  <1>2. \A r \in Requests : PayloadKnows(r) /\ OutcomeKnows(r)
    BY NoneAssumption DEF Init, New, PayloadKnows, OutcomeKnows, Before
  <1> QED
    BY <1>1, <1>2 DEF Inv

LEMMA NextInv == Inv /\ [Next]_vars => Inv'
  <1> SUFFICES ASSUME Inv, [Next]_vars PROVE Inv'
    OBVIOUS
  <1>1. CASE UNCHANGED vars
    <2>1. Grown /\ UNCHANGED inputs
      BY <1>1, UnchangedGrows DEF vars
    <2>2. TypeInv'
      BY <1>1 DEF vars, inputs, vault, ends, Inv, TypeInv, VaultInv
    <2>3. \A r \in Requests : PayloadKnows(r)' /\ OutcomeKnows(r)'
      BY <1>1, <2>1, MessagesStay
         DEF Inv, vars, inputs, ends, PayloadKnows, OutcomeKnows, Policy
    <2> QED
      BY <2>2, <2>3 DEF Inv
  <1>2. CASE \E r \in Requests : Serves(r)
    BY <1>2, ResolveInv, DetectInv, TokenizeInv, ProviderInv, RestoreInv, EndingInv DEF Serves
  <1>3. CASE \E i \in TokenIds : Forget(i)
    BY <1>3, ForgetInv
  <1> QED
    BY <1>1, <1>2, <1>3 DEF Next, AllDone

THEOREM Invariance == Spec => []Inv
  BY InitInv, NextInv, PTL DEF Spec

\* PayloadsAreProtected: in a message handed to the provider only the allowed ones of the
\* values found in it are in plain, its tokens stand for just the found ones to be
\* tokenized, and the live token of a value is the same one in all messages of all
\* requests of a session (tokenization/tokenizer.py:98-130, 264-285).
THEOREM PayloadsHideWhatIsFound == Spec => []PayloadsAreProtected
  <1>1. ASSUME Inv, NEW r \in Requests, At(r, "calling"), NEW m \in DOMAIN task[r].payload
        PROVE  /\ HidesAll(r, m)
               /\ \A p \in task[r].payload[m] : Harmless(r, m, p)
               /\ Due(r, m) = {w \in task[r].found[m] : ActionFor(r, w) = "tokenize"}
    <2>1. m \in 1..Len(task[r].payload)
      BY <1>1 DEF Inv, TypeInv, Tasks
    <2> QED
      BY <1>1, <2>1 DEF At, Inv, PayloadKnows, Due
  <1>2. ASSUME Inv, NEW r \in Requests, At(r, "calling"), NEW m \in DOMAIN task[r].payload
        PROVE  /\ \A v \in PlainIn(task[r].payload[m]) \cap task[r].found[m] :
                     ActionFor(r, v) = "allow"
               /\ {origin[i] : i \in TokensOf(task[r].payload[m])} =
                    {Entry(r, v) : v \in Due(r, m)}
    <2> DEFINE text == task[r].payload[m]
    <2>1. /\ \A p \in text : p.kind = "token" =>
                 \E v \in Due(r, m) : origin[p.about] = Entry(r, v)
          /\ \A v \in Due(r, m) : \E p \in text : p.kind = "token" /\ origin[p.about] = Entry(r, v)
      BY <1>1, <1>2 DEF HidesAll, Harmless, StandsFor
    <2>2. \A v \in PlainIn(text) \cap task[r].found[m] : ActionFor(r, v) = "allow"
      BY <1>1, <1>2 DEF Harmless, PlainIn
    <2> QED
      BY <2>1, <2>2 DEF TokensOf
  <1>3. Inv => \A i, j \in live : origin[i] = origin[j] => i = j
    BY DEF Inv, TypeInv, VaultInv
  <1>4. ASSUME Inv, NEW r \in Requests, At(r, "calling")
        PROVE  \A m \in DOMAIN task[r].payload :
                 /\ \A v \in PlainIn(task[r].payload[m]) \cap task[r].found[m] :
                      ActionFor(r, v) = "allow"
                 /\ {origin[i] : i \in TokensOf(task[r].payload[m])} =
                      {Entry(r, v) : v \in {w \in task[r].found[m] : ActionFor(r, w) = "tokenize"}}
    BY <1>1, <1>2, <1>4
  <1>5. Inv => PayloadsAreProtected
    BY <1>3, <1>4 DEF PayloadsAreProtected
  <1> QED
    BY <1>5, Invariance, PTL

\* RefusedIsNotSent: a request a guard or the scan refused has handed nothing to the
\* provider (outbound/gateway.py:17-18).
THEOREM RefusalComesFirst == Spec => []RefusedIsNotSent
  <1>1. Inv => RefusedIsNotSent
    BY DEF Inv, OutcomeKnows, RefusedIsNotSent
  <1> QED
    BY <1>1, Invariance, PTL

\* ServedIsRecorded: a fail-closed gateway serves no answer without its one audit row,
\* and writes no second (pipeline/reporting.py:60-140, audit/service.py:23-24).
THEOREM ServedHasItsRow == Spec => []ServedIsRecorded
  <1>1. Inv => ServedIsRecorded
    BY DEF Inv, OutcomeKnows, ServedIsRecorded
  <1> QED
    BY <1>1, Invariance, PTL

-----------------------------------------------------------------------------
LEMMA GrownIsGrowing == Grown => Exchange!Growing
  BY DEF Grown, VaultInv, Exchange!Growing

LEMMA RequestRefines ==
    ASSUME Inv, NEW r \in Requests, Serves(r)
    PROVE  Exchange!Next \/ UNCHANGED Exchange!vars
  <1> USE DEF Inv, Exchange!vars
  <1>1. CASE Resolve(r) \/ Detect(r) \/ Scan(r) \/ Reply(r)
    BY <1>1 DEF Resolve, Detect, Scan, Reply, Refused, inputs, vault, ends
  <1>2. CASE Tokenize(r)
    <2>1. UNCHANGED <<session, sent, answer>>
      BY <1>2 DEF Tokenize, Refused, inputs, ends
    <2>2. Grown
      BY <1>2, BatchGrows, UnchangedGrows DEF Tokenize
    <2> QED
      BY <2>1, <2>2, GrownIsGrowing DEF Exchange!Next, Exchange!Keep
  <1>3. CASE Call(r)
    <2>1. sent[r] = None /\ TokensIn(task[r].payload) \in SUBSET Exchange!Of(session[r])
      BY <1>3, SentTokens DEF Call, At, OutcomeKnows, Before, Exchange!Of
    <2>2. Exchange!Send(r)
      BY <1>3, <2>1 DEF Call, Exchange!Send, inputs, vault, ends
    <2> QED
      BY <2>2 DEF Exchange!Next
  <1>4. CASE Restore(r)
    <2>1. CASE Refused(r, "failed")
      BY <1>4, <2>1 DEF Restore, Refused, inputs, vault, ends
    <2>2. CASE ~Refused(r, "failed")
      <3>1. sent[r] # None /\ answer[r] = None
        BY <1>4 DEF Restore, At, OutcomeKnows
      <3>2. {origin[i].value : i \in Resolved(r)}
              \in SUBSET {origin[i].value : i \in Exchange!Of(session[r])}
        BY RestoredValues DEF Exchange!Of
      <3>3. Exchange!Answer(r)
        BY <1>4, <2>2, <3>1, <3>2 DEF Restore, Exchange!Answer, inputs, vault
      <3> QED
        BY <3>3 DEF Exchange!Next
    <2> QED
      BY <2>1, <2>2
  <1>5. CASE Fails(r) \/ Deadline(r)
    <2>1. UNCHANGED <<session, sent, answer>> /\ Grown
      BY <1>5, CarriedOutGrows DEF Fails, Deadline, Refused, inputs, ends
    <2> QED
      BY <2>1, GrownIsGrowing DEF Exchange!Next, Exchange!Keep
  <1>6. CASE Cancel(r) \/ Record(r)
    <2>1. /\ UNCHANGED session /\ Grown
          /\ sent' = [sent EXCEPT ![r] = None] /\ answer' = [answer EXCEPT ![r] = None]
      BY <1>6, CarriedOutGrows, UnchangedGrows DEF Cancel, Record, Ended, inputs
    <2> QED
      BY <2>1, GrownIsGrowing DEF Exchange!Next, Exchange!Over
  <1> QED
    BY <1>1, <1>2, <1>3, <1>4, <1>5, <1>6 DEF Serves

\* ImplementsExchange: whatever requests of a session interleave, expire, fail or are
\* cancelled, no token is sent before its mapping is kept, and no answer holds a value
\* kept for another session (pipeline/service.py:24-28, restoration/pipeline.py).
THEOREM ExchangeIsProtected == Spec => ImplementsExchange
  <1>1. Init => Exchange!Init
    BY AssignmentAssumption DEF Init, Exchange!Init
  <1>2. Inv /\ [Next]_vars => [Exchange!Next]_Exchange!vars
    <2> SUFFICES ASSUME Inv, [Next]_vars
                 PROVE  Exchange!Next \/ UNCHANGED Exchange!vars
      OBVIOUS
    <2>1. CASE UNCHANGED vars
      BY <2>1 DEF vars, inputs, vault, ends, Exchange!vars
    <2>2. CASE \E i \in TokenIds : Forget(i)
      BY <2>2 DEF Forget, inputs, ends, Exchange!vars
    <2> QED
      BY <2>1, <2>2, RequestRefines DEF Next, AllDone
  <1> QED
    BY <1>1, <1>2, Invariance, PTL DEF Spec, ImplementsExchange, Exchange!Spec

-----------------------------------------------------------------------------
\* The requests that hold a slot.  There may be any number of requests, but never
\* more calls than slots.
Calling == {r \in Requests : At(r, "calling")}
SlotsCounted == slots \in Nat /\ IsFiniteSet(Calling) /\ slots + Cardinality(Calling) = Slots

\* A step takes a slot, gives one back, or leaves both slots and callers alone.
LEMMA SlotMoves ==
    ASSUME Inv, Inv', NEW r \in Requests, Serves(r), slots \in Nat
    PROVE  \/ Calling' = Calling /\ slots' = slots
           \/ Calling' = Calling \cup {r} /\ r \notin Calling /\ slots > 0 /\ slots' = slots - 1
           \/ Calling' = Calling \ {r} /\ r \in Calling /\ slots' = slots + 1
  <1> USE DEF Inv, At
  <1>1. \A q \in Requests \ {r} : task'[q] = task[q]
    BY DEF Serves, Resolve, Detect, Tokenize, Scan, Call, Reply, Restore, Fails, Deadline,
           Cancel, Record, Refused, Ended, Goes, TypeInv
  <1>2. Calling \ {r} = Calling' \ {r}
    BY <1>1 DEF Calling
  <1>3. /\ r \in Calling <=> task[r].step = "calling"
        /\ r \in Calling' <=> task'[r].step = "calling"
    BY DEF Calling
  <1>4. r \notin Calling /\ r \notin Calling' => Calling' = Calling
    BY <1>2
  <1>5. CASE Call(r)
    BY <1>2, <1>3, <1>5 DEF Call, Goes, TypeInv, Tasks
  <1>6. CASE Reply(r)
    BY <1>2, <1>3, <1>6 DEF Reply, Goes, TypeInv, Tasks
  <1>7. ASSUME NEW code, Refused(r, code)
        PROVE  task'[r].step = "audit" /\ slots' = Released(r)
    BY <1>7 DEF Refused, Goes, TypeInv, New
  <1>8. ASSUME NEW how, Ended(r, how)
        PROVE  task'[r].step = "done"
    BY <1>8 DEF Ended, Goes, TypeInv, New
  <1>9. CASE Fails(r) \/ Deadline(r) \/ Cancel(r)
    BY <1>2, <1>3, <1>7, <1>8, <1>9 DEF Fails, Deadline, Cancel, Released
  <1>10. CASE Record(r)
    <2>1. task[r].step = "audit" /\ slots' = slots /\ \E how : Ended(r, how)
      BY <1>10 DEF Record
    <2>2. r \notin Calling /\ r \notin Calling'
      BY <1>3, <1>8, <2>1
    <2> QED
      BY <1>4, <2>1, <2>2
  <1>11. CASE Resolve(r) \/ Detect(r) \/ Tokenize(r) \/ Scan(r) \/ Restore(r)
    <2>1. task[r].step # "calling"
      BY <1>11 DEF Resolve, Detect, Tokenize, Scan, Restore
    <2>2. task'[r].step # "calling" /\ slots' = slots
      <3>1. CASE \E code \in {"refused", "outbound", "failed"} : Refused(r, code)
        BY <1>7, <2>1, <3>1 DEF Released
      <3>2. CASE Resolve(r)
        BY <3>2 DEF Resolve, Goes, TypeInv, Tasks
      <3>3. CASE Detect(r) /\ ~Refused(r, "refused")
        <4>1. PICK found \in Detections(r) :
                 Goes(r, [task[r] EXCEPT !.step = "tokenization", !.found = found])
                   /\ slots' = slots
          BY <3>3 DEF Detect, Guards, Refusal
        <4> QED
          BY <4>1 DEF Goes, TypeInv, Tasks
      <3>4. CASE Tokenize(r) /\ ~Refused(r, "refused")
        <4>1. PICK ids \in Mints(r) :
                 Goes(r, [task[r] EXCEPT
                       !.payload = Append(@, Protected(r, ids)),
                       !.minted = @ \cup Minted(ids),
                       !.step = IF Message(r) = Len(messages[r]) THEN "scan" ELSE @])
                   /\ slots' = slots
          BY <3>4 DEF Tokenize, Refusal
        <4> QED
          BY <2>1, <4>1 DEF Goes, TypeInv, Tasks
      <3>5. CASE Scan(r) /\ ~Refused(r, "outbound")
        BY <3>5 DEF Scan, Goes, TypeInv, Tasks
      <3>6. CASE Restore(r) /\ ~Refused(r, "failed")
        <4>1. Goes(r, [New EXCEPT !.step = "audit", !.code = "ok"]) /\ slots' = slots
          BY <3>6 DEF Restore
        <4> QED
          BY <4>1 DEF Goes, TypeInv, New
      <3> QED
        BY <1>11, <3>1, <3>2, <3>3, <3>4, <3>5, <3>6
    <2>3. r \notin Calling /\ r \notin Calling'
      BY <1>3, <2>1, <2>2
    <2> QED
      BY <1>4, <2>2, <2>3
  <1> QED
    BY <1>5, <1>6, <1>9, <1>10, <1>11 DEF Serves

LEMMA SlotsStep == Inv /\ Inv' /\ SlotsCounted /\ [Next]_vars => SlotsCounted'
  <1> SUFFICES ASSUME Inv, Inv', SlotsCounted, [Next]_vars PROVE SlotsCounted'
    OBVIOUS
  <1>1. CASE Calling' = Calling /\ slots' = slots
    BY <1>1 DEF SlotsCounted
  <1>2. ASSUME NEW r \in Requests, Serves(r)
        PROVE  SlotsCounted'
    <2>1. /\ IsFiniteSet(Calling) /\ Cardinality(Calling) \in Nat
          /\ slots \in Nat /\ slots + Cardinality(Calling) = Slots
      BY FS_CardinalityType DEF SlotsCounted
    <2>2. CASE Calling' = Calling \cup {r} /\ r \notin Calling /\ slots > 0 /\ slots' = slots - 1
      <3>1. IsFiniteSet(Calling') /\ Cardinality(Calling') = Cardinality(Calling) + 1
        BY <2>1, <2>2, FS_AddElement
      <3> QED
        BY <2>1, <2>2, <3>1 DEF SlotsCounted
    <2>3. CASE Calling' = Calling \ {r} /\ r \in Calling /\ slots' = slots + 1
      <3>1. IsFiniteSet(Calling') /\ Cardinality(Calling') = Cardinality(Calling) - 1
        BY <2>1, <2>3, FS_RemoveElement
      <3> QED
        BY <2>1, <2>3, <3>1 DEF SlotsCounted
    <2> QED
      BY <1>1, <1>2, <2>1, <2>2, <2>3, SlotMoves
  <1>3. CASE (\E i \in TokenIds : Forget(i)) \/ UNCHANGED vars
    BY <1>1, <1>3 DEF Forget, vars, Calling, At
  <1> QED
    BY <1>2, <1>3 DEF Next, AllDone

\* SlotsAreReturned: every provider slot is free or held by one request that calls the
\* provider, however its call ends (pipeline/service.py:418-430).
THEOREM SlotsAreNeverLost == Spec => []SlotsAreReturned
  <1>1. Init => SlotsCounted
    <2> SUFFICES ASSUME Init PROVE SlotsCounted
      OBVIOUS
    <2>1. Calling = {}
      BY DEF Init, New, Calling, At
    <2> QED
      BY <2>1, FS_EmptySet, BoundAssumption DEF Init, SlotsCounted
  <1>2. SlotsCounted => SlotsAreReturned
    BY DEF SlotsCounted, Calling, SlotsAreReturned
  <1> QED
    BY <1>1, <1>2, SlotsStep, Invariance, PTL DEF Spec
-----------------------------------------------------------------------------
(***************************************************************************)
(* A request destined to fail leaves nothing behind.  The tokenizer checks *)
(* each message on its own, while the vault already holds ids of the       *)
(* messages before it; that it never refuses then is because the guards    *)
(* have passed all of them together.                                       *)
(***************************************************************************)

\* What the guards let pass as a whole they let pass message by message.
LEMMA PartPasses ==
    ASSUME NEW found \in Seq(SUBSET Values), \A k \in 1..Len(found) : IsFiniteSet(found[k]),
           NEW p \in Policies, Refusal(found, p) = None, NEW m \in 1..Len(found)
    PROVE  Refusal(<<found[m]>>, p) = None
  <1> DEFINE part == <<found[m]>>
             f == [s \in Spans(part) |-> <<m, s[2]>>]
  <1>1. /\ Len(found) \in Nat /\ DOMAIN found = 1..Len(found)
        /\ p.budget \in Nat /\ MaxEntities \in Nat
    BY PolicyAssumption, BoundAssumption
  <1>2. Spans(part) = {1} \X found[m]
    BY DEF Spans
  <1>3. /\ \A s \in Spans(part) : <<m, s[2]>> \in Spans(found) /\ s = <<1, s[2]>>
        /\ \A s \in Spans(found) : s[1] \in 1..Len(found) /\ s[2] \in found[s[1]]
                                   /\ s = <<s[1], s[2]>>
    BY <1>1 DEF Spans
  <1>4. IsFiniteSet(Spans(found))
    <2> DEFINE texts == {found[k] : k \in 1..Len(found)}
    <2>1. IsFiniteSet(1..Len(found))
      BY <1>1, FS_Interval
    <2>2. IsFiniteSet(texts)
      <3> DEFINE g == [k \in 1..Len(found) |-> found[k]]
      <3>1. g \in Surjection(1..Len(found), texts)
        BY DEF Surjection
      <3> QED
        BY <2>1, <3>1, FS_Surjection
    <2>3. \A T \in texts : IsFiniteSet(T)
      OBVIOUS
    <2> HIDE DEF texts
    <2>4. IsFiniteSet(UNION texts)
      BY <2>2, <2>3, FS_UNION
    <2>5. IsFiniteSet((1..Len(found)) \X UNION texts)
      BY <2>1, <2>4, FS_Product
    <2>6. Spans(found) \subseteq (1..Len(found)) \X UNION texts
      BY <1>3 DEF texts
    <2> QED
      BY <2>5, <2>6, FS_Subset
  <1>5. f \in Injection(Spans(part), Spans(found))
    BY <1>3 DEF Injection, IsInjective
  <1>6. Cardinality(Spans(part)) <= Cardinality(Spans(found))
        /\ Cardinality(Spans(part)) \in Nat /\ Cardinality(Spans(found)) \in Nat
    <2>1. IsFiniteSet(Spans(part)) /\ Cardinality(Spans(part)) <= Cardinality(Spans(found))
      BY <1>4, <1>5, FS_Injection
    <2> QED
      BY <1>4, <2>1, FS_CardinalityType
  <1>7. /\ ~(Cardinality(Spans(found)) > p.budget)
        /\ ~(Cardinality(Spans(found)) > MaxEntities)
        /\ ~\E s \in Spans(found) : p.action[s[2]] = "block"
    BY NoneAssumption DEF Refusal
  <1>8. /\ ~(Cardinality(Spans(part)) > p.budget)
        /\ ~(Cardinality(Spans(part)) > MaxEntities)
    BY <1>1, <1>6, <1>7
  <1>9. ~\E s \in Spans(part) : p.action[s[2]] = "block"
    BY <1>3, <1>7
  <1> HIDE DEF part
  <1>10. Refusal(part, p) = None
    BY <1>8, <1>9 DEF Refusal
  <1> QED
    BY <1>10 DEF part

\* Before the guards a request has minted nothing; once they have passed it, no message
\* of it is refused.
Guarded(r) ==
    /\ task[r].step \in {"policy", "detection"} => task[r].minted = {}
    /\ task[r].step = "tokenization" =>
         \A m \in 1..Len(task[r].found) : Refusal(<<task[r].found[m]>>, Policy(r)) = None
    /\ task[r].code = "refused" => task[r].minted = {}

LEMMA DetectGuards ==
    ASSUME Inv, NEW r \in Requests, Detect(r), Guarded(r)
    PROVE  Guarded(r)'
  <1> USE DEF Inv
  <1>1. PICK found \in Detections(r) :
          LET refusal == Guards(found, Policy(r))
          IN IF refusal = None
             THEN /\ Goes(r, [task[r] EXCEPT !.step = "tokenization", !.found = found])
                  /\ UNCHANGED <<inputs, slots, sent, ends>>
             ELSE Refused(r, refusal)
    BY DEF Detect
  <1>2. task[r].step = "detection" /\ task[r].minted = {} /\ Policy(r) \in Policies
        /\ task[r].code = None
    BY DEF Detect, At, Guarded, PayloadKnows, OutcomeKnows
  <1>3. CASE Guards(found, Policy(r)) # None
    <2> DEFINE refusal == Guards(found, Policy(r))
    <2>0. Refused(r, refusal)
      BY <1>1, <1>3
    <2> HIDE DEF refusal
    <2>1. task'[r].step = "audit" /\ task'[r].minted = {}
      BY <1>2, <2>0 DEF Refused, Goes, New, TypeInv
    <2> QED
      BY <2>1 DEF Guarded
  <1>4. CASE Guards(found, Policy(r)) = None
    <2>0. /\ Goes(r, [task[r] EXCEPT !.step = "tokenization", !.found = found])
          /\ task \in [Requests -> Tasks]
      BY <1>1, <1>4 DEF TypeInv
    <2>1. /\ task'[r].step = "tokenization" /\ task'[r].policy = task[r].policy
          /\ task'[r].found = found /\ task'[r].code = None
      BY <1>2, <2>0 DEF Goes, Tasks
    <2>2. /\ messages[r] \in Seq(SUBSET Values) /\ messages[r] \in Conversations
          /\ DOMAIN messages[r] = 1..Len(messages[r])
      BY ConversationAssumption DEF TypeInv
    <2>3. found \in [1..Len(messages[r]) -> SUBSET Values] /\ Len(messages[r]) \in Nat
      BY <2>2 DEF Detections
    <2>4. found \in Seq(SUBSET Values) /\ DOMAIN found = 1..Len(found)
      BY <2>3
    <2>5. \A k \in 1..Len(found) : IsFiniteSet(found[k])
      <3> SUFFICES ASSUME NEW k \in 1..Len(found) PROVE IsFiniteSet(found[k])
        OBVIOUS
      <3>1. k \in DOMAIN messages[r]
        BY <2>2, <2>3, <2>4
      <3>2. found[k] \subseteq messages[r][k] /\ IsFiniteSet(messages[r][k])
        BY <2>2, <3>1, FinitenessAssumption DEF Detections
      <3> QED
        BY <3>2, FS_Subset
    <2>6. \A m \in 1..Len(found) : Refusal(<<found[m]>>, Policy(r)) = None
      BY <1>2, <1>4, <2>4, <2>5, PartPasses DEF Guards
    <2>7. Policy(r)' = Policy(r)
      BY <2>1 DEF Policy
    <2> QED
      BY <2>1, <2>6, <2>7, NoneAssumption DEF Guarded
  <1> QED
    BY <1>3, <1>4

LEMMA TokenizeGuards ==
    ASSUME Inv, NEW r \in Requests, Tokenize(r), Guarded(r)
    PROVE  Guarded(r)'
  <1> USE DEF Inv
  <1>0. At(r, "tokenization") /\ task[r].step = "tokenization" /\ task[r].code = None
    BY DEF Tokenize, At, OutcomeKnows
  <1>1. Message(r) \in 1..Len(task[r].found)
    BY <1>0 DEF TypeInv, PayloadKnows, Message, Tasks
  <1>2. Refusal(<<Found(r)>>, Policy(r)) = None
    BY <1>0, <1>1 DEF Guarded, Found
  <1>3. PICK ids \in Mints(r) :
          Goes(r, [task[r] EXCEPT
             !.payload = Append(@, Protected(r, ids)),
             !.minted = @ \cup Minted(ids),
             !.step = IF Message(r) = Len(messages[r]) THEN "scan" ELSE @])
    BY <1>2 DEF Tokenize
  <1>4. /\ task'[r].step \in {"scan", "tokenization"} /\ task'[r].code = None
        /\ task'[r].found = task[r].found /\ task'[r].policy = task[r].policy
    BY <1>0, <1>3 DEF Goes, TypeInv, Tasks
  <1> QED
    BY <1>0, <1>4, NoneAssumption DEF Guarded, Policy

LEMMA NextGuarded ==
    Inv /\ (\A q \in Requests : Guarded(q)) /\ [Next]_vars => (\A q \in Requests : Guarded(q)')
  <1> SUFFICES ASSUME Inv, \A q \in Requests : Guarded(q), [Next]_vars, NEW q \in Requests
               PROVE  Guarded(q)'
    OBVIOUS
  <1> USE DEF Inv
  <1>1. CASE task'[q] = task[q]
    BY <1>1 DEF Guarded, Policy
  <1>2. ASSUME NEW r \in Requests, Serves(r), r # q
        PROVE  task'[q] = task[q]
    BY <1>2 DEF Serves, Resolve, Detect, Tokenize, Scan, Call, Reply, Restore, Fails, Deadline,
           Cancel, Record, Refused, Ended, Goes, TypeInv
  <1>3. CASE Detect(q)
    BY <1>3, DetectGuards
  <1>4. CASE Tokenize(q)
    BY <1>4, TokenizeGuards
  <1>5. CASE \E code \in {"outbound", "failed"} : Refused(q, code)
    <2>1. task'[q].step = "audit" /\ task'[q].code # "refused"
      BY <1>5 DEF Refused, Goes, New, TypeInv
    <2> QED
      BY <2>1 DEF Guarded
  <1>6. CASE \E how : Ended(q, how)
    <2>1. task'[q].step = "done" /\ task'[q].code = None
      BY <1>6 DEF Ended, Goes, New, TypeInv
    <2> QED
      BY <2>1, NoneAssumption DEF Guarded
  <1>7. CASE Resolve(q)
    <2>1. /\ task'[q].step = "detection" /\ task'[q].minted = task[q].minted
          /\ task[q].step = "policy"
      BY <1>7 DEF Resolve, At, Goes, TypeInv, Tasks
    <2> QED
      BY <2>1 DEF Guarded
  <1>8. CASE (Scan(q) \/ Call(q) \/ Reply(q)) /\ ~Refused(q, "outbound")
    <2>1. /\ task'[q].step \in {"waiting", "calling", "restoration"}
          /\ task'[q].minted = task[q].minted /\ task'[q].code = task[q].code
      <3>1. CASE Scan(q)
        BY <1>8, <3>1 DEF Scan, Goes, TypeInv, Tasks
      <3>2. CASE Call(q)
        BY <3>2 DEF Call, Goes, TypeInv, Tasks
      <3>3. CASE Reply(q)
        BY <3>3 DEF Reply, Goes, TypeInv, Tasks
      <3> QED
        BY <1>8, <3>1, <3>2, <3>3
    <2> QED
      BY <2>1 DEF Guarded
  <1>9. CASE Restore(q) /\ ~Refused(q, "failed")
    <2>0. Goes(q, [New EXCEPT !.step = "audit", !.code = "ok"])
      BY <1>9 DEF Restore
    <2>1. task'[q].step = "audit" /\ task'[q].code = "ok"
      BY <2>0 DEF Goes, New, TypeInv
    <2> QED
      BY <2>1 DEF Guarded
  <1>10. CASE \E r \in Requests : Serves(r)
    BY <1>1, <1>2, <1>3, <1>4, <1>5, <1>6, <1>7, <1>8, <1>9, <1>10
       DEF Serves, Fails, Deadline, Cancel, Record
  <1>11. CASE (\E i \in TokenIds : Forget(i)) \/ UNCHANGED vars
    BY <1>1, <1>11 DEF Forget, vars
  <1> QED
    BY <1>10, <1>11 DEF Next, AllDone

\* RefusedLeavesNothing: a request that a guard refuses, for any of its messages, has put
\* nothing into the vault (pipeline/guards.py:17-18, pipeline/service.py:300-345).
THEOREM RefusalLeavesNothing == Spec => []RefusedLeavesNothing
  <1> DEFINE AllGuarded == \A r \in Requests : Guarded(r)
  <1>1. Init => AllGuarded
    BY NoneAssumption DEF Init, New, Guarded
  <1>2. Inv /\ AllGuarded /\ [Next]_vars => AllGuarded'
    BY NextGuarded
  <1>3. AllGuarded => RefusedLeavesNothing
    BY DEF Guarded, RefusedLeavesNothing
  <1> QED
    BY <1>1, <1>2, <1>3, Invariance, PTL DEF Spec
=============================================================================
