------------------------------- MODULE Lifespan -------------------------------
(***************************************************************************)
(* The life of one gateway process: its settings are read and validated    *)
(* (config/settings.py), its services built, started, used and stopped     *)
(* (api/composition.py, the lifespan of main.py), readiness probed         *)
(* (api/v1/health.py).  Handles are opened by constructors, except the     *)
(* client of the object store, which its first user opens                  *)
(* (documents/storage/s3.py).  The server closes a process after its       *)
(* requests are over.                                                      *)
(*                                                                         *)
(* A setting is one of the few qualities the validators tell apart.        *)
(***************************************************************************)
EXTENDS Integers, Sequences

CONSTANTS
    Configurations, \* what the environment may say, see Configuration
    KeyIds, Lower,  \* key ids, and str.lower on them
    Users,          \* document requests
    Probe,          \* a readiness probe
    NoClient

\* A key ring: what the keyword or VAULT_KEYS gave, and the VAULT_KEY_<ID> variables.
Key == {"good", "short", "malformed", "zero", "placeholder", "blank"}
Rings == UNION {[ids -> Key] : ids \in SUBSET KeyIds}
RingSource == [given : Rings, found : Rings, active : KeyIds]
Credential == {"absent", "blank", "placeholder", "good"}
Configuration ==
    [production : BOOLEAN, pepper : {"good", "short", "placeholder"},
     hmac : {"good", "short", "placeholder"}, vault : RingSource, document : RingSource,
     diagnostics : BOOLEAN, wildcard : BOOLEAN, metrics : BOOLEAN,
     token : {"absent", "placeholder", "short", "good"}, documents : BOOLEAN,
     bucket : BOOLEAN, compatible : BOOLEAN, endpoint : BOOLEAN, id : Credential,
     secret : Credential, openai : BOOLEAN, overlap : {"below", "atLeast"}]

Tasks == Users \cup {Probe}

ASSUME LifeAssumption ==
    /\ Lower \in [KeyIds -> KeyIds]
    /\ \A k \in KeyIds : Lower[Lower[k]] = Lower[k]
    /\ \A c \in Configurations :
         /\ DOMAIN c = {"production", "pepper", "hmac", "vault", "document", "diagnostics",
                        "wildcard", "metrics", "token", "documents", "bucket", "compatible",
                        "endpoint", "id", "secret", "openai", "overlap"}
         /\ \A source \in {c.vault, c.document} :
              \A j, k \in DOMAIN source.found : Lower[j] = Lower[k] => j = k
    /\ Probe \notin Users /\ NoClient \notin Tasks

VARIABLES
    settings,       \* the configuration
    life,           \* where the process is
    agenda,         \* the constructors, checks or closers it has left
    handles,        \* the handles that are open; a client is named by the task that opened it
    worker,         \* whether the audit writer runs
    client,         \* _client and _stack of the object store
    work,           \* where each task is
    overwritten,    \* clients whose place another one took
    failedCloses,   \* closers that failed
    keyErrors       \* rings whose key was missing when something was to be sealed

lifeVars == <<settings, life, agenda, handles, worker, client, work, overwritten,
              failedCloses, keyErrors>>

LifeInit ==
    /\ settings \in Configurations
    /\ life = "loading" /\ agenda = <<>>
    /\ handles = {} /\ worker = FALSE /\ client = NoClient
    /\ work = [t \in Tasks |-> "waiting"]
    /\ overwritten = {} /\ failedCloses = {} /\ keyErrors = {}

-----------------------------------------------------------------------------
\* Settings.
Ring(source) ==
    IF source.given # <<>> THEN source.given
    ELSE LET present == {k \in DOMAIN source.found : source.found[k] # "blank"}
         IN  [l \in {Lower[k] : k \in present} |->
                 source.found[CHOOSE k \in present : Lower[k] = l]]

\* dict.get: the key of an id, or none.
KeyOfId(ring, k) == {ring[j] : j \in {Lower[k]} \cap DOMAIN ring}
ActiveKey(source) == KeyOfId(Ring(source), source.active)

\* What _vault_key_problems finds.  A ring itself asks of a key no more than its length.
AnyKeyProblems(source) ==                                                   \* mutant
    IF \E k \in DOMAIN Ring(source) : Ring(source)[k] = "good" THEN {} ELSE {"no active key"}
KeyProblems(source) ==
    IF ActiveKey(source) = {} THEN {"no active key"} ELSE ActiveKey(source) \ {"good"}

IsGiven(credential) == credential \notin {"absent", "blank"}
ProviderProblems(s) ==
    IF s.compatible
    THEN (IF s.endpoint THEN {} ELSE {"no endpoint"})
         \cup (IF IsGiven(s.id) THEN {} ELSE {"no id"})
         \cup (IF IsGiven(s.secret) THEN {} ELSE {"no secret"})
    ELSE (IF s.endpoint THEN {"endpoint"} ELSE {})
         \cup (IF IsGiven(s.id) = IsGiven(s.secret) THEN {} ELSE {"half a credential"})

StorageProblems(s) ==
    KeyProblems(s.document) \cup ProviderProblems(s)
    \cup (IF s.bucket THEN {} ELSE {"no bucket"})
    \cup ({s.id, s.secret} \cap {"placeholder"})

TokenProblems(s) == {s.token} \ {"absent", "good"}

ProductionProblems(s) ==
    ({s.pepper} \ {"good"}) \cup ({s.hmac} \cap {"placeholder"})
    \cup KeyProblems(s.vault)
    \cup (IF s.diagnostics THEN {"diagnostics"} ELSE {})
    \cup (IF s.wildcard THEN {"wildcard"} ELSE {})
    \cup (IF s.metrics /\ s.token = "absent" THEN {"open metrics"} ELSE {})
    \cup TokenProblems(s)
    \cup (IF s.documents THEN StorageProblems(s) ELSE {})

Accepted(s) ==
    /\ s.overlap = "below"
    /\ s.production => ProductionProblems(s) = {}

Constructors == <<"engine", "redis", "tokenizer", "hasher", "registry", "store">>
Load ==
    /\ life = "loading"
    /\ IF Accepted(settings)
       THEN life' = "building" /\ agenda' = Constructors
       ELSE life' = "refused" /\ UNCHANGED agenda
    /\ UNCHANGED <<settings, handles, worker, client, work, overwritten, failedCloses, keyErrors>>

-----------------------------------------------------------------------------
\* build_services: pools and clients are made; the keys of the fingerprints and the
\* digests are derived from the root secret, which may be too short for either.
Checks == <<"ping", "audit", "detector">>
Opens(name) ==
    CASE name \in {"engine", "redis"} -> {name}
      [] name = "registry" /\ settings.openai -> {"openai"}
      [] OTHER -> {}
Raises(name) == name \in {"tokenizer", "hasher"} /\ settings.hmac = "short"

Construct ==
    /\ life = "building"
    /\ IF Raises(Head(agenda))
       THEN life' = "unbuilt" /\ agenda' = <<>> /\ UNCHANGED handles
       ELSE /\ handles' = handles \cup Opens(Head(agenda))
            /\ IF Len(agenda) = 1
               THEN life' = "starting" /\ agenda' = Checks
               ELSE agenda' = Tail(agenda) /\ UNCHANGED life
    /\ UNCHANGED <<settings, worker, client, work, overwritten, failedCloses, keyErrors>>

\* stop_services: its closers, in order.
EngineFirst ==                                                              \* mutant
    <<"engine", "audit", "redis">>
    \o (IF settings.documents THEN <<"processor", "documents">> ELSE <<>>)
Closers ==
    <<"audit", "redis">>
    \o (IF settings.documents THEN <<"processor", "documents">> ELSE <<>>)
    \o <<"engine">>

\* start_services: the ping and the detector's model may fail, the writer starts.
StartUp ==
    /\ life = "starting"
    /\ \/ /\ worker' = (worker \/ Head(agenda) = "audit")
          /\ IF Len(agenda) = 1
             THEN life' = "serving" /\ agenda' = <<>>
             ELSE agenda' = Tail(agenda) /\ UNCHANGED life
       \/ /\ Head(agenda) # "audit"
          /\ life' = "giving up" /\ agenda' = Closers
          /\ UNCHANGED worker
    /\ UNCHANGED <<settings, handles, client, work, overwritten, failedCloses, keyErrors>>

-----------------------------------------------------------------------------
\* Requests.  A probe asks Redis and the database before the object store.
Goes(t, step) == work' = [work EXCEPT ![t] = step]
Untouched == UNCHANGED <<settings, life, agenda, worker, failedCloses>>

Asks ==
    /\ life = "serving" /\ work[Probe] = "waiting"
    /\ \/ settings.documents /\ Goes(Probe, "asked")
       \/ ~settings.documents /\ Goes(Probe, "over")
    /\ Untouched /\ UNCHANGED <<handles, client, overwritten, keyErrors>>

\* A document is sealed under the document ring's key, a prompt's values under the vault's.
Unusable(source) == ActiveKey(source) \cap {"good", "zero"} = {}
Seal(u) ==
    /\ life = "serving" /\ work[u] = "waiting"
    /\ \E ring \in {"vault"} \cup (IF settings.documents THEN {"document"} ELSE {}) :
         IF Unusable(settings[ring])
         THEN keyErrors' = keyErrors \cup {ring} /\ Goes(u, "over")
         ELSE Goes(u, IF ring = "document" THEN "asked" ELSE "over") /\ UNCHANGED keyErrors
    /\ Untouched /\ UNCHANGED <<handles, client, overwritten>>

\* _open: the client if there is one, or one more is opened, and put in place when it is.
Ready(t) ==
    /\ work[t] = "asked"
    /\ Goes(t, IF client = NoClient THEN "opening" ELSE "using")
    /\ Untouched /\ UNCHANGED <<handles, client, overwritten, keyErrors>>

Opened(t) ==
    /\ work[t] = "opening"
    /\ handles' = handles \cup {t}
    /\ client' = t
    /\ overwritten' = overwritten \cup ({client} \ {NoClient})
    /\ Goes(t, "using")
    /\ Untouched /\ UNCHANGED keyErrors

\* The client cannot be opened, the call ends, well or not, or the probe's time is up.
Over(t) ==
    /\ work[t] \in {"opening", "using"}
    /\ Goes(t, "over")
    /\ Untouched /\ UNCHANGED <<handles, client, overwritten, keyErrors>>

-----------------------------------------------------------------------------
\* The server ends the lifespan when nothing is under way.
Stop ==
    /\ life = "serving"
    /\ \A t \in Tasks : work[t] \in {"waiting", "over"}
    /\ life' = "stopping" /\ agenda' = Closers
    /\ UNCHANGED <<settings, handles, worker, client, work, overwritten, failedCloses, keyErrors>>

\* One closer.  AuditService.stop leaves no writer whatever it raises; the store gives
\* its client up even when it cannot close it.
Closing == life \in {"stopping", "giving up"}
Closes(name) == IF name = "documents" THEN {client} ELSE {name}
Ends == IF life = "stopping" THEN "stopped" ELSE "abandoned"
GoesOn ==
    IF Len(agenda) = 1 THEN life' = Ends /\ agenda' = <<>>
    ELSE agenda' = Tail(agenda) /\ UNCHANGED life
Forgets ==
    /\ worker' = (worker /\ Head(agenda) # "audit")
    /\ client' = IF Head(agenda) = "documents" THEN NoClient ELSE client

CloseNext ==
    /\ Closing
    /\ handles' = handles \ Closes(Head(agenda))
    /\ Forgets /\ GoesOn
    /\ UNCHANGED <<settings, work, overwritten, failedCloses, keyErrors>>

CloseFails ==
    /\ Closing
    /\ failedCloses' = failedCloses \cup Closes(Head(agenda))
    /\ Forgets
    /\ GoesOn
    /\ UNCHANGED <<settings, handles, work, overwritten, keyErrors>>

LifeNext ==
    \/ Load \/ Construct \/ StartUp
    \/ Asks \/ \E u \in Users : Seal(u)
    \/ \E t \in Tasks : Ready(t) \/ Opened(t) \/ Over(t)
    \/ Stop \/ CloseNext \/ CloseFails

LifeSpec == LifeInit /\ [][LifeNext]_lifeVars

-----------------------------------------------------------------------------
\* "One failing close must not skip the rest, or a failed shutdown leaks a connection
\* pool" (composition.py:328-331): what a process that was built leaves open is what its
\* own close could not close, the provider's pool, which no closer names, and store
\* clients that two first users opened at once.  Until then the writer's events have an
\* engine to go to.
WhatStaysOpen ==
    /\ worker => "engine" \in handles
    /\ life \in {"stopped", "abandoned"} =>
         /\ ~worker
         /\ handles \subseteq failedCloses \cup {"openai"} \cup overwritten

\* A process in production that serves has the key that whatever it seals is sealed
\* under: the validators and the rings agree on which key that is (settings.py:368-386,
\* 424-452; vault/keys.py:76-126).
ProductionSeals ==
    settings.production => keyErrors = {}
=============================================================================
