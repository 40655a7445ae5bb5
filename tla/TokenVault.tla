----------------------------- MODULE TokenVault -----------------------------
(***************************************************************************)
(* The Redis token vault: app/vault/redis_vault.py, with the envelope it   *)
(* stores (app/vault/crypto.py, records.py).                               *)
(*                                                                         *)
(* A session is a (tenant, session id) pair, because every key name starts *)
(* with both.  A fingerprint is an (entity type, HMAC of the normalised    *)
(* value) pair; several originals may share one, as two spellings of an    *)
(* e-mail address do.  Redis is three families of keys, each with a time   *)
(* to live; a key whose time is 0 does not exist.  One unit of time is any *)
(* span the TTLs are multiples of.                                         *)
(*                                                                         *)
(* Every Lua script, MGET, SMEMBERS and MULTI block is one step of Redis,  *)
(* and everything between two of them can be interleaved.  A call that     *)
(* fails before its script runs changes nothing; a call whose reply is     *)
(* lost has the effect of one that succeeds: neither needs an action here. *)
(***************************************************************************)
EXTENDS Naturals, FiniteSets

CONSTANTS
    Sessions,        \* (tenant, session) pairs: the key namespaces
    Originals,       \* values as they were spelled in a message
    Fingerprints,    \* (entity type, HMAC of the normalised value)
    FingerprintOf,   \* the fingerprint of each original
    EntityTypes,     \* the entity types of the token grammar
    TypeOf,          \* the entity type of each fingerprint
    TokenIds,        \* the 26-character ids; each is generated at most once
    Ttls,            \* the TTLs that policies ask for
    MaxTtl,          \* the longest TTL the vault accepts
    Deleters,        \* concurrent delete_session calls
    Unminted,        \* a token id nothing is sealed under
    NoToken,         \* the pointer of a fingerprint key that does not exist
    NotDeleting      \* a delete_session call that is not between its two steps

ASSUME TtlAssumption ==
    /\ MaxTtl \in Nat \ {0}
    /\ Ttls \subseteq Nat

ASSUME FingerprintAssumption ==
    /\ FingerprintOf \in [Originals -> Fingerprints]
    /\ TypeOf \in [Fingerprints -> EntityTypes]

ASSUME SentinelAssumption ==
    /\ NoToken \notin TokenIds
    /\ Unminted \notin [session : Sessions, original : Originals]

RecordKey(s, i) == <<"token", s, i>>
IndexKey(s, f)  == <<"fingerprint", s, f>>
MetaKey(s)      == <<"meta", s>>

RecordKeys == {RecordKey(s, i) : s \in Sessions, i \in TokenIds}
IndexKeys  == {IndexKey(s, f) : s \in Sessions, f \in Fingerprints}
MetaKeys   == {MetaKey(s) : s \in Sessions}
MemberKeys == RecordKeys \cup IndexKeys
Keys       == MemberKeys \cup MetaKeys

\* A token as it stands in a text: its entity type and its id.
Tokens == EntityTypes \X TokenIds

\* What AES-GCM binds a record to, and the value inside.
Envelopes == [session : Sessions, original : Originals]

Deletions == [session : Sessions, members : SUBSET MemberKeys]

VARIABLES
    ttl,        \* remaining time to live of each key
    sealed,     \* the envelope each token id was minted with
    pointer,    \* the token id a fingerprint key holds
    members,    \* the members of each session's meta set
    deletion,   \* the SMEMBERS reply each delete_session is about to act on
    reply       \* the last answer of resolve_many

vars == <<ttl, sealed, pointer, members, deletion, reply>>

Live(k) == ttl[k] > 0

OriginalOf(i) == sealed[i].original
SessionOf(i)  == sealed[i].session

-----------------------------------------------------------------------------
NoReply == [failed |-> FALSE, session |-> {}, resolved |-> {}]

Init ==
    /\ ttl = [k \in Keys |-> 0]
    /\ sealed = [i \in TokenIds |-> Unminted]
    /\ pointer = [s \in Sessions |-> [f \in Fingerprints |-> NoToken]]
    /\ members = [s \in Sessions |-> {}]
    /\ deletion = [d \in Deleters |-> NotDeleting]
    /\ reply = NoReply

-----------------------------------------------------------------------------
(***************************************************************************)
(* get_or_create_many.  A batch is a set of fingerprints with one original *)
(* each: _deduplicate has collapsed the repeats.                           *)
(***************************************************************************)

\* The script reuses an index entry only while the record it names exists.
ReusableUntilLastUnit(s, f) ==                                      \* mutant
    /\ Live(IndexKey(s, f))
    /\ ttl[RecordKey(s, pointer[s][f])] > 1
Reusable(s, f) ==
    /\ Live(IndexKey(s, f))
    /\ Live(RecordKey(s, pointer[s][f]))

Fresh == {i \in TokenIds : sealed[i] = Unminted}

\* The originals a batch may carry, and the candidate ids it may draw for the
\* fingerprints that need one.
Batches(F) == {b \in [F -> Originals] : \A f \in F : FingerprintOf[b[f]] = f}

Candidates(C) ==
    {ids \in [C -> Fresh] : \A f, g \in C : ids[f] = ids[g] => f = g}

\* The keys the script creates, and those whose life it extends.
Created(s, ids) ==
    {RecordKey(s, ids[f]) : f \in DOMAIN ids} \cup {IndexKey(s, f) : f \in DOMAIN ids}

ExtendsIndexOnly(s, R)  == {IndexKey(s, f) : f \in R}               \* mutant
ExtendsRecordOnly(s, R) == {RecordKey(s, pointer[s][f]) : f \in R}  \* mutant
Extended(s, R) ==
    {RecordKey(s, pointer[s][f]) : f \in R} \cup {IndexKey(s, f) : f \in R}

\* The closing EXPIRE of the meta key, which does nothing to a missing key.
MetaOnlyWithNewKeys(s, ids) ==                                      \* mutant
    IF DOMAIN ids # {} THEN {MetaKey(s)} ELSE {}
MetaExtended(s, ids) ==
    IF Live(MetaKey(s)) \/ DOMAIN ids # {} THEN {MetaKey(s)} ELSE {}

\* _validated_ttl: another TTL is refused before Redis is reached.
ValidTtl(t) == t \in 1..MaxTtl

\* The envelope of an original: the session is in its associated data, the type and the
\* original, which name the fingerprint, in the record.
Sealed(s, original) == [session |-> s, original |-> original]

\* The Lua script, over the batch's fingerprints and with time to live t.
BatchWrite(s, batch, ids, t) ==
    LET touched == Created(s, ids)
                     \cup Extended(s, DOMAIN batch \ DOMAIN ids)
                     \cup MetaExtended(s, ids)
    IN  /\ ttl' = [k \in Keys |-> IF k \in touched THEN t ELSE ttl[k]]
        /\ sealed' = [i \in TokenIds |->
                        IF \E f \in DOMAIN ids : ids[f] = i
                        THEN Sealed(s, batch[CHOOSE f \in DOMAIN ids : ids[f] = i])
                        ELSE sealed[i]]
        /\ pointer' = [pointer EXCEPT ![s] = [f \in Fingerprints |->
                        IF f \in DOMAIN ids THEN ids[f] ELSE pointer[s][f]]]
        /\ members' = [members EXCEPT ![s] = @ \cup Created(s, ids)]

GetOrCreateMany(s) ==
    /\ \E F \in (SUBSET Fingerprints) \ {{}}, t \in Ttls :
         /\ ValidTtl(t)
         /\ \E batch \in Batches(F), ids \in Candidates({f \in F : ~Reusable(s, f)}) :
               BatchWrite(s, batch, ids, t)
    /\ UNCHANGED <<deletion, reply>>

-----------------------------------------------------------------------------
(***************************************************************************)
(* resolve_many: one MGET.  A record that is gone is left out; one that    *)
(* does not authenticate for this session, type and id fails the call.     *)
(***************************************************************************)

\* AES-GCM opens an envelope only under the associated data it was sealed with.
Opens(s, token) ==
    /\ SessionOf(token[2]) = s
    /\ TypeOf[FingerprintOf[OriginalOf(token[2])]] = token[1]

Found(s, T) == {token \in T : Live(RecordKey(s, token[2]))}

ResolveMany(s, T) ==
    /\ reply' = IF \A token \in Found(s, T) : Opens(s, token)
                THEN [failed |-> FALSE, session |-> {s},
                      resolved |-> {<<token, OriginalOf(token[2])>> :
                                      token \in Found(s, T)}]
                ELSE [failed |-> TRUE, session |-> {s}, resolved |-> {}]
    /\ UNCHANGED <<ttl, sealed, pointer, members, deletion>>

-----------------------------------------------------------------------------
(***************************************************************************)
(* delete_session: SMEMBERS, then one MULTI block of DELs.                 *)
(***************************************************************************)
ReadMembers(d, s) ==
    /\ deletion[d] = NotDeleting
    /\ deletion' = [deletion EXCEPT ![d] = [session |-> s, members |-> members[s]]]
    /\ UNCHANGED <<ttl, sealed, pointer, members, reply>>

Doomed(d) == deletion[d].members \cup {MetaKey(deletion[d].session)}

\* What becomes of the contents of the keys that are left with no time to live.
DropContents ==
    /\ pointer' = [s \in Sessions |-> [f \in Fingerprints |->
                     IF ttl'[IndexKey(s, f)] = 0 THEN NoToken ELSE pointer[s][f]]]
    /\ members' = [s \in Sessions |->
                     IF ttl'[MetaKey(s)] = 0 THEN {} ELSE members[s]]

DeleteMembers(d) ==
    /\ deletion[d] # NotDeleting
    /\ ttl' = [k \in Keys |-> IF k \in Doomed(d) THEN 0 ELSE ttl[k]]
    /\ DropContents
    /\ deletion' = [deletion EXCEPT ![d] = NotDeleting]
    /\ UNCHANGED <<sealed, reply>>

\* Redis becomes unreachable between the two: VaultUnavailableError.
AbandonDelete(d) ==
    /\ deletion[d] # NotDeleting
    /\ deletion' = [deletion EXCEPT ![d] = NotDeleting]
    /\ UNCHANGED <<ttl, sealed, pointer, members, reply>>

-----------------------------------------------------------------------------
\* Time passes, and the keys whose time has come expire.
Tick ==
    /\ \E k \in Keys : Live(k)
    /\ ttl' = [k \in Keys |-> IF Live(k) THEN ttl[k] - 1 ELSE 0]
    /\ DropContents
    /\ UNCHANGED <<sealed, deletion, reply>>

Next ==
    \/ \E s \in Sessions : GetOrCreateMany(s)
    \/ \E s \in Sessions : \E T \in SUBSET Tokens : ResolveMany(s, T)
    \/ \E d \in Deleters, s \in Sessions : ReadMembers(d, s)
    \/ \E d \in Deleters : DeleteMembers(d)
    \/ \E d \in Deleters : AbandonDelete(d)
    \/ Tick

Spec == Init /\ [][Next]_vars

-----------------------------------------------------------------------------
TypeOK ==
    /\ ttl \in [Keys -> 0..MaxTtl]
    /\ sealed \in [TokenIds -> Envelopes \cup {Unminted}]
    /\ pointer \in [Sessions -> [Fingerprints -> TokenIds \cup {NoToken}]]
    /\ members \in [Sessions -> SUBSET MemberKeys]
    /\ deletion \in [Deleters -> Deletions \cup {NotDeleting}]
    /\ reply \in [failed : BOOLEAN, session : SUBSET Sessions,
                  resolved : SUBSET (Tokens \X Originals)]

\* An index entry never hands out the token of another session or of another
\* value: the id it holds was minted in its session, for its fingerprint.  The
\* batch script rebuilds a record key from the entry alone and trusts it.
IndexNamesOwnValue ==
    \A s \in Sessions, f \in Fingerprints :
        Live(IndexKey(s, f)) =>
            /\ pointer[s][f] \in TokenIds
            /\ sealed[pointer[s][f]] \in Envelopes
            /\ SessionOf(pointer[s][f]) = s
            /\ FingerprintOf[OriginalOf(pointer[s][f])] = f

\* No index entry outlives its record, whatever the TTLs and however deletions
\* interleave with writes, so a token that is handed out again can always be
\* resolved: the fall-through of the script is a second line of defence.
NoDanglingIndex ==
    \A s \in Sessions, f \in Fingerprints :
        Live(IndexKey(s, f)) =>
            ttl[RecordKey(s, pointer[s][f])] = ttl[IndexKey(s, f)]

\* A value has one token a session will hand out or delete: the meta set lists
\* no live record but the one its fingerprint's index entry names, and the two
\* expire together.
OneTokenPerValue ==
    \A s \in Sessions, i \in TokenIds :
        Live(RecordKey(s, i)) /\ RecordKey(s, i) \in members[s] =>
            LET f == FingerprintOf[OriginalOf(i)]
            IN  pointer[s][f] = i /\ ttl[IndexKey(s, f)] = ttl[RecordKey(s, i)]

\* A value repeated within a session keeps its token for as long as the token
\* resolves: no step moves the index entry of a live record.
TokenIsStable ==
    [][\A s \in Sessions, f \in Fingerprints :
          LET record == RecordKey(s, pointer[s][f])
          IN  Live(IndexKey(s, f)) /\ ttl[record] > 0 /\ ttl'[record] > 0
                 => pointer'[s][f] \in {pointer[s][f], NoToken}]_vars

MembersOf(s) ==
    {RecordKey(s, i) : i \in TokenIds} \cup {IndexKey(s, f) : f \in Fingerprints}

\* Every live key of the session is in its meta set, which lives as long.
Covered(s) ==
    \A k \in MembersOf(s) :
        Live(k) => k \in members[s] /\ ttl[k] <= ttl[MetaKey(s)]

StaleDelete(s) ==
    \E d \in Deleters : /\ deletion[d] # NotDeleting
                       /\ deletion[d].session = s
                       /\ deletion[d].members # members[s]
ShorterWrite(s) == ~Tick /\ deletion' = deletion /\ ttl'[MetaKey(s)] < ttl[MetaKey(s)]

\* A session's keys come to be outside its meta set, or to outlive it, in two
\* ways only: a delete_session whose SMEMBERS reply has gone stale by the time of
\* its DELs, or a batch under a TTL shorter than what the meta set had left.
OrphansHaveTwoCauses ==
    [][\A s \in Sessions :
          Covered(s) /\ ~Covered(s)' => StaleDelete(s) \/ ShorterWrite(s)]_vars
=============================================================================
