-------------------------- MODULE TokenVaultProofs --------------------------
(***************************************************************************)
(* Proofs about TokenVault, for any sessions, values, ids, TTLs and number *)
(* of concurrent deletions.                                                *)
(***************************************************************************)
EXTENDS TokenVault, TLAPS

\* A record that exists holds an envelope: the writer seals before it stores.
RecordsSealed ==
    \A s \in Sessions, i \in TokenIds :
        Live(RecordKey(s, i)) => sealed[i] \in Envelopes

TypeInv == TypeOK /\ RecordsSealed

\* Key names never collide: neither across families, nor across sessions.
LEMMA KeyShapes ==
    /\ \A s \in Sessions, i \in TokenIds :
         RecordKey(s, i) \in MemberKeys /\ RecordKey(s, i) \in Keys
    /\ \A s \in Sessions, f \in Fingerprints :
         IndexKey(s, f) \in MemberKeys /\ IndexKey(s, f) \in Keys
    /\ \A s \in Sessions : MetaKey(s) \in Keys
    /\ \A s, z, i, j : RecordKey(s, i) = RecordKey(z, j) <=> s = z /\ i = j
    /\ \A s, z, f, g : IndexKey(s, f) = IndexKey(z, g) <=> s = z /\ f = g
    /\ \A s, z : MetaKey(s) = MetaKey(z) <=> s = z
    /\ \A s, z, i, g : RecordKey(s, i) # IndexKey(z, g)
    /\ \A s, z, i : RecordKey(s, i) # MetaKey(z)
    /\ \A s, z, f : IndexKey(s, f) # MetaKey(z)
  <1>1. /\ \A s \in Sessions, i \in TokenIds :
             RecordKey(s, i) \in MemberKeys /\ RecordKey(s, i) \in Keys
        /\ \A s \in Sessions, f \in Fingerprints :
             IndexKey(s, f) \in MemberKeys /\ IndexKey(s, f) \in Keys
        /\ \A s \in Sessions : MetaKey(s) \in Keys
    BY DEF Keys, MemberKeys, RecordKeys, IndexKeys, MetaKeys
  <1>2. /\ \A s, z, i, j : RecordKey(s, i) = RecordKey(z, j) <=> s = z /\ i = j
        /\ \A s, z, f, g : IndexKey(s, f) = IndexKey(z, g) <=> s = z /\ f = g
        /\ \A s, z : MetaKey(s) = MetaKey(z) <=> s = z
    BY DEF RecordKey, IndexKey, MetaKey
  <1>3. /\ \A s, z, i, g : RecordKey(s, i) # IndexKey(z, g)
        /\ \A s, z, i : RecordKey(s, i) # MetaKey(z)
        /\ \A s, z, f : IndexKey(s, f) # MetaKey(z)
    BY DEF RecordKey, IndexKey, MetaKey
  <1> QED
    BY <1>1, <1>2, <1>3

\* What a batch carries, and what its candidate ids are.
LEMMA BatchFacts ==
    ASSUME NEW s \in Sessions, NEW F \in SUBSET Fingerprints,
           NEW batch \in Batches(F),
           NEW ids \in Candidates({f \in F : ~Reusable(s, f)})
    PROVE  /\ DOMAIN batch = F /\ DOMAIN ids \subseteq F
           /\ DOMAIN ids = {f \in F : ~Reusable(s, f)}
           /\ \A f \in F : batch[f] \in Originals /\ FingerprintOf[batch[f]] = f
           /\ \A f \in DOMAIN ids : ids[f] \in TokenIds /\ sealed[ids[f]] = Unminted
           /\ \A f, g \in DOMAIN ids : ids[f] = ids[g] => f = g
  BY DEF Batches, Candidates, Fresh

\* The envelopes a batch write leaves: its own under its candidate ids, and
\* every other one as it was.
LEMMA BatchSeals ==
    ASSUME NEW s \in Sessions, NEW F \in SUBSET Fingerprints, NEW t \in Nat,
           NEW batch \in Batches(F),
           NEW ids \in Candidates({f \in F : ~Reusable(s, f)}),
           BatchWrite(s, batch, ids, t)
    PROVE  /\ \A f \in DOMAIN ids :
                 sealed'[ids[f]] = [session |-> s, original |-> batch[f]]
           /\ \A i \in TokenIds :
                 (\A f \in DOMAIN ids : ids[f] # i) => sealed'[i] = sealed[i]
           /\ DOMAIN sealed' = TokenIds
  <1>1. ASSUME NEW f \in DOMAIN ids
        PROVE  sealed'[ids[f]] = [session |-> s, original |-> batch[f]]
    <2> DEFINE g == CHOOSE h \in DOMAIN ids : ids[h] = ids[f]
    <2>1. g \in DOMAIN ids /\ ids[g] = ids[f]
      OBVIOUS
    <2>2. g = f
      BY <2>1, BatchFacts
    <2>3. ids[f] \in TokenIds
      BY BatchFacts
    <2> QED
      BY <2>2, <2>3 DEF BatchWrite, Sealed
  <1>2. ASSUME NEW i \in TokenIds, \A f \in DOMAIN ids : ids[f] # i
        PROVE  sealed'[i] = sealed[i]
    BY <1>2 DEF BatchWrite, Sealed
  <1>3. DOMAIN sealed' = TokenIds
    BY DEF BatchWrite, Sealed
  <1> QED
    BY <1>1, <1>2, <1>3

LEMMA InitTypeInv == Init => TypeInv
  <1> SUFFICES ASSUME Init PROVE TypeInv
    OBVIOUS
  <1>1. /\ ttl \in [Keys -> 0..MaxTtl]
        /\ sealed \in [TokenIds -> Envelopes \cup {Unminted}]
        /\ pointer \in [Sessions -> [Fingerprints -> TokenIds \cup {NoToken}]]
        /\ members \in [Sessions -> SUBSET MemberKeys]
        /\ deletion \in [Deleters -> Deletions \cup {NotDeleting}]
    BY TtlAssumption DEF Init
  <1>2. reply \in [failed : BOOLEAN, session : SUBSET Sessions,
                   resolved : SUBSET (Tokens \X Originals)]
    BY DEF Init, NoReply
  <1>3. RecordsSealed
    BY KeyShapes DEF Init, RecordsSealed, Live
  <1> QED
    BY <1>1, <1>2, <1>3 DEF TypeInv, TypeOK

LEMMA WriteTypeInv ==
    ASSUME TypeInv, NEW s \in Sessions, GetOrCreateMany(s)
    PROVE  TypeInv'
  <1>1. PICK F \in (SUBSET Fingerprints) \ {{}}, t \in Ttls :
          /\ ValidTtl(t)
          /\ \E batch \in Batches(F), ids \in Candidates({f \in F : ~Reusable(s, f)}) :
                BatchWrite(s, batch, ids, t)
    BY DEF GetOrCreateMany
  <1>2. PICK batch \in Batches(F), ids \in Candidates({f \in F : ~Reusable(s, f)}) :
          BatchWrite(s, batch, ids, t)
    BY <1>1
  <1>3. F \in SUBSET Fingerprints /\ t \in 1..MaxTtl /\ t \in Nat
    BY <1>1, TtlAssumption DEF ValidTtl
  <1>4. UNCHANGED <<deletion, reply>>
    BY DEF GetOrCreateMany
  <1>5. ttl' \in [Keys -> 0..MaxTtl]
    BY <1>2, <1>3, TtlAssumption DEF BatchWrite, Sealed, TypeInv, TypeOK
  <1>6. sealed' \in [TokenIds -> Envelopes \cup {Unminted}]
    <2>1. ASSUME NEW i \in TokenIds
          PROVE  sealed'[i] \in Envelopes \cup {Unminted}
      <3>1. CASE \E f \in DOMAIN ids : ids[f] = i
        <4>1. PICK f \in DOMAIN ids : ids[f] = i
          BY <3>1
        <4>2. sealed'[i] = [session |-> s, original |-> batch[f]]
          BY <1>2, <1>3, <4>1, BatchSeals
        <4>3. batch[f] \in Originals
          BY <1>3, BatchFacts
        <4> QED
          BY <4>2, <4>3 DEF Envelopes
      <3>2. CASE \A f \in DOMAIN ids : ids[f] # i
        BY <1>2, <1>3, <3>2, BatchSeals DEF TypeInv, TypeOK
      <3> QED
        BY <3>1, <3>2
    <2> QED
      BY <2>1, <1>2 DEF BatchWrite, Sealed
  <1>7. pointer' \in [Sessions -> [Fingerprints -> TokenIds \cup {NoToken}]]
    <2>1. [f \in Fingerprints |-> IF f \in DOMAIN ids THEN ids[f] ELSE pointer[s][f]]
             \in [Fingerprints -> TokenIds \cup {NoToken}]
      BY <1>3, BatchFacts DEF TypeInv, TypeOK
    <2> QED
      BY <2>1, <1>2 DEF BatchWrite, Sealed, TypeInv, TypeOK
  <1>8. members' \in [Sessions -> SUBSET MemberKeys]
    <2>1. Created(s, ids) \subseteq MemberKeys
      BY <1>3, BatchFacts, KeyShapes DEF Created
    <2> QED
      BY <2>1, <1>2 DEF BatchWrite, Sealed, TypeInv, TypeOK
  <1>9. RecordsSealed'
    <2> SUFFICES ASSUME NEW z \in Sessions, NEW i \in TokenIds, Live(RecordKey(z, i))'
                 PROVE  sealed'[i] \in Envelopes
      BY DEF RecordsSealed
    <2>1. CASE \E f \in DOMAIN ids : ids[f] = i
      <3>1. PICK f \in DOMAIN ids : ids[f] = i
        BY <2>1
      <3>2. sealed'[i] = [session |-> s, original |-> batch[f]]
        BY <1>2, <1>3, <3>1, BatchSeals
      <3>3. batch[f] \in Originals
        BY <1>3, BatchFacts
      <3> QED
        BY <3>2, <3>3 DEF Envelopes
    <2>2. CASE \A f \in DOMAIN ids : ids[f] # i
      <3>1. sealed'[i] = sealed[i]
        BY <1>2, <1>3, <2>2, BatchSeals
      <3>2. Live(RecordKey(z, i))
        <4>1. RecordKey(z, i) \notin Created(s, ids) \cup MetaExtended(s, ids)
          BY <2>2, KeyShapes DEF Created, MetaExtended
        <4>2. RecordKey(z, i) \in Extended(s, F \ DOMAIN ids) => Live(RecordKey(z, i))
          <5>1. ASSUME NEW f \in F \ DOMAIN ids
                PROVE  Live(RecordKey(s, pointer[s][f]))
            BY <1>3, BatchFacts DEF Reusable
          <5> QED
            BY <5>1, KeyShapes DEF Extended
        <4>3. DOMAIN batch = F
          BY <1>3, BatchFacts
        <4>4. RecordKey(z, i) \in Keys
          BY KeyShapes
        <4> QED
          BY <4>1, <4>2, <4>3, <4>4, <1>2 DEF BatchWrite, Sealed, Live
      <3> QED
        BY <3>1, <3>2 DEF TypeInv, RecordsSealed
    <2> QED
      BY <2>1, <2>2
  <1> QED
    BY <1>4, <1>5, <1>6, <1>7, <1>8, <1>9 DEF TypeInv, TypeOK

LEMMA ResolveTypeInv ==
    ASSUME TypeInv, NEW s \in Sessions, NEW T \in SUBSET Tokens, ResolveMany(s, T)
    PROVE  TypeInv'
  <1>1. ASSUME NEW token \in Found(s, T)
        PROVE  OriginalOf(token[2]) \in Originals /\ token \in Tokens
    <2>1. token \in Tokens /\ token[2] \in TokenIds /\ Live(RecordKey(s, token[2]))
      BY DEF Found, Tokens
    <2> QED
      BY <2>1 DEF TypeInv, RecordsSealed, Envelopes, OriginalOf
  <1>2. reply' \in [failed : BOOLEAN, session : SUBSET Sessions,
                    resolved : SUBSET (Tokens \X Originals)]
    BY <1>1 DEF ResolveMany
  <1>3. UNCHANGED <<ttl, sealed, pointer, members, deletion>>
    BY DEF ResolveMany
  <1> QED
    BY <1>2, <1>3 DEF TypeInv, TypeOK, RecordsSealed, Live

\* Steps that only let keys go: a deletion, or the passing of time.
LEMMA DropTypeInv ==
    ASSUME TypeInv, ttl' \in [Keys -> 0..MaxTtl], \A k \in Keys : ttl'[k] <= ttl[k],
           DropContents, UNCHANGED <<sealed, reply>>,
           deletion' \in [Deleters -> Deletions \cup {NotDeleting}]
    PROVE  TypeInv'
  <1>1. pointer' \in [Sessions -> [Fingerprints -> TokenIds \cup {NoToken}]]
    BY DEF DropContents, TypeInv, TypeOK
  <1>2. members' \in [Sessions -> SUBSET MemberKeys]
    BY DEF DropContents, TypeInv, TypeOK
  <1>3. RecordsSealed'
    BY KeyShapes, TtlAssumption DEF TypeInv, TypeOK, RecordsSealed, Live
  <1> QED
    BY <1>1, <1>2, <1>3 DEF TypeInv, TypeOK

LEMMA NextTypeInv == TypeInv /\ [Next]_vars => TypeInv'
  <1> SUFFICES ASSUME TypeInv, [Next]_vars PROVE TypeInv'
    OBVIOUS
  <1>1. ASSUME NEW s \in Sessions, GetOrCreateMany(s) PROVE TypeInv'
    BY <1>1, WriteTypeInv
  <1>2. ASSUME NEW s \in Sessions, NEW T \in SUBSET Tokens, ResolveMany(s, T)
        PROVE  TypeInv'
    BY <1>2, ResolveTypeInv
  <1>3. ASSUME NEW d \in Deleters, NEW s \in Sessions, ReadMembers(d, s)
        PROVE  TypeInv'
    <2>1. deletion' \in [Deleters -> Deletions \cup {NotDeleting}]
      BY <1>3 DEF ReadMembers, TypeInv, TypeOK, Deletions
    <2> QED
      BY <1>3, <2>1 DEF ReadMembers, TypeInv, TypeOK, RecordsSealed, Live
  <1>4. ASSUME NEW d \in Deleters, DeleteMembers(d)
        PROVE  TypeInv'
    <2>1. ttl' \in [Keys -> 0..MaxTtl] /\ \A k \in Keys : ttl'[k] <= ttl[k]
      BY <1>4, TtlAssumption DEF DeleteMembers, TypeInv, TypeOK
    <2>2. deletion' \in [Deleters -> Deletions \cup {NotDeleting}]
      BY <1>4 DEF DeleteMembers, TypeInv, TypeOK
    <2> QED
      BY <1>4, <2>1, <2>2, DropTypeInv DEF DeleteMembers
  <1>5. ASSUME NEW d \in Deleters, AbandonDelete(d)
        PROVE  TypeInv'
    <2>1. deletion' \in [Deleters -> Deletions \cup {NotDeleting}]
      BY <1>5 DEF AbandonDelete, TypeInv, TypeOK
    <2> QED
      BY <1>5, <2>1 DEF AbandonDelete, TypeInv, TypeOK, RecordsSealed, Live
  <1>6. CASE Tick
    <2>1. ttl' \in [Keys -> 0..MaxTtl] /\ \A k \in Keys : ttl'[k] <= ttl[k]
      BY <1>6, TtlAssumption DEF Tick, Live, TypeInv, TypeOK
    <2>2. deletion' \in [Deleters -> Deletions \cup {NotDeleting}]
      BY <1>6 DEF Tick, TypeInv, TypeOK
    <2> QED
      BY <1>6, <2>1, <2>2, DropTypeInv DEF Tick
  <1>7. CASE UNCHANGED vars
    BY <1>7 DEF vars, TypeInv, TypeOK, RecordsSealed, Live
  <1> QED
    BY <1>1, <1>2, <1>3, <1>4, <1>5, <1>6, <1>7 DEF Next

\* The state of the vault keeps its shape: in particular no key ever lives longer
\* than MAX_TTL_SECONDS (redis_vault.py:75), whatever TTL a policy asks for.
THEOREM TypeCorrect == Spec => []TypeOK
  <1>1. TypeInv => TypeOK
    BY DEF TypeInv
  <1> QED
    BY <1>1, InitTypeInv, NextTypeInv, PTL DEF Spec

-----------------------------------------------------------------------------
(***************************************************************************)
(* The inductive invariant behind the safety properties.  A deletion acts  *)
(* on an old copy of the meta set, so the argument needs the copy to be    *)
(* closed: with a record it holds the index entry of that record.  Then    *)
(* no deletion can take a record and leave the entry that names it.        *)
(***************************************************************************)
Closed(s, M) ==
    /\ M \subseteq MembersOf(s)
    /\ \A i \in TokenIds :
         RecordKey(s, i) \in M =>
            /\ sealed[i] \in Envelopes
            /\ IndexKey(s, FingerprintOf[OriginalOf(i)]) \in M

MetaClosed == \A s \in Sessions : Closed(s, members[s])

SnapshotsClosed ==
    \A d \in Deleters :
        deletion[d] # NotDeleting =>
            Closed(deletion[d].session, deletion[d].members)

VaultInv ==
    /\ TypeInv
    /\ IndexNamesOwnValue
    /\ NoDanglingIndex
    /\ MetaClosed
    /\ SnapshotsClosed

LEMMA InitVaultInv == Init => VaultInv
  <1> SUFFICES ASSUME Init PROVE VaultInv
    OBVIOUS
  <1>1. IndexNamesOwnValue /\ NoDanglingIndex
    BY KeyShapes DEF Init, IndexNamesOwnValue, NoDanglingIndex, Live
  <1>2. MetaClosed /\ SnapshotsClosed
    BY DEF Init, MetaClosed, SnapshotsClosed, Closed
  <1> QED
    BY <1>1, <1>2, InitTypeInv DEF VaultInv

\* Envelopes are written once, so what held of one goes on holding.
LEMMA ClosedStays ==
    ASSUME NEW s, NEW M, Closed(s, M),
           \A i \in TokenIds : sealed[i] \in Envelopes => sealed'[i] = sealed[i]
    PROVE  Closed(s, M)'
  BY DEF Closed, OriginalOf, MembersOf

LEMMA WriteVaultInv ==
    ASSUME VaultInv, NEW s \in Sessions, GetOrCreateMany(s)
    PROVE  VaultInv'
  <1>1. PICK F \in (SUBSET Fingerprints) \ {{}}, t \in Ttls :
          /\ ValidTtl(t)
          /\ \E batch \in Batches(F), ids \in Candidates({f \in F : ~Reusable(s, f)}) :
                BatchWrite(s, batch, ids, t)
    BY DEF GetOrCreateMany
  <1>2. PICK batch \in Batches(F), ids \in Candidates({f \in F : ~Reusable(s, f)}) :
          BatchWrite(s, batch, ids, t)
    BY <1>1
  <1>3. F \in SUBSET Fingerprints /\ t \in 1..MaxTtl /\ t \in Nat /\ t > 0
    BY <1>1, TtlAssumption DEF ValidTtl
  <1>4. UNCHANGED <<deletion, reply>>
    BY DEF GetOrCreateMany
  <1>5. \A i \in TokenIds : sealed[i] \in Envelopes => sealed'[i] = sealed[i]
    <2> SUFFICES ASSUME NEW i \in TokenIds, sealed[i] \in Envelopes
                 PROVE  sealed'[i] = sealed[i]
      OBVIOUS
    <2>1. \A f \in DOMAIN ids : ids[f] # i
      BY <1>3, BatchFacts, SentinelAssumption DEF Envelopes
    <2> QED
      BY <2>1, <1>2, <1>3, BatchSeals
  <1>6. /\ DOMAIN batch = F /\ DOMAIN ids \subseteq F
        /\ DOMAIN ids = {f \in F : ~Reusable(s, f)}
        /\ \A f \in F : batch[f] \in Originals /\ FingerprintOf[batch[f]] = f
        /\ \A f \in DOMAIN ids : ids[f] \in TokenIds /\ sealed[ids[f]] = Unminted
    BY <1>3, BatchFacts
  <1>7. \A f \in DOMAIN ids :
          /\ sealed'[ids[f]] = [session |-> s, original |-> batch[f]]
          /\ sealed'[ids[f]] \in Envelopes
    BY <1>2, <1>3, <1>6, BatchSeals DEF Envelopes
  <1>8. \A z \in Sessions, f \in Fingerprints :
          /\ z = s /\ f \in DOMAIN ids => pointer'[z][f] = ids[f]
          /\ z # s \/ f \notin DOMAIN ids => pointer'[z][f] = pointer[z][f]
    BY <1>2 DEF BatchWrite, Sealed, VaultInv, TypeInv, TypeOK
  <1>9. \A z \in Sessions, f \in Fingerprints :
          /\ z = s /\ f \in F => ttl'[IndexKey(z, f)] = t
          /\ z # s \/ f \notin F => ttl'[IndexKey(z, f)] = ttl[IndexKey(z, f)]
    BY <1>2, <1>6, KeyShapes DEF BatchWrite, Sealed, Created, Extended, MetaExtended
  <1>10. IndexNamesOwnValue'
    <2> SUFFICES ASSUME NEW z \in Sessions, NEW f \in Fingerprints,
                        Live(IndexKey(z, f))'
                 PROVE  /\ pointer'[z][f] \in TokenIds
                        /\ sealed'[pointer'[z][f]] \in Envelopes
                        /\ sealed'[pointer'[z][f]].session = z
                        /\ FingerprintOf[sealed'[pointer'[z][f]].original] = f
      BY DEF IndexNamesOwnValue, SessionOf, OriginalOf
    <2>1. CASE z = s /\ f \in DOMAIN ids
      <3>1. pointer'[z][f] = ids[f] /\ ids[f] \in TokenIds
        BY <2>1, <1>6, <1>8
      <3>2. sealed'[ids[f]] = [session |-> s, original |-> batch[f]]
        BY <2>1, <1>7
      <3>3. sealed'[ids[f]] \in Envelopes
        BY <2>1, <1>7
      <3>4. FingerprintOf[batch[f]] = f
        BY <2>1, <1>6
      <3> QED
        BY <2>1, <3>1, <3>2, <3>3, <3>4
    <2>2. CASE ~(z = s /\ f \in DOMAIN ids)
      <3>1. pointer'[z][f] = pointer[z][f]
        BY <2>2, <1>8
      <3>2. Live(IndexKey(z, f))
        BY <2>2, <1>6, <1>9 DEF Live, Reusable
      <3>3. /\ pointer[z][f] \in TokenIds
            /\ sealed[pointer[z][f]] \in Envelopes
            /\ sealed[pointer[z][f]].session = z
            /\ FingerprintOf[sealed[pointer[z][f]].original] = f
        BY <3>2 DEF VaultInv, IndexNamesOwnValue, SessionOf, OriginalOf
      <3> QED
        BY <3>1, <3>3, <1>5
    <2> QED
      BY <2>1, <2>2
  <1>11. NoDanglingIndex'
    <2> SUFFICES ASSUME NEW z \in Sessions, NEW f \in Fingerprints,
                        Live(IndexKey(z, f))'
                 PROVE  ttl'[RecordKey(z, pointer'[z][f])] = ttl'[IndexKey(z, f)]
      BY DEF NoDanglingIndex
    <2>1. CASE z = s /\ f \in DOMAIN ids
      <3>1. RecordKey(s, ids[f]) \in Created(s, ids) /\ RecordKey(s, ids[f]) \in Keys
        BY <2>1, <1>6, KeyShapes DEF Created
      <3>2. ttl'[RecordKey(s, ids[f])] = t
        BY <3>1, <1>2 DEF BatchWrite, Sealed
      <3> QED
        BY <3>2, <2>1, <1>6, <1>8, <1>9
    <2>2. CASE z = s /\ f \in F \ DOMAIN ids
      <3>1. Live(IndexKey(s, f)) /\ pointer[s][f] \in TokenIds
        BY <2>2, <1>6 DEF Reusable, VaultInv, IndexNamesOwnValue
      <3>2. RecordKey(s, pointer[s][f]) \in Extended(s, DOMAIN batch \ DOMAIN ids)
        BY <2>2, <1>6 DEF Extended
      <3>3. ttl'[RecordKey(s, pointer[s][f])] = t
        BY <3>1, <3>2, <1>2, KeyShapes DEF BatchWrite, Sealed
      <3> QED
        BY <3>3, <2>2, <1>8, <1>9
    <2>3. CASE z # s \/ f \notin F
      <3> DEFINE p == pointer[z][f]
      <3>1. pointer'[z][f] = p /\ Live(IndexKey(z, f))
        BY <2>3, <1>6, <1>8, <1>9 DEF Live
      <3>2. /\ p \in TokenIds /\ sealed[p] \in Envelopes
            /\ FingerprintOf[OriginalOf(p)] = f
        BY <3>1 DEF VaultInv, IndexNamesOwnValue
      <3>3. RecordKey(z, p) \notin Created(s, ids)
        BY <3>2, <1>6, KeyShapes, SentinelAssumption DEF Created, Envelopes
      <3>4. RecordKey(z, p) \notin Extended(s, DOMAIN batch \ DOMAIN ids)
        <4>1. ASSUME NEW g \in F \ DOMAIN ids, z = s
              PROVE  pointer[s][g] # p
          BY <4>1, <2>3, <3>2, <1>6 DEF Reusable, VaultInv, IndexNamesOwnValue
        <4> QED
          BY <4>1, <1>6, KeyShapes DEF Extended
      <3>5. RecordKey(z, p) \notin MetaExtended(s, ids)
        BY KeyShapes DEF MetaExtended
      <3>6. ttl'[RecordKey(z, p)] = ttl[RecordKey(z, p)]
        BY <3>2, <3>3, <3>4, <3>5, <1>2, KeyShapes DEF BatchWrite, Sealed
      <3>7. ttl[RecordKey(z, p)] = ttl[IndexKey(z, f)]
        BY <3>1 DEF VaultInv, NoDanglingIndex
      <3> QED
        BY <3>1, <3>6, <3>7, <2>3, <1>9
    <2> QED
      BY <2>1, <2>2, <2>3
  <1>12. MetaClosed'
    <2> SUFFICES ASSUME NEW z \in Sessions PROVE Closed(z, members[z])'
      BY DEF MetaClosed
    <2>1. Closed(z, members[z])
      BY DEF VaultInv, MetaClosed
    <2>2. CASE z # s
      <3>1. members'[z] = members[z]
        BY <2>2, <1>2 DEF BatchWrite, Sealed, VaultInv, TypeInv, TypeOK
      <3> QED
        BY <2>1, <3>1, <1>5 DEF Closed, OriginalOf, MembersOf
    <2>3. CASE z = s
      <3>1. members'[s] = members[s] \cup Created(s, ids)
        BY <1>2 DEF BatchWrite, Sealed, VaultInv, TypeInv, TypeOK
      <3>2. Created(s, ids) \subseteq MembersOf(s)
        BY <1>6 DEF Created, MembersOf
      <3>3. ASSUME NEW i \in TokenIds, RecordKey(s, i) \in members[s] \cup Created(s, ids)
            PROVE  /\ sealed'[i] \in Envelopes
                   /\ IndexKey(s, FingerprintOf[sealed'[i].original])
                         \in members[s] \cup Created(s, ids)
        <4>1. CASE RecordKey(s, i) \in members[s]
          BY <4>1, <2>1, <2>3, <1>5 DEF Closed, OriginalOf
        <4>2. CASE RecordKey(s, i) \in Created(s, ids)
          <5>1. PICK f \in DOMAIN ids : i = ids[f]
            BY <4>2, KeyShapes DEF Created
          <5>2. /\ sealed'[i] = [session |-> s, original |-> batch[f]]
                /\ sealed'[i] \in Envelopes
            BY <5>1, <1>7
          <5>3. FingerprintOf[batch[f]] = f
            BY <1>6
          <5>4. IndexKey(s, f) \in Created(s, ids)
            BY DEF Created
          <5> QED
            BY <5>2, <5>3, <5>4
        <4> QED
          BY <4>1, <4>2, <3>3
      <3> QED
        BY <2>1, <2>3, <3>1, <3>2, <3>3 DEF Closed, OriginalOf, MembersOf
    <2> QED
      BY <2>2, <2>3
  <1>13. SnapshotsClosed'
    <2> SUFFICES ASSUME NEW d \in Deleters, deletion[d] # NotDeleting
                 PROVE  Closed(deletion[d].session, deletion[d].members)'
      BY <1>4 DEF SnapshotsClosed
    <2>1. Closed(deletion[d].session, deletion[d].members)
      BY DEF VaultInv, SnapshotsClosed
    <2> QED
      BY <2>1, <1>4, <1>5 DEF Closed, OriginalOf, MembersOf
  <1> QED
    BY <1>10, <1>11, <1>12, <1>13, WriteTypeInv DEF VaultInv

\* Steps that only let keys go keep an index entry and its record together, if
\* the two go together.
LEMMA DropVaultInv ==
    ASSUME VaultInv, TypeInv',
           ttl' \in [Keys -> 0..MaxTtl], \A k \in Keys : ttl'[k] <= ttl[k],
           \A s \in Sessions, f \in Fingerprints :
               Live(IndexKey(s, f))' =>
                   ttl'[RecordKey(s, pointer[s][f])] = ttl'[IndexKey(s, f)],
           DropContents, UNCHANGED <<sealed, reply>>,
           \A d \in Deleters : deletion'[d] \in {deletion[d], NotDeleting}
    PROVE  VaultInv'
  <1>1. ASSUME NEW s \in Sessions, NEW f \in Fingerprints, Live(IndexKey(s, f))'
        PROVE  Live(IndexKey(s, f)) /\ pointer'[s][f] = pointer[s][f]
    <2>1. IndexKey(s, f) \in Keys
      BY KeyShapes
    <2>2. ttl'[IndexKey(s, f)] \in 0..MaxTtl /\ ttl[IndexKey(s, f)] \in 0..MaxTtl
      BY <2>1 DEF VaultInv, TypeInv, TypeOK
    <2> QED
      BY <1>1, <2>1, <2>2, TtlAssumption DEF DropContents, Live
  <1>2. IndexNamesOwnValue'
    BY <1>1 DEF VaultInv, IndexNamesOwnValue, SessionOf, OriginalOf
  <1>3. NoDanglingIndex'
    BY <1>1 DEF NoDanglingIndex
  <1>4. MetaClosed'
    <2> SUFFICES ASSUME NEW s \in Sessions PROVE Closed(s, members[s])'
      BY DEF MetaClosed
    <2>1. members'[s] \in {members[s], {}}
      BY DEF DropContents
    <2>2. Closed(s, members[s])
      BY DEF VaultInv, MetaClosed
    <2> QED
      BY <2>1, <2>2 DEF Closed, OriginalOf, MembersOf
  <1>5. SnapshotsClosed'
    BY DEF VaultInv, SnapshotsClosed, Closed, OriginalOf, MembersOf
  <1> QED
    BY <1>2, <1>3, <1>4, <1>5 DEF VaultInv

\* What is stated of the keys alone outlives a step that leaves the keys alone.
LEMMA KeysStay ==
    ASSUME VaultInv, UNCHANGED <<ttl, sealed, pointer, members>>
    PROVE  IndexNamesOwnValue' /\ NoDanglingIndex' /\ MetaClosed'
  <1>1. IndexNamesOwnValue'
    BY DEF VaultInv, IndexNamesOwnValue, Live, SessionOf, OriginalOf
  <1>2. NoDanglingIndex'
    BY DEF VaultInv, NoDanglingIndex, Live
  <1>3. MetaClosed'
    BY DEF VaultInv, MetaClosed, Closed, OriginalOf, MembersOf
  <1> QED
    BY <1>1, <1>2, <1>3

LEMMA NextVaultInv == VaultInv /\ [Next]_vars => VaultInv'
  <1> SUFFICES ASSUME VaultInv, [Next]_vars PROVE VaultInv'
    OBVIOUS
  <1>0. TypeInv'
    BY NextTypeInv DEF VaultInv
  <1>1. ASSUME NEW s \in Sessions, GetOrCreateMany(s) PROVE VaultInv'
    BY <1>1, WriteVaultInv
  <1>2. ASSUME NEW s \in Sessions, NEW T \in SUBSET Tokens, ResolveMany(s, T)
        PROVE  VaultInv'
    <2>1. UNCHANGED <<ttl, sealed, pointer, members, deletion>>
      BY <1>2 DEF ResolveMany
    <2>2. SnapshotsClosed'
      BY <2>1 DEF VaultInv, SnapshotsClosed, Closed, OriginalOf, MembersOf
    <2> QED
      BY <1>0, <2>1, <2>2, KeysStay DEF VaultInv
  <1>3. ASSUME NEW d \in Deleters, NEW s \in Sessions, ReadMembers(d, s)
        PROVE  VaultInv'
    <2>1. UNCHANGED <<ttl, sealed, pointer, members, reply>>
      BY <1>3 DEF ReadMembers
    <2>2. SnapshotsClosed'
      <3> SUFFICES ASSUME NEW e \in Deleters, deletion'[e] # NotDeleting
                   PROVE  Closed(deletion'[e].session, deletion'[e].members)
        BY <2>1 DEF SnapshotsClosed, Closed, OriginalOf, MembersOf
      <3>1. CASE e = d
        <4>1. deletion'[e] = [session |-> s, members |-> members[s]]
          BY <3>1, <1>3 DEF ReadMembers, VaultInv, TypeInv, TypeOK
        <4> QED
          BY <4>1 DEF VaultInv, MetaClosed
      <3>2. CASE e # d
        BY <3>2, <1>3 DEF ReadMembers, VaultInv, TypeInv, TypeOK, SnapshotsClosed
      <3> QED
        BY <3>1, <3>2
    <2> QED
      BY <1>0, <2>1, <2>2, KeysStay DEF VaultInv
  <1>4. ASSUME NEW d \in Deleters, DeleteMembers(d)
        PROVE  VaultInv'
    <2>1. /\ ttl' \in [Keys -> 0..MaxTtl]
          /\ \A k \in Keys : ttl'[k] <= ttl[k]
      BY <1>4, TtlAssumption DEF DeleteMembers, VaultInv, TypeInv, TypeOK
    <2>2. ASSUME NEW s \in Sessions, NEW f \in Fingerprints, Live(IndexKey(s, f))'
          PROVE  ttl'[RecordKey(s, pointer[s][f])] = ttl'[IndexKey(s, f)]
      <3> DEFINE p == pointer[s][f]
                 z == deletion[d].session
                 M == deletion[d].members
      <3>1. IndexKey(s, f) \notin Doomed(d) /\ ttl'[IndexKey(s, f)] = ttl[IndexKey(s, f)]
        BY <1>4, <2>2, KeyShapes DEF DeleteMembers, Live
      <3>2. /\ Live(IndexKey(s, f))
            /\ ttl[RecordKey(s, p)] = ttl[IndexKey(s, f)]
            /\ p \in TokenIds /\ FingerprintOf[OriginalOf(p)] = f
        BY <2>2, <3>1 DEF Live, VaultInv, NoDanglingIndex, IndexNamesOwnValue
      <3>3. Closed(z, M)
        BY <1>4 DEF DeleteMembers, VaultInv, SnapshotsClosed
      <3>4. RecordKey(s, p) \notin M
        <4> SUFFICES ASSUME RecordKey(s, p) \in M PROVE FALSE
          OBVIOUS
        <4>1. z = s
          BY <3>3, KeyShapes DEF Closed, MembersOf
        <4>2. IndexKey(s, f) \in M
          BY <4>1, <3>2, <3>3 DEF Closed
        <4> QED
          BY <4>2, <3>1 DEF Doomed
      <3>5. RecordKey(s, p) \notin Doomed(d)
        BY <3>4, KeyShapes DEF Doomed
      <3> QED
        BY <1>4, <3>1, <3>2, <3>5, KeyShapes DEF DeleteMembers
    <2>3. \A e \in Deleters : deletion'[e] \in {deletion[e], NotDeleting}
      BY <1>4 DEF DeleteMembers, VaultInv, TypeInv, TypeOK
    <2> QED
      BY <1>0, <1>4, <2>1, <2>2, <2>3, DropVaultInv DEF DeleteMembers
  <1>5. ASSUME NEW d \in Deleters, AbandonDelete(d)
        PROVE  VaultInv'
    <2>1. UNCHANGED <<ttl, sealed, pointer, members, reply>>
      BY <1>5 DEF AbandonDelete
    <2>2. SnapshotsClosed'
      BY <1>5, <2>1 DEF AbandonDelete, VaultInv, TypeInv, TypeOK, SnapshotsClosed,
            Closed, OriginalOf, MembersOf
    <2> QED
      BY <1>0, <2>1, <2>2, KeysStay DEF VaultInv
  <1>6. CASE Tick
    <2>1. /\ ttl' \in [Keys -> 0..MaxTtl]
          /\ \A k \in Keys : ttl'[k] <= ttl[k]
      BY <1>6, TtlAssumption DEF Tick, Live, VaultInv, TypeInv, TypeOK
    <2>2. ASSUME NEW s \in Sessions, NEW f \in Fingerprints, Live(IndexKey(s, f))'
          PROVE  ttl'[RecordKey(s, pointer[s][f])] = ttl'[IndexKey(s, f)]
      <3>1. IndexKey(s, f) \in Keys
        BY KeyShapes
      <3>2. Live(IndexKey(s, f))
        BY <1>6, <2>2, <3>1 DEF Tick, Live
      <3>3. pointer[s][f] \in TokenIds
        BY <3>2 DEF VaultInv, IndexNamesOwnValue
      <3>4. RecordKey(s, pointer[s][f]) \in Keys
        BY <3>3, KeyShapes
      <3>5. ttl[RecordKey(s, pointer[s][f])] = ttl[IndexKey(s, f)]
        BY <3>2 DEF VaultInv, NoDanglingIndex
      <3> QED
        BY <1>6, <3>1, <3>4, <3>5 DEF Tick, Live
    <2>3. \A e \in Deleters : deletion'[e] \in {deletion[e], NotDeleting}
      BY <1>6 DEF Tick
    <2> QED
      BY <1>0, <1>6, <2>1, <2>2, <2>3, DropVaultInv DEF Tick
  <1>7. CASE UNCHANGED vars
    <2>1. UNCHANGED <<ttl, sealed, pointer, members, deletion, reply>>
      BY <1>7 DEF vars
    <2>2. SnapshotsClosed'
      BY <2>1 DEF VaultInv, SnapshotsClosed, Closed, OriginalOf, MembersOf
    <2> QED
      BY <1>0, <2>1, <2>2, KeysStay DEF VaultInv
  <1> QED
    BY <1>1, <1>2, <1>3, <1>4, <1>5, <1>6, <1>7 DEF Next

\* The index entry of a value never names the token of another value or of
\* another session (the batch script, redis_vault.py:115).
THEOREM IndexesNameOwnValues == Spec => []IndexNamesOwnValue
  <1>1. VaultInv => IndexNamesOwnValue
    BY DEF VaultInv
  <1> QED
    BY <1>1, InitVaultInv, NextVaultInv, PTL DEF Spec

\* A token the vault hands out again can be resolved: no index entry outlives
\* the record it names, for any TTLs and any interleaving of deletions.
THEOREM IndexesNeverDangle == Spec => []NoDanglingIndex
  <1>1. VaultInv => NoDanglingIndex
    BY DEF VaultInv
  <1> QED
    BY <1>1, InitVaultInv, NextVaultInv, PTL DEF Spec

\* A batch write keeps a covered session covered, unless it shortens the meta set.
LEMMA WriteCovers ==
    ASSUME VaultInv, NEW s \in Sessions, GetOrCreateMany(s),
           NEW z \in Sessions, Covered(z), ~(ttl'[MetaKey(z)] < ttl[MetaKey(z)])
    PROVE  Covered(z)'
  <1>1. PICK F \in (SUBSET Fingerprints) \ {{}}, t \in Ttls :
          /\ ValidTtl(t)
          /\ \E batch \in Batches(F), ids \in Candidates({f \in F : ~Reusable(s, f)}) :
                BatchWrite(s, batch, ids, t)
    BY DEF GetOrCreateMany
  <1>2. PICK batch \in Batches(F), ids \in Candidates({f \in F : ~Reusable(s, f)}) :
          BatchWrite(s, batch, ids, t)
    BY <1>1
  <1>3. F \in SUBSET Fingerprints /\ t \in Nat /\ t > 0
    BY <1>1, TtlAssumption DEF ValidTtl
  <1>4. /\ DOMAIN batch = F /\ DOMAIN ids \subseteq F
        /\ DOMAIN ids = {f \in F : ~Reusable(s, f)}
        /\ \A f \in DOMAIN ids : ids[f] \in TokenIds
    BY <1>3, BatchFacts
  <1>5. \A k \in Keys : ttl[k] \in Nat
    BY DEF VaultInv, TypeInv, TypeOK
  <1>6. MembersOf(z) \subseteq Keys /\ MetaKey(z) \in Keys
    BY KeyShapes DEF MembersOf
  <1> SUFFICES ASSUME NEW k \in MembersOf(z), Live(k)'
               PROVE  k \in members'[z] /\ ttl'[k] <= ttl'[MetaKey(z)]
    BY DEF Covered, Live, MembersOf
  <1>7. CASE z # s
    <2>1. members'[z] = members[z]
      BY <1>7, <1>2 DEF BatchWrite, Sealed, VaultInv, TypeInv, TypeOK
    <2>2. ttl'[k] = ttl[k] /\ ttl'[MetaKey(z)] = ttl[MetaKey(z)]
      <3>1. k \notin Created(s, ids) \cup Extended(s, F \ DOMAIN ids) \cup MetaExtended(s, ids)
        BY <1>7, KeyShapes DEF MembersOf, Created, Extended, MetaExtended
      <3>2. MetaKey(z) \notin Created(s, ids) \cup Extended(s, F \ DOMAIN ids)
                                \cup MetaExtended(s, ids)
        BY <1>7, KeyShapes DEF Created, Extended, MetaExtended
      <3> QED
        BY <3>1, <3>2, <1>2, <1>4, <1>6 DEF BatchWrite, Sealed
    <2> QED
      BY <2>1, <2>2 DEF Covered, Live
  <1>8. CASE z = s
    <2>1. members'[s] = members[s] \cup Created(s, ids)
      BY <1>2 DEF BatchWrite, Sealed, VaultInv, TypeInv, TypeOK
    <2>3. k \in Created(s, ids) \/ Live(k)
      <3>1. CASE k \in Extended(s, F \ DOMAIN ids)
        BY <3>1, <1>4 DEF Extended, Reusable
      <3>2. CASE k \notin Extended(s, F \ DOMAIN ids) /\ k \notin Created(s, ids)
        <4>1. k \notin MetaExtended(s, ids)
          BY KeyShapes DEF MembersOf, MetaExtended
        <4> QED
          BY <4>1, <3>2, <1>2, <1>4, <1>6 DEF BatchWrite, Sealed, Live
      <3> QED
        BY <3>1, <3>2
    <2>4. k \in members'[s]
      BY <2>1, <2>3, <1>8 DEF Covered
    <2>5. Live(MetaKey(s)) \/ DOMAIN ids # {}
      <3>1. CASE k \in Created(s, ids)
        BY <3>1 DEF Created
      <3>2. CASE Live(k)
        BY <3>2, <1>5, <1>6, <1>8 DEF Covered, Live
      <3> QED
        BY <2>3, <3>1, <3>2
    <2>6. ttl'[MetaKey(s)] = t
      BY <2>5, <1>2, <1>6, <1>8 DEF MetaExtended, BatchWrite, Sealed
    <2>7. ttl'[k] <= t
      <3>1. CASE k \in Created(s, ids) \cup Extended(s, F \ DOMAIN ids)
        BY <3>1, <1>2, <1>4, <1>3, <1>6 DEF BatchWrite, Sealed
      <3>2. CASE k \notin Created(s, ids) \cup Extended(s, F \ DOMAIN ids)
        <4>1. ttl'[k] = ttl[k] /\ Live(k)
          <5>1. k \notin MetaExtended(s, ids)
            BY KeyShapes DEF MembersOf, MetaExtended
          <5> QED
            BY <5>1, <3>2, <1>2, <1>4, <1>6 DEF BatchWrite, Sealed, Live
        <4>2. ttl[k] <= ttl[MetaKey(s)] /\ ttl[MetaKey(s)] <= t
          BY <4>1, <2>6, <1>3, <1>5, <1>6, <1>8 DEF Covered
        <4>3. t \in Nat /\ ttl[k] \in Nat /\ ttl[MetaKey(s)] \in Nat
          BY <1>3, <1>5, <1>6, <1>8
        <4> QED
          BY <4>1, <4>2, <4>3
      <3> QED
        BY <3>1, <3>2
    <2> QED
      BY <2>4, <2>6, <2>7, <1>8
  <1> QED
    BY <1>7, <1>8

\* What a session's meta set loses, it loses to a deletion that acts on an old
\* reply or to a write that shortens it.
LEMMA NextOrphans ==
    ASSUME VaultInv, [Next]_vars, NEW s \in Sessions, Covered(s), ~Covered(s)'
    PROVE  StaleDelete(s) \/ ShorterWrite(s)
  <1>0. MembersOf(s) \subseteq Keys /\ MetaKey(s) \in Keys
    BY KeyShapes DEF MembersOf
  <1>4. ASSUME Tick PROVE FALSE
    <2>1. ASSUME NEW k \in MembersOf(s), Live(k)'
          PROVE  k \in members'[s] /\ ttl'[k] <= ttl'[MetaKey(s)]
      <3>1. ttl[k] \in Nat /\ ttl[MetaKey(s)] \in Nat
        BY <1>0 DEF VaultInv, TypeInv, TypeOK
      <3>2. Live(k) /\ ttl'[k] = ttl[k] - 1 /\ ttl[k] > 1
        BY <1>0, <1>4, <2>1, <3>1 DEF Tick, Live
      <3>3. k \in members[s] /\ ttl[k] <= ttl[MetaKey(s)]
        BY <3>2 DEF Covered
      <3>4. ttl'[MetaKey(s)] = ttl[MetaKey(s)] - 1 /\ ttl'[MetaKey(s)] # 0
        BY <1>0, <1>4, <3>1, <3>2, <3>3 DEF Tick, Live
      <3> QED
        BY <1>4, <3>1, <3>2, <3>3, <3>4 DEF Tick, DropContents
    <2> QED
      BY <1>4, <2>1 DEF Covered, Live, MembersOf
  <1>1. ASSUME NEW z \in Sessions, GetOrCreateMany(z) PROVE ShorterWrite(s)
    <2>1. ttl'[MetaKey(s)] < ttl[MetaKey(s)]
      BY <1>1, WriteCovers
    <2>2. deletion' = deletion
      BY <1>1 DEF GetOrCreateMany, BatchWrite, Sealed
    <2> QED
      BY <1>4, <2>1, <2>2 DEF ShorterWrite
  <1>2. CASE UNCHANGED <<ttl, members>>
    BY <1>2 DEF Covered, Live, MembersOf
  <1>3. ASSUME NEW d \in Deleters, DeleteMembers(d)
        PROVE  StaleDelete(s)
    <2> DEFINE z == deletion[d].session
               M == deletion[d].members
    <2>1. deletion[d] # NotDeleting /\ z \in Sessions
      BY <1>3 DEF DeleteMembers, VaultInv, TypeInv, TypeOK, Deletions
    <2>2. \A k \in MembersOf(s) : Live(k)' => Live(k) /\ ttl'[k] = ttl[k] /\ k \notin M
      BY <1>3, <1>0 DEF DeleteMembers, Doomed, Live
    <2>3. CASE z # s
      <3>1. ttl'[MetaKey(s)] = ttl[MetaKey(s)]
        <4>1. MetaKey(s) \notin Doomed(d)
          BY <2>1, <2>3, KeyShapes, <1>3
          DEF Doomed, DeleteMembers, VaultInv, SnapshotsClosed, Closed, MembersOf
        <4> QED
          BY <4>1, <1>0, <1>3 DEF DeleteMembers
      <3>2. ASSUME NEW k \in MembersOf(s), Live(k)'
            PROVE  k \in members'[s] /\ ttl'[k] <= ttl'[MetaKey(s)]
        <4>1. k \in members[s] /\ ttl[k] <= ttl[MetaKey(s)] /\ ttl[k] > 0
          BY <2>2, <3>2 DEF Covered, Live
        <4>2. ttl[k] \in Nat /\ ttl[MetaKey(s)] \in Nat
          BY <1>0 DEF VaultInv, TypeInv, TypeOK
        <4> QED
          BY <4>1, <4>2, <2>2, <3>1, <3>2, <1>3 DEF DeleteMembers, DropContents
      <3> QED
        BY <3>2 DEF Covered, Live, MembersOf
    <2>4. CASE z = s /\ M = members[s]
      <3>1. \A k \in MembersOf(s) : ~Live(k)'
        BY <2>2, <2>4 DEF Covered
      <3> QED
        BY <3>1 DEF Covered, Live, MembersOf
    <2> QED
      BY <2>1, <2>3, <2>4 DEF StaleDelete
  <1> QED
    BY <1>1, <1>2, <1>3, <1>4
    DEF Next, vars, ResolveMany, ReadMembers, AbandonDelete

\* Every key the meta set loses sight of was lost by a delete_session that acted
\* on an SMEMBERS reply which had gone stale, or by a batch with a TTL shorter
\* than what the meta set had left (redis_vault.py:393-407, 143-144).
THEOREM OrphansAccountedFor == Spec => OrphansHaveTwoCauses
  <1>1. VaultInv /\ [Next]_vars =>
          [\A s \in Sessions :
             Covered(s) /\ ~Covered(s)' => StaleDelete(s) \/ ShorterWrite(s)]_vars
    BY NextOrphans
  <1> QED
    BY <1>1, InitVaultInv, NextVaultInv, PTL DEF Spec, OrphansHaveTwoCauses

-----------------------------------------------------------------------------
(***************************************************************************)
(* One token per value.  On top of VaultInv the property is inductive: a   *)
(* deletion may hold an old index entry without the record it now names,   *)
(* but it takes the meta key as well, and with it the whole set.           *)
(***************************************************************************)

\* What a batch of session s leaves of pointers, envelopes, sets and lives.
Wrote(s, F, t, ids) ==
    /\ \A i \in TokenIds : sealed[i] \in Envelopes => sealed'[i] = sealed[i]
    /\ \A z \in Sessions, f \in Fingerprints :
         /\ z = s /\ f \in DOMAIN ids => pointer'[z][f] = ids[f]
         /\ z # s \/ f \notin DOMAIN ids => pointer'[z][f] = pointer[z][f]
    /\ \A z \in Sessions :
         members'[z] = IF z = s THEN members[s] \cup Created(s, ids) ELSE members[z]
    /\ \A z \in Sessions, f \in Fingerprints :
         ttl'[IndexKey(z, f)] = IF z = s /\ f \in F THEN t ELSE ttl[IndexKey(z, f)]
    /\ \A z \in Sessions, i \in TokenIds :
         ttl'[RecordKey(z, i)] =
           IF z = s /\ \/ \E f \in DOMAIN ids : i = ids[f]
                       \/ \E f \in F \ DOMAIN ids : i = pointer[s][f]
           THEN t ELSE ttl[RecordKey(z, i)]

LEMMA WriteShape ==
    ASSUME VaultInv, NEW s \in Sessions, NEW F \in SUBSET Fingerprints, NEW t \in Nat, t > 0,
           NEW batch \in Batches(F),
           NEW ids \in Candidates({f \in F : ~Reusable(s, f)}),
           BatchWrite(s, batch, ids, t)
    PROVE  Wrote(s, F, t, ids)
  <1>0. /\ DOMAIN batch = F /\ DOMAIN ids \subseteq F
        /\ \A f \in DOMAIN ids : ids[f] \in TokenIds /\ sealed[ids[f]] = Unminted
    BY BatchFacts
  <1>1. \A i \in TokenIds : sealed[i] \in Envelopes => sealed'[i] = sealed[i]
    <2> SUFFICES ASSUME NEW i \in TokenIds, sealed[i] \in Envelopes
                 PROVE  sealed'[i] = sealed[i]
      OBVIOUS
    <2>1. \A f \in DOMAIN ids : ids[f] # i
      BY <1>0, SentinelAssumption DEF Envelopes
    <2> QED
      BY <2>1, BatchSeals
  <1>2. \A z \in Sessions, f \in Fingerprints :
          /\ z = s /\ f \in DOMAIN ids => pointer'[z][f] = ids[f]
          /\ z # s \/ f \notin DOMAIN ids => pointer'[z][f] = pointer[z][f]
    BY DEF BatchWrite, Sealed, VaultInv, TypeInv, TypeOK
  <1>3. \A z \in Sessions :
          members'[z] = IF z = s THEN members[s] \cup Created(s, ids) ELSE members[z]
    BY DEF BatchWrite, Sealed, VaultInv, TypeInv, TypeOK
  <1>4. \A z \in Sessions, f \in Fingerprints :
          ttl'[IndexKey(z, f)] = IF z = s /\ f \in F THEN t ELSE ttl[IndexKey(z, f)]
    BY <1>0, KeyShapes DEF BatchWrite, Sealed, Created, Extended, MetaExtended
  <1>5. ASSUME NEW z \in Sessions, NEW i \in TokenIds
        PROVE  ttl'[RecordKey(z, i)] =
                 IF z = s /\ \/ \E f \in DOMAIN ids : i = ids[f]
                             \/ \E f \in F \ DOMAIN ids : i = pointer[s][f]
                 THEN t ELSE ttl[RecordKey(z, i)]
    <2>1. RecordKey(z, i) \in Keys
      BY KeyShapes
    <2>2. RecordKey(z, i) \in Created(s, ids) <=> z = s /\ \E f \in DOMAIN ids : i = ids[f]
      BY KeyShapes DEF Created
    <2>3. RecordKey(z, i) \in Extended(s, DOMAIN batch \ DOMAIN ids)
            <=> z = s /\ \E f \in F \ DOMAIN ids : i = pointer[s][f]
      BY <1>0, KeyShapes DEF Extended
    <2>4. RecordKey(z, i) \notin MetaExtended(s, ids)
      BY KeyShapes DEF MetaExtended
    <2> QED
      BY <2>1, <2>2, <2>3, <2>4 DEF BatchWrite, Sealed
  <1> QED
    BY <1>1, <1>2, <1>3, <1>4, <1>5 DEF Wrote

LEMMA WriteOneToken ==
    ASSUME VaultInv, OneTokenPerValue, NEW s \in Sessions, GetOrCreateMany(s)
    PROVE  OneTokenPerValue'
  <1>1. PICK F \in (SUBSET Fingerprints) \ {{}}, t \in Ttls :
          /\ ValidTtl(t)
          /\ \E batch \in Batches(F), ids \in Candidates({f \in F : ~Reusable(s, f)}) :
                BatchWrite(s, batch, ids, t)
    BY DEF GetOrCreateMany
  <1>2. PICK batch \in Batches(F), ids \in Candidates({f \in F : ~Reusable(s, f)}) :
          BatchWrite(s, batch, ids, t)
    BY <1>1
  <1>3. F \in SUBSET Fingerprints /\ t \in Nat /\ t > 0
    BY <1>1, TtlAssumption DEF ValidTtl
  <1>4. /\ DOMAIN ids = {f \in F : ~Reusable(s, f)}
        /\ \A f \in F : batch[f] \in Originals /\ FingerprintOf[batch[f]] = f
        /\ \A f \in DOMAIN ids :
             sealed'[ids[f]] = [session |-> s, original |-> batch[f]]
    BY <1>2, <1>3, BatchFacts, BatchSeals
  <1>5. Wrote(s, F, t, ids)
    BY <1>2, <1>3, WriteShape
  <1> SUFFICES ASSUME NEW z \in Sessions, NEW i \in TokenIds,
                      ttl'[RecordKey(z, i)] > 0, RecordKey(z, i) \in members'[z],
                      NEW f, f = FingerprintOf[sealed'[i].original]
               PROVE  pointer'[z][f] = i /\ ttl'[IndexKey(z, f)] = ttl'[RecordKey(z, i)]
    BY DEF OneTokenPerValue, Live, OriginalOf
  <1>6. CASE z = s /\ \E g \in DOMAIN ids : i = ids[g]
    <2>1. PICK g \in DOMAIN ids : i = ids[g]
      BY <1>6
    <2>2. f = g /\ f \in F /\ f \in Fingerprints
      <3>1. g \in F
        BY <1>4, <2>1
      <3>2. sealed'[i] = [session |-> s, original |-> batch[g]]
        BY <1>4, <2>1
      <3>3. f = FingerprintOf[batch[g]]
        BY <3>2
      <3> QED
        BY <1>3, <1>4, <3>1, <3>3
    <2> QED
      BY <1>5, <1>6, <2>1, <2>2 DEF Wrote
  <1>7. CASE ~(z = s /\ \E g \in DOMAIN ids : i = ids[g])
    <2>1. RecordKey(z, i) \in members[z]
      <3>1. z = s => RecordKey(z, i) \notin Created(s, ids)
        BY <1>7, KeyShapes DEF Created
      <3>2. members'[z] = IF z = s THEN members[s] \cup Created(s, ids) ELSE members[z]
        BY <1>5 DEF Wrote
      <3> QED
        BY <3>1, <3>2
    <2>2. sealed[i] \in Envelopes
      BY <2>1 DEF VaultInv, MetaClosed, Closed
    <2>3. sealed'[i] = sealed[i] /\ f = FingerprintOf[OriginalOf(i)] /\ f \in Fingerprints
      BY <1>5, <2>2, FingerprintAssumption DEF Wrote, OriginalOf, Envelopes
    <2>4. CASE z = s /\ \E g \in F \ DOMAIN ids : i = pointer[s][g]
      <3>1. PICK g \in F \ DOMAIN ids : i = pointer[s][g]
        BY <2>4
      <3>2. g \in Fingerprints /\ Reusable(s, g)
        BY <1>3, <1>4, <3>1
      <3>3. f = g
        BY <2>3, <3>1, <3>2 DEF Reusable, VaultInv, IndexNamesOwnValue
      <3> QED
        BY <1>5, <2>4, <3>1, <3>2, <3>3 DEF Wrote
    <2>5. CASE ~(z = s /\ \E g \in F \ DOMAIN ids : i = pointer[s][g])
      <3>1. ttl'[RecordKey(z, i)] = ttl[RecordKey(z, i)] /\ Live(RecordKey(z, i))
        BY <1>5, <1>7, <2>5 DEF Wrote, Live
      <3>2. pointer[z][f] = i /\ ttl[IndexKey(z, f)] = ttl[RecordKey(z, i)]
        BY <2>1, <2>3, <3>1 DEF OneTokenPerValue
      <3>3. ~(z = s /\ f \in F)
        BY <1>4, <2>5, <3>1, <3>2 DEF Reusable, Live
      <3>4. pointer'[z][f] = pointer[z][f] /\ ttl'[IndexKey(z, f)] = ttl[IndexKey(z, f)]
        BY <1>4, <1>5, <2>3, <3>3 DEF Wrote
      <3> QED
        BY <3>1, <3>2, <3>4
    <2> QED
      BY <2>4, <2>5
  <1> QED
    BY <1>6, <1>7

\* A step that only lets keys go leaves a record its index entry, unless it takes
\* the meta key too.
LEMMA DropOneToken ==
    ASSUME VaultInv, OneTokenPerValue, UNCHANGED sealed, DropContents,
           ttl' \in [Keys -> 0..MaxTtl], \A k \in Keys : ttl'[k] <= ttl[k],
           \A s \in Sessions, i \in TokenIds, f \in Fingerprints :
               ttl'[RecordKey(s, i)] > 0 /\ ttl'[MetaKey(s)] > 0
                 /\ ttl[IndexKey(s, f)] = ttl[RecordKey(s, i)]
                   => ttl'[IndexKey(s, f)] = ttl'[RecordKey(s, i)]
    PROVE  OneTokenPerValue'
  <1> SUFFICES ASSUME NEW s \in Sessions, NEW i \in TokenIds,
                      ttl'[RecordKey(s, i)] > 0, RecordKey(s, i) \in members'[s],
                      NEW f, f = FingerprintOf[sealed[i].original]
               PROVE  pointer'[s][f] = i /\ ttl'[IndexKey(s, f)] = ttl'[RecordKey(s, i)]
    BY DEF OneTokenPerValue, Live, OriginalOf
  <1>1. /\ RecordKey(s, i) \in members[s]
        /\ ttl'[MetaKey(s)] # 0
    BY DEF DropContents
  <1>2. RecordKey(s, i) \in Keys /\ MetaKey(s) \in Keys
    BY KeyShapes
  <1>3. Live(RecordKey(s, i)) /\ ttl'[MetaKey(s)] > 0
    BY <1>1, <1>2, TtlAssumption DEF VaultInv, TypeInv, TypeOK, Live
  <1>4. sealed[i] \in Envelopes
    BY <1>1 DEF VaultInv, MetaClosed, Closed
  <1>5. f \in Fingerprints /\ f = FingerprintOf[OriginalOf(i)]
    BY <1>4, FingerprintAssumption DEF Envelopes, OriginalOf
  <1>6. pointer[s][f] = i /\ ttl[IndexKey(s, f)] = ttl[RecordKey(s, i)]
    BY <1>1, <1>3, <1>5 DEF OneTokenPerValue
  <1>7. ttl'[IndexKey(s, f)] = ttl'[RecordKey(s, i)]
    BY <1>3, <1>5, <1>6
  <1>8. ttl'[IndexKey(s, f)] # 0
    BY <1>7
  <1>9. pointer'[s][f] = pointer[s][f]
    BY <1>5, <1>8 DEF DropContents
  <1> QED
    BY <1>6, <1>7, <1>9

LEMMA NextOneToken == VaultInv /\ OneTokenPerValue /\ [Next]_vars => OneTokenPerValue'
  <1> SUFFICES ASSUME VaultInv, OneTokenPerValue, [Next]_vars PROVE OneTokenPerValue'
    OBVIOUS
  <1>1. CASE \E s \in Sessions : GetOrCreateMany(s)
    BY <1>1, WriteOneToken
  <1>2. CASE UNCHANGED <<ttl, sealed, pointer, members>>
    BY <1>2 DEF OneTokenPerValue, Live, OriginalOf
  <1>3. ASSUME NEW d \in Deleters, DeleteMembers(d)
        PROVE  OneTokenPerValue'
    <2>1. /\ ttl' \in [Keys -> 0..MaxTtl]
          /\ \A k \in Keys : ttl'[k] <= ttl[k]
      BY <1>3, TtlAssumption DEF DeleteMembers, VaultInv, TypeInv, TypeOK
    <2>2. ASSUME NEW s \in Sessions, NEW i \in TokenIds, NEW f \in Fingerprints,
                 ttl'[RecordKey(s, i)] > 0, ttl'[MetaKey(s)] > 0,
                 ttl[IndexKey(s, f)] = ttl[RecordKey(s, i)]
          PROVE  ttl'[IndexKey(s, f)] = ttl'[RecordKey(s, i)]
      <3>1. RecordKey(s, i) \in Keys /\ MetaKey(s) \in Keys /\ IndexKey(s, f) \in Keys
        BY KeyShapes
      <3>2. RecordKey(s, i) \notin Doomed(d) /\ MetaKey(s) \notin Doomed(d)
        BY <1>3, <2>2, <3>1 DEF DeleteMembers
      <3>3. s # deletion[d].session
        BY <3>2 DEF Doomed
      <3>4. Closed(deletion[d].session, deletion[d].members)
        BY <1>3 DEF DeleteMembers, VaultInv, SnapshotsClosed
      <3>5. IndexKey(s, f) \notin Doomed(d)
        BY <3>3, <3>4, KeyShapes DEF Doomed, Closed, MembersOf
      <3> QED
        BY <1>3, <2>2, <3>1, <3>2, <3>5 DEF DeleteMembers
    <2>3. DropContents /\ UNCHANGED sealed
      BY <1>3 DEF DeleteMembers
    <2> QED
      BY <2>1, <2>2, <2>3, DropOneToken
  <1>4. CASE Tick
    <2>1. /\ ttl' \in [Keys -> 0..MaxTtl]
          /\ \A k \in Keys : ttl'[k] <= ttl[k]
      BY <1>4, TtlAssumption DEF Tick, Live, VaultInv, TypeInv, TypeOK
    <2>2. \A s \in Sessions, i \in TokenIds, f \in Fingerprints :
            ttl[IndexKey(s, f)] = ttl[RecordKey(s, i)]
              => ttl'[IndexKey(s, f)] = ttl'[RecordKey(s, i)]
      BY <1>4, KeyShapes DEF Tick, Live
    <2>3. DropContents /\ UNCHANGED sealed
      BY <1>4 DEF Tick
    <2> QED
      BY <2>1, <2>2, <2>3, DropOneToken
  <1> QED
    BY <1>1, <1>2, <1>3, <1>4 DEF Next, vars, ResolveMany, ReadMembers, AbandonDelete

\* OneTokenPerValue: whatever expires, is deleted or is written again, the records a
\* session's set lists are one per value, the one its index entry names, and the two
\* go together (the batch script and delete_session, redis_vault.py:80-190).
THEOREM ValuesHaveOneToken == Spec => []OneTokenPerValue
  <1>1. Init => OneTokenPerValue
    BY DEF Init, OneTokenPerValue
  <1> QED
    BY <1>1, InitVaultInv, NextVaultInv, NextOneToken, PTL DEF Spec

\* TokenIsStable: no write moves the index entry of a record that stays alive, so a value
\* repeated within a session keeps its token (redis_vault.py:80-190).
THEOREM TokensAreStable == Spec => TokenIsStable
  <1> DEFINE Stable == \A s \in Sessions, f \in Fingerprints :
                LET record == RecordKey(s, pointer[s][f])
                IN  Live(IndexKey(s, f)) /\ ttl[record] > 0 /\ ttl'[record] > 0
                       => pointer'[s][f] \in {pointer[s][f], NoToken}
  <1>1. VaultInv /\ [Next]_vars => Stable
    <2> SUFFICES ASSUME VaultInv, [Next]_vars, NEW s \in Sessions, NEW f \in Fingerprints,
                        Live(IndexKey(s, f)), ttl[RecordKey(s, pointer[s][f])] > 0
                 PROVE  pointer'[s][f] \in {pointer[s][f], NoToken}
      OBVIOUS
    <2>1. ASSUME NEW z \in Sessions, GetOrCreateMany(z)
          PROVE  pointer'[s][f] = pointer[s][f]
      <3>1. PICK F \in (SUBSET Fingerprints) \ {{}}, t \in Ttls :
              /\ ValidTtl(t)
              /\ \E batch \in Batches(F), ids \in Candidates({g \in F : ~Reusable(z, g)}) :
                    BatchWrite(z, batch, ids, t)
        BY <2>1 DEF GetOrCreateMany
      <3>2. PICK batch \in Batches(F), ids \in Candidates({g \in F : ~Reusable(z, g)}) :
              BatchWrite(z, batch, ids, t)
        BY <3>1
      <3>3. F \in SUBSET Fingerprints /\ t \in Nat /\ t > 0
        BY <3>1, TtlAssumption DEF ValidTtl
      <3>4. z # s \/ f \notin DOMAIN ids
        BY <3>3, BatchFacts DEF Reusable, Live
      <3>5. Wrote(z, F, t, ids)
        BY <3>2, <3>3, WriteShape
      <3> QED
        BY <3>4, <3>5 DEF Wrote
    <2>2. CASE DropContents
      BY <2>2 DEF DropContents
    <2> QED
      BY <2>1, <2>2 DEF Next, vars, ResolveMany, ReadMembers, DeleteMembers, AbandonDelete, Tick
  <1> QED
    BY <1>1, InitVaultInv, NextVaultInv, PTL DEF Spec, TokenIsStable
=============================================================================
