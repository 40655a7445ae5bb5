-------------------------- MODULE PolicyResolution --------------------------
(***************************************************************************)
(* PolicyService over the policies table: app/policy/service.py composed   *)
(* with PolicyLifecycle.  Requests look the tenant's snapshot up in a      *)
(* cache; a miss awaits one query, during which versions are published,    *)
(* time passes and other lookups run.                                      *)
(***************************************************************************)
EXTENDS PolicyLifecycle

CONSTANTS
    Lookups,        \* requests resolving a policy
    CacheTtl,       \* POLICY_CACHE_TTL_SECONDS
    Horizon,        \* bound: the clock stops there
    NoPolicy        \* no active version

ASSUME TtlAssumption == CacheTtl \in Nat \ {0} /\ Horizon \in Nat

VARIABLES
    clock,
    entry,          \* the cached snapshot and when it expires
    lookup,         \* each lookup: its step, when it began, what it has read
    lastInForce     \* history: when each snapshot was last the active one

cacheVars == <<clock, entry, lookup, lastInForce>>
allVars == <<rows, issued, task, clock, entry, lookup, lastInForce>>

Stored(i) == [version |-> rows[i].version, document |-> rows[i].document]
NoEntry == [snapshot |-> NoPolicy, expires |-> 0]
Waiting(step, now, snapshot) == [step |-> step, now |-> now, snapshot |-> snapshot]
NotAsking == Waiting("idle", 0, NoPolicy)

\* get_active: the highest active version.
ActiveSnapshots == {Stored(i) : i \in Active}
ActiveSnapshot ==
    IF Active = {} THEN NoPolicy
    ELSE CHOOSE s \in ActiveSnapshots : \A t \in ActiveSnapshots : t.version <= s.version

Remembered(snapshots, time) ==
    [s \in DOMAIN lastInForce \cup snapshots |->
        IF s \in snapshots THEN time ELSE lastInForce[s]]

ResolutionInit ==
    /\ Init
    /\ clock = 0
    /\ entry = NoEntry
    /\ lookup = [l \in Lookups |-> NotAsking]
    /\ lastInForce = [s \in ActiveSnapshots |-> 0]

-----------------------------------------------------------------------------
Becomes(l, state) == lookup' = [lookup EXCEPT ![l] = state]

\* The entry is fresh: it answers.
Hit(l) ==
    /\ lookup[l].step = "idle"
    /\ entry.expires > clock
    /\ Becomes(l, Waiting("answered", clock, entry.snapshot))
    /\ UNCHANGED <<rows, issued, task, clock, entry, lastInForce>>

\* It is not: the time is noted and the query awaited.
Miss(l) ==
    /\ lookup[l].step = "idle"
    /\ entry.expires <= clock
    /\ Becomes(l, Waiting("asking", clock, NoPolicy))
    /\ UNCHANGED <<rows, issued, task, clock, entry, lastInForce>>

Query(l) ==
    /\ lookup[l].step = "asking"
    /\ Becomes(l, Waiting("asked", lookup[l].now, ActiveSnapshot))
    /\ UNCHANGED <<rows, issued, task, clock, entry, lastInForce>>

\* The query fails, or the row it found does not validate: the request is refused and
\* the entry stays as it is.
QueryFails(l) ==
    /\ lookup[l].step = "asking"
    /\ Becomes(l, NotAsking)
    /\ UNCHANGED <<rows, issued, task, clock, entry, lastInForce>>

\* The answer is cached for a TTL from when the lookup began; without an active
\* version the entry goes and the request is refused.
ExpiresFromNow(l) == clock + CacheTtl                               \* mutant
Expires(l) == lookup[l].now + CacheTtl

Fill(l) ==
    /\ lookup[l].step = "asked"
    /\ entry' = IF lookup[l].snapshot = NoPolicy THEN NoEntry
                ELSE [snapshot |-> lookup[l].snapshot, expires |-> Expires(l)]
    /\ Becomes(l, [lookup[l] EXCEPT !.step = "answered"])
    /\ UNCHANGED <<rows, issued, task, clock, lastInForce>>

\* The request goes on, with its frozen snapshot or with POLICY_NOT_FOUND.
Leaves(l) ==
    /\ lookup[l].step = "answered"
    /\ Becomes(l, NotAsking)
    /\ UNCHANGED <<rows, issued, task, clock, entry, lastInForce>>

Tick ==
    /\ clock < Horizon
    /\ clock' = clock + 1
    /\ lastInForce' = Remembered(ActiveSnapshots, clock')
    /\ UNCHANGED <<rows, issued, task, entry, lookup>>

Edits ==
    /\ Next
    /\ lastInForce' = Remembered(ActiveSnapshots', clock)
    /\ UNCHANGED <<clock, entry, lookup>>

ResolutionNext ==
    \/ \E l \in Lookups :
         Hit(l) \/ Miss(l) \/ Query(l) \/ QueryFails(l) \/ Fill(l) \/ Leaves(l)
    \/ Tick
    \/ Edits

ResolutionSpec == ResolutionInit /\ [][ResolutionNext]_allVars

-----------------------------------------------------------------------------
\* "The window in which a revoked provider or a loosened threshold is still
\* honoured": what a lookup answers with was the active version less than a TTL
\* before the lookup began, whatever overlapped it (policy/service.py:31-38,
\* 166-195).
StalenessBounded ==
    \A l \in Lookups :
        lookup[l].step = "answered" /\ lookup[l].snapshot # NoPolicy =>
            lookup[l].now < lastInForce[lookup[l].snapshot] + CacheTtl
=============================================================================
