------------------------------ MODULE Admission ------------------------------
(***************************************************************************)
(* get_principal (app/auth/dependencies.py): what stands between an HTTP   *)
(* request and its handler.  A request opens a database session to look    *)
(* its key up, is charged by the rate limiter, may write last_used_at      *)
(* through the same session, and keeps that session, with its connection   *)
(* and the lock on the key's row, until the request is over; the handler   *)
(* takes a second connection of the process's pool.                        *)
(*                                                                         *)
(* The API runs as several processes, each with its pool and its tracker.  *)
(* The limiter is RateLimiter; here it lets a request in or turns it away. *)
(***************************************************************************)
EXTENDS Integers, Sequences, FiniteSets

CONSTANTS
    Requests, Keys, Processes,
    KeyOf,          \* the key each request presents
    ProcessOf,      \* the process that serves each request
    PoolSize,       \* pool_size + max_overflow of build_engine
    Interval,       \* LAST_USED_UPDATE_INTERVAL_SECONDS, in ticks
    MaxTracked,     \* MAX_TRACKED_KEYS
    ExpiresAt,      \* ApiKey.expires_at, None when the key does not expire
    Horizon,        \* bound: the last tick
    MaxFaults,      \* bound: failed writes
    None

ASSUME ProcessAssumption ==
    /\ KeyOf \in [Requests -> Keys] /\ ProcessOf \in [Requests -> Processes]
    /\ None \notin Requests \cup Nat /\ IsFiniteSet(Requests)
    /\ PoolSize \in Nat \ {0} /\ Interval \in Nat \ {0} /\ MaxTracked \in Nat \ {0}
    /\ ExpiresAt \in [Keys -> Nat \cup {None}]

VARIABLES
    now, faults,
    req,        \* where each request is
    active,     \* the keys whose status is active
    rowLock,    \* the request whose open transaction has updated each key's row
    seen,       \* LastUsedTracker._seen of each process, oldest first
    tracked     \* history: claims and evictions of each process and key

vars == <<now, faults, req, active, rowLock, seen, tracked>>

\* The connections of a process's pool that requests hold: that of the authenticator
\* from the lookup to the end, and that of the handler.
OneConnection == {"limited", "touching", "handling", "ending"}
InUse(p) ==
    LET mine(steps) == {r \in Requests : ProcessOf[r] = p /\ req[r] \in steps}
    IN  Cardinality(mine(OneConnection)) + 2 * Cardinality(mine({"working"}))
HasConnection(p) == InUse(p) < PoolSize

Init ==
    /\ now = 0 /\ faults = 0
    /\ req = [r \in Requests |-> "new"]
    /\ active = Keys
    /\ rowLock = [k \in Keys |-> None]
    /\ seen = [p \in Processes |-> <<>>]
    /\ tracked = [p \in Processes |-> [k \in Keys |-> [claims |-> 0, evicted |-> 0]]]

\* is_usable.
Usable(k) == k \in active /\ (ExpiresAt[k] = None \/ now < ExpiresAt[k])

\* resolve_principal: the session's first statement takes the connection.
Authenticate(r) ==
    /\ req[r] = "new" /\ HasConnection(ProcessOf[r])
    /\ req' = [req EXCEPT ![r] = IF Usable(KeyOf[r]) THEN "limited" ELSE "ending"]
    /\ UNCHANGED <<now, faults, active, rowLock, seen, tracked>>

\* The pool's timeout is a SQLAlchemyError: the key store is unavailable, 401.
NoConnection(r) ==
    /\ req[r] = "new" /\ ~HasConnection(ProcessOf[r])
    /\ req' = [req EXCEPT ![r] = "closed"]
    /\ UNCHANGED <<now, faults, active, rowLock, seen, tracked>>

\* should_update: due, and claimed.
Place(p, k) == {i \in DOMAIN seen[p] : seen[p][i].key = k}
Due(p, k) == \A i \in Place(p, k) : now - seen[p][i].at >= Interval

\* The key moves to the end.
Others(p, k) ==
    LET place == CHOOSE i \in Place(p, k) : TRUE
    IN  IF Place(p, k) = {} THEN seen[p]
        ELSE [i \in 1..Len(seen[p]) - 1 |-> seen[p][IF i < place THEN i ELSE i + 1]]
Claimed(p, k) == Append(Others(p, k), [key |-> k, at |-> now])
Evicted(p, k) == IF Len(Claimed(p, k)) > MaxTracked THEN {Head(Claimed(p, k)).key} ELSE {}
Counted(p, k) ==
    tracked' = [tracked EXCEPT ![p] = [c \in Keys |->
                  [claims |-> @[c].claims + (IF c = k THEN 1 ELSE 0),
                   evicted |-> @[c].evicted + (IF c \in Evicted(p, k) THEN 1 ELSE 0)]]]
PeeksOnly(p, k) == UNCHANGED seen /\ Counted(p, k)                        \* mutant
Claims(p, k) ==
    /\ seen' = [seen EXCEPT ![p] = IF Evicted(p, k) = {} THEN Claimed(p, k) ELSE Tail(Claimed(p, k))]
    /\ Counted(p, k)

\* enforce returns, and record_use runs up to its first statement.
Enter(r) ==
    /\ req[r] = "limited"
    /\ IF Due(ProcessOf[r], KeyOf[r])
       THEN /\ Claims(ProcessOf[r], KeyOf[r])
            /\ req' = [req EXCEPT ![r] = "touching"]
       ELSE /\ req' = [req EXCEPT ![r] = "handling"]
            /\ UNCHANGED <<seen, tracked>>
    /\ UNCHANGED <<now, faults, active, rowLock>>

\* RateLimitExceededError.
TurnedAway(r) ==
    /\ req[r] = "limited"
    /\ req' = [req EXCEPT ![r] = "ending"]
    /\ UNCHANGED <<now, faults, active, rowLock, seen, tracked>>

\* touch_last_used: the UPDATE of the flush waits for the row, and keeps it.
Touch(r) ==
    /\ req[r] = "touching" /\ rowLock[KeyOf[r]] = None
    /\ rowLock' = [rowLock EXCEPT ![KeyOf[r]] = r]
    /\ req' = [req EXCEPT ![r] = "handling"]
    /\ UNCHANGED <<now, faults, active, seen, tracked>>

\* record_use swallows a SQLAlchemyError; the claim stands.
TouchFails(r) ==
    /\ req[r] = "touching" /\ faults < MaxFaults
    /\ faults' = faults + 1
    /\ req' = [req EXCEPT ![r] = "handling"]
    /\ UNCHANGED <<now, active, rowLock, seen, tracked>>

\* The handler asks its session for a connection, or require_scope turns it away.
Handle(r) ==
    /\ req[r] = "handling" /\ HasConnection(ProcessOf[r])
    /\ req' = [req EXCEPT ![r] = "working"]
    /\ UNCHANGED <<now, faults, active, rowLock, seen, tracked>>

Forbidden(r) ==
    /\ req[r] = "handling"
    /\ req' = [req EXCEPT ![r] = "ending"]
    /\ UNCHANGED <<now, faults, active, rowLock, seen, tracked>>

WaitsForever(r) == FALSE                                                 \* mutant
MayTimeOut(r) == req[r] = "handling" /\ ~HasConnection(ProcessOf[r])
PoolTimeout(r) ==
    /\ MayTimeOut(r)
    /\ req' = [req EXCEPT ![r] = "ending"]
    /\ UNCHANGED <<now, faults, active, rowLock, seen, tracked>>

Finish(r) ==
    /\ req[r] = "working"
    /\ req' = [req EXCEPT ![r] = "ending"]
    /\ UNCHANGED <<now, faults, active, rowLock, seen, tracked>>

\* get_api_key_authenticator leaves its session without a commit: the write of
\* touch_last_used is rolled back, and its lock goes.
Close(r) ==
    /\ req[r] = "ending"
    /\ req' = [req EXCEPT ![r] = "closed"]
    /\ rowLock' = [k \in Keys |-> IF rowLock[k] = r THEN None ELSE rowLock[k]]
    /\ UNCHANGED <<now, faults, active, seen, tracked>>

\* revoke, from a session of its own that commits.
Revoke(k) ==
    /\ k \in active /\ rowLock[k] = None
    /\ active' = active \ {k}
    /\ UNCHANGED <<now, faults, req, rowLock, seen, tracked>>

Tick ==
    /\ now < Horizon /\ now' = now + 1
    /\ UNCHANGED <<faults, req, active, rowLock, seen, tracked>>

Serves(r) ==
    \/ Authenticate(r) \/ NoConnection(r)
    \/ Enter(r) \/ TurnedAway(r)
    \/ Touch(r) \/ Handle(r) \/ PoolTimeout(r) \/ Finish(r) \/ Close(r)

Next ==
    \/ \E r \in Requests : Serves(r) \/ TouchFails(r) \/ Forbidden(r)
    \/ \E k \in Keys : Revoke(k)
    \/ Tick

\* A request runs until it waits, the pool's timeout fires, the database grants a lock
\* that was freed.
Fairness == \A r \in Requests : WF_vars(Serves(r))
Spec == Init /\ [][Next]_vars /\ Fairness
-----------------------------------------------------------------------------
\* A process pays for at most one write per key and interval, and one more for each
\* time it had to forget the key, however many of the key's requests are between their
\* claim and their write; and it remembers no more keys than its cap
\* (last_used.py:8-13, 42-43, 60-61).
WritesAreBounded ==
    \A p \in Processes :
        /\ Len(seen[p]) <= MaxTracked
        /\ \A k \in Keys : tracked[p][k].claims <= now \div Interval + 1 + tracked[p][k].evicted

\* A request that was let in to the pool is over some time: neither the connection its
\* handler still needs nor the row another request has updated keeps it for ever, though
\* requests hold a connection each while they wait (dependencies.py:113-116, 195).
EveryRequestIsAnswered == \A r \in Requests : req[r] # "new" ~> req[r] = "closed"
=============================================================================
