----------------------------- MODULE RateLimiter -----------------------------
(***************************************************************************)
(* RedisRateLimiter.acquire (app/auth/rate_limit.py): a sliding log per    *)
(* API key and per tenant, read and extended under WATCH and MULTI by any  *)
(* number of requests at once.  A round trip to Redis is a step.  Redis    *)
(* fails an EXEC when a watched key has changed, and redis-py then runs    *)
(* the whole evaluation again; a connection that breaks while keys are     *)
(* watched makes it run again too, whether or not the EXEC took effect.    *)
(*                                                                         *)
(* Time is counted in ticks of `now', which the workers share.             *)
(***************************************************************************)
EXTENDS Integers, FiniteSets

CONSTANTS
    Requests,       \* calls of acquire
    Keys,           \* API keys
    Tenants,
    KeyOf,          \* the key each request presents
    TenantOf,       \* the tenant each key belongs to
    KeyLimit, TenantLimit,      \* RateLimitRule.limit of the two rules
    KeyWindow, TenantWindow,    \* RateLimitRule.window_ms, in ticks
    Second,         \* ticks in a second
    FailOpen,       \* fail_open_on_backend_error
    MaxFaults,      \* bound: connections that break
    Horizon,        \* bound: the last tick
    None

ASSUME RuleAssumption ==
    /\ KeyLimit \in Nat \ {0} /\ TenantLimit \in Nat \ {0}
    /\ KeyWindow \in Nat \ {0} /\ TenantWindow \in Nat \ {0}
    /\ Second \in Nat \ {0} /\ MaxFaults \in Nat /\ Horizon \in Nat
    /\ FailOpen \in BOOLEAN
ASSUME IdentityAssumption ==
    /\ KeyOf \in [Requests -> Keys] /\ TenantOf \in [Keys -> Tenants]
    /\ Keys \cap Tenants = {} /\ None \notin Keys \cup Tenants

VARIABLES
    now,
    hits,           \* each bucket's sorted set: members with their score
    until,          \* when each bucket's key expires
    stale,          \* the requests that watch a key that has changed
    call,           \* each call of acquire
    faults,
    granted         \* history: every member ever added to a bucket

vars == <<now, hits, until, stale, call, faults, granted>>

Buckets == Keys \cup Tenants
Limit(b) == IF b \in Keys THEN KeyLimit ELSE TenantLimit
Window(b) == IF b \in Keys THEN KeyWindow ELSE TenantWindow
Charged(r) == {KeyOf[r], TenantOf[KeyOf[r]]}

Open == {"reading", "executing"}
\* Whom Redis marks when a key changes, the client that changes it included.
Watching(b) == {r \in Requests : call[r].step \in Open /\ b \in Charged(r)}

NewCall == [step |-> "calling", at |-> 0, denied |-> None, retryAt |-> 0, lost |-> 0]

Init ==
    /\ now = 0
    /\ hits = [b \in Buckets |-> {}] /\ granted = hits
    /\ until = [b \in Buckets |-> 0]
    /\ stale = {}
    /\ call = [r \in Requests |-> NewCall]
    /\ faults = 0

\* The server cannot be reached when the transaction starts.
Unreachable(r) ==
    /\ call[r].step = "calling" /\ faults < MaxFaults
    /\ call' = [call EXCEPT ![r].step = IF FailOpen THEN "unmetered" ELSE "refused"]
    /\ faults' = faults + 1
    /\ UNCHANGED <<now, hits, until, stale, granted>>

\* WATCH, and the clock.
Watch(r) ==
    /\ call[r].step = "calling"
    /\ call' = [call EXCEPT ![r] = [@ EXCEPT !.step = "reading", !.at = now]]
    /\ stale' = stale \ {r}
    /\ UNCHANGED <<now, hits, until, faults, granted>>

Oldest(members) == CHOOSE t \in {m.at : m \in members} : \A m \in members : t <= m.at

Live(b, at) == {m \in hits[b] : m.at > at - Window(b)}

\* _retry_after rounds up to seconds, and is never 0.
RoundedDown(ticks) == IF ticks < Second THEN 1 ELSE ticks \div Second    \* mutant
RetryAfter(ticks) == IF ticks < 1 THEN 1 ELSE (ticks + Second - 1) \div Second

\* ZREMRANGEBYSCORE, ZCARD and, on a bucket that is full, ZRANGE, for both buckets.
\* They are one step: a change between two of them is a change under WATCH, as one after
\* them is, and sends the transaction back.
Full(r) == {b \in Charged(r) : Cardinality(Live(b, call[r].at)) >= Limit(b)}
Refusing(r) == IF KeyOf[r] \in Full(r) THEN KeyOf[r] ELSE TenantOf[KeyOf[r]]
Told(r, b) == RetryAfter(Oldest(Live(b, call[r].at)) + Window(b) - call[r].at)

Read(r) ==
    LET pruned == {b \in Charged(r) : Live(b, call[r].at) # hits[b]}
    IN  /\ call[r].step = "reading"
        /\ hits' = [b \in Buckets |-> IF b \in pruned THEN Live(b, call[r].at) ELSE hits[b]]
        /\ stale' = stale \cup UNION {Watching(b) : b \in pruned}
        /\ call' = [call EXCEPT ![r] = [@ EXCEPT
                      !.step = "executing",
                      !.denied = IF Full(r) = {} THEN None ELSE Refusing(r),
                      !.retryAt = IF Full(r) = {} THEN 0
                                  ELSE call[r].at + Second * Told(r, Refusing(r))]]
        /\ UNCHANGED <<now, until, faults, granted>>

\* EXEC of a transaction whose keys have changed: WatchError, and another round.
Retry(r) ==
    /\ call[r].step = "executing" /\ r \in stale
    /\ call' = [call EXCEPT ![r].step = "calling"]
    /\ UNCHANGED <<now, hits, until, stale, faults, granted>>

\* EXEC of an empty transaction.
Deny(r) ==
    /\ call[r].step = "executing" /\ r \notin stale /\ call[r].denied # None
    /\ call' = [call EXCEPT ![r].step = "denied"]
    /\ UNCHANGED <<now, hits, until, stale, faults, granted>>

MayExecuteStale(r) == call[r].step = "executing" /\ call[r].denied = None   \* mutant
MayExecute(r) == call[r].step = "executing" /\ r \notin stale /\ call[r].denied = None

\* EXEC of ZADD and PEXPIRE on both buckets.
Member(r) == [of |-> r, at |-> call[r].at, lost |-> call[r].lost]
With(sets, r) == [b \in Buckets |-> IF b \in Charged(r) THEN sets[b] \cup {Member(r)} ELSE sets[b]]
Adds(r) ==
    /\ hits' = With(hits, r) /\ granted' = With(granted, r)
    /\ until' = [b \in Buckets |-> IF b \in Charged(r) THEN now + Window(b) ELSE until[b]]
    /\ stale' = stale \cup UNION {Watching(b) : b \in Charged(r)}

Admit(r) ==
    /\ MayExecute(r)
    /\ Adds(r)
    /\ call' = [call EXCEPT ![r].step = "admitted"]
    /\ UNCHANGED <<now, faults>>

\* The connection breaks while keys are watched: before EXEC, or with its reply.
Breaks(r) ==
    /\ call[r].step \in Open /\ faults < MaxFaults
    /\ call' = [call EXCEPT ![r].step = "calling"]
    /\ faults' = faults + 1
    /\ UNCHANGED <<now, hits, until, stale, granted>>

LosesReply(r) ==
    /\ MayExecute(r) /\ faults < MaxFaults
    /\ Adds(r)
    /\ call' = [call EXCEPT ![r] = [@ EXCEPT !.step = "calling", !.lost = call[r].lost + 1]]
    /\ faults' = faults + 1
    /\ UNCHANGED now

\* Time passes, and Redis drops the keys whose time is over.
Gone == {b \in Buckets : hits[b] # {} /\ until[b] <= now + 1}
Tick ==
    /\ now < Horizon
    /\ now' = now + 1
    /\ hits' = [b \in Buckets |-> IF b \in Gone THEN {} ELSE hits[b]]
    /\ stale' = stale \cup UNION {Watching(b) : b \in Gone}
    /\ UNCHANGED <<until, call, faults, granted>>

Works(r) == Watch(r) \/ Read(r) \/ Retry(r) \/ Deny(r) \/ Admit(r)
Trouble(r) == Unreachable(r) \/ Breaks(r) \/ LosesReply(r)

Next == (\E r \in Requests : Works(r) \/ Trouble(r)) \/ Tick
Spec == Init /\ [][Next]_vars
-----------------------------------------------------------------------------
Steps == {"calling", "reading", "executing", "admitted", "denied", "refused", "unmetered"}
Members == [of : Requests, at : Nat, lost : Nat]
Calls == [step : Steps, at : Nat, denied : Buckets \cup {None},
          retryAt : Nat, lost : Nat]

\* The state has its shape, and what a bucket holds was added to it.
TypeOK ==
    /\ now \in Nat /\ faults \in Nat
    /\ granted \in [Buckets -> SUBSET Members]
    /\ hits \in [Buckets -> SUBSET Members]
    /\ until \in [Buckets -> Nat]
    /\ stale \subseteq Requests
    /\ call \in [Requests -> Calls]
    /\ \A b \in Buckets : hits[b] \subseteq granted[b]

\* Whatever window of a bucket one looks at, no more requests than the limit arrived
\* in it and were let in, however the transactions overlapped and however often they
\* were run again; a bucket holds no more members than its limit, which bounds the
\* memory of the log; and nobody was let in without a member in both of its buckets
\* (rate_limit.py:4-21).
InWindow(members, b, t) == {m \in members : t - Window(b) < m.at /\ m.at <= t}
WindowsHold ==
    /\ \A b \in Buckets :
         /\ Cardinality(hits[b]) <= Limit(b)
         /\ \A t \in 0..now : Cardinality(InWindow(granted[b], b, t)) <= Limit(b)
    /\ \A r \in Requests : call[r].step = "admitted" =>
         \A b \in Charged(r) : Member(r) \in granted[b]

\* A caller that waits for as long as it was told finds the bucket that refused it
\* with a place free, unless others came meanwhile: who hammers a full bucket does not
\* push the end of its own block away (rate_limit.py:160-164, 235-238).
RetryAfterIsEnough ==
    \A r \in Requests : call[r].step = "denied" =>
        LET b == call[r].denied
            left == {m \in granted[b] : m.at <= call[r].at /\ m.at > call[r].retryAt - Window(b)}
        IN  Cardinality(left) < Limit(b)
=============================================================================
