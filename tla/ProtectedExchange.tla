------------------------- MODULE ProtectedExchange -------------------------
(***************************************************************************)
(* What the gateway promises of a chat exchange, in three steps: mappings  *)
(* are kept, then a request that uses none but kept ones may be sent, then *)
(* an answer may be given that holds no value but those kept for the       *)
(* session it belongs to.  ("No code path calls the provider before        *)
(* mappings are persisted", pipeline/service.py:24-28.)                    *)
(***************************************************************************)
EXTENDS Naturals

CONSTANTS Requests, Sessions, Values, TokenIds, None

VARIABLES
    session,    \* the session of each request
    kept,       \* token id |-> the session and the value it was kept for
    sent,       \* what each request had sent: the ids in it, or None
    answered    \* the values restored into each answer, or None

vars == <<session, kept, sent, answered>>

Of(s) == {i \in DOMAIN kept : kept[i].session = s}

Init ==
    /\ session \in [Requests -> Sessions]
    /\ kept = [i \in {} |-> None]
    /\ sent = [r \in Requests |-> None]
    /\ answered = [r \in Requests |-> None]

Growing ==
    /\ DOMAIN kept \subseteq DOMAIN kept'
    /\ DOMAIN kept' \subseteq TokenIds
    /\ \A i \in DOMAIN kept : kept'[i] = kept[i]
    /\ \A i \in DOMAIN kept' : kept'[i] \in [session : Sessions, value : Values]

Keep == Growing /\ UNCHANGED <<session, sent, answered>>

Send(r) ==
    /\ sent[r] = None
    /\ \E ids \in SUBSET Of(session[r]) : sent' = [sent EXCEPT ![r] = ids]
    /\ UNCHANGED <<session, kept, answered>>

Answer(r) ==
    /\ sent[r] # None
    /\ answered[r] = None
    /\ \E values \in SUBSET {kept[i].value : i \in Of(session[r])} :
         answered' = [answered EXCEPT ![r] = values]
    /\ UNCHANGED <<session, kept, sent>>

\* An exchange that breaks off in a call to the vault may still keep mappings.
Over(r) ==
    /\ Growing
    /\ sent' = [sent EXCEPT ![r] = None]
    /\ answered' = [answered EXCEPT ![r] = None]
    /\ UNCHANGED session

Next == Keep \/ \E r \in Requests : Send(r) \/ Answer(r) \/ Over(r)

Spec == Init /\ [][Next]_vars
=============================================================================
