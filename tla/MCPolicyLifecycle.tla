------------------------- MODULE MCPolicyLifecycle -------------------------
(***************************************************************************)
(* The instances of PolicyLifecycle and PolicyEditor that TLC checks: the  *)
(* API's transactions by themselves, or the page over the API.             *)
(***************************************************************************)
EXTENDS PolicyLifecycle, PolicyEditor, TLC

CONSTANTS o1, o2, p1, p2, p3, p4, docA, docB, docBad, NAME, PHONE, UNKNOWN, alias,
    model, other, joined

Symmetry == Permutations({o1, o2}) \cup Permutations({p2, p3, p4})

\* Scores of 4 and 5 are written alike.
Thresholds == [t \in {NAME, PHONE} |-> IF t = NAME THEN 2 ELSE 4]
Rule(action, score) ==
    [action |-> action, score |-> score, enabled |-> TRUE, priority |-> Nothing,
     recognizer |-> "presidio-builtin", description |-> Nothing]
Document(ttl, models, entities) ==
    [schema |-> 1, ttl |-> ttl, budget |-> 1, providers |-> [a \in {alias} |-> models],
     unknown |-> "keep", entities |-> entities]
SeedDocument == Document(1, {model, other}, [t \in {NAME} |-> Rule("block", 4)])
Others == {Document(2, {model}, [t \in {NAME, UNKNOWN} |-> Rule("redact", 4)]),
           Document(1, {joined}, [t \in {NAME} |-> Rule("block", 5)])}

\* The name joined is "model, other".
Names(m) == IF m = joined THEN {model, other} ELSE {m}
Text(providers) == [a \in DOMAIN providers |-> UNION {Names(m) : m \in providers[a]}]

\* Each runs while the other is as it began.
Began == Init /\ EditorInit
Transacts == Next /\ UNCHANGED editorVars
Transactions == EditorInit /\ Transacts
Edits == EditorNext /\ Init /\ UNCHANGED vars

TransactionsSpec == Began /\ [][Transacts]_<<vars, editorVars>>
PartsSpec == Began /\ [][Transactions \/ Edits]_<<vars, editorVars>>
=============================================================================
