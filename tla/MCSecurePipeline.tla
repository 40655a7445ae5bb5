------------------------- MODULE MCSecurePipeline -------------------------
\* The instances of SecurePipeline that TLC checks.
EXTENDS SecurePipeline, TLC

CONSTANTS q1, q2, s1, s2, i1, i2

\* A name and a card number; the name is in both messages, and may be found in one only.
MCValues == {"name", "card"}
MCConversations == {<<{"name"}, {"name", "card"}>>}
\* One session, or two; the other assignments are these with the names changed.
MCAssignments == {[r \in Requests |-> s1], [r \in Requests |-> IF r = q1 THEN s1 ELSE s2]}
Snapshot(name, card, budget, unknown) ==
    [action |-> [v \in MCValues |-> IF v = "name" THEN name ELSE card],
     budget |-> budget, unknown |-> unknown]
MCPolicies == {Snapshot("tokenize", "block", 2, "preserve"),
               Snapshot("tokenize", "pseudonymize", 2, "fail"),
               Snapshot("redact", "allow", 1, "redact")}
=============================================================================
