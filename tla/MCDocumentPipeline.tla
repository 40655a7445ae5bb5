------------------------- MODULE MCDocumentPipeline -------------------------
\* The instances of DocumentPipeline that TLC checks.
EXTENDS DocumentPipeline, TLC

CONSTANTS d1, d2, i1, i2, c1, x1, n2, n3, c3

\* The first document has, at the cut of its two segments, characters that are a card
\* number to one reading and a name to another; the second has that name, and its
\* instruction the name once more and a card number.
MCOccurrences == {c1, x1, n2, n3, c3}
MCValueOf == [o \in MCOccurrences |-> IF o \in {c1, c3} THEN "card" ELSE "name"]
MCOverlap == {<<o, o>> : o \in MCOccurrences} \cup {<<c1, x1>>, <<x1, c1>>}
MCValues == {"name", "card"}
MCDocuments == {d1 :> <<{c1}, {c1, x1}>> @@ d2 :> <<{n2}>>}
MCInstructions == {d1 :> {} @@ d2 :> {n3, c3}}
\* A card number may be a weak hit or a strong one; a snapshot may ask for the strong one.
Weak == 1
Strong == 2
MCHits == [of : MCOccurrences, score : {Strong}] \cup [of : {c1, c3}, score : {Weak}]
Snapshot(name, card, min, budget, strict) ==
    [action |-> [v \in MCValues |-> IF v = "name" THEN name ELSE card],
     min |-> [v \in MCValues |-> IF v = "name" THEN Weak ELSE min],
     budget |-> budget, strict |-> strict]
MCPolicies == {Snapshot("tokenize", "block", Strong, 2, TRUE),
               Snapshot("tokenize", "allow", Weak, 1, FALSE)}
MCReplies == {{i1}}
=============================================================================
