---------------------------- MODULE MCTokenVault ----------------------------
\* The instances of TokenVault that TLC checks.
EXTENDS TokenVault, TLC

CONSTANTS s1, s2, i1, i2, d1, d2

\* Two spellings of one e-mail address, and a person.
MCOriginals      == {"Jane@x", "jane@x", "Jane"}
MCFingerprints   == {"email#1", "person#1"}
MCFingerprintOf  == [o \in MCOriginals |-> IF o = "Jane" THEN "person#1" ELSE "email#1"]
MCEntityTypes    == {"EMAIL", "PERSON"}
MCTypeOf         == [f \in MCFingerprints |-> IF f = "person#1" THEN "PERSON" ELSE "EMAIL"]

Symmetry ==
    Permutations({i1, i2}) \cup Permutations({d1, d2}) \cup Permutations({s1, s2})
=============================================================================
