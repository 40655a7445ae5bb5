----------------------- MODULE MCDocumentLifecycle -----------------------
\* The instances of DocumentLifecycle that TLC checks.
EXTENDS DocumentLifecycle, TLC

CONSTANTS x, y, t1, t2, r1

Symmetry == Permutations({x, y}) \cup Permutations({t1, t2})
=============================================================================
