------------------------ MODULE MCPolicyResolution ------------------------
\* The instance of PolicyResolution that TLC checks.
EXTENDS PolicyResolution, TLC

CONSTANTS o1, p1, p2, p3, docA, docB, docBad, l1, l2

Symmetry == Permutations({l1, l2})
=============================================================================
