--------------------------- MODULE MCAuditService ---------------------------
\* The instances of AuditService that TLC checks.
EXTENDS AuditService, TLC

CONSTANTS r1, r2, r3
=============================================================================
