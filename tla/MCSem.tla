------------------------------- MODULE MCSem -------------------------------
\* Model values for Sem: three processes, one of them a server in one of the
\* configurations.
EXTENDS Sem

CONSTANTS p1, p2, p3
=============================================================================
