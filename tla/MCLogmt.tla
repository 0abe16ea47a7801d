------------------------------ MODULE MCLogmt ------------------------------
\* A small instance of Logmt.
EXTENDS Logmt

CONSTANTS p1, p2, log, n1, n2, n3, n4
=============================================================================
