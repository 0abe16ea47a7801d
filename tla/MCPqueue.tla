------------------------------ MODULE MCPqueue ------------------------------
\* A small instance of Pqueue.
EXTENDS Pqueue

CONSTANTS p1, p2, c1, c2, n1, n2, n3
=============================================================================
