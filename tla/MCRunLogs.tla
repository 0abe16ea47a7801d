----------------------------- MODULE MCRunLogs -----------------------------
\* A small instance of RunLogs.
EXTENDS RunLogs, TLC

CONSTANTS q1, q2

Symmetry == Permutations(Query)
=============================================================================
