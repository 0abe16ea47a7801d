----------------------------- MODULE MCHandlers -----------------------------
\* A small instance of Handlers.
EXTENDS Handlers

CONSTANTS h1, h2, f1, f2
=============================================================================
