---------------------------- MODULE MCDescriptors ----------------------------
\* A small instance of Descriptors.
EXTENDS Descriptors
=============================================================================
