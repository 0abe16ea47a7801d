----------------------------- MODULE MCPipeline -----------------------------
\* A small instance of Pipeline: one of the three songs has its file under its
\* bare id.
EXTENDS Pipeline

CONSTANTS s1, s2, s3

RankFiles == {Dotted(s1), Dotted(s2), Bare(s3)}

\* The other two songs are alike.
Symmetry == Permutations({s1, s2})
=============================================================================
