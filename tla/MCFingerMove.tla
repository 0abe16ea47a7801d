---------------------------- MODULE MCFingerMove ----------------------------
\* Small instances of FingerMove.
EXTENDS FingerMove

CONSTANTS s1, s2, mc, g1, g2, sub1, sub2

OneGroup == <<g1>>
TwoGroups == <<g1, g2>>
OneSub == <<sub1>>
TwoSubs == <<sub1, sub2>>
DottedFiles == {Dotted(s1), Dotted(s2)}
MixedFiles == {Dotted(s1), Dotted(s2), Bare(s2)}

\* The songs are alike, and so are their files in DottedFiles.
Symmetry == Permutations(Song)
=============================================================================
