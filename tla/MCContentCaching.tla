-------------------------- MODULE MCContentCaching --------------------------
EXTENDS ContentCaching, TLC

CONSTANTS s1, s2, s3, s4, a1, h1, h2

Pages == {s1, s2, s3, s4, a1}
Menu == {s1, s2, s3, s4}
Events == {h1, h2}
Symmetry == Permutations(Menu) \cup Permutations(Events)
=============================================================================
