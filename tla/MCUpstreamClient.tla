--------------------------- MODULE MCUpstreamClient ---------------------------
EXTENDS UpstreamClient, TLC

Symmetry == Permutations(Job)
=============================================================================
