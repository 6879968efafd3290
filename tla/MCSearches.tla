------------------------------- MODULE MCSearches -------------------------------
EXTENDS Searches, TLC

Symmetry == Permutations(Request) \cup Permutations(Goods)
=============================================================================
