-------------------------- MODULE MCArmoriesCache --------------------------
(* Small instances of ArmoriesCache: operations, and processes, are alike. *)
EXTENDS ArmoriesCache, TLC

Symmetry == Permutations(Req) \cup Permutations(Section \ {Profile})
=============================================================================
