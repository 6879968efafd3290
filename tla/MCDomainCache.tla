--------------------------- MODULE MCDomainCache ---------------------------
(* Small instances of DomainCache.  Operations are interchangeable, and so *)
(* are processes when none of them warms up.                               *)
EXTENDS DomainCache, TLC

ProcSymmetry == Permutations(Req) \cup Permutations(Proc)
=============================================================================
