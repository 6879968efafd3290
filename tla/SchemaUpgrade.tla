---------------------------- MODULE SchemaUpgrade ----------------------------
(***************************************************************************)
(* What the migrations promise, whoever runs them: a ledger of versions    *)
(* and the schema move together, one version at a time and in order, and   *)
(* the ledger is never more than one version away from the schema.         *)
(*                                                                         *)
(* applied counts the versions whose effect is in the schema, recorded     *)
(* those in the ledger.  Nothing is promised any more once the ledger      *)
(* cannot be trusted: after a rollback that began on a schema that was not *)
(* fully recorded, or that was cut short.                                  *)
(***************************************************************************)
EXTENDS Naturals

CONSTANT Last          \* the number of versions

VARIABLES applied, recorded, trusted
vars == <<applied, recorded, trusted>>

Init == applied = 0 /\ recorded = 0 /\ trusted = TRUE

Apply ==
    /\ applied = recorded /\ applied < Last
    /\ applied' = applied + 1
    /\ UNCHANGED recorded

Record ==
    /\ recorded + 1 = applied
    /\ recorded' = applied
    /\ UNCHANGED applied

Revert ==
    /\ applied = recorded /\ applied > 0
    /\ applied' = applied - 1
    /\ UNCHANGED recorded

Forget ==
    /\ recorded = applied + 1
    /\ recorded' = applied
    /\ UNCHANGED applied

\* The first version is the ledger itself: without it, nothing is recorded.
DropLedger == applied = 1 /\ recorded <= 1 /\ applied' = 0 /\ recorded' = 0

Trusted == trusted /\ trusted' /\ (Apply \/ Record \/ Revert \/ Forget \/ DropLedger)

Lost == ~trusted' /\ applied' \in 0 .. Last /\ recorded' \in 0 .. Last

Next == Trusted \/ Lost
Spec == Init /\ [][Next]_vars
=============================================================================
