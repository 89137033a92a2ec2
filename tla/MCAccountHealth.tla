--------------------------- MODULE MCAccountHealth ---------------------------
(* HealthEvidence with interchangeable observers.                           *)
EXTENDS HealthEvidence, TLC

Symmetry == Permutations(Observers)

=============================================================================
