-------------------------- MODULE MCReconciliation --------------------------
(* Instances of Reconciliation for TLC. *)
EXTENDS Reconciliation, TLC

CONSTANTS c1, c2

MCCompared == <<c1, c2>>
IdSymmetry == Permutations(Ids)
=============================================================================
