---------------------------- MODULE MCJoinGraph -----------------------------
(* Instances of JoinGraph for TLC. *)
EXTENDS JoinGraph, TLC

TableSymmetry == Permutations(Tables)
=============================================================================
