---------------------------- MODULE MCRetirement ----------------------------
(* Instances of Retirement for TLC: row a and its copy a2 share an identity. *)
EXTENDS Retirement, TLC

CONSTANTS a, a2, b, id1, id2

MCIdentity == [x \in Rows |-> IF x = b THEN id2 ELSE id1]
RunSymmetry == Permutations(Runs)
=============================================================================
