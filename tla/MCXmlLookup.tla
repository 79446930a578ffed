---------------------------- MODULE MCXmlLookup -----------------------------
(* Instances of XmlLookup for TLC. *)
EXTENDS XmlLookup, TLC

XmlSymmetry == Permutations(Pages) \cup Permutations(Columns) \cup Permutations(Paths)
=============================================================================
