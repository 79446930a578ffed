------------------------- MODULE MCMappingVersions --------------------------
(* Instances of MappingVersions for TLC. *)
EXTENDS MappingVersions, TLC

HandlerSymmetry == Permutations(Handlers)
=============================================================================
