---------------------------- MODULE MCMappingRun ----------------------------
(* Instances of MappingRun for TLC: two rows, of which the second holds a code *)
(* the translation table lacks; a version copies both columns or translates    *)
(* one of them.                                                                *)
EXTENDS MappingRun, TLC

CONSTANTS x, y, name, status, name2, status2

MCValue == [r \in {x, y} |-> [c \in {name, status} |->
              IF c = status THEN (IF r = x THEN "A" ELSE "Z") ELSE "text"]]
MCEntries == [c \in {"A"} |-> "Active"]
Copied == {[source |-> name, target |-> name2, coded |-> FALSE]}
Coded == Copied \cup {[source |-> status, target |-> status2, coded |-> TRUE]}
MCVersions == {Copied, Coded}
RunSymmetry == Permutations(Runs)
=============================================================================
