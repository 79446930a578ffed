----------------------------- MODULE JoinGraph ------------------------------
(***************************************************************************)
(* What saving a view definition does with its join graph:                 *)
(* validate_join_graph splits the referenced tables into components and    *)
(* refuses more than one; then _build_join_order walks the same edges      *)
(* breadth first from the first live table, and the order it finds, with   *)
(* the edge that led to each table, becomes the FROM and JOIN clauses.     *)
(*                                                                         *)
(* Inputs: an edge is the pair <<left_table, right_table>>; Live are the   *)
(* source_tables of the column mappings that are not Retired, Dead those   *)
(* of the Retired ones, which only the validation looks at.                *)
(***************************************************************************)
EXTENDS Integers, Sequences, FiniteSets

CONSTANTS Tables,     \* names of tables
          MaxEdges    \* bound on the length of a join graph

ASSUME GraphAssumption == IsFiniteSet(Tables) /\ MaxEdges \in Nat

VARIABLES
    graph, live, dead,   \* the request
    phase,
    unvisited, component, stack, components,   \* validate_join_graph
    queue, scan, visited, joins                \* _build_join_order

input == <<graph, live, dead>>
validation == <<unvisited, component, stack, components>>
walk == <<queue, scan, visited, joins>>
vars == <<input, phase, validation, walk>>

Graphs == UNION {[1..n -> Tables \X Tables] : n \in 0..MaxEdges}
Edges == {graph[i] : i \in DOMAIN graph}
Ends(e) == {e[1], e[2]}
EdgeTables == UNION {Ends(e) : e \in Edges}

\* _referenced_tables, and the tables build_select_sql collects.
Referenced == EdgeTables \cup live \cup dead
Needed == EdgeTables \cup live

Join == [table : Tables, parent : Tables, edge : 1..MaxEdges]

TypeOK ==
    /\ graph \in Graphs
    /\ live \subseteq Tables /\ dead \subseteq Tables
    /\ phase \in {"validate", "generate", "walk", "done", "orphans", "no_tables", "unreachable"}
    /\ {unvisited, component, stack, visited} \subseteq SUBSET Tables
    /\ components \subseteq SUBSET Tables
    /\ queue \in Seq(Tables)
    /\ scan \in 1..(MaxEdges + 1)
    /\ joins \in Seq(Join)

Init ==
    /\ graph \in Graphs /\ live \in SUBSET Tables /\ dead \in SUBSET Tables
    /\ phase = "validate"
    /\ unvisited = Referenced
    /\ component = {} /\ stack = {} /\ components = {}
    /\ queue = <<>> /\ scan = 1 /\ visited = {} /\ joins = <<>>

-----------------------------------------------------------------------------
Neighbours(t) == {u \in Referenced : \E e \in Edges : Ends(e) = {t, u}}

\* The next candidate of the outer loop; its order only decides which
\* component an error names.
StartComponent(t) ==
    /\ phase = "validate"
    /\ stack = {} /\ component = {}
    /\ t \in unvisited
    /\ component' = {t} /\ stack' = {t}
    /\ unvisited' = unvisited \ {t}
    /\ UNCHANGED <<input, phase, components, walk>>

\* Mutant: a neighbour joins the component but is not marked as visited.
PopStackRevisits(t) ==
    LET new == Neighbours(t) \cap unvisited
    IN  /\ phase = "validate"
        /\ t \in stack
        /\ stack' = (stack \ {t}) \cup new
        /\ component' = component \cup new
        /\ UNCHANGED <<input, phase, unvisited, components, walk>>

\* Mutant: neighbours are found but not pushed on the stack.
PopStackShallow(t) ==
    LET new == Neighbours(t) \cap unvisited
    IN  /\ phase = "validate"
        /\ t \in stack
        /\ stack' = stack \ {t}
        /\ component' = component \cup new
        /\ unvisited' = unvisited \ new
        /\ UNCHANGED <<input, phase, components, walk>>

PopStack(t) ==
    LET new == Neighbours(t) \cap unvisited
    IN  /\ phase = "validate"
        /\ t \in stack
        /\ stack' = (stack \ {t}) \cup new
        /\ component' = component \cup new
        /\ unvisited' = unvisited \ new
        /\ UNCHANGED <<input, phase, components, walk>>

EndComponent ==
    /\ phase = "validate"
    /\ stack = {} /\ component # {}
    /\ components' = components \cup {component}
    /\ component' = {}
    /\ UNCHANGED <<input, phase, unvisited, stack, walk>>

\* No more than one component: the graph is accepted.
EndValidation ==
    /\ phase = "validate"
    /\ unvisited = {} /\ component = {}
    /\ phase' = IF \A c, d \in components : c = d THEN "generate" ELSE "orphans"
    /\ UNCHANGED <<input, validation, walk>>

-----------------------------------------------------------------------------
\* The root is the table of the first live column, or an edge's if none is live.
StartWalk(root) ==
    /\ phase = "generate"
    /\ IF live # {} THEN root \in live ELSE graph # <<>> /\ root = graph[1][1]
    /\ phase' = "walk"
    /\ queue' = <<root>> /\ visited' = {root} /\ scan' = 1 /\ joins' = <<>>
    /\ UNCHANGED <<input, validation>>

NothingToSelect ==
    /\ phase = "generate"
    /\ Needed = {}
    /\ phase' = "no_tables"
    /\ UNCHANGED <<input, validation, walk>>

\* The adjacency list of a table holds its edges in the order of the graph.
OtherEnd(e, t) == IF e[1] = t THEN e[2] ELSE e[1]
\* Mutant: adjacency is not mirrored, edges are followed left to right only.
DiscoversRightOnly(i) == Head(queue) = graph[i][1] /\ graph[i][2] \notin visited

\* Mutant: a table already visited is visited again.
DiscoversAgain(i) == Head(queue) \in Ends(graph[i])

Discovers(i) ==
    Head(queue) \in Ends(graph[i]) /\ OtherEnd(graph[i], Head(queue)) \notin visited

\* Mutant: the joined table's first edge is looked up, not the one that led to it.
VisitByTable ==
    LET t == OtherEnd(graph[scan], Head(queue))
        first == CHOOSE i \in DOMAIN graph :
                    t \in Ends(graph[i]) /\ \A j \in 1..(i - 1) : t \notin Ends(graph[j])
    IN  /\ phase = "walk"
        /\ queue # <<>> /\ scan <= Len(graph)
        /\ Discovers(scan)
        /\ visited' = visited \cup {t}
        /\ queue' = Append(queue, t)
        /\ joins' = Append(joins, [table |-> t, parent |-> Head(queue), edge |-> first])
        /\ scan' = scan + 1
        /\ UNCHANGED <<input, phase, validation>>

VisitNeighbour ==
    LET t == OtherEnd(graph[scan], Head(queue))
    IN  /\ phase = "walk"
        /\ queue # <<>> /\ scan <= Len(graph)
        /\ Discovers(scan)
        /\ visited' = visited \cup {t}
        /\ queue' = Append(queue, t)
        /\ joins' = Append(joins, [table |-> t, parent |-> Head(queue), edge |-> scan])
        /\ scan' = scan + 1
        /\ UNCHANGED <<input, phase, validation>>

SkipEdge ==
    /\ phase = "walk"
    /\ queue # <<>> /\ scan <= Len(graph)
    /\ ~Discovers(scan)
    /\ scan' = scan + 1
    /\ UNCHANGED <<input, phase, validation, queue, visited, joins>>

NextTable ==
    /\ phase = "walk"
    /\ queue # <<>> /\ scan = Len(graph) + 1
    /\ queue' = Tail(queue)
    /\ scan' = 1
    /\ UNCHANGED <<input, phase, validation, visited, joins>>

EndWalk ==
    /\ phase = "walk"
    /\ queue = <<>>
    /\ phase' = IF Needed \subseteq visited THEN "done" ELSE "unreachable"
    /\ UNCHANGED <<input, validation, walk>>

Next ==
    \/ \E t \in Tables : StartComponent(t) \/ PopStack(t) \/ StartWalk(t)
    \/ EndComponent \/ EndValidation \/ NothingToSelect
    \/ VisitNeighbour \/ SkipEdge \/ NextTable \/ EndWalk

Spec == Init /\ [][Next]_vars /\ WF_vars(Next)

-----------------------------------------------------------------------------
\* The reference definition: no cut of the tables is free of edges.
Closed(S) == \A e \in Edges : e[1] \in S <=> e[2] \in S
Connected(T) == \A S \in SUBSET T : Closed(S) => S = {} \/ S = T

\* FR-002: the validation accepts exactly the graphs that connect every
\* referenced table, those of retired columns included.
ValidationIsExact ==
    /\ phase = "orphans" => ~Connected(Referenced)
    /\ phase \notin {"validate", "orphans"} => Connected(Referenced)

\* "Defensive backstop": whatever the validation accepted, the walk reaches
\* every table of the query, although it starts from fewer tables.
BackstopNeverFires == phase # "unreachable"

\* The tables of the clauses before the i-th, and the table FROM begins with.
JoinedBefore(i) == {joins[j].table : j \in 1..(i - 1)}
From == visited \ JoinedBefore(Len(joins) + 1)

\* The FROM clause is well scoped: a JOIN's ON clause names the table it joins
\* and one that an earlier clause introduced, and no table is joined twice.
\* The one table nobody joins is the root.
EveryJoinIsScoped ==
    phase \in {"walk", "done"} =>
        /\ \E root \in Needed : From = {root}
        /\ \A i \in DOMAIN joins :
            /\ joins[i].parent \in From \cup JoinedBefore(i)
            /\ joins[i].table \notin From \cup JoinedBefore(i)
            /\ Ends(graph[joins[i].edge]) = {joins[i].table, joins[i].parent}

\* A tree-shaped graph loses no condition: every edge the operator drew becomes
\* an ON clause.  (In a graph with cycles or composite keys some do not.)
TreesKeepEveryEdge ==
    phase = "done" /\ Len(graph) = Cardinality(Needed) - 1 =>
        {joins[i].edge : i \in DOMAIN joins} = DOMAIN graph

\* Every step of the two searches uses up something, so none of them can go on
\* for ever, whatever cycles and self joins the graph has: a step answers the
\* phase, or reaches a new table, or deals with one that waits, or scans an edge.
PhasesLeft == CASE phase = "validate" -> 3 [] phase = "generate" -> 2
                [] phase = "walk" -> 1 [] OTHER -> 0
TablesLeft == IF phase = "walk" THEN Cardinality(Referenced \ visited)
                                ELSE Cardinality(unvisited)
Waiting == IF phase = "walk" THEN Len(queue) ELSE Cardinality(stack)
EdgesLeft == IF phase = "walk" THEN Len(graph) + 1 - scan
                               ELSE IF component = {} THEN 0 ELSE 1
Remaining == <<PhasesLeft, TablesLeft, Waiting, EdgesLeft>>
Amounts == [1..4 -> Nat]
Below(m, n) == \E i \in 1..4 : m[i] < n[i] /\ \A j \in 1..(i - 1) : m[j] = n[j]
EveryStepAdvances == [][{Remaining, Remaining'} \subseteq Amounts /\ Below(Remaining', Remaining)]_vars

\* Both searches end and the save is answered, cycles and self joins included.
SaveIsAnswered == <>(phase \in {"done", "orphans", "no_tables", "unreachable"})
=============================================================================
