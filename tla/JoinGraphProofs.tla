-------------------------- MODULE JoinGraphProofs ---------------------------
(***************************************************************************)
(* For every set of tables and every join graph: the validation accepts    *)
(* exactly the connected graphs, the walk then reaches every table of the  *)
(* query, each JOIN refers to tables that are already in scope, and every  *)
(* step of both searches brings them nearer to their end.                  *)
(***************************************************************************)
EXTENDS JoinGraph, FiniteSetTheorems, WellFoundedInduction, TLAPS

\* A set that no edge leaves holds all of C or nothing of it.
Inseparable(C) == \A S \in SUBSET Tables : Closed(S) => C \subseteq S \/ C \cap S = {}

\* The validation has sorted the tables into unvisited ones, the component it
\* is growing and finished components.
Partition ==
    /\ Referenced = unvisited \cup component \cup UNION components
    /\ unvisited \cap component = {}
    /\ unvisited \cap UNION components = {}
    /\ component \cap UNION components = {}
    /\ stack \subseteq component

\* Components are connected; a finished one is not joined to anything else.
Explored ==
    /\ \A t \in component \ stack : Neighbours(t) \cap unvisited = {}
    /\ Inseparable(component)
    /\ \A C \in components : C # {} /\ Closed(C) /\ Inseparable(C)

\* The search from the root: what has left the queue has only visited
\* neighbours, as has the head of the queue among the edges already scanned.
Frontier ==
    phase \in {"walk", "done", "unreachable"} =>
        /\ visited # {} /\ visited \subseteq Referenced
        /\ \A k \in DOMAIN queue : queue[k] \in visited
        /\ \A t \in visited :
              (\A k \in DOMAIN queue : queue[k] # t) =>
                 \A i \in DOMAIN graph : t \in Ends(graph[i]) => Ends(graph[i]) \subseteq visited
        /\ queue # <<>> => \A i \in 1..(scan - 1) :
              i \in DOMAIN graph /\ Head(queue) \in Ends(graph[i]) => Ends(graph[i]) \subseteq visited

\* Every clause has joined a table of the query that was new, by an edge of the
\* graph; a walk that is done has them all.
JoinsCounted ==
    phase \in {"walk", "done"} =>
        /\ \A i \in DOMAIN joins : joins[i].edge \in DOMAIN graph /\ joins[i].table \in visited
        /\ IsFiniteSet(visited) /\ Cardinality(visited) = Len(joins) + 1
        /\ visited \subseteq Needed
        /\ phase = "done" => Needed \subseteq visited

IInv == /\ TypeOK
        /\ phase = "validate" => Partition /\ Explored
        /\ ValidationIsExact
        /\ Frontier
        /\ EveryJoinIsScoped
        /\ JoinsCounted
        /\ BackstopNeverFires

-----------------------------------------------------------------------------
\* A join graph is a finite sequence of pairs of tables.
LEMMA GraphFacts ==
  ASSUME graph \in Graphs
  PROVE  /\ Len(graph) \in 0..MaxEdges /\ DOMAIN graph = 1..Len(graph)
         /\ \A i \in DOMAIN graph :
              /\ graph[i] \in Tables \X Tables
              /\ Ends(graph[i]) \subseteq Tables
              /\ graph[i] \in Edges
              /\ Ends(graph[i]) \subseteq EdgeTables
<1>1. PICK n \in 0..MaxEdges : graph \in [1..n -> Tables \X Tables]
  BY DEF Graphs
<1>2. n \in Nat /\ DOMAIN graph = 1..n /\ Len(graph) = n
  BY <1>1, GraphAssumption
<1>3. \A i \in DOMAIN graph : graph[i] \in Tables \X Tables /\ graph[i] \in Edges
  BY <1>1 DEF Edges
<1>4. \A i \in DOMAIN graph : Ends(graph[i]) \subseteq Tables
  BY <1>3 DEF Ends
<1>5. \A i \in DOMAIN graph : Ends(graph[i]) \subseteq EdgeTables
  BY <1>3 DEF EdgeTables
<1> QED BY <1>1, <1>2, <1>3, <1>4, <1>5

\* Edges join referenced tables.
LEMMA EdgeFacts ==
  ASSUME TypeOK
  PROVE  /\ Referenced \subseteq Tables
         /\ \A e \in Edges : e[1] \in Referenced /\ e[2] \in Referenced
         /\ \A e \in Edges : e \in Tables \X Tables
<1>1. \A e \in Edges : \E i \in DOMAIN graph : e = graph[i]
  BY DEF Edges
<1>2. \A e \in Edges : e \in Tables \X Tables /\ Ends(e) \subseteq EdgeTables
  BY <1>1, GraphFacts DEF TypeOK
<1>3. \A t \in EdgeTables : t \in Tables
  BY <1>2 DEF EdgeTables, Ends
<1> QED BY <1>2, <1>3 DEF Referenced, TypeOK, Ends

\* The two ends of an edge are neighbours of each other.
LEMMA NeighbourFacts ==
  ASSUME TypeOK, NEW e \in Edges
  PROVE  e[2] \in Neighbours(e[1]) /\ e[1] \in Neighbours(e[2])
<1>1. Ends(e) = {e[1], e[2]} /\ Ends(e) = {e[2], e[1]}
  BY DEF Ends
<1> QED BY <1>1, EdgeFacts DEF Neighbours

\* Growing a connected set by neighbours of its members keeps it connected.
LEMMA GrowInseparable ==
  ASSUME TypeOK, NEW C \in SUBSET Tables, NEW t \in C, NEW N \in SUBSET Neighbours(t),
         Inseparable(C)
  PROVE  Inseparable(C \cup N)
<1> SUFFICES ASSUME NEW S \in SUBSET Tables, Closed(S)
             PROVE  (C \cup N) \subseteq S \/ (C \cup N) \cap S = {}
  BY DEF Inseparable
<1>1. C \subseteq S \/ C \cap S = {}
  BY DEF Inseparable
<1>2. \A u \in N : u \in S <=> t \in S
  BY DEF Neighbours, Closed, Ends
<1> QED BY <1>1, <1>2

-----------------------------------------------------------------------------
\* Before anything is visited the tables are all unvisited.
LEMMA InitIInv == Init => IInv
<1> SUFFICES ASSUME Init PROVE IInv
  OBVIOUS
<1>1. TypeOK
  <2>1. graph \in Graphs /\ live \subseteq Tables /\ dead \subseteq Tables
    BY DEF Init
  <2>2. \A e \in Edges : Ends(e) \subseteq Tables
    BY <2>1, GraphFacts DEF Edges
  <2>3. Referenced \subseteq Tables
    BY <2>1, <2>2 DEF Referenced, EdgeTables
  <2> QED BY <2>1, <2>3, GraphAssumption DEF Init, TypeOK
<1>2. Partition /\ Explored
  BY DEF Init, Partition, Explored, Inseparable
<1> QED BY <1>1, <1>2 DEF Init, IInv, ValidationIsExact, Frontier, EveryJoinIsScoped,
           JoinsCounted, BackstopNeverFires

\* The input never changes, so neither do the notions defined from it.
LEMMA InputStays ==
  ASSUME UNCHANGED input
  PROVE  /\ Edges' = Edges /\ EdgeTables' = EdgeTables
         /\ Referenced' = Referenced /\ Needed' = Needed
         /\ \A S : Closed(S)' <=> Closed(S)
         /\ \A t : Neighbours(t)' = Neighbours(t)
         /\ \A C : Inseparable(C)' <=> Inseparable(C)
         /\ \A T : Connected(T)' <=> Connected(T)
BY DEF input, Edges, EdgeTables, Referenced, Needed, Closed, Neighbours, Inseparable, Connected

\* Clauses stay scoped and counted as long as the walk adds none.
LEMMA ScopeStays ==
  ASSUME EveryJoinIsScoped, JoinsCounted, UNCHANGED <<input, visited, joins>>,
         phase' = phase \/ (phase = "walk" /\ phase' = "done" /\ Needed \subseteq visited)
  PROVE  EveryJoinIsScoped' /\ JoinsCounted'
<1>1. graph' = graph /\ visited' = visited /\ joins' = joins /\ Needed' = Needed
  BY InputStays DEF input
<1>2. From' = From /\ \A i : JoinedBefore(i)' = JoinedBefore(i)
  BY <1>1 DEF From, JoinedBefore
<1>3. EveryJoinIsScoped'
  BY <1>1, <1>2 DEF EveryJoinIsScoped, Ends
<1>4. JoinsCounted'
  BY <1>1 DEF JoinsCounted
<1> QED BY <1>3, <1>4

\* A single table is inseparable.
LEMMA StartComponentStep ==
  ASSUME IInv, NEW t \in Tables, StartComponent(t)
  PROVE  IInv'
<1>1. /\ UNCHANGED <<input, phase, components, walk>> /\ phase = "validate"
      /\ component' = {t} /\ stack' = {t} /\ unvisited' = unvisited \ {t}
      /\ component = {} /\ stack = {} /\ t \in unvisited
  BY DEF StartComponent
<1>2. TypeOK'
  BY <1>1 DEF IInv, TypeOK, input, walk
<1>3. Partition'
  BY <1>1, InputStays DEF IInv, Partition
<1>4. Explored'
  <2>1. Inseparable({t})
    BY DEF Inseparable
  <2> QED BY <1>1, <2>1, InputStays DEF IInv, Explored
<1>5. ValidationIsExact' /\ Frontier' /\ EveryJoinIsScoped' /\ JoinsCounted' /\ BackstopNeverFires'
  BY <1>1 DEF ValidationIsExact, Frontier, EveryJoinIsScoped, JoinsCounted, BackstopNeverFires
<1> QED BY <1>2, <1>3, <1>4, <1>5 DEF IInv

\* Popping a table moves its unvisited neighbours into the component.
LEMMA PopStackStep ==
  ASSUME IInv, NEW t \in Tables, PopStack(t)
  PROVE  IInv'
<1> DEFINE new == Neighbours(t) \cap unvisited
<1>1. /\ UNCHANGED <<input, phase, components, walk>> /\ phase = "validate"
      /\ t \in stack /\ stack' = (stack \ {t}) \cup new
      /\ component' = component \cup new /\ unvisited' = unvisited \ new
  BY DEF PopStack
<1>2. TypeOK'
  BY <1>1 DEF IInv, TypeOK, input, walk
<1>3. Partition'
  BY <1>1, InputStays DEF IInv, Partition
<1>4. Explored'
  <2>1. \A u \in component' \ stack' : Neighbours(u) \cap unvisited' = {}
    BY <1>1 DEF IInv, Explored
  <2>2. Inseparable(component')
    BY <1>1, GrowInseparable DEF IInv, Explored, Partition, TypeOK
  <2> QED BY <1>1, <2>1, <2>2, InputStays DEF IInv, Explored
<1>5. ValidationIsExact' /\ Frontier' /\ EveryJoinIsScoped' /\ JoinsCounted' /\ BackstopNeverFires'
  BY <1>1 DEF ValidationIsExact, Frontier, EveryJoinIsScoped, JoinsCounted, BackstopNeverFires
<1> QED BY <1>2, <1>3, <1>4, <1>5 DEF IInv

\* With the stack empty no edge leaves the component.
LEMMA EndComponentStep ==
  ASSUME IInv, EndComponent
  PROVE  IInv'
<1>1. /\ UNCHANGED <<input, phase, unvisited, stack, walk>> /\ phase = "validate"
      /\ stack = {} /\ component # {}
      /\ components' = components \cup {component} /\ component' = {}
  BY DEF EndComponent
<1>2. TypeOK'
  BY <1>1 DEF IInv, TypeOK, input, walk
<1>3. Partition'
  BY <1>1, InputStays DEF IInv, Partition
<1>4. Closed(component)
  <2>1. \A t \in component : \A u \in Neighbours(t) : u \in component
    <3> SUFFICES ASSUME NEW t \in component, NEW u \in Neighbours(t), u \notin component
                 PROVE  FALSE
      OBVIOUS
    <3>1. u \in Referenced /\ u \notin unvisited
      BY <1>1 DEF IInv, Explored, Neighbours
    <3>2. PICK C \in components : u \in C
      BY <1>1, <3>1 DEF IInv, Partition
    <3>3. Closed(C) /\ t \notin C
      BY <1>1, <3>2 DEF IInv, Partition, Explored
    <3> QED BY <3>2, <3>3 DEF Neighbours, Closed, Ends
  <2> QED BY <2>1, NeighbourFacts DEF IInv, Closed
<1>5. Explored'
  <2>1. Inseparable({})
    BY DEF Inseparable
  <2> QED BY <1>1, <1>4, <2>1, InputStays DEF IInv, Explored
<1>6. ValidationIsExact' /\ Frontier' /\ EveryJoinIsScoped' /\ JoinsCounted' /\ BackstopNeverFires'
  BY <1>1 DEF ValidationIsExact, Frontier, EveryJoinIsScoped, JoinsCounted, BackstopNeverFires
<1> QED BY <1>2, <1>3, <1>5, <1>6 DEF IInv

\* One component is a connected graph; two are separated by a closed set.
LEMMA EndValidationStep ==
  ASSUME IInv, EndValidation
  PROVE  IInv'
<1>1. /\ UNCHANGED <<input, validation, walk>> /\ phase = "validate"
      /\ unvisited = {} /\ component = {} /\ Partition /\ Explored
      /\ phase' = IF \A c, d \in components : c = d THEN "generate" ELSE "orphans"
  BY DEF EndValidation, IInv
<1>2. Referenced = UNION components
  BY <1>1 DEF Partition
<1>3. \A C \in components : C # {} /\ C \subseteq Tables /\ Closed(C) /\ Inseparable(C)
  BY <1>1 DEF Explored, IInv, TypeOK
<1>4. TypeOK'
  BY <1>1 DEF IInv, TypeOK, input, validation, walk
<1>5. (\A c, d \in components : c = d) => Connected(Referenced)
  <2> SUFFICES ASSUME \A c, d \in components : c = d,
                      NEW S \in SUBSET Referenced, Closed(S), S # {}
               PROVE  S = Referenced
    BY DEF Connected
  <2>1. PICK C \in components : Referenced = C
    BY <1>2
  <2>2. S \in SUBSET Tables
    BY EdgeFacts DEF IInv
  <2> QED BY <1>3, <2>1, <2>2 DEF Inseparable
<1>6. ~(\A c, d \in components : c = d) => ~Connected(Referenced)
  <2> SUFFICES ASSUME NEW c \in components, NEW d \in components, c # d, Connected(Referenced)
               PROVE  FALSE
    OBVIOUS
  <2>1. c = Referenced /\ d = Referenced
    BY <1>2, <1>3 DEF Connected
  <2> QED BY <2>1
<1>7. ValidationIsExact'
  BY <1>1, <1>5, <1>6, InputStays DEF ValidationIsExact
<1>8. Frontier' /\ EveryJoinIsScoped' /\ JoinsCounted' /\ BackstopNeverFires' /\ phase' # "validate"
  BY <1>1 DEF Frontier, EveryJoinIsScoped, JoinsCounted, BackstopNeverFires
<1> QED BY <1>4, <1>7, <1>8 DEF IInv

-----------------------------------------------------------------------------
\* The walk starts at a referenced table.
LEMMA StartWalkStep ==
  ASSUME IInv, NEW root \in Tables, StartWalk(root)
  PROVE  IInv'
<1>1. /\ UNCHANGED <<input, validation>> /\ phase = "generate" /\ phase' = "walk"
      /\ queue' = <<root>> /\ visited' = {root} /\ scan' = 1 /\ joins' = <<>>
  BY DEF StartWalk
<1>2. graph' = graph
  BY <1>1 DEF input
<1>3. root \in Referenced /\ root \in Needed
  <2>1. CASE live # {}
    BY <2>1 DEF StartWalk, Referenced, Needed
  <2>2. CASE live = {}
    <3>1. graph # <<>> /\ root = graph[1][1]
      BY <2>2 DEF StartWalk
    <3>2. 1 \in DOMAIN graph
      <4>1. Len(graph) # 0
        BY <3>1, GraphFacts DEF IInv, TypeOK, Graphs
      <4> QED BY <4>1, GraphFacts DEF IInv, TypeOK
    <3>3. root \in Ends(graph[1]) /\ Ends(graph[1]) \subseteq EdgeTables
      BY <3>1, <3>2, GraphFacts DEF IInv, TypeOK, Ends
    <3> QED BY <3>3 DEF Referenced, Needed
  <2> QED BY <2>1, <2>2
<1>4. TypeOK'
  BY <1>1, GraphAssumption DEF IInv, TypeOK, input, validation
<1>5. ValidationIsExact'
  BY <1>1, InputStays DEF IInv, ValidationIsExact
<1>6. Frontier'
  BY <1>1, <1>3, InputStays DEF Frontier
<1>7. EveryJoinIsScoped' /\ JoinsCounted'
  <2>1. joins' = <<>> /\ visited' = {root} /\ Len(joins') = 0 /\ phase' = "walk"
    BY <1>1
  <2>2. From' = {root} /\ root \in Needed'
    BY <1>1, <1>3, <2>1, InputStays DEF From, JoinedBefore
  <2>3. EveryJoinIsScoped'
    BY <2>1, <2>2 DEF EveryJoinIsScoped
  <2>4. IsFiniteSet(visited') /\ Cardinality(visited') = Len(joins') + 1
    <3>1. IsFiniteSet({root}) /\ Cardinality({root}) = 1
      BY FS_Singleton
    <3> QED BY <2>1, <3>1
  <2>5. DOMAIN joins' = {} /\ visited' \subseteq Needed'
    BY <2>1, <2>2
  <2> QED BY <2>1, <2>3, <2>4, <2>5 DEF JoinsCounted
<1>8. BackstopNeverFires' /\ phase' # "validate"
  BY <1>1 DEF BackstopNeverFires
<1> QED BY <1>4, <1>5, <1>6, <1>7, <1>8 DEF IInv

\* An edge that discovers a table leads from the head of the queue to it.
LEMMA DiscoveryFacts ==
  ASSUME TypeOK, NEW i \in DOMAIN graph, queue # <<>>, Discovers(i)
  PROVE  /\ Head(queue) \in Tables /\ OtherEnd(graph[i], Head(queue)) \in Referenced
         /\ OtherEnd(graph[i], Head(queue)) \notin visited
         /\ Ends(graph[i]) = {OtherEnd(graph[i], Head(queue)), Head(queue)}
<1>1. graph[i] \in Edges /\ Head(queue) \in Ends(graph[i])
  BY GraphFacts DEF TypeOK, Discovers
<1>2. graph[i][1] \in Referenced /\ graph[i][2] \in Referenced
  BY <1>1, EdgeFacts
<1>3. Head(queue) \in Tables
  BY DEF TypeOK
<1> QED BY <1>1, <1>2, <1>3 DEF Ends, OtherEnd, Discovers

\* Every edge seen before, and the discovering one, now has both ends visited.
LEMMA VisitNeighbourStep ==
  ASSUME IInv, VisitNeighbour
  PROVE  IInv'
<1> DEFINE t == OtherEnd(graph[scan], Head(queue))
           step == [table |-> t, parent |-> Head(queue), edge |-> scan]
<1>1. /\ UNCHANGED <<input, phase, validation>> /\ phase = "walk"
      /\ queue # <<>> /\ scan <= Len(graph) /\ Discovers(scan)
      /\ visited' = visited \cup {t} /\ queue' = Append(queue, t)
      /\ joins' = Append(joins, step) /\ scan' = scan + 1
  BY DEF VisitNeighbour
<1>2. /\ Len(graph) \in 0..MaxEdges /\ scan \in DOMAIN graph /\ scan \in 1..MaxEdges
      /\ graph' = graph /\ TypeOK /\ Frontier /\ EveryJoinIsScoped
  BY <1>1, GraphFacts, GraphAssumption DEF IInv, TypeOK, input
<1>3. /\ Head(queue) \in Tables /\ t \in Referenced /\ t \notin visited
      /\ Ends(graph[scan]) = {t, Head(queue)} /\ t \in Tables
  BY <1>1, <1>2, DiscoveryFacts, EdgeFacts
<1> HIDE DEF t
<1>4. /\ queue \in Seq(Tables) /\ joins \in Seq(Join) /\ step \in Join
  BY <1>2, <1>3 DEF TypeOK, Join
<1>5. /\ DOMAIN queue' = 1..(Len(queue) + 1) /\ DOMAIN queue = 1..Len(queue)
      /\ \A k \in DOMAIN queue : queue'[k] = queue[k]
      /\ queue'[Len(queue) + 1] = t /\ Len(queue) \in Nat /\ Len(queue) # 0
  BY <1>1, <1>3, <1>4
<1>6. Head(queue') = Head(queue) /\ Head(queue) = queue[1] /\ 1 \in DOMAIN queue
  BY <1>1, <1>4, <1>5
<1>7. Head(queue) \in visited
  BY <1>1, <1>2, <1>6 DEF Frontier
<1>8. TypeOK'
  BY <1>1, <1>2, <1>3, <1>4, GraphAssumption, SMTT(60) DEF TypeOK, input, validation
<1>9. Frontier'
  <2>1. visited' # {} /\ visited' \subseteq Referenced'
    BY <1>1, <1>2, <1>3, InputStays DEF Frontier
  <2>2. \A k \in DOMAIN queue' : queue'[k] \in visited'
    BY <1>1, <1>2, <1>5 DEF Frontier
  <2>3. ASSUME NEW u \in visited', \A k \in DOMAIN queue' : queue'[k] # u,
               NEW i \in DOMAIN graph, u \in Ends(graph[i])
        PROVE  Ends(graph[i]) \subseteq visited'
    <3>1. u \in visited /\ \A k \in DOMAIN queue : queue[k] # u
      BY <1>1, <1>5, <2>3
    <3> QED BY <1>1, <1>2, <2>3, <3>1 DEF Frontier
  <2>4. ASSUME NEW i \in 1..(scan' - 1), i \in DOMAIN graph,
               Head(queue') \in Ends(graph[i])
        PROVE  Ends(graph[i]) \subseteq visited'
    <3>1. CASE i = scan
      BY <1>1, <1>3, <1>7, <3>1
    <3>2. CASE i # scan
      BY <1>1, <1>2, <1>6, <2>4, <3>2 DEF Frontier
    <3> QED BY <3>1, <3>2
  <2> QED BY <1>2, <2>1, <2>2, <2>3, <2>4 DEF Frontier, Ends
<1>10. EveryJoinIsScoped' /\ JoinsCounted'
  <2>1. /\ DOMAIN joins' = 1..(Len(joins) + 1) /\ DOMAIN joins = 1..Len(joins)
        /\ Len(joins) \in Nat /\ Len(joins') = Len(joins) + 1
        /\ \A i \in DOMAIN joins : joins'[i] = joins[i]
        /\ joins'[Len(joins) + 1] = step
    BY <1>1, <1>4
  <2>2. JoinsCounted /\ phase' = "walk" /\ Needed' = Needed
    BY <1>1, InputStays DEF IInv
  <2>3. \A i \in 1..(Len(joins) + 1) : JoinedBefore(i)' = JoinedBefore(i)
    BY <2>1 DEF JoinedBefore
  <2>4. JoinedBefore(Len(joins) + 1) \subseteq visited
    BY <1>1, <2>1, <2>2 DEF JoinsCounted, JoinedBefore
  <2>5. JoinedBefore(Len(joins) + 1)' = JoinedBefore(Len(joins) + 1) \cup {t}
    <3>1. JoinedBefore(Len(joins) + 1)' = {joins'[j].table : j \in 1..Len(joins')}
      BY <2>1 DEF JoinedBefore
    <3>2. JoinedBefore(Len(joins) + 1) = {joins[j].table : j \in 1..Len(joins)}
      BY <2>1 DEF JoinedBefore
    <3>3. 1..Len(joins') = (1..Len(joins)) \cup {Len(joins) + 1}
      BY <2>1
    <3>4. step.table = t
      OBVIOUS
    <3> HIDE DEF step
    <3> QED BY <2>1, <3>1, <3>2, <3>3, <3>4
  <2>6. From' = From
    BY <1>1, <1>3, <2>5 DEF From
  <2>7. t \in Needed
    BY <1>2, <1>3, GraphFacts DEF TypeOK, Needed
  <2>8. EveryJoinIsScoped'
    <3> SUFFICES ASSUME NEW i \in DOMAIN joins'
                 PROVE  /\ joins'[i].parent \in From \cup JoinedBefore(i)
                        /\ joins'[i].table \notin From \cup JoinedBefore(i)
                        /\ Ends(graph[joins'[i].edge]) = {joins'[i].table, joins'[i].parent}
      BY <1>1, <1>2, <2>1, <2>2, <2>3, <2>6 DEF EveryJoinIsScoped, Ends
    <3>1. CASE i = Len(joins) + 1
      <4>1. From \cup JoinedBefore(i) = visited
        BY <2>4, <3>1 DEF From
      <4> QED BY <1>3, <1>7, <2>1, <3>1, <4>1
    <3>2. CASE i \in DOMAIN joins
      BY <1>1, <1>2, <2>1, <3>2 DEF EveryJoinIsScoped
    <3> QED BY <2>1, <3>1, <3>2
  <2>9. IsFiniteSet(visited') /\ Cardinality(visited') = Len(joins') + 1
    BY <1>1, <1>3, <2>1, <2>2, FS_AddElement DEF JoinsCounted
  <2>10. \A i \in DOMAIN joins' : joins'[i].edge \in DOMAIN graph' /\ joins'[i].table \in visited'
    BY <1>1, <1>2, <2>1, <2>2 DEF JoinsCounted
  <2> QED BY <1>1, <2>2, <2>7, <2>8, <2>9, <2>10 DEF JoinsCounted
<1>11. ValidationIsExact' /\ BackstopNeverFires' /\ phase' # "validate"
  BY <1>1, InputStays DEF IInv, ValidationIsExact, BackstopNeverFires
<1> QED BY <1>8, <1>9, <1>10, <1>11 DEF IInv

\* An edge that discovers nothing has both its ends visited, or is elsewhere.
LEMMA SkipEdgeStep ==
  ASSUME IInv, SkipEdge
  PROVE  IInv'
<1>1. /\ UNCHANGED <<input, phase, validation, queue, visited, joins>> /\ phase = "walk"
      /\ queue # <<>> /\ scan <= Len(graph) /\ ~Discovers(scan) /\ scan' = scan + 1
  BY DEF SkipEdge
<1>2. /\ Len(graph) \in 0..MaxEdges /\ scan \in DOMAIN graph /\ scan \in 1..MaxEdges
      /\ graph' = graph /\ TypeOK /\ Frontier
  BY <1>1, GraphFacts, GraphAssumption DEF IInv, TypeOK, input
<1>3. Head(queue) \in visited
  BY <1>1, <1>2 DEF TypeOK, Frontier
<1>4. TypeOK'
  BY <1>1, <1>2, GraphAssumption DEF TypeOK, input, validation
<1>5. Head(queue) \in Ends(graph[scan]) => Ends(graph[scan]) \subseteq visited
  BY <1>1, <1>3 DEF Discovers, OtherEnd, Ends
<1>6. ASSUME NEW i \in 1..(scan' - 1), i \in DOMAIN graph, Head(queue) \in Ends(graph[i])
      PROVE  Ends(graph[i]) \subseteq visited
  <2>1. CASE i = scan
    BY <1>5, <1>6, <2>1
  <2>2. CASE i # scan
    BY <1>1, <1>2, <1>6, <2>2 DEF Frontier
  <2> QED BY <2>1, <2>2
<1>7. Frontier'
  BY <1>1, <1>2, <1>6, InputStays DEF Frontier, Ends
<1>8. ValidationIsExact' /\ BackstopNeverFires' /\ phase' # "validate"
  BY <1>1, InputStays DEF IInv, ValidationIsExact, BackstopNeverFires
<1>9. EveryJoinIsScoped' /\ JoinsCounted'
  <2>1. UNCHANGED <<input, visited, joins>> /\ phase' = phase
    BY <1>1
  <2>2. EveryJoinIsScoped /\ JoinsCounted
    BY DEF IInv
  <2> QED BY <2>1, <2>2, ScopeStays
<1> QED BY <1>4, <1>7, <1>8, <1>9 DEF IInv

\* All edges scanned, the head of the queue has only visited neighbours.
LEMMA NextTableStep ==
  ASSUME IInv, NextTable
  PROVE  IInv'
<1>1. /\ UNCHANGED <<input, phase, validation, visited, joins>> /\ phase = "walk"
      /\ queue # <<>> /\ scan = Len(graph) + 1 /\ queue' = Tail(queue) /\ scan' = 1
  BY DEF NextTable
<1>2. /\ Len(graph) \in 0..MaxEdges /\ DOMAIN graph = 1..Len(graph)
      /\ graph' = graph /\ TypeOK /\ Frontier
  BY <1>1, GraphFacts, GraphAssumption DEF IInv, TypeOK, input
<1>3. /\ queue \in Seq(Tables) /\ queue' \in Seq(Tables) /\ Head(queue) = queue[1]
      /\ Len(queue) \in Nat /\ DOMAIN queue = 1..Len(queue) /\ Len(queue) # 0
      /\ DOMAIN queue' = 1..(Len(queue) - 1)
      /\ \A k \in DOMAIN queue' : queue'[k] = queue[k + 1]
  BY <1>1, <1>2 DEF TypeOK
<1>4. TypeOK'
  BY <1>1, <1>2, <1>3, GraphAssumption DEF TypeOK, input, validation
<1>5. \A k \in DOMAIN queue' : queue'[k] \in visited
  BY <1>1, <1>2, <1>3 DEF Frontier
<1>6. ASSUME NEW u \in visited, \A k \in DOMAIN queue' : queue'[k] # u,
             NEW i \in DOMAIN graph, u \in Ends(graph[i])
      PROVE  Ends(graph[i]) \subseteq visited
  <2>1. CASE u = Head(queue)
    BY <1>1, <1>2, <1>6, <2>1 DEF Frontier
  <2>2. CASE u # Head(queue)
    <3>1. ASSUME NEW k \in DOMAIN queue PROVE queue[k] # u
      <4>1. CASE k = 1
        BY <1>3, <2>2, <4>1
      <4>2. CASE k # 1
        <5>1. k - 1 \in DOMAIN queue' /\ queue'[k - 1] = queue[k]
          BY <1>3, <4>2
        <5> QED BY <1>6, <5>1
      <4> QED BY <4>1, <4>2
    <3> QED BY <1>1, <1>2, <1>6, <3>1 DEF Frontier
  <2> QED BY <2>1, <2>2
<1>7. Frontier'
  BY <1>1, <1>2, <1>5, <1>6, InputStays DEF Frontier, Ends
<1>8. ValidationIsExact' /\ BackstopNeverFires' /\ phase' # "validate"
  BY <1>1, InputStays DEF IInv, ValidationIsExact, BackstopNeverFires
<1>9. EveryJoinIsScoped' /\ JoinsCounted'
  <2>1. UNCHANGED <<input, visited, joins>> /\ phase' = phase
    BY <1>1
  <2>2. EveryJoinIsScoped /\ JoinsCounted
    BY DEF IInv
  <2> QED BY <2>1, <2>2, ScopeStays
<1> QED BY <1>4, <1>7, <1>8, <1>9 DEF IInv

\* The queue is empty: what was visited is closed, hence everything.
LEMMA EndWalkStep ==
  ASSUME IInv, EndWalk
  PROVE  IInv'
<1>1. /\ UNCHANGED <<input, validation, walk>> /\ phase = "walk" /\ queue = <<>>
      /\ phase' = IF Needed \subseteq visited THEN "done" ELSE "unreachable"
  BY DEF EndWalk
<1>2. Connected(Referenced) /\ Frontier /\ TypeOK
  BY <1>1 DEF IInv, ValidationIsExact
<1>3. Closed(visited)
  <2> SUFFICES ASSUME NEW e \in Edges, e[1] \in visited \/ e[2] \in visited
               PROVE  e[1] \in visited /\ e[2] \in visited
    BY DEF Closed
  <2>1. PICK i \in DOMAIN graph : e = graph[i]
    BY DEF Edges
  <2> QED BY <1>1, <1>2, <2>1 DEF Frontier, Ends
<1>4. visited = Referenced
  BY <1>1, <1>2, <1>3 DEF Connected, Frontier
<1>5. phase' = "done"
  BY <1>1, <1>4 DEF Needed, Referenced
<1>6. TypeOK'
  BY <1>1, <1>5 DEF IInv, TypeOK, input, validation, walk
<1>7. ValidationIsExact' /\ Frontier'
  BY <1>1, <1>2, <1>5, InputStays DEF IInv, ValidationIsExact, Frontier, walk, input, Ends
<1>8. EveryJoinIsScoped' /\ JoinsCounted'
  BY <1>1, <1>4, <1>5, ScopeStays DEF IInv, walk, Needed, Referenced
<1> QED BY <1>5, <1>6, <1>7, <1>8 DEF IInv, BackstopNeverFires

\* Nothing to select from: the request ends there.
LEMMA NothingToSelectStep ==
  ASSUME IInv, NothingToSelect
  PROVE  IInv'
<1>1. /\ UNCHANGED <<input, validation, walk>> /\ phase = "generate" /\ phase' = "no_tables"
  BY DEF NothingToSelect
<1> QED BY <1>1, InputStays DEF IInv, TypeOK, ValidationIsExact, Frontier, EveryJoinIsScoped,
           JoinsCounted, BackstopNeverFires, input, validation, walk

\* IInv is inductive: one case per action.
LEMMA NextIInv == IInv /\ [Next]_vars => IInv'
<1> SUFFICES ASSUME IInv, [Next]_vars PROVE IInv'
  OBVIOUS
<1>1. CASE UNCHANGED vars
  <2>1. UNCHANGED <<input, phase, validation, walk>>
    BY <1>1 DEF vars
  <2>2. TypeOK'
    BY <2>1 DEF IInv, TypeOK, input, validation, walk
  <2>3. phase' = "validate" => Partition' /\ Explored'
    BY <2>1, InputStays DEF IInv, Partition, Explored, validation
  <2>4. ValidationIsExact' /\ BackstopNeverFires'
    BY <2>1, InputStays DEF IInv, ValidationIsExact, BackstopNeverFires
  <2>5. Frontier'
    BY <2>1, InputStays DEF IInv, Frontier, Ends, walk, input
  <2>6. EveryJoinIsScoped' /\ JoinsCounted'
    <3>1. UNCHANGED <<input, visited, joins>> /\ phase' = phase
      BY <2>1 DEF walk
    <3>2. EveryJoinIsScoped /\ JoinsCounted
      BY DEF IInv
    <3> QED BY <3>1, <3>2, ScopeStays
  <2> QED BY <2>2, <2>3, <2>4, <2>5, <2>6 DEF IInv
<1>2. CASE \E t \in Tables : StartComponent(t) \/ PopStack(t) \/ StartWalk(t)
  BY <1>2, StartComponentStep, PopStackStep, StartWalkStep
<1>3. CASE EndComponent \/ EndValidation \/ NothingToSelect
  BY <1>3, EndComponentStep, EndValidationStep, NothingToSelectStep
<1>4. CASE VisitNeighbour \/ SkipEdge \/ NextTable \/ EndWalk
  BY <1>4, VisitNeighbourStep, SkipEdgeStep, NextTableStep, EndWalkStep
<1> QED BY <1>1, <1>2, <1>3, <1>4 DEF Next

\* The inductive invariant holds of every reachable state.
LEMMA Invariance == Spec => []IInv
BY InitIInv, NextIInv, PTL DEF Spec

\* The variables keep their types.
THEOREM TypeCorrect == Spec => []TypeOK
<1>1. IInv => TypeOK
  BY DEF IInv
<1> QED BY <1>1, Invariance, PTL

\* validate_join_graph accepts a graph if and only if it is connected.
THEOREM ValidationExact == Spec => []ValidationIsExact
<1>1. IInv => ValidationIsExact
  BY DEF IInv
<1> QED BY <1>1, Invariance, PTL

\* After a validated graph _build_join_order never meets an unreachable table.
THEOREM BackstopUnused == Spec => []BackstopNeverFires
<1>1. IInv => BackstopNeverFires
  BY DEF IInv
<1> QED BY <1>1, Invariance, PTL

\* Each generated JOIN refers to a table already in the FROM clause.
THEOREM JoinsScoped == Spec => []EveryJoinIsScoped
<1>1. IInv => EveryJoinIsScoped
  BY DEF IInv
<1> QED BY <1>1, Invariance, PTL

\* An edge leads to one new table: no two clauses are made of the same one.
LEMMA EdgesDiffer ==
  ASSUME IInv, phase = "done", NEW i \in DOMAIN joins, NEW j \in DOMAIN joins, i < j
  PROVE  joins[i].edge # joins[j].edge
<1>1. EveryJoinIsScoped /\ joins \in Seq(Join) /\ DOMAIN joins \subseteq Nat
  BY DEF IInv, TypeOK
<1>2. JoinedBefore(i) \subseteq JoinedBefore(j) /\ joins[i].table \in JoinedBefore(j)
  BY <1>1 DEF JoinedBefore
<1>3. joins[i].table \in From \cup JoinedBefore(j) /\ joins[i].parent \in From \cup JoinedBefore(j)
  BY <1>1, <1>2 DEF EveryJoinIsScoped
<1>4. joins[j].table \notin Ends(graph[joins[i].edge])
  BY <1>1, <1>3 DEF EveryJoinIsScoped
<1>5. joins[j].table \in Ends(graph[joins[j].edge])
  BY <1>1 DEF EveryJoinIsScoped
<1> QED BY <1>4, <1>5

\* With as many edges as clauses, each edge is the condition of one.
THEOREM TreesKeepEdges == Spec => []TreesKeepEveryEdge
<1>1. ASSUME IInv, phase = "done", Len(graph) = Cardinality(Needed) - 1
      PROVE  {joins[i].edge : i \in DOMAIN joins} = DOMAIN graph
  <2> DEFINE f == [i \in DOMAIN joins |-> joins[i].edge]
  <2>1. /\ joins \in Seq(Join) /\ Len(joins) \in Nat /\ DOMAIN joins = 1..Len(joins)
        /\ Len(graph) \in Nat /\ DOMAIN graph = 1..Len(graph)
    BY <1>1, GraphFacts, GraphAssumption DEF IInv, TypeOK
  <2>2. visited = Needed /\ Len(graph) = Len(joins)
    <3>1. visited = Needed
      BY <1>1 DEF IInv, JoinsCounted
    <3>2. Cardinality(Needed) = Len(joins) + 1
      BY <1>1, <3>1 DEF IInv, JoinsCounted
    <3>3. Len(graph) = (Len(joins) + 1) - 1
      BY <1>1, <3>2
    <3> QED BY <2>1, <3>1, <3>3
  <2>3. f \in Injection(DOMAIN joins, DOMAIN graph)
    <3>1. f \in [DOMAIN joins -> DOMAIN graph]
      BY <1>1 DEF IInv, JoinsCounted
    <3>2. ASSUME NEW i \in DOMAIN joins, NEW j \in DOMAIN joins, f[i] = f[j] PROVE i = j
      <4>1. i < j \/ j < i \/ i = j
        BY <2>1
      <4> QED BY <1>1, <3>2, <4>1, EdgesDiffer
    <3> QED BY <3>1, <3>2 DEF Injection, IsInjective
  <2>4. IsFiniteSet(DOMAIN graph) /\ Cardinality(DOMAIN joins) = Cardinality(DOMAIN graph)
    BY <2>1, <2>2, FS_Interval
  <2>5. f \in Surjection(DOMAIN joins, DOMAIN graph)
    BY <2>3, <2>4, FS_Injection
  <2> QED BY <2>5 DEF Surjection
<1>2. IInv => TreesKeepEveryEdge
  BY <1>1 DEF TreesKeepEveryEdge
<1> QED BY <1>2, Invariance, PTL

-----------------------------------------------------------------------------
(***************************************************************************)
(* Termination: Remaining goes down with every step, in the lexicographic  *)
(* order of four natural numbers, and nothing goes down in it for ever.    *)
(***************************************************************************)

\* The walk scans no edge beyond the last.
ScanInv == phase = "walk" => scan \in 1..(Len(graph) + 1)

LEMMA ScanNext == IInv /\ ScanInv /\ [Next]_vars => ScanInv'
<1> SUFFICES ASSUME IInv, ScanInv, [Next]_vars PROVE ScanInv'
  OBVIOUS
<1>1. Len(graph) \in Nat
  BY GraphFacts DEF IInv, TypeOK
<1>2. graph' = graph
  BY DEF Next, vars, StartComponent, PopStack, StartWalk, EndComponent, EndValidation,
         NothingToSelect, VisitNeighbour, SkipEdge, NextTable, EndWalk, input
<1>3. CASE UNCHANGED vars
  BY <1>3 DEF vars, ScanInv, walk, input
<1>4. ASSUME NEW t \in Tables, StartComponent(t) \/ PopStack(t) \/ StartWalk(t) PROVE ScanInv'
  BY <1>1, <1>2, <1>4 DEF ScanInv, StartComponent, PopStack, StartWalk
<1>5. CASE EndComponent \/ EndValidation \/ NothingToSelect \/ EndWalk
  BY <1>5 DEF ScanInv, EndComponent, EndValidation, NothingToSelect, EndWalk, walk, input
<1>6. CASE VisitNeighbour \/ SkipEdge \/ NextTable
  BY <1>1, <1>2, <1>6 DEF ScanInv, VisitNeighbour, SkipEdge, NextTable
<1> QED BY <1>3, <1>4, <1>5, <1>6 DEF Next

\* Sets of tables are finite.
LEMMA TableSets ==
  ASSUME NEW S \in SUBSET Tables
  PROVE  /\ IsFiniteSet(S) /\ Cardinality(S) \in Nat
         /\ \A t \in S : Cardinality(S \ {t}) = Cardinality(S) - 1
         /\ \A T \in SUBSET S : Cardinality(T) <= Cardinality(S)
         /\ \A T \in SUBSET S : T # S => Cardinality(T) < Cardinality(S)
<1>1. IsFiniteSet(S)
  BY GraphAssumption, FS_Subset
<1>2. \A T \in SUBSET S : IsFiniteSet(T) /\ Cardinality(T) <= Cardinality(S)
         /\ (Cardinality(T) = Cardinality(S) => T = S)
  BY <1>1, FS_Subset
<1>3. \A T \in SUBSET S : Cardinality(T) \in Nat
  BY <1>2, FS_CardinalityType
<1>4. \A t \in S : Cardinality(S \ {t}) = Cardinality(S) - 1
  BY <1>1, FS_RemoveElement
<1> QED BY <1>1, <1>2, <1>3, <1>4

\* What remains is measured in natural numbers.
RemainsNatural == Remaining \in Amounts
LEMMA RemainingType == TypeOK /\ ScanInv => RemainsNatural
<1> SUFFICES ASSUME TypeOK, ScanInv PROVE RemainsNatural
  OBVIOUS
<1>1. Referenced \subseteq Tables /\ unvisited \subseteq Tables /\ stack \subseteq Tables
  BY EdgeFacts DEF TypeOK
<1>2. /\ Cardinality(Referenced \ visited) \in Nat
      /\ Cardinality(unvisited) \in Nat /\ Cardinality(stack) \in Nat
  BY <1>1, TableSets
<1>3. Len(queue) \in Nat /\ Len(graph) \in Nat
  BY GraphFacts DEF TypeOK
<1>4. PhasesLeft \in Nat
  BY DEF PhasesLeft
<1>5. TablesLeft \in Nat /\ Waiting \in Nat
  BY <1>2, <1>3 DEF TablesLeft, Waiting
<1>6. EdgesLeft \in Nat
  BY <1>3 DEF EdgesLeft, ScanInv
<1> QED BY <1>4, <1>5, <1>6 DEF RemainsNatural, Remaining, Amounts

\* One amount goes down and those before it stay.
LEMMA BelowAt ==
  ASSUME \/ PhasesLeft' < PhasesLeft
         \/ PhasesLeft' = PhasesLeft /\ TablesLeft' < TablesLeft
         \/ PhasesLeft' = PhasesLeft /\ TablesLeft' = TablesLeft /\ Waiting' < Waiting
         \/ /\ PhasesLeft' = PhasesLeft /\ TablesLeft' = TablesLeft /\ Waiting' = Waiting
            /\ EdgesLeft' < EdgesLeft
  PROVE  Below(Remaining', Remaining)
<1> DEFINE m == Remaining'
           n == Remaining
<1>1. m[1] = PhasesLeft' /\ m[2] = TablesLeft' /\ m[3] = Waiting' /\ m[4] = EdgesLeft'
  BY DEF Remaining
<1>2. n[1] = PhasesLeft /\ n[2] = TablesLeft /\ n[3] = Waiting /\ n[4] = EdgesLeft
  BY DEF Remaining
<1> SUFFICES Below(m, n)
  OBVIOUS
<1> HIDE DEF m, n
<1>3. CASE m[1] < n[1]
  <2>1. 1 \in 1..4 /\ \A j \in 1..(1 - 1) : m[j] = n[j]
    OBVIOUS
  <2> QED BY <1>3, <2>1 DEF Below
<1>4. CASE m[1] = n[1] /\ m[2] < n[2]
  <2>1. 2 \in 1..4 /\ \A j \in 1..(2 - 1) : m[j] = n[j]
    BY <1>4
  <2> QED BY <1>4, <2>1 DEF Below
<1>5. CASE m[1] = n[1] /\ m[2] = n[2] /\ m[3] < n[3]
  <2>1. 3 \in 1..4 /\ \A j \in 1..(3 - 1) : m[j] = n[j]
    <3>1. \A j \in 1..(3 - 1) : j = 1 \/ j = 2
      OBVIOUS
    <3> QED BY <1>5, <3>1
  <2> QED BY <1>5, <2>1 DEF Below
<1>6. CASE m[1] = n[1] /\ m[2] = n[2] /\ m[3] = n[3] /\ m[4] < n[4]
  <2>1. 4 \in 1..4 /\ \A j \in 1..(4 - 1) : m[j] = n[j]
    <3>1. \A j \in 1..(4 - 1) : j = 1 \/ j = 2 \/ j = 3
      OBVIOUS
    <3> QED BY <1>6, <3>1
  <2> QED BY <1>6, <2>1 DEF Below
<1> QED BY <1>1, <1>2, <1>3, <1>4, <1>5, <1>6

\* Every step of the validation uses up a table, a stacked one or a component.
LEMMA ValidationAdvances ==
  ASSUME TypeOK,
         \/ \E t \in Tables : StartComponent(t) \/ PopStack(t)
         \/ EndComponent \/ EndValidation
  PROVE  Below(Remaining', Remaining)
<1>1. phase = "validate" /\ unvisited \subseteq Tables /\ stack \subseteq Tables
  BY DEF TypeOK, StartComponent, PopStack, EndComponent, EndValidation
<1>2. ASSUME NEW t \in Tables, StartComponent(t) PROVE Below(Remaining', Remaining)
  <2>1. /\ PhasesLeft' = PhasesLeft /\ TablesLeft = Cardinality(unvisited)
        /\ TablesLeft' = Cardinality(unvisited \ {t}) /\ t \in unvisited
    BY <1>1, <1>2 DEF StartComponent, PhasesLeft, TablesLeft
  <2> QED BY <1>1, <2>1, TableSets, BelowAt
<1>3. ASSUME NEW t \in Tables, PopStack(t) PROVE Below(Remaining', Remaining)
  <2> DEFINE new == Neighbours(t) \cap unvisited
  <2>1. /\ phase' = phase /\ t \in stack /\ stack' = (stack \ {t}) \cup new
        /\ unvisited' = unvisited \ new
    BY <1>3 DEF PopStack
  <2>2. /\ PhasesLeft' = PhasesLeft /\ TablesLeft = Cardinality(unvisited)
        /\ TablesLeft' = Cardinality(unvisited \ new)
        /\ Waiting = Cardinality(stack) /\ Waiting' = Cardinality((stack \ {t}) \cup new)
    BY <1>1, <2>1 DEF PhasesLeft, TablesLeft, Waiting
  <2>3. CASE new = {}
    <3>1. unvisited \ new = unvisited /\ (stack \ {t}) \cup new = stack \ {t}
      BY <2>3
    <3>2. Cardinality(stack \ {t}) < Cardinality(stack)
      BY <1>1, <2>1, TableSets
    <3> QED BY <2>2, <3>1, <3>2, BelowAt
  <2>4. CASE new # {}
    <3>1. Cardinality(unvisited \ new) < Cardinality(unvisited)
      BY <1>1, <2>4, TableSets
    <3> QED BY <2>2, <3>1, BelowAt
  <2> QED BY <2>3, <2>4
<1>4. CASE EndComponent
  <2>1. /\ PhasesLeft' = PhasesLeft /\ TablesLeft' = TablesLeft /\ Waiting' = Waiting
        /\ EdgesLeft = 1 /\ EdgesLeft' = 0
    BY <1>1, <1>4 DEF EndComponent, PhasesLeft, TablesLeft, Waiting, EdgesLeft
  <2> QED BY <2>1, BelowAt
<1>5. CASE EndValidation
  <2>1. PhasesLeft' < PhasesLeft
    BY <1>1, <1>5 DEF EndValidation, PhasesLeft
  <2> QED BY <2>1, BelowAt
<1> QED BY <1>2, <1>3, <1>4, <1>5

\* Every step of the walk reaches a table, drops one from the queue or scans an edge.
LEMMA WalkAdvances ==
  ASSUME IInv, ScanInv, VisitNeighbour \/ SkipEdge \/ NextTable \/ EndWalk
  PROVE  Below(Remaining', Remaining)
<1>1. /\ phase = "walk" /\ TypeOK /\ Frontier /\ graph \in Graphs
      /\ visited \subseteq Referenced /\ Referenced \subseteq Tables
  BY EdgeFacts DEF IInv, TypeOK, Frontier, VisitNeighbour, SkipEdge, NextTable, EndWalk
<1>2. /\ UNCHANGED input /\ graph' = graph /\ Referenced' = Referenced
      /\ Len(graph) \in Nat /\ scan \in Nat /\ Len(queue) \in Nat
  BY <1>1, InputStays, GraphFacts DEF TypeOK, input, VisitNeighbour, SkipEdge, NextTable, EndWalk
<1>3. CASE VisitNeighbour
  <2> DEFINE t == OtherEnd(graph[scan], Head(queue))
  <2>1. /\ phase' = "walk" /\ Discovers(scan) /\ scan <= Len(graph) /\ queue # <<>>
        /\ visited' = visited \cup {t}
    BY <1>1, <1>3 DEF VisitNeighbour
  <2>2. scan \in DOMAIN graph
    BY <1>1, <2>1, GraphFacts DEF TypeOK
  <2>3. t \in Referenced \ visited
    <3>1. Ends(graph[scan]) \subseteq EdgeTables
      BY <1>1, <2>2, GraphFacts
    <3> QED BY <2>1, <3>1 DEF Discovers, OtherEnd, Ends, Referenced
  <2>4. Referenced \ (visited \cup {t}) = (Referenced \ visited) \ {t}
    OBVIOUS
  <2>5. /\ PhasesLeft' = PhasesLeft /\ TablesLeft = Cardinality(Referenced \ visited)
        /\ TablesLeft' = Cardinality((Referenced \ visited) \ {t})
    BY <1>1, <1>2, <2>1, <2>4 DEF PhasesLeft, TablesLeft
  <2>6. Cardinality((Referenced \ visited) \ {t}) < Cardinality(Referenced \ visited)
    <3>1. Referenced \ visited \in SUBSET Tables
      BY <1>1
    <3> QED BY <2>3, <3>1, TableSets
  <2> QED BY <2>5, <2>6, BelowAt
<1>4. CASE SkipEdge
  <2>1. /\ phase' = "walk" /\ UNCHANGED <<queue, visited>> /\ scan' = scan + 1
    BY <1>1, <1>4 DEF SkipEdge
  <2>2. /\ PhasesLeft' = PhasesLeft /\ TablesLeft' = TablesLeft /\ Waiting' = Waiting
        /\ EdgesLeft' < EdgesLeft
    BY <1>1, <1>2, <2>1 DEF PhasesLeft, TablesLeft, Waiting, EdgesLeft
  <2> QED BY <2>2, BelowAt
<1>5. CASE NextTable
  <2>1. phase' = "walk" /\ visited' = visited /\ queue # <<>> /\ queue' = Tail(queue)
    BY <1>1, <1>5 DEF NextTable
  <2>2. Len(queue') < Len(queue)
    BY <1>1, <2>1 DEF TypeOK
  <2>3. PhasesLeft' = PhasesLeft /\ TablesLeft' = TablesLeft /\ Waiting' < Waiting
    BY <1>1, <1>2, <2>1, <2>2 DEF PhasesLeft, TablesLeft, Waiting
  <2> QED BY <2>3, BelowAt
<1>6. CASE EndWalk
  <2>1. PhasesLeft' < PhasesLeft
    BY <1>1, <1>6 DEF EndWalk, PhasesLeft
  <2> QED BY <2>1, BelowAt
<1> QED BY <1>3, <1>4, <1>5, <1>6

\* Every step of saving a view, from the validation to its last JOIN, lowers
\* what remains to be done.
THEOREM StepsAdvance == Spec => EveryStepAdvances
<1>1. Init => ScanInv
  BY DEF Init, ScanInv
<1>2. IInv /\ ScanInv => RemainsNatural
  BY RemainingType DEF IInv
<1>3. IInv /\ ScanInv /\ RemainsNatural /\ RemainsNatural' /\ [Next]_vars
        => [{Remaining, Remaining'} \subseteq Amounts /\ Below(Remaining', Remaining)]_vars
  <2> SUFFICES ASSUME IInv, ScanInv, RemainsNatural, RemainsNatural', Next
               PROVE  {Remaining, Remaining'} \subseteq Amounts /\ Below(Remaining', Remaining)
    OBVIOUS
  <2>1. Remaining \in Amounts
    BY DEF RemainsNatural
  <2>2. Remaining' \in Amounts
    BY DEF RemainsNatural, Amounts
  <2> SUFFICES Below(Remaining', Remaining)
    BY <2>1, <2>2
  <2> TypeOK
    BY DEF IInv
  <2>3. CASE \E t \in Tables : StartComponent(t) \/ PopStack(t)
    BY <2>3, ValidationAdvances
  <2>4. CASE EndComponent \/ EndValidation
    BY <2>4, ValidationAdvances
  <2>5. CASE NothingToSelect \/ \E t \in Tables : StartWalk(t)
    <3>1. PhasesLeft' < PhasesLeft
      BY <2>5 DEF NothingToSelect, StartWalk, PhasesLeft
    <3> QED BY <3>1, BelowAt
  <2>6. CASE VisitNeighbour \/ SkipEdge \/ NextTable \/ EndWalk
    BY <2>6, WalkAdvances
  <2> QED BY <2>3, <2>4, <2>5, <2>6 DEF Next
<1> QED BY <1>1, <1>2, <1>3, Invariance, ScanNext, InitIInv, NextIInv, PTL DEF Spec, EveryStepAdvances

\* Of numbers there is a least.
LEMMA LeastNumber ==
  ASSUME NEW N \in SUBSET Nat, N # {}
  PROVE  \E k \in N : \A l \in N : k <= l
<1>1. PICK k \in N : \A l \in N : <<l, k>> \notin OpToRel(<, Nat)
  BY NatLessThanWellFounded, WFMin
<1>2. \A l \in N : ~(l < k)
  BY <1>1 DEF OpToRel
<1> QED BY <1>2

\* Nothing goes down in the order of the amounts for ever: any set of them has
\* one below which the set has no other.
LEMMA NoEndlessDescent ==
  ASSUME NEW M \in SUBSET Amounts, M # {}
  PROVE  \E m \in M : \A n \in M : ~Below(n, m)
<1>0. \A m \in M : \A i \in 1..4 : m[i] \in Nat
  BY DEF Amounts
<1>1. PICK a \in M : \A n \in M : a[1] <= n[1]
  <2> DEFINE N == {n[1] : n \in M}
  <2>1. N \in SUBSET Nat /\ N # {}
    BY <1>0
  <2>2. \E k \in N : \A l \in N : k <= l
    BY <2>1, LeastNumber
  <2> QED BY <2>2
<1> DEFINE A == {n \in M : n[1] = a[1]}
<1>2. PICK b \in A : \A n \in A : b[2] <= n[2]
  <2> DEFINE N == {n[2] : n \in A}
  <2>1. N \in SUBSET Nat /\ N # {}
    BY <1>0
  <2>2. \E k \in N : \A l \in N : k <= l
    BY <2>1, LeastNumber
  <2> QED BY <2>2
<1> DEFINE B == {n \in A : n[2] = b[2]}
<1>3. PICK c \in B : \A n \in B : c[3] <= n[3]
  <2> DEFINE N == {n[3] : n \in B}
  <2>1. N \in SUBSET Nat /\ N # {}
    BY <1>0, <1>2
  <2>2. \E k \in N : \A l \in N : k <= l
    BY <2>1, LeastNumber
  <2> QED BY <2>2
<1> DEFINE C == {n \in B : n[3] = c[3]}
<1>4. PICK d \in C : \A n \in C : d[4] <= n[4]
  <2> DEFINE N == {n[4] : n \in C}
  <2>1. N \in SUBSET Nat /\ N # {}
    BY <1>0, <1>3
  <2>2. \E k \in N : \A l \in N : k <= l
    BY <2>1, LeastNumber
  <2> QED BY <2>2
<1>5. ASSUME NEW n \in M, Below(n, d) PROVE FALSE
  <2>1. PICK i \in 1..4 : n[i] < d[i] /\ \A j \in 1..(i - 1) : n[j] = d[j]
    BY <1>5 DEF Below
  <2>2. d \in M /\ d[1] = a[1] /\ d[2] = b[2] /\ d[3] = c[3]
    BY <1>2, <1>3, <1>4
  <2>3. CASE i = 1
    BY <1>0, <1>1, <1>5, <2>1, <2>2, <2>3
  <2>4. CASE i = 2
    <3>1. n[1] = d[1]
      BY <2>1, <2>4
    <3> QED BY <1>0, <1>2, <1>5, <2>1, <2>2, <2>4, <3>1
  <2>5. CASE i = 3
    <3>1. n[1] = d[1] /\ n[2] = d[2]
      BY <2>1, <2>5
    <3> QED BY <1>0, <1>3, <1>5, <2>1, <2>2, <2>5, <3>1
  <2>6. CASE i = 4
    <3>1. n[1] = d[1] /\ n[2] = d[2] /\ n[3] = d[3]
      BY <2>1, <2>6
    <3> QED BY <1>0, <1>4, <1>5, <2>1, <2>2, <2>6, <3>1
  <2> QED BY <2>3, <2>4, <2>5, <2>6
<1> QED BY <1>4, <1>5
=============================================================================
