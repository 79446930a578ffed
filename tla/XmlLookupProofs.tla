-------------------------- MODULE XmlLookupProofs ---------------------------
(***************************************************************************)
(* For any pages, columns, paths and documents, and however the saves and  *)
(* lookups of the pages interleave: a saved path is the one looked up, only *)
(* a stale copy loses paths, and every answer was true when it was asked.  *)
(***************************************************************************)
EXTENDS XmlLookup, FiniteSetTheorems, TLAPS

-----------------------------------------------------------------------------
(* Lists of paths.                                                          *)

\* A set of positions that is not empty has a first one.
LEMMA FirstExists ==
  ASSUME NEW n \in Nat, NEW I \in SUBSET (1..n), I # {}
  PROVE  Min(I) \in I /\ \A i \in I : Min(I) <= i
<1> DEFINE R == OpToRel(<, Nat)
<1>1. I \in SUBSET Nat
  OBVIOUS
<1>2. PICK x \in I : \A y \in I : ~ (<<y, x>> \in R)
  BY <1>1, NatLessThanWellFounded, WFMin
<1>3. \A y \in I : ~ (y < x)
  BY <1>1, <1>2 DEF OpToRel
<1>4. \A y \in I : x <= y
  BY <1>1, <1>3
<1> QED BY <1>4 DEF Min

\* find_field_path answers with the first entry of the column.
LEMMA FindFacts ==
  ASSUME NEW list \in Seq(Entry), NEW c
  PROVE  /\ (\A i \in DOMAIN list : list[i].column # c) => FindFieldPath(list, c) = NoValue
         /\ \A i \in DOMAIN list :
              list[i].column = c /\ (\A j \in 1..(i - 1) : list[j].column # c) =>
                 FindFieldPath(list, c) = list[i].path
<1> DEFINE I == {i \in 1..Len(list) : list[i].column = c}
           at == IF I # {} THEN Min(I) ELSE 0
<1>1. FindFieldPath(list, c) = IF at = 0 THEN NoValue ELSE list[at].path
  BY DEF FindFieldPath, SelectInSeq
<1>2. DOMAIN list = 1..Len(list) /\ Len(list) \in Nat
  OBVIOUS
<1>3. ASSUME \A i \in DOMAIN list : list[i].column # c
      PROVE  FindFieldPath(list, c) = NoValue
  BY <1>1, <1>2, <1>3
<1>4. ASSUME NEW i \in DOMAIN list, list[i].column = c, \A j \in 1..(i - 1) : list[j].column # c
      PROVE  FindFieldPath(list, c) = list[i].path
  <2>1. i \in I /\ I \subseteq 1..Len(list)
    BY <1>2, <1>4
  <2>2. Min(I) \in I /\ \A j \in I : Min(I) <= j
    BY <1>2, <2>1, FirstExists
  <2>3. Min(I) = i
    BY <1>2, <1>4, <2>1, <2>2
  <2> QED BY <1>1, <1>2, <2>1, <2>3
<1> QED BY <1>3, <1>4

\* A finite set of positions has its enumeration in ascending order.
LEMMA AscendingFacts ==
  ASSUME NEW n \in Nat, NEW S \in SUBSET (1..n)
  PROVE  /\ Cardinality(S) \in Nat /\ Ascending(S) \in [1..Cardinality(S) -> S]
         /\ \A i, j \in 1..Cardinality(S) : i < j => Ascending(S)[i] < Ascending(S)[j]
         /\ \A x \in S : \E i \in 1..Cardinality(S) : Ascending(S)[i] = x
<1> DEFINE m == Cardinality(S)
           upTo(x) == {y \in S : y <= x}
           rank == [x \in S |-> Cardinality(upTo(x))]
           Increasing(f) == \A i, j \in 1..m : i < j => f[i] < f[j]
<1>1. IsFiniteSet(S) /\ m \in Nat /\ S \subseteq Int
  <2>1. IsFiniteSet(1..n)
    BY FS_Interval
  <2>2. IsFiniteSet(S)
    BY <2>1, FS_Subset
  <2>3. m \in Nat
    BY <2>2, FS_CardinalityType
  <2> QED BY <2>2, <2>3
<1>2. \A x \in S : IsFiniteSet(upTo(x)) /\ upTo(x) \subseteq S
  BY <1>1, FS_Subset
<1>3. ASSUME NEW x \in S, NEW y \in S, x < y
      PROVE  rank[x] < rank[y]
  <2>1. x \in Int /\ y \in Int /\ \A z \in S : z \in Int
    BY <1>1
  <2>2. upTo(x) \subseteq upTo(y) /\ y \in upTo(y) /\ y \notin upTo(x)
    <3>1. \A z \in S : z <= x => z <= y
      BY <1>3, <2>1
    <3>2. y <= y /\ ~(y <= x)
      BY <1>3, <2>1
    <3> QED BY <3>1, <3>2
  <2>3. Cardinality(upTo(x)) <= Cardinality(upTo(y)) /\ Cardinality(upTo(x)) # Cardinality(upTo(y))
    BY <1>2, <2>2, FS_Subset
  <2>4. Cardinality(upTo(x)) \in Nat /\ Cardinality(upTo(y)) \in Nat
    BY <1>2, FS_CardinalityType
  <2> QED BY <2>3, <2>4
<1>4. ASSUME NEW x \in S PROVE rank[x] \in 1..m
  <2>1. x \in upTo(x)
    BY <1>1
  <2>2. Cardinality(upTo(x)) # 0
    BY <1>2, <2>1, FS_EmptySet
  <2>3. Cardinality(upTo(x)) <= m
    BY <1>1, <1>2, FS_Subset
  <2>4. Cardinality(upTo(x)) \in Nat
    BY <1>2, FS_CardinalityType
  <2> QED BY <1>1, <2>2, <2>3, <2>4
<1> HIDE DEF upTo
<1>5. rank \in Injection(S, 1..m)
  <2>1. rank \in [S -> 1..m]
    BY <1>4
  <2>2. ASSUME NEW x \in S, NEW y \in S, rank[x] = rank[y] PROVE x = y
    <3>1. x < y \/ y < x \/ x = y
      BY <1>1
    <3>2. rank[x] \in Int /\ rank[y] \in Int
      BY <1>4
    <3> QED BY <1>3, <2>2, <3>1, <3>2
  <2> QED BY <2>1, <2>2 DEF Injection, IsInjective
<1>6. \A i \in 1..m : \E x \in S : rank[x] = i
  <2>1. IsFiniteSet(1..m) /\ Cardinality(1..m) = m
    BY <1>1, FS_Interval
  <2>2. rank \in Surjection(S, 1..m)
    BY <1>5, <2>1, FS_Injection
  <2> QED BY <2>2 DEF Surjection
<1> HIDE DEF rank
<1> DEFINE g == [i \in 1..m |-> CHOOSE x \in S : rank[x] = i]
<1>7. \A i \in 1..m : g[i] \in S /\ rank[g[i]] = i
  BY <1>6
<1>8. g \in [1..m -> S] /\ Increasing(g)
  <2>1. ASSUME NEW i \in 1..m, NEW j \in 1..m, i < j PROVE g[i] < g[j]
    <3>1. g[i] \in Int /\ g[j] \in Int
      BY <1>1, <1>7
    <3>2. CASE g[j] < g[i]
      <4>1. g[j] \in S /\ g[i] \in S
        BY <1>7
      <4>2. rank[g[j]] < rank[g[i]]
        BY <1>3, <3>2, <4>1
      <4> QED BY <1>1, <1>7, <2>1, <4>2
    <3>3. CASE g[i] = g[j]
      BY <1>1, <1>7, <2>1, <3>3
    <3> QED BY <3>1, <3>2, <3>3
  <2> QED BY <1>7, <2>1
<1> HIDE DEF g
<1>9. Ascending(S) \in [1..m -> S] /\ Increasing(Ascending(S))
  BY <1>8 DEF Ascending
<1> DEFINE f == Ascending(S)
<1> HIDE DEF f
<1>10. f \in Injection(1..m, S)
  <2>1. f \in [1..m -> S] /\ Increasing(f)
    BY <1>9 DEF f
  <2>2. ASSUME NEW i \in 1..m, NEW j \in 1..m, f[i] = f[j] PROVE i = j
    <3>1. f[i] \in Int
      BY <1>1, <2>1
    <3>2. ~(i < j) /\ ~(j < i)
      BY <2>1, <2>2, <3>1
    <3> QED BY <3>2
  <2> QED BY <2>1, <2>2 DEF Injection, IsInjective
<1>11. f \in Surjection(1..m, S)
  <2>1. Cardinality(1..m) = m
    BY <1>1, FS_Interval
  <2> QED BY <1>1, <1>10, <2>1, FS_Injection
<1> QED BY <1>1, <1>9, <1>11 DEF Surjection, f

\* Merging a path sets that of its column and leaves those of the others.
LEMMA MergeFacts ==
  ASSUME NEW list \in Seq(Entry), NEW c \in Columns, NEW path \in Paths
  PROVE  /\ Merge(list, c, path) \in Seq(Entry)
         /\ FindFieldPath(Merge(list, c, path), c) = path
         /\ \A d \in Columns \ {c} : FindFieldPath(Merge(list, c, path), d) = FindFieldPath(list, d)
<1> DEFINE S == {i \in DOMAIN list : list[i].column # c}
           m == Cardinality(S)
           others == Ascending(S)
           kept == [k \in DOMAIN others |-> list[others[k]]]
           new == [column |-> c, path |-> path]
           merged == Append(kept, new)
<1>1. Len(list) \in Nat /\ DOMAIN list = 1..Len(list) /\ S \in SUBSET (1..Len(list))
  OBVIOUS
<1>2. /\ m \in Nat /\ others \in [1..m -> S]
      /\ \A i, j \in 1..m : i < j => others[i] < others[j]
      /\ \A x \in S : \E i \in 1..m : others[i] = x
  BY <1>1, AscendingFacts
<1>3. Merge(list, c, path) = merged
  BY DEF Merge
<1>4. \A i \in S : i \in 1..Len(list) /\ list[i] \in Entry /\ list[i].column # c
  BY <1>1
<1>5. new \in Entry /\ new.column = c /\ new.path = path
  BY DEF Entry
<1> HIDE DEF S, m, others, new
<1>6. kept \in Seq(Entry) /\ Len(kept) = m /\ \A k \in 1..m : kept[k] = list[others[k]]
  BY <1>2, <1>4
<1> HIDE DEF kept
<1>7. /\ merged \in Seq(Entry) /\ DOMAIN merged = 1..(m + 1) /\ merged[m + 1] = new
      /\ \A k \in 1..m : merged[k] = list[others[k]] /\ others[k] \in S
  BY <1>2, <1>5, <1>6
<1> HIDE DEF merged
<1>8. FindFieldPath(merged, c) = path
  <2>1. m + 1 \in DOMAIN merged /\ (m + 1) - 1 = m
    BY <1>2, <1>7
  <2>2. \A k \in 1..m : merged[k].column # c
    BY <1>4, <1>7
  <2> QED BY <1>5, <1>7, <2>1, <2>2, FindFacts
<1>9. ASSUME NEW d \in Columns \ {c}
      PROVE  FindFieldPath(merged, d) = FindFieldPath(list, d)
  <2> DEFINE I == {i \in 1..Len(list) : list[i].column = d}
  <2>1. CASE I = {}
    <3>1. \A i \in DOMAIN list : list[i].column # d
      BY <1>1, <2>1
    <3>2. \A k \in DOMAIN merged : merged[k].column # d
      <4> SUFFICES ASSUME NEW k \in 1..(m + 1) PROVE merged[k].column # d
        BY <1>7
      <4>1. CASE k = m + 1
        BY <1>5, <1>7, <1>9, <4>1
      <4>2. CASE k \in 1..m
        BY <1>1, <1>4, <1>7, <3>1, <4>2
      <4> QED BY <1>2, <4>1, <4>2
    <3>3. FindFieldPath(merged, d) = NoValue
      BY <1>7, <3>2, FindFacts
    <3>4. FindFieldPath(list, d) = NoValue
      BY <3>1, FindFacts
    <3> QED BY <3>3, <3>4
  <2>2. CASE I # {}
    <3>1. PICK i \in I : \A j \in I : i <= j
      BY <1>1, <2>2, FirstExists
    <3>2. i \in DOMAIN list /\ list[i].column = d /\ \A j \in 1..(i - 1) : list[j].column # d
      BY <1>1, <3>1
    <3>3. FindFieldPath(list, d) = list[i].path
      BY <3>2, FindFacts
    <3>4. i \in S
      BY <1>9, <3>2 DEF S
    <3>5. PICK k \in 1..m : others[k] = i
      BY <1>2, <3>4
    <3>6. k \in DOMAIN merged /\ merged[k] = list[i]
      BY <1>2, <1>7, <3>5
    <3>7. ASSUME NEW j \in 1..(k - 1) PROVE merged[j].column # d
      <4>1. j \in 1..m /\ others[j] < i
        BY <1>2, <3>5
      <4>2. others[j] \in 1..(i - 1)
        <5>1. others[j] \in 1..Len(list) /\ i \in 1..Len(list)
          BY <1>1, <1>4, <1>7, <4>1
        <5> QED BY <1>1, <4>1, <5>1
      <4> QED BY <1>7, <3>2, <4>1, <4>2
    <3>8. FindFieldPath(merged, d) = merged[k].path
      <4>1. merged[k].column = d
        BY <3>2, <3>6
      <4>2. \A j \in 1..(k - 1) : merged[j].column # d
        BY <3>7
      <4>3. \A j \in DOMAIN merged :
              merged[j].column = d /\ (\A l \in 1..(j - 1) : merged[l].column # d) =>
                 FindFieldPath(merged, d) = merged[j].path
        BY <1>7, FindFacts
      <4> QED BY <3>6, <4>1, <4>2, <4>3
    <3> QED BY <3>3, <3>6, <3>8
  <2> QED BY <2>1, <2>2
<1> QED BY <1>3, <1>7, <1>8, <1>9

\* Its answer is a path or NoValue.
LEMMA FindTyped ==
  ASSUME NEW list \in Seq(Entry), NEW c
  PROVE  FindFieldPath(list, c) \in Paths \cup {NoValue}
<1> DEFINE I == {i \in 1..Len(list) : list[i].column = c}
<1>1. Len(list) \in Nat /\ DOMAIN list = 1..Len(list)
  OBVIOUS
<1>2. CASE I = {}
  <2>1. \A i \in DOMAIN list : list[i].column # c
    BY <1>1, <1>2
  <2> QED BY <2>1, FindFacts
<1>3. CASE I # {}
  <2>1. PICK i \in I : \A j \in I : i <= j
    BY <1>1, <1>3, FirstExists
  <2>2. i \in DOMAIN list /\ list[i].column = c /\ \A j \in 1..(i - 1) : list[j].column # c
    BY <1>1, <2>1
  <2>3. FindFieldPath(list, c) = list[i].path
    BY <2>2, FindFacts
  <2>4. list[i] \in Entry
    BY <2>2
  <2> QED BY <2>3, <2>4 DEF Entry
<1> QED BY <1>2, <1>3

-----------------------------------------------------------------------------
Phases == {"idle", "loading", "checking", "extracting", "posting", "numbered"}
Request == [phase : Phases, column : Columns \cup {NoValue}, path : Paths \cup {NoValue},
            copy : Nat, list : Seq(Entry), base : Nat, number : Nat, read : Nat,
            answer : {"none", "not_configured", "document_not_found", "field_missing", "found", "error"},
            value : Values \cup {NoValue}]

Typed ==
    /\ versions \in Seq(Seq(Entry)) /\ versions # <<>>
    /\ page \in [Pages -> Request] /\ witness \in [Pages -> SUBSET (Documents \cup {NoDocument})]
    /\ document \in Documents \cup {NoDocument}

\* Every version but the first is a merge into an earlier one.
Merged ==
    /\ saved \in Seq([column : Columns \cup {NoValue}, path : Paths \cup {NoValue}, copy : Nat])
    /\ Len(saved) = Current
    /\ \A v \in 2..Current :
          /\ saved[v].copy \in 1..(v - 1) /\ saved[v].column \in Columns /\ saved[v].path \in Paths
          /\ versions[v] = Merge(versions[saved[v].copy], saved[v].column, saved[v].path)

\* The list a page saves is a merge into the version its copy was of.
Posting(p) ==
    page[p].phase \in {"posting", "numbered"} =>
        /\ page[p].base \in 1..Current /\ page[p].column \in Columns /\ page[p].path \in Paths
        /\ page[p].list = Merge(versions[page[p].base], page[p].column, page[p].path)

\* A lookup has the document among its witnesses, and one that follows a save
\* looks a column up that the saved version has the path of.
Looking(p) ==
    page[p].phase \in {"loading", "checking", "extracting"} =>
        /\ document \in witness[p]
        /\ page[p].path # NoValue =>
              /\ page[p].number \in 1..Current
              /\ FindFieldPath(versions[page[p].number], page[p].column) = page[p].path

\* The version a lookup reads has a path of the column, and is no older than the
\* one saved before.
Reading(p) ==
    /\ page[p].phase \in {"checking", "extracting"} =>
          /\ page[p].read \in 1..Current /\ PathInUse(p) \in Paths
          /\ page[p].path # NoValue => page[p].number <= page[p].read
    /\ page[p].phase = "extracting" => \E d \in witness[p] : d # NoDocument

PageOK(p) == page[p].copy \in 1..Current /\ Posting(p) /\ Looking(p) /\ Reading(p)

IInv == Typed /\ Merged /\ \A p \in Pages : PageOK(p)

\* Versions are only ever added.
Grows == /\ versions' \in Seq(Seq(Entry)) /\ Current <= Current'
         /\ \A v \in 1..Current : versions'[v] = versions[v]

\* A page that does not move stays right while versions and witnesses are added.
LEMMA PageStays ==
  ASSUME Typed, Grows, NEW p \in Pages, PageOK(p), page'[p] = page[p],
         witness[p] \subseteq witness'[p],
         document' = document \/ page[p].phase \notin {"loading", "checking", "extracting"}
            \/ document' \in witness'[p]
  PROVE  PageOK(p)'
<1>1. /\ Current \in Nat /\ Current' \in Nat
      /\ \A v : v \in 1..Current => v \in 1..Current' /\ versions'[v] = versions[v]
  BY DEF Typed, Grows, Current
<1>2. Posting(p)'
  BY <1>1 DEF PageOK, Posting
<1>3. Looking(p)'
  BY <1>1 DEF PageOK, Looking
<1>4. Reading(p)'
  BY <1>1 DEF PageOK, Reading, PathInUse
<1> QED BY <1>1, <1>2, <1>3, <1>4 DEF PageOK

\* A step of one page that saves nothing: only that page is to be looked at.
LEMMA PageMoves ==
  ASSUME IInv, NEW p \in Pages, UNCHANGED <<versions, saved, document>>,
         page' \in [Pages -> Request], witness' \in [Pages -> SUBSET (Documents \cup {NoDocument})],
         \A q \in Pages \ {p} : page'[q] = page[q] /\ witness'[q] = witness[q],
         PageOK(p)'
  PROVE  IInv'
<1>1. Typed /\ Merged /\ \A q \in Pages : PageOK(q)
  BY DEF IInv
<1>2. Typed' /\ Merged'
  BY <1>1 DEF Typed, Merged, Current
<1>3. Grows
  BY <1>1 DEF Typed, Grows, Current
<1>4. ASSUME NEW q \in Pages PROVE PageOK(q)'
  <2>1. CASE q = p
    BY <2>1
  <2>2. CASE q # p
    BY <1>1, <1>3, <2>2, PageStays
  <2> QED BY <2>1, <2>2
<1> QED BY <1>2, <1>4 DEF IInv

\* A page that gets its answer is idle again.
LEMMA RespondStep ==
  ASSUME IInv, NEW p \in Pages, NEW a \in {"not_configured", "document_not_found", "field_missing", "found", "error"},
         NEW v \in Values \cup {NoValue}, Respond(p, a, v), UNCHANGED <<versions, saved, document>>
  PROVE  IInv' /\ page'[p].phase = "idle" /\ page'[p].answer = a /\ page'[p].value = v
<1> DEFINE form == [Form("idle", NoValue, NoValue, page[p].copy) EXCEPT !.answer = a, !.value = v]
<1>1. Typed /\ PageOK(p)
  BY DEF IInv
<1>2. /\ form \in Request /\ form.phase = "idle" /\ form.copy = page[p].copy
      /\ form.answer = a /\ form.value = v
  <2>1. page[p].copy \in Nat /\ <<>> \in Seq(Entry)
    BY <1>1 DEF Typed, Request
  <2> QED BY <2>1 DEF Form, Request, Phases
<1> HIDE DEF form
<1>3. page' = [page EXCEPT ![p] = form] /\ witness' = [witness EXCEPT ![p] = {}]
  BY DEF Respond, form
<1>4. /\ page' \in [Pages -> Request] /\ page'[p] = form
      /\ witness' \in [Pages -> SUBSET (Documents \cup {NoDocument})]
      /\ \A q \in Pages \ {p} : page'[q] = page[q] /\ witness'[q] = witness[q]
  BY <1>1, <1>2, <1>3 DEF Typed
<1>5. PageOK(p)'
  BY <1>1, <1>2, <1>4 DEF PageOK, Posting, Looking, Reading, Current
<1> QED BY <1>2, <1>4, <1>5, PageMoves

LEMMA RefetchStep ==
  ASSUME IInv, NEW p \in Pages, Refetch(p)
  PROVE  IInv'
<1>1. Typed /\ PageOK(p) /\ Current \in Nat /\ Current # 0
  BY DEF IInv, Typed, Current
<1>2. /\ UNCHANGED <<versions, saved, document, witness>>
      /\ page' = [page EXCEPT ![p].copy = Current]
  BY DEF Refetch
<1>3. /\ page' \in [Pages -> Request]
      /\ witness' \in [Pages -> SUBSET (Documents \cup {NoDocument})]
      /\ \A q \in Pages \ {p} : page'[q] = page[q] /\ witness'[q] = witness[q]
  <2>1. page' \in [Pages -> Request]
    <3> DEFINE r == [page[p] EXCEPT !.copy = Current]
    <3>1. page[p] \in Request /\ page \in [Pages -> Request]
      BY <1>1 DEF Typed
    <3>2. r \in Request
      BY <1>1, <3>1 DEF Request
    <3>3. page' = [page EXCEPT ![p] = r]
      BY <1>2
    <3> HIDE DEF r
    <3> QED BY <3>1, <3>2, <3>3
  <2> QED BY <1>1, <1>2, <2>1 DEF Typed
<1>4. /\ page'[p].copy = Current /\ page'[p].phase = page[p].phase /\ page'[p].column = page[p].column
      /\ page'[p].path = page[p].path /\ page'[p].list = page[p].list /\ page'[p].base = page[p].base
      /\ page'[p].number = page[p].number /\ page'[p].read = page[p].read
  BY <1>1, <1>2 DEF Typed, Request
<1>5. PageOK(p)'
  BY <1>1, <1>2, <1>4 DEF PageOK, Posting, Looking, Reading, PathInUse, Current
<1> QED BY <1>2, <1>3, <1>5, PageMoves

LEMMA LookupStep ==
  ASSUME IInv, NEW p \in Pages, NEW c \in Columns, Lookup(p, c)
  PROVE  IInv'
<1> DEFINE form == Form("loading", c, NoValue, page[p].copy)
<1>1. Typed /\ PageOK(p)
  BY DEF IInv
<1>2. /\ form \in Request /\ form.phase = "loading" /\ form.copy = page[p].copy
      /\ form.path = NoValue
  BY <1>1 DEF Form, Request, Phases, Typed
<1>3. /\ UNCHANGED <<versions, saved, document>>
      /\ page' = [page EXCEPT ![p] = form] /\ witness' = [witness EXCEPT ![p] = {document}]
  BY DEF Lookup, BeginLookup
<1> HIDE DEF form
<1>4. /\ page' \in [Pages -> Request] /\ page'[p] = form /\ witness'[p] = {document}
      /\ witness' \in [Pages -> SUBSET (Documents \cup {NoDocument})]
      /\ \A q \in Pages \ {p} : page'[q] = page[q] /\ witness'[q] = witness[q]
  BY <1>1, <1>2, <1>3 DEF Typed
<1>5. PageOK(p)'
  BY <1>1, <1>2, <1>3, <1>4 DEF PageOK, Posting, Looking, Reading, Current
<1> QED BY <1>3, <1>4, <1>5, PageMoves

\* The path is found in the current version, which none is newer than.
LEMMA LoadPathsStep ==
  ASSUME IInv, NEW p \in Pages, LoadPaths(p)
  PROVE  IInv'
<1>1. /\ Typed /\ PageOK(p) /\ page[p].phase = "loading" /\ UNCHANGED <<versions, saved, document>>
      /\ Current \in Nat /\ Current # 0 /\ versions[Current] \in Seq(Entry)
  BY DEF IInv, LoadPaths, In, Typed, Current
<1>2. CASE FindFieldPath(versions[Current], page[p].column) = NoValue
  <2>1. Respond(p, "not_configured", NoValue)
    BY <1>2 DEF LoadPaths
  <2> QED BY <1>1, <2>1, RespondStep
<1>3. CASE FindFieldPath(versions[Current], page[p].column) # NoValue
  <2>1. witness' = witness /\ page' = [page EXCEPT ![p].phase = "checking", ![p].read = Current]
    BY <1>3 DEF LoadPaths
  <2>2. /\ page' \in [Pages -> Request]
        /\ witness' \in [Pages -> SUBSET (Documents \cup {NoDocument})]
        /\ \A q \in Pages \ {p} : page'[q] = page[q] /\ witness'[q] = witness[q]
    <3>1. page' \in [Pages -> Request]
      <4> DEFINE r == [page[p] EXCEPT !.phase = "checking", !.read = Current]
      <4>1. page[p] \in Request /\ page \in [Pages -> Request]
        BY <1>1 DEF Typed
      <4>2. r \in Request
        BY <1>1, <4>1 DEF Request, Phases
      <4>3. page' = [page EXCEPT ![p] = r]
        BY <2>1
      <4> HIDE DEF r
      <4> QED BY <4>1, <4>2, <4>3
    <3> QED BY <1>1, <2>1, <3>1 DEF Typed
  <2>3. /\ page'[p].copy = page[p].copy /\ page'[p].phase = "checking" /\ page'[p].column = page[p].column
        /\ page'[p].path = page[p].path /\ page'[p].number = page[p].number /\ page'[p].read = Current
    BY <1>1, <2>1 DEF Typed, Request
  <2>4. FindFieldPath(versions[Current], page[p].column) \in Paths
    BY <1>1, <1>3, FindTyped
  <2>5. Current' = Current /\ PathInUse(p)' = FindFieldPath(versions[Current], page[p].column)
    BY <1>1, <2>3 DEF PathInUse, Current
  <2>6. Looking(p)'
    BY <1>1, <2>1, <2>3, <2>5 DEF PageOK, Looking
  <2>7. Reading(p)'
    BY <1>1, <2>3, <2>4, <2>5 DEF PageOK, Looking, Reading
  <2>8. PageOK(p)'
    BY <1>1, <2>3, <2>5, <2>6, <2>7 DEF PageOK, Posting
  <2> QED BY <1>1, <2>2, <2>8, PageMoves
<1> QED BY <1>2, <1>3

LEMMA CheckExistsStep ==
  ASSUME IInv, NEW p \in Pages, CheckExists(p)
  PROVE  IInv'
<1>1. /\ Typed /\ PageOK(p) /\ page[p].phase = "checking" /\ UNCHANGED <<versions, saved, document>>
  BY DEF IInv, CheckExists, In
<1>2. CASE document = NoDocument
  <2>1. Respond(p, "document_not_found", NoValue)
    BY <1>2 DEF CheckExists
  <2> QED BY <1>1, <2>1, RespondStep
<1>3. CASE document # NoDocument
  <2>1. witness' = witness /\ page' = [page EXCEPT ![p].phase = "extracting"]
    BY <1>3 DEF CheckExists
  <2>2. /\ page' \in [Pages -> Request]
        /\ witness' \in [Pages -> SUBSET (Documents \cup {NoDocument})]
        /\ \A q \in Pages \ {p} : page'[q] = page[q] /\ witness'[q] = witness[q]
    <3>1. page' \in [Pages -> Request]
      <4> DEFINE r == [page[p] EXCEPT !.phase = "extracting"]
      <4>1. page[p] \in Request /\ page \in [Pages -> Request]
        BY <1>1 DEF Typed
      <4>2. r \in Request
        BY <1>1, <4>1 DEF Request, Phases
      <4>3. page' = [page EXCEPT ![p] = r]
        BY <2>1
      <4> HIDE DEF r
      <4> QED BY <4>1, <4>2, <4>3
    <3> QED BY <1>1, <2>1, <3>1 DEF Typed
  <2>3. /\ page'[p].copy = page[p].copy /\ page'[p].phase = "extracting" /\ page'[p].column = page[p].column
        /\ page'[p].path = page[p].path /\ page'[p].number = page[p].number /\ page'[p].read = page[p].read
    BY <1>1, <2>1 DEF Typed, Request
  <2>4. PageOK(p)'
    BY <1>1, <1>3, <2>1, <2>3 DEF PageOK, Posting, Looking, Reading, PathInUse, Current
  <2> QED BY <1>1, <2>2, <2>4, PageMoves
<1> QED BY <1>2, <1>3

\* The value is one of the document, by a path that there is.
LEMMA ExtractStep ==
  ASSUME IInv, NEW p \in Pages, Extract(p)
  PROVE  IInv'
<1> DEFINE value == IF document = NoDocument THEN NoValue ELSE document[PathInUse(p)]
           answer == IF value = NoValue THEN "field_missing" ELSE "found"
<1>1. /\ Typed /\ PageOK(p) /\ page[p].phase = "extracting" /\ UNCHANGED <<versions, saved, document>>
      /\ Respond(p, answer, value)
  BY DEF IInv, Extract, In
<1>2. PathInUse(p) \in Paths
  BY <1>1 DEF PageOK, Reading
<1>3. value \in Values \cup {NoValue}
  BY <1>1, <1>2 DEF Typed, Documents
<1>4. answer \in {"field_missing", "found"}
  OBVIOUS
<1> HIDE DEF value, answer
<1> QED BY <1>1, <1>3, <1>4, RespondStep

\* The list that is posted is the merge into the page's copy.
LEMMA AddPathStep ==
  ASSUME IInv, NEW p \in Pages, NEW c \in Columns, NEW path \in Paths, AddPath(p, c, path)
  PROVE  IInv'
<1> DEFINE list == Merge(versions[page[p].copy], c, path)
           form == [Form("posting", c, path, page[p].copy) EXCEPT !.list = list, !.base = page[p].copy]
<1>1. /\ Typed /\ PageOK(p) /\ UNCHANGED <<versions, saved, document, witness>>
      /\ page' = [page EXCEPT ![p] = form]
  BY DEF IInv, AddPath
<1>2. list \in Seq(Entry)
  <2>1. versions[page[p].copy] \in Seq(Entry)
    BY <1>1 DEF Typed, PageOK, Current
  <2> QED BY <2>1, MergeFacts
<1> HIDE DEF list
<1>3. /\ form \in Request /\ form.phase = "posting" /\ form.copy = page[p].copy /\ form.base = page[p].copy
      /\ form.path = path /\ form.column = c /\ form.list = list
  BY <1>1, <1>2 DEF Form, Request, Phases, Typed
<1> HIDE DEF form
<1>4. /\ page' \in [Pages -> Request] /\ page'[p] = form
      /\ witness' \in [Pages -> SUBSET (Documents \cup {NoDocument})]
      /\ \A q \in Pages \ {p} : page'[q] = page[q] /\ witness'[q] = witness[q]
  BY <1>1, <1>3 DEF Typed
<1>5. PageOK(p)'
  BY <1>1, <1>3, <1>4 DEF PageOK, Posting, Looking, Reading, Current, list
<1> QED BY <1>1, <1>4, <1>5, PageMoves

LEMMA ReadMaxNumberStep ==
  ASSUME IInv, NEW p \in Pages, ReadMaxNumber(p)
  PROVE  IInv'
<1>1. /\ Typed /\ PageOK(p) /\ page[p].phase = "posting" /\ Current \in Nat
      /\ UNCHANGED <<versions, saved, document, witness>>
      /\ page' = [page EXCEPT ![p].phase = "numbered", ![p].number = Current + 1]
  BY DEF IInv, ReadMaxNumber, In, Typed, Current
<1>2. /\ page' \in [Pages -> Request]
      /\ witness' \in [Pages -> SUBSET (Documents \cup {NoDocument})]
      /\ \A q \in Pages \ {p} : page'[q] = page[q] /\ witness'[q] = witness[q]
  <2>1. page' \in [Pages -> Request]
    <3> DEFINE r == [page[p] EXCEPT !.phase = "numbered", !.number = Current + 1]
    <3>1. page[p] \in Request /\ page \in [Pages -> Request]
      BY <1>1 DEF Typed
    <3>2. r \in Request
      <4>1. Current + 1 \in Nat
        BY <1>1
      <4> QED BY <3>1, <4>1 DEF Request, Phases
    <3>3. page' = [page EXCEPT ![p] = r]
      BY <1>1
    <3> HIDE DEF r
    <3> QED BY <3>1, <3>2, <3>3
  <2> QED BY <1>1, <2>1 DEF Typed
<1>3. /\ page'[p].copy = page[p].copy /\ page'[p].phase = "numbered" /\ page'[p].column = page[p].column
      /\ page'[p].path = page[p].path /\ page'[p].list = page[p].list /\ page'[p].base = page[p].base
  BY <1>1 DEF Typed, Request
<1>4. PageOK(p)'
  BY <1>1, <1>3 DEF PageOK, Posting, Looking, Reading, Current
<1> QED BY <1>1, <1>2, <1>4, PageMoves

LEMMA NumberTakenStep ==
  ASSUME IInv, NEW p \in Pages, NumberTaken(p)
  PROVE  IInv'
BY RespondStep DEF NumberTaken

\* The posted list becomes the current version, and the page looks it up.
LEMMA StoreVersionStep ==
  ASSUME IInv, NEW p \in Pages, StoreVersion(p)
  PROVE  IInv'
<1> DEFINE n == Current + 1
           entry == [column |-> page[p].column, path |-> page[p].path, copy |-> page[p].base]
           r == [page[p] EXCEPT !.phase = "loading", !.list = <<>>, !.base = 0]
<1>1. /\ Typed /\ Merged /\ \A q \in Pages : PageOK(q)
      /\ page[p].phase = "numbered" /\ page[p].number = n /\ document' = document
      /\ versions' = Append(versions, page[p].list) /\ saved' = Append(saved, entry)
      /\ witness' = [witness EXCEPT ![p] = {document}]
  BY DEF IInv, StoreVersion, In, BeginLookup
<1>2. page' = [page EXCEPT ![p] = r]
  BY DEF StoreVersion
<1>3. /\ page[p] \in Request /\ page \in [Pages -> Request]
      /\ versions \in Seq(Seq(Entry)) /\ Current \in Nat /\ Current # 0 /\ Current = Len(versions)
  BY <1>1 DEF Typed, Current
<1>4. /\ page[p].base \in 1..Current /\ page[p].column \in Columns /\ page[p].path \in Paths
      /\ page[p].list = Merge(versions[page[p].base], page[p].column, page[p].path)
  BY <1>1 DEF PageOK, Posting
<1>5. /\ r \in Request /\ r.phase = "loading" /\ r.path = page[p].path /\ r.column = page[p].column
      /\ r.number = page[p].number /\ r.copy = page[p].copy
  <2>1. page[p] \in Request /\ <<>> \in Seq(Entry)
    BY <1>3
  <2>2. /\ r.phase = "loading" /\ r.path = page[p].path /\ r.column = page[p].column
        /\ r.number = page[p].number /\ r.copy = page[p].copy
    BY <2>1 DEF Request
  <2>3. r \in Request
    <3> DEFINE r1 == [page[p] EXCEPT !.phase = "loading"]
               r2 == [r1 EXCEPT !.list = <<>>]
    <3>1. r1 \in Request
      BY <2>1 DEF Request, Phases
    <3>2. r = [r2 EXCEPT !.base = 0]
      OBVIOUS
    <3> HIDE DEF r1
    <3>3. r2 \in Request
      BY <2>1, <3>1 DEF Request
    <3> HIDE DEF r2
    <3> QED BY <3>2, <3>3 DEF Request
  <2> QED BY <2>2, <2>3
<1> HIDE DEF r
<1>6. /\ page' \in [Pages -> Request] /\ page'[p] = r /\ witness'[p] = {document}
      /\ witness' \in [Pages -> SUBSET (Documents \cup {NoDocument})]
      /\ \A q \in Pages \ {p} : page'[q] = page[q] /\ witness'[q] = witness[q]
  BY <1>1, <1>2, <1>3, <1>5 DEF Typed
<1>7. /\ versions' \in Seq(Seq(Entry)) /\ Len(versions') = n /\ versions'[n] = page[p].list
      /\ \A v \in 1..Current : versions'[v] = versions[v]
  BY <1>1, <1>3 DEF Request
<1>8. Grows /\ Current' = n
  BY <1>3, <1>7 DEF Grows, Current
<1>9. Typed'
  <2>1. versions' # <<>>
    BY <1>3, <1>7
  <2>2. document' \in Documents \cup {NoDocument}
    BY <1>1 DEF Typed
  <2> QED BY <1>6, <1>7, <2>1, <2>2 DEF Typed
<1>10. Merged'
  <2>1. /\ saved \in Seq([column : Columns \cup {NoValue}, path : Paths \cup {NoValue}, copy : Nat])
        /\ Len(saved) = Current
    BY <1>1 DEF Merged
  <2>2. entry \in [column : Columns \cup {NoValue}, path : Paths \cup {NoValue}, copy : Nat]
    BY <1>4
  <2>3. entry.column = page[p].column /\ entry.path = page[p].path /\ entry.copy = page[p].base
    OBVIOUS
  <2> HIDE DEF entry
  <2>4. /\ saved' \in Seq([column : Columns \cup {NoValue}, path : Paths \cup {NoValue}, copy : Nat])
        /\ Len(saved') = n /\ saved'[n] = entry /\ \A v \in 1..Current : saved'[v] = saved[v]
    BY <1>1, <1>3, <2>1, <2>2
  <2>5. ASSUME NEW v \in 2..n
        PROVE  /\ saved'[v].copy \in 1..(v - 1) /\ saved'[v].column \in Columns /\ saved'[v].path \in Paths
               /\ versions'[v] = Merge(versions'[saved'[v].copy], saved'[v].column, saved'[v].path)
    <3>1. CASE v = n
      BY <1>3, <1>4, <1>7, <2>3, <2>4, <3>1
    <3>2. CASE v # n
      <4>1. v \in 2..Current /\ v \in 1..Current
        BY <1>3, <3>2
      <4>2. /\ saved[v].copy \in 1..(v - 1) /\ saved[v].column \in Columns /\ saved[v].path \in Paths
            /\ versions[v] = Merge(versions[saved[v].copy], saved[v].column, saved[v].path)
        BY <1>1, <4>1 DEF Merged
      <4>3. saved[v].copy \in 1..Current
        BY <1>3, <4>1, <4>2
      <4> QED BY <1>7, <2>4, <4>1, <4>2, <4>3
    <3> QED BY <3>1, <3>2
  <2> QED BY <1>8, <2>4, <2>5 DEF Merged, Merge
<1>11. PageOK(p)'
  <2>1. versions[page[p].base] \in Seq(Entry)
    BY <1>3, <1>4
  <2>2. FindFieldPath(versions'[n], page[p].column) = page[p].path
    BY <1>4, <1>7, <2>1, MergeFacts
  <2>3. page[p].copy \in 1..Current /\ n \in 1..n /\ Current \in 1..n
    BY <1>1, <1>3 DEF PageOK
  <2>4. Looking(p)'
    BY <1>1, <1>5, <1>6, <1>8, <2>2, <2>3 DEF Looking
  <2>5. page'[p].copy \in 1..Current'
    BY <1>3, <1>5, <1>6, <1>8, <2>3
  <2> QED BY <1>5, <1>6, <2>4, <2>5 DEF PageOK, Posting, Reading
<1>12. ASSUME NEW q \in Pages PROVE PageOK(q)'
  <2>1. CASE q = p
    BY <1>11, <2>1
  <2>2. CASE q # p
    BY <1>1, <1>6, <1>8, <2>2, PageStays
  <2> QED BY <2>1, <2>2
<1> QED BY <1>9, <1>10, <1>12 DEF IInv

\* The document a lookup may still read is one of its witnesses.
LEMMA ChangeStep ==
  ASSUME IInv, NEW d \in Documents \cup {NoDocument}, Change(d)
  PROVE  IInv'
<1>1. /\ Typed /\ Merged /\ \A q \in Pages : PageOK(q)
      /\ document' = d /\ UNCHANGED <<versions, saved, page>>
      /\ witness' = [p \in Pages |-> IF page[p].phase \in {"loading", "checking", "extracting"}
                                     THEN witness[p] \cup {d} ELSE witness[p]]
  BY DEF IInv, Change
<1>2. Typed' /\ Merged' /\ Grows
  BY <1>1 DEF Typed, Merged, Grows, Current
<1>3. ASSUME NEW q \in Pages PROVE PageOK(q)'
  BY <1>1, <1>2, PageStays
<1> QED BY <1>2, <1>3 DEF IInv

\* A mapping starts with one version, and the pages have it.
LEMMA InitIInv == Init => IInv
<1> SUFFICES ASSUME Init PROVE IInv
  OBVIOUS
<1>0. PICK n \in 0..MaxInitial : \E list \in [1..n -> Entry] : versions = <<list>>
  BY DEF Init
<1>1. PICK list \in [1..n -> Entry] : versions = <<list>>
  BY <1>0
<1>2. list \in Seq(Entry)
  BY <1>1, XmlAssumption
<1>3. versions \in Seq(Seq(Entry)) /\ Current = 1 /\ versions # <<>>
  BY <1>1, <1>2 DEF Current
<1> DEFINE form == Form("idle", NoValue, NoValue, 1)
<1>4. form \in Request /\ form.phase = "idle" /\ form.copy = 1
  <2>1. <<>> \in Seq(Entry)
    OBVIOUS
  <2> QED BY <2>1 DEF Form, Request, Phases
<1>5. page = [p \in Pages |-> form]
  BY DEF Init
<1> HIDE DEF form
<1>6. Typed
  BY <1>3, <1>4, <1>5 DEF Init, Typed
<1>7. Merged
  BY <1>3 DEF Init, Merged
<1>8. \A p \in Pages : PageOK(p)
  BY <1>3, <1>4, <1>5 DEF PageOK, Posting, Looking, Reading
<1> QED BY <1>6, <1>7, <1>8 DEF IInv

\* IInv is inductive: one case per action.
LEMMA NextIInv == IInv /\ [Next]_vars => IInv'
<1> SUFFICES ASSUME IInv, [Next]_vars PROVE IInv'
  OBVIOUS
<1>1. CASE UNCHANGED vars
  BY <1>1 DEF vars, IInv, Typed, Merged, PageOK, Posting, Looking, Reading, PathInUse, Current
<1>2. ASSUME NEW p \in Pages, Refetch(p) \/ LoadPaths(p) \/ CheckExists(p) \/ Extract(p)
      PROVE  IInv'
  BY <1>2, RefetchStep, LoadPathsStep, CheckExistsStep, ExtractStep
<1>3. ASSUME NEW p \in Pages, ReadMaxNumber(p) \/ StoreVersion(p) \/ NumberTaken(p)
      PROVE  IInv'
  BY <1>3, ReadMaxNumberStep, StoreVersionStep, NumberTakenStep
<1>4. ASSUME NEW p \in Pages, NEW c \in Columns, Lookup(p, c) \/ \E path \in Paths : AddPath(p, c, path)
      PROVE  IInv'
  BY <1>4, LookupStep, AddPathStep
<1>5. ASSUME NEW d \in Documents \cup {NoDocument}, Change(d)
      PROVE  IInv'
  BY <1>5, ChangeStep
<1> QED BY <1>1, <1>2, <1>3, <1>4, <1>5 DEF Next

\* The inductive invariant holds of every reachable state.
LEMMA Invariance == Spec => []IInv
BY InitIInv, NextIInv, PTL DEF Spec

-----------------------------------------------------------------------------
\* The lookup that XmlLookupPanel makes after a save uses the path just saved,
\* and no version older than it.
THEOREM SavedPathUsed == Spec => []SavedPathIsUsed
<1>1. IInv => SavedPathIsUsed
  <2> SUFFICES ASSUME IInv, NEW p \in Pages,
                      page[p].phase \in {"checking", "extracting"}, page[p].path # NoValue
               PROVE  /\ page[p].read >= page[p].number
                      /\ page[p].read = page[p].number => PathInUse(p) = page[p].path
    BY DEF SavedPathIsUsed
  <2>1. PageOK(p) /\ Current \in Nat
    BY DEF IInv, Typed, Current
  <2>2. /\ page[p].number \in 1..Current /\ page[p].read \in 1..Current
        /\ page[p].number <= page[p].read
        /\ FindFieldPath(versions[page[p].number], page[p].column) = page[p].path
    BY <2>1 DEF PageOK, Looking, Reading
  <2> QED BY <2>1, <2>2 DEF PathInUse
<1> QED BY <1>1, Invariance, PTL

\* A save from an up-to-date copy leaves the other columns' paths as they were.
THEOREM OnlyStaleCopies == Spec => []OnlyStaleCopiesLosePaths
<1>1. IInv => OnlyStaleCopiesLosePaths
  <2> SUFFICES ASSUME IInv, NEW v \in 2..Current, saved[v].copy = v - 1,
                      NEW c \in Columns \ {saved[v].column}
               PROVE  FindFieldPath(versions[v], c) = FindFieldPath(versions[v - 1], c)
    BY DEF OnlyStaleCopiesLosePaths
  <2>1. /\ saved[v].column \in Columns /\ saved[v].path \in Paths
        /\ versions[v] = Merge(versions[v - 1], saved[v].column, saved[v].path)
    BY DEF IInv, Merged
  <2>2. versions[v - 1] \in Seq(Entry)
    <3>1. v - 1 \in 1..Len(versions) /\ versions \in Seq(Seq(Entry))
      BY DEF IInv, Typed, Current
    <3> QED BY <3>1
  <2> QED BY <2>1, <2>2, MergeFacts
<1> QED BY <1>1, Invariance, PTL

\* What run_xml_lookup answers was so at some moment since the lookup began, but for
\* a document deleted between its two statements, which is a missing field to it.
THEOREM AnswersTrue == Spec => AnswersAreTrue
<1> DEFINE Told(p) ==
        LET path == FindFieldPath(versions[page[p].read], page[p].column)
            seen == {d \in witness[p] : d # NoDocument}
            gone == NoDocument \in witness[p]
            absent == \E d \in seen : d[path] = NoValue
        IN  page[p].phase \in {"checking", "extracting"} /\ page'[p].phase = "idle" =>
            CASE page'[p].answer = "found" -> \E d \in seen : d[path] = page'[p].value
              [] page'[p].answer = "document_not_found" -> gone
              [] page'[p].answer = "field_missing" -> absent \/ (gone /\ seen # {})
<1>1. IInv /\ [Next]_vars => \A p \in Pages : Told(p)
  <2> SUFFICES ASSUME IInv, [Next]_vars, NEW p \in Pages,
                      page[p].phase \in {"checking", "extracting"}, page'[p].phase = "idle"
               PROVE  Told(p)
    OBVIOUS
  <2>1. /\ Typed /\ page[p].phase # "idle" /\ document \in witness[p]
        /\ page[p].phase = "extracting" => \E d \in witness[p] : d # NoDocument
    BY DEF IInv, PageOK, Looking, Reading
  <2>2. CheckExists(p) \/ Extract(p)
    <3>1. page[p] \in Request /\ page \in [Pages -> Request]
      BY <2>1 DEF Typed
    <3>2. page' # page
      BY <2>1
    <3>3. ASSUME NEW q \in Pages \ {p}, NEW r, page' = [page EXCEPT ![q] = r] PROVE FALSE
      BY <2>1, <3>1, <3>3
    <3>4. ASSUME NEW q \in Pages, Refetch(q) PROVE FALSE
      BY <2>1, <3>1, <3>4 DEF Refetch, Request
    <3>5. ASSUME NEW q \in Pages, LoadPaths(q) PROVE FALSE
      BY <2>1, <3>1, <3>5 DEF LoadPaths, Respond, In, Request
    <3>6. ASSUME NEW q \in Pages, ReadMaxNumber(q) \/ StoreVersion(q) \/ NumberTaken(q) PROVE FALSE
      BY <2>1, <3>1, <3>6 DEF ReadMaxNumber, StoreVersion, NumberTaken, Respond, In, Request
    <3>7. ASSUME NEW q \in Pages, NEW c \in Columns, Lookup(q, c) PROVE FALSE
      BY <2>1, <3>1, <3>7 DEF Lookup, In
    <3>8. ASSUME NEW q \in Pages, NEW c \in Columns, NEW path \in Paths, AddPath(q, c, path) PROVE FALSE
      BY <2>1, <3>1, <3>8 DEF AddPath, In
    <3>9. ASSUME NEW q \in Pages, CheckExists(q) \/ Extract(q) PROVE q = p
      BY <2>1, <3>1, <3>9 DEF CheckExists, Extract, Respond, In, Request
    <3> QED BY <3>2, <3>4, <3>5, <3>6, <3>7, <3>8, <3>9 DEF Next, Change, vars
  <2>3. CASE CheckExists(p)
    <3>1. page \in [Pages -> Request] /\ page[p] \in Request
      BY <2>1 DEF Typed
    <3>2. document = NoDocument
      BY <2>1, <2>3, <3>1 DEF CheckExists, Request
    <3>3. page'[p].answer = "document_not_found"
      <4>1. Respond(p, "document_not_found", NoValue) /\ UNCHANGED <<versions, saved, document>>
        BY <2>3, <3>2 DEF CheckExists
      <4> QED BY <4>1, RespondStep
    <3> QED BY <2>1, <3>2, <3>3
  <2>4. CASE Extract(p)
    <3> DEFINE value == IF document = NoDocument THEN NoValue ELSE document[PathInUse(p)]
               answer == IF value = NoValue THEN "field_missing" ELSE "found"
    <3>1. page[p].phase = "extracting" /\ Respond(p, answer, value) /\ UNCHANGED <<versions, saved, document>>
      BY <2>4 DEF Extract, In
    <3>2. PathInUse(p) \in Paths
      BY <2>1 DEF IInv, PageOK, Reading
    <3>3. value \in Values \cup {NoValue} /\ answer \in {"field_missing", "found"}
      BY <2>1, <3>2 DEF Typed, Documents
    <3>4. page'[p].answer = answer /\ page'[p].value = value
      <4> HIDE DEF value, answer
      <4> QED BY <3>1, <3>3, RespondStep
    <3>5. CASE document = NoDocument
      <4>1. answer = "field_missing"
        BY <3>5
      <4> QED BY <2>1, <3>1, <3>4, <3>5, <4>1
    <3>6. CASE document # NoDocument /\ document[PathInUse(p)] = NoValue
      <4>1. answer = "field_missing"
        BY <3>6
      <4> QED BY <2>1, <3>4, <3>6, <4>1 DEF PathInUse
    <3>7. CASE document # NoDocument /\ document[PathInUse(p)] # NoValue
      <4>1. answer = "found" /\ value = document[PathInUse(p)]
        BY <3>7
      <4> QED BY <2>1, <3>4, <3>7, <4>1 DEF PathInUse
    <3> QED BY <3>5, <3>6, <3>7
  <2> QED BY <2>2, <2>3, <2>4
<1>2. IInv /\ [Next]_vars => [\A p \in Pages : Told(p)]_vars
  BY <1>1
<1> QED BY <1>2, Invariance, PTL DEF Spec, AnswersAreTrue
=============================================================================
