------------------------ MODULE ReconciliationProofs ------------------------
(***************************************************************************)
(* For all tables, columns, rules and caps: the report counts every        *)
(* identity where it belongs, and its detail explains the counts as far as *)
(* the cap lets it.                                                        *)
(***************************************************************************)
EXTENDS Reconciliation, FiniteSetTheorems, TLAPS

OldOnly == IdsOf(old) \ IdsOf(view)
ViewOnly == IdsOf(view) \ IdsOf(old)
Both == IdsOf(old) \cap IdsOf(view)
Pairs == Both \ Inflated

\* The identities each loop has visited, and those whose rows are compared.
VisitedOld == IF loop = "old_only" THEN OldOnly \ todo ELSE OldOnly
VisitedView == IF loop = "old_only" THEN {}
               ELSE IF loop = "view_only" THEN ViewOnly \ todo ELSE ViewOnly
VisitedBoth == IF loop \in {"both", "done"} THEN Both \ todo ELSE {}
Finished == (VisitedBoth \ Inflated) \ {identity}

\* Each loop works off its own identities, and within a pair the flag tells of
\* the columns compared so far.
Progress ==
    /\ loop = "old_only" => todo \subseteq OldOnly
    /\ loop = "view_only" => todo \subseteq ViewOnly
    /\ loop = "both" => todo \subseteq Both
    /\ loop = "done" => todo = {}
    /\ identity # None => loop = "both" /\ identity \in Pairs \ todo
    /\ row_mismatched <=> identity # None /\ \E k \in 1..(scan - 1) : Differs(identity, Compared[k])

\* The counts are those of the identities visited.
Counted ==
    /\ result.old_only = Cardinality(OldOnly) /\ result.view_only = Cardinality(ViewOnly)
    /\ result.matched = Cardinality({x \in Finished : Alike(x)})
    /\ result.mismatched = Cardinality({x \in Finished : ~Alike(x)})
    /\ result.inflation <=> VisitedBoth \cap Inflated # {}

\* The entries the identities and columns visited call for.
DueAlone(e) ==
    /\ e.column = None
    /\ \/ e.kind = "old_only" /\ e.id \in VisitedOld
       \/ e.kind = "view_only" /\ e.id \in VisitedView
       \/ e.kind = "inflated" /\ e.id \in VisitedBoth \cap Inflated
DueFinished(e) == e.kind = "differs" /\ e.id \in Finished /\ e.column \in Columns
                  /\ Differs(e.id, e.column)
DueNow(e) == e.kind = "differs" /\ identity # None /\ e.id = identity
             /\ \E k \in 1..(scan - 1) : e.column = Compared[k] /\ Differs(identity, Compared[k])
Due(e) == DueAlone(e) \/ DueFinished(e) \/ DueNow(e)

\* The detail holds entries that are due, and all of them below the cap.
Detailed ==
    /\ Len(result.detail) <= Cap
    /\ \A e \in Elements(result.detail) : Due(e)
    /\ Len(result.detail) < Cap => \A e \in Detail : Due(e) => e \in Elements(result.detail)

IInv == TypeOK /\ Progress /\ Counted /\ Detailed

-----------------------------------------------------------------------------
\* Positions in Compared are those of the columns.
LEMMA ColumnFacts ==
  /\ Len(Compared) \in Nat /\ DOMAIN Compared = 1..Len(Compared)
  /\ \A k \in 1..Len(Compared) : Compared[k] \in Columns
  /\ \A c \in Columns : \E k \in 1..Len(Compared) : c = Compared[k]
<1>1. Len(Compared) \in Nat /\ DOMAIN Compared = 1..Len(Compared)
  BY ReconciliationAssumption
<1> QED BY <1>1 DEF Columns, Elements

\* The sets of identities are finite.
LEMMA IdFacts ==
  ASSUME TypeOK
  PROVE  /\ IdsOf(old) \subseteq Ids /\ IdsOf(view) \subseteq Ids
         /\ \A S : S \subseteq IdsOf(old) \/ S \subseteq IdsOf(view) => IsFiniteSet(S)
         /\ None \notin Ids
<1>1. ASSUME NEW rows, NEW most, rows \in RowSeqs(most)
      PROVE  IdsOf(rows) \subseteq Ids
  BY <1>1 DEF RowSeqs, IdsOf, Row
<1>2. IdsOf(old) \subseteq Ids /\ IdsOf(view) \subseteq Ids
  BY <1>1 DEF TypeOK
<1> QED BY <1>2, FS_Subset, ReconciliationAssumption

\* An inflated identity is one of the view.
LEMMA InflatedFacts == Inflated \subseteq Both
<1>1. ASSUME NEW x \in Inflated PROVE x \in IdsOf(view)
  <2>1. CASE RowsOf(view, x) = {}
    BY <1>1, <2>1, FS_EmptySet DEF Inflated
  <2>2. CASE RowsOf(view, x) # {}
    BY <2>2 DEF RowsOf, IdsOf
  <2> QED BY <2>1, <2>2
<1> QED BY <1>1 DEF Inflated, Both

\* What the comparison of a column looks at is what the reference looks at.
LEMMA DiffersFacts ==
  /\ \A x, c : Differs(x, c) <=> Shown(x, c) # Kept(x, c)
  /\ \A x : Alike(x) <=> \A k \in 1..Len(Compared) : ~Differs(x, Compared[k])
<1>1. \A x, c : Differs(x, c) <=> Shown(x, c) # Kept(x, c)
  BY DEF Differs, Shown, Kept
<1> QED BY <1>1, ColumnFacts DEF Alike

\* The tables and rules never change, so neither do the notions read off them.
LEMMA InputStays ==
  ASSUME UNCHANGED input
  PROVE  /\ OldOnly' = OldOnly /\ ViewOnly' = ViewOnly /\ Both' = Both
         /\ Inflated' = Inflated /\ Pairs' = Pairs
         /\ IdsOf(old)' = IdsOf(old) /\ IdsOf(view)' = IdsOf(view)
         /\ \A x : RowsOf(view, x)' = RowsOf(view, x)
         /\ \A x, c : Differs(x, c)' <=> Differs(x, c)
         /\ \A x : Alike(x)' <=> Alike(x)
<1>1. old' = old /\ view' = view /\ retired' = retired
  BY DEF input
<1>2. /\ IdsOf(old)' = IdsOf(old) /\ IdsOf(view)' = IdsOf(view)
      /\ \A x : RowsOf(view, x)' = RowsOf(view, x) /\ First(view, x)' = First(view, x)
                /\ First(old, x)' = First(old, x)
  BY <1>1 DEF IdsOf, RowsOf, First
<1>3. \A x, c : Differs(x, c)' <=> Differs(x, c)
  BY <1>1, <1>2 DEF Differs
<1>4. \A x, c : Shown(x, c)' = Shown(x, c) /\ Kept(x, c)' = Kept(x, c)
  BY <1>1, <1>2 DEF Shown, Kept
<1>5. Inflated' = Inflated
  BY <1>1, <1>2 DEF Inflated
<1> QED BY <1>2, <1>3, <1>4, <1>5 DEF OldOnly, ViewOnly, Both, Pairs, Alike

\* Appending an entry keeps a detail a list of entries.
LEMMA EntryFacts ==
  ASSUME result \in Result, NEW x \in Ids, NEW kind \in Kinds, NEW column \in Columns \cup {None}
  PROVE  /\ Entry(x, kind, column) \in Detail
         /\ WithDetail(result.detail, Entry(x, kind, column)) \in Seq(Detail)
<1>1. Entry(x, kind, column) \in Detail
  BY DEF Entry, Detail
<1>2. result.detail \in Seq(Detail)
  BY DEF Result
<1> QED BY <1>1, <1>2 DEF WithDetail

\* An entry that has become due is appended, or the detail is full.
LEMMA DetailGrows ==
  ASSUME Detailed, result \in Result, NEW e \in Detail,
         result'.detail = WithDetail(result.detail, e),
         \A d \in Detail : Due(d)' <=> Due(d) \/ d = e
  PROVE  Detailed'
<1> DEFINE s == result.detail
<1>1. /\ s \in Seq(Detail) /\ Len(s) \in Nat /\ Cap \in Nat
      /\ \A d \in Elements(s) : d \in Detail
  BY ReconciliationAssumption DEF Result, Elements
<1>2. CASE Len(s) < Cap
  <2>1. result'.detail = Append(s, e)
    BY <1>2 DEF WithDetail
  <2>2. Elements(Append(s, e)) = Elements(s) \cup {e} /\ Len(Append(s, e)) = Len(s) + 1
    <3>1. DOMAIN Append(s, e) = (DOMAIN s) \cup {Len(s) + 1}
      BY <1>1
    <3>2. /\ \A i \in DOMAIN s : Append(s, e)[i] = s[i]
          /\ Append(s, e)[Len(s) + 1] = e /\ Len(Append(s, e)) = Len(s) + 1
      BY <1>1
    <3> QED BY <3>1, <3>2 DEF Elements
  <2>3. Elements(result'.detail) = Elements(s) \cup {e} /\ Len(result'.detail) = Len(s) + 1
    BY <2>1, <2>2
  <2>4. \A d \in Elements(result'.detail) : Due(d)'
    BY <1>1, <2>3 DEF Detailed
  <2>5. \A d \in Detail : Due(d)' => d \in Elements(result'.detail)
    BY <1>2, <2>3 DEF Detailed
  <2>6. Len(result'.detail) <= Cap
    BY <1>1, <1>2, <2>3
  <2> QED BY <2>4, <2>5, <2>6 DEF Detailed, Elements
<1>3. CASE ~(Len(s) < Cap)
  <2>1. result'.detail = s
    BY <1>3 DEF WithDetail
  <2> QED BY <1>1, <1>3, <2>1 DEF Detailed, Elements
<1> QED BY <1>2, <1>3

\* Nothing becomes due, and nothing is appended.
LEMMA DetailStays ==
  ASSUME Detailed, result \in Result, result'.detail = result.detail,
         \A d \in Detail : Due(d)' <=> Due(d)
  PROVE  Detailed'
<1>1. \A d \in Elements(result.detail) : d \in Detail
  BY DEF Result, Elements
<1> QED BY <1>1 DEF Detailed, Elements
-----------------------------------------------------------------------------
\* Nothing is visited yet.
LEMMA InitIInv == Init => IInv
<1> SUFFICES ASSUME Init PROVE IInv
  OBVIOUS
<1>1. TypeOK
  <2>1. old \in RowSeqs(MaxOld) /\ view \in RowSeqs(MaxView)
    BY DEF Init
  <2>2. IdsOf(old) \subseteq Ids /\ IdsOf(view) \subseteq Ids
    BY <2>1 DEF RowSeqs, IdsOf, Row
  <2>3. IsFiniteSet(IdsOf(old) \ IdsOf(view)) /\ IsFiniteSet(IdsOf(view) \ IdsOf(old))
    BY <2>2, FS_Subset, ReconciliationAssumption
  <2>4. Cardinality(IdsOf(old) \ IdsOf(view)) \in Nat /\ Cardinality(IdsOf(view) \ IdsOf(old)) \in Nat
    BY <2>3, FS_CardinalityType
  <2>5. <<>> \in Seq(Detail) /\ 1 \in 1..(Len(Compared) + 1)
    BY ColumnFacts
  <2>6. result \in Result
    BY <2>4, <2>5 DEF Init, Result
  <2> QED BY <2>1, <2>5, <2>6, <2>2 DEF Init, TypeOK, Loops
<1>2. /\ loop = "old_only" /\ todo = OldOnly /\ identity = None /\ scan = 1
      /\ row_mismatched = FALSE
  BY DEF Init, OldOnly
<1>3. Progress
  BY <1>2 DEF Progress
<1>4. VisitedOld = {} /\ VisitedView = {} /\ VisitedBoth = {} /\ Finished = {}
  BY <1>2 DEF VisitedOld, VisitedView, VisitedBoth, Finished
<1>5. Counted
  <2>1. Cardinality({}) = 0
    BY FS_EmptySet
  <2>2. {x \in Finished : Alike(x)} = {} /\ {x \in Finished : ~Alike(x)} = {}
    BY <1>4
  <2> QED BY <1>4, <2>1, <2>2 DEF Counted, Init, OldOnly, ViewOnly
<1>6. Detailed
  <2>1. result.detail = <<>> /\ Elements(<<>>) = {} /\ Cap \in Nat
    BY ReconciliationAssumption DEF Init, Elements
  <2>2. \A e : ~Due(e)
    BY <1>2, <1>4 DEF Due, DueAlone, DueFinished, DueNow
  <2> QED BY <2>1, <2>2 DEF Detailed
<1> QED BY <1>1, <1>3, <1>5, <1>6 DEF IInv

\* The first two loops: one more identity is visited, no count changes.
LEMMA VisitOneSidedStep ==
  ASSUME IInv, NEW x \in Ids, VisitOneSided(x)
  PROVE  IInv'
<1> DEFINE e == Entry(x, loop, None)
<1>1. /\ UNCHANGED <<input, loop, pair>> /\ loop \in {"old_only", "view_only"}
      /\ x \in todo /\ todo' = todo \ {x}
      /\ result' = [result EXCEPT !.detail = WithDetail(@, e)]
  BY DEF VisitOneSided
<1>2. /\ TypeOK /\ Progress /\ Counted /\ Detailed /\ result \in Result
      /\ identity' = identity /\ scan' = scan /\ row_mismatched' = row_mismatched
  BY <1>1 DEF IInv, TypeOK, pair
<1>3. e \in Detail /\ WithDetail(result.detail, e) \in Seq(Detail)
  BY <1>1, <1>2, EntryFacts DEF Kinds
<1>4. /\ result'.detail = WithDetail(result.detail, e) /\ result' \in Result
      /\ result'.matched = result.matched /\ result'.mismatched = result.mismatched
      /\ result'.old_only = result.old_only /\ result'.view_only = result.view_only
      /\ result'.inflation = result.inflation
  BY <1>1, <1>2, <1>3 DEF Result
<1>5. TypeOK'
  BY <1>1, <1>2, <1>4 DEF TypeOK, input
<1>6. identity = None
  BY <1>1, <1>2 DEF Progress
<1>7. Progress'
  BY <1>1, <1>2, <1>6, InputStays DEF Progress
<1>8. VisitedBoth = {} /\ VisitedBoth' = {} /\ Finished = {} /\ Finished' = {}
  BY <1>1 DEF VisitedBoth, Finished
<1>9. Counted'
  BY <1>2, <1>1, <1>4, <1>8, InputStays DEF Counted
<1>10. \A d \in Detail : Due(d)' <=> Due(d) \/ d = e
  <2>1. \A d \in Detail : DueFinished(d)' <=> DueFinished(d)
    BY <1>8 DEF DueFinished
  <2>2. \A d \in Detail : DueNow(d)' <=> DueNow(d)
    BY <1>2, <1>6 DEF DueNow
  <2>3. \A d \in Detail : d = e <=> d.id = x /\ d.kind = loop /\ d.column = None
    BY <1>3 DEF Detail, Entry
  <2>4. CASE loop = "old_only"
    <3>1. VisitedOld' = VisitedOld \cup {x} /\ VisitedView' = VisitedView
      BY <1>1, <1>2, <2>4, InputStays DEF VisitedOld, VisitedView, Progress
    <3>2. \A d \in Detail : DueAlone(d)' <=> DueAlone(d) \/ d = e
      BY <1>8, <2>3, <2>4, <3>1 DEF DueAlone
    <3> QED BY <2>1, <2>2, <3>2 DEF Due
  <2>5. CASE loop = "view_only"
    <3>1. VisitedOld' = VisitedOld /\ VisitedView' = VisitedView \cup {x}
      BY <1>1, <1>2, <2>5, InputStays DEF VisitedOld, VisitedView, Progress
    <3>2. \A d \in Detail : DueAlone(d)' <=> DueAlone(d) \/ d = e
      BY <1>8, <2>3, <2>5, <3>1 DEF DueAlone
    <3> QED BY <2>1, <2>2, <3>2 DEF Due
  <2> QED BY <1>1, <2>4, <2>5
<1>11. Detailed'
  BY <1>2, <1>3, <1>4, <1>10, DetailGrows
<1> QED BY <1>5, <1>7, <1>9, <1>11 DEF IInv

\* An inflated identity raises the flag and is none of the compared ones.
LEMMA VisitInflatedStep ==
  ASSUME IInv, NEW x \in Ids, VisitInflated(x)
  PROVE  IInv'
<1> DEFINE e == Entry(x, "inflated", None)
<1>1. /\ UNCHANGED <<input, loop, pair>> /\ loop = "both" /\ identity = None
      /\ x \in todo /\ todo' = todo \ {x} /\ Cardinality(RowsOf(view, x)) > 1
      /\ result' = [result EXCEPT !.inflation = TRUE, !.detail = WithDetail(@, e)]
  BY DEF VisitInflated
<1>2. /\ TypeOK /\ Progress /\ Counted /\ Detailed /\ result \in Result
      /\ identity' = identity /\ scan' = scan /\ row_mismatched' = row_mismatched
  BY <1>1 DEF IInv, TypeOK, pair
<1>3. e \in Detail /\ WithDetail(result.detail, e) \in Seq(Detail)
  BY <1>1, <1>2, EntryFacts DEF Kinds
<1>4. /\ result'.detail = WithDetail(result.detail, e) /\ result' \in Result
      /\ result'.matched = result.matched /\ result'.mismatched = result.mismatched
      /\ result'.old_only = result.old_only /\ result'.view_only = result.view_only
      /\ result'.inflation = TRUE
  BY <1>1, <1>2, <1>3 DEF Result
<1>5. TypeOK'
  BY <1>1, <1>2, <1>4 DEF TypeOK, input
<1>6. x \in Both /\ x \in Inflated
  BY <1>1, <1>2 DEF Progress, Inflated, Both
<1>7. Progress'
  BY <1>1, <1>2, InputStays DEF Progress
<1>8. /\ VisitedBoth' = VisitedBoth \cup {x} /\ Finished' = Finished
      /\ VisitedOld' = VisitedOld /\ VisitedView' = VisitedView
  BY <1>1, <1>2, <1>6, InputStays DEF VisitedBoth, Finished, VisitedOld, VisitedView
<1>9. Counted'
  <2>1. /\ {y \in Finished : Alike(y)}' = {y \in Finished : Alike(y)}
        /\ {y \in Finished : ~Alike(y)}' = {y \in Finished : ~Alike(y)}
    BY <1>1, <1>8, InputStays
  <2> QED BY <1>1, <1>2, <1>4, <1>6, <1>8, <2>1, InputStays DEF Counted
<1>10. \A d \in Detail : Due(d)' <=> Due(d) \/ d = e
  <2>1. \A d \in Detail : DueFinished(d)' <=> DueFinished(d)
    BY <1>1, <1>8, InputStays DEF DueFinished
  <2>2. \A d \in Detail : DueNow(d)' <=> DueNow(d)
    BY <1>1, <1>2 DEF DueNow
  <2>3. \A d \in Detail : d = e <=> d.id = x /\ d.kind = "inflated" /\ d.column = None
    BY <1>3 DEF Detail, Entry
  <2>4. \A d \in Detail : DueAlone(d)' <=> DueAlone(d) \/ d = e
    BY <1>1, <1>6, <1>8, <2>3, InputStays DEF DueAlone
  <2> QED BY <2>1, <2>2, <2>4 DEF Due
<1>11. Detailed'
  BY <1>2, <1>3, <1>4, <1>10, DetailGrows
<1> QED BY <1>5, <1>7, <1>9, <1>11 DEF IInv

\* The pair leaves todo and is not finished before its columns are compared.
LEMMA VisitPairStep ==
  ASSUME IInv, NEW x \in Ids, VisitPair(x)
  PROVE  IInv'
<1>1. /\ UNCHANGED <<input, loop, result>> /\ loop = "both" /\ identity = None
      /\ x \in todo /\ todo' = todo \ {x} /\ Cardinality(RowsOf(view, x)) <= 1
      /\ identity' = x /\ scan' = 1 /\ row_mismatched' = FALSE
  BY DEF VisitPair
<1>2. TypeOK /\ Progress /\ Counted /\ Detailed /\ result \in Result /\ x # None
  BY IdFacts DEF IInv, TypeOK
<1>3. TypeOK'
  <2>1. 1 \in 1..(Len(Compared) + 1)
    BY ColumnFacts
  <2> QED BY <1>1, <1>2, <2>1 DEF TypeOK, input
<1>4. x \in Pairs
  <2>1. x \in Both
    BY <1>1, <1>2 DEF Progress
  <2>2. x \notin Inflated
    <3>1. IsFiniteSet(RowsOf(view, x))
      <4>1. PICK n \in 0..MaxView : view \in [1..n -> Row]
        BY <1>2 DEF TypeOK, RowSeqs
      <4>2. RowsOf(view, x) \subseteq 1..n /\ n \in Nat
        BY <4>1, ReconciliationAssumption DEF RowsOf
      <4> QED BY <4>2, FS_Interval, FS_Subset
    <3>2. Cardinality(RowsOf(view, x)) \in Nat
      BY <3>1, FS_CardinalityType
    <3> QED BY <1>1, <3>2 DEF Inflated
  <2> QED BY <2>1, <2>2 DEF Pairs
<1>5. Progress'
  BY <1>1, <1>2, <1>4, InputStays DEF Progress
<1>6. /\ VisitedBoth' = VisitedBoth \cup {x} /\ VisitedBoth \subseteq Ids /\ x \notin VisitedBoth
      /\ VisitedOld' = VisitedOld /\ VisitedView' = VisitedView
  BY <1>1, <1>2, <1>4, IdFacts, InputStays DEF VisitedBoth, VisitedOld, VisitedView, Pairs, Both
<1>7. Finished' = Finished
  BY <1>1, <1>2, <1>6, IdFacts, InputStays DEF Finished
<1>8. Counted'
  <2>1. /\ {y \in Finished : Alike(y)}' = {y \in Finished : Alike(y)}
        /\ {y \in Finished : ~Alike(y)}' = {y \in Finished : ~Alike(y)}
    BY <1>1, <1>7, InputStays
  <2>2. (VisitedBoth \cap Inflated)' = VisitedBoth \cap Inflated
    BY <1>1, <1>4, <1>6, InputStays DEF Pairs
  <2> QED BY <1>1, <1>2, <2>1, <2>2, InputStays DEF Counted
<1>9. \A d \in Detail : Due(d)' <=> Due(d)
  <2>1. \A d \in Detail : DueFinished(d)' <=> DueFinished(d)
    BY <1>1, <1>7, InputStays DEF DueFinished
  <2>2. \A d \in Detail : ~DueNow(d)' /\ ~DueNow(d)
    BY <1>1 DEF DueNow
  <2>3. \A d \in Detail : DueAlone(d)' <=> DueAlone(d)
    BY <1>1, <1>4, <1>6, InputStays DEF DueAlone, Pairs
  <2> QED BY <2>1, <2>2, <2>3 DEF Due
<1>10. Detailed'
  BY <1>1, <1>2, <1>9, DetailStays
<1> QED BY <1>3, <1>5, <1>8, <1>10 DEF IInv

\* One more column is compared; the flag and the detail follow it.
LEMMA CompareColumnStep ==
  ASSUME IInv, CompareColumn
  PROVE  IInv'
<1> DEFINE c == Compared[scan]
           e == Entry(identity, "differs", c)
<1>1. /\ UNCHANGED <<input, loop, todo, identity>>
      /\ identity # None /\ scan <= Len(Compared) /\ scan' = scan + 1
      /\ row_mismatched' = (row_mismatched \/ Differs(identity, c))
      /\ result' = IF Differs(identity, c)
                   THEN [result EXCEPT !.detail = WithDetail(@, e)] ELSE result
  BY DEF CompareColumn
<1>2. /\ TypeOK /\ Progress /\ Counted /\ Detailed /\ result \in Result
      /\ identity \in Ids
  BY <1>1 DEF IInv, TypeOK
<1>3. /\ scan \in 1..Len(Compared) /\ c \in Columns
      /\ 1..(scan' - 1) = (1..(scan - 1)) \cup {scan} /\ scan' \in 1..(Len(Compared) + 1)
  BY <1>1, <1>2, ColumnFacts DEF TypeOK
<1>4. e \in Detail /\ WithDetail(result.detail, e) \in Seq(Detail)
  BY <1>2, <1>3, EntryFacts DEF Kinds
<1>5. /\ result' \in Result
      /\ result'.matched = result.matched /\ result'.mismatched = result.mismatched
      /\ result'.old_only = result.old_only /\ result'.view_only = result.view_only
      /\ result'.inflation = result.inflation
      /\ result'.detail = IF Differs(identity, c) THEN WithDetail(result.detail, e) ELSE result.detail
  BY <1>1, <1>2, <1>4 DEF Result
<1>6. TypeOK'
  <2>1. row_mismatched' \in BOOLEAN
    BY <1>1
  <2> QED BY <1>1, <1>2, <1>3, <1>5, <2>1 DEF TypeOK, input
<1>7. \A k : Differs(identity, Compared[k])' <=> Differs(identity, Compared[k])
  BY <1>1, InputStays
<1>8. Progress'
  <2>1. row_mismatched' <=> identity' # None /\ \E k \in 1..(scan' - 1) : Differs(identity, Compared[k])'
    BY <1>1, <1>2, <1>3, <1>7 DEF Progress
  <2> QED BY <1>1, <1>2, <2>1, InputStays DEF Progress
<1>9. /\ VisitedBoth' = VisitedBoth /\ Finished' = Finished
      /\ VisitedOld' = VisitedOld /\ VisitedView' = VisitedView
  BY <1>1, InputStays DEF VisitedBoth, Finished, VisitedOld, VisitedView
<1>10. Counted'
  <2>1. /\ {y \in Finished : Alike(y)}' = {y \in Finished : Alike(y)}
        /\ {y \in Finished : ~Alike(y)}' = {y \in Finished : ~Alike(y)}
    BY <1>1, <1>9, InputStays
  <2> QED BY <1>1, <1>2, <1>5, <1>9, <2>1, InputStays DEF Counted
<1>11. \A d \in Detail : Due(d)' <=> Due(d) \/ (Differs(identity, c) /\ d = e)
  <2>1. \A d \in Detail : DueFinished(d)' <=> DueFinished(d)
    BY <1>1, <1>9, InputStays DEF DueFinished
  <2>2. \A d \in Detail : DueAlone(d)' <=> DueAlone(d)
    BY <1>1, <1>9, InputStays DEF DueAlone
  <2>3. \A d \in Detail : d = e <=> d.id = identity /\ d.kind = "differs" /\ d.column = c
    BY <1>4 DEF Detail, Entry
  <2>4. \A d \in Detail : DueNow(d)' <=> DueNow(d) \/ (Differs(identity, c) /\ d = e)
    BY <1>1, <1>3, <1>7, <2>3 DEF DueNow
  <2> QED BY <2>1, <2>2, <2>4 DEF Due
<1>12. Detailed'
  <2>1. CASE Differs(identity, c)
    BY <1>2, <1>4, <1>5, <1>11, <2>1, DetailGrows
  <2>2. CASE ~Differs(identity, c)
    BY <1>2, <1>5, <1>11, <2>2, DetailStays
  <2> QED BY <2>1, <2>2
<1> QED BY <1>6, <1>8, <1>10, <1>12 DEF IInv

\* All columns compared: the pair is alike exactly if no column differed.
LEMMA EndPairStep ==
  ASSUME IInv, EndPair
  PROVE  IInv'
<1>1. /\ UNCHANGED <<input, loop, todo>>
      /\ identity # None /\ scan = Len(Compared) + 1
      /\ result' = IF row_mismatched THEN [result EXCEPT !.mismatched = @ + 1]
                   ELSE [result EXCEPT !.matched = @ + 1]
      /\ identity' = None /\ scan' = 1 /\ row_mismatched' = FALSE
  BY DEF EndPair
<1>2. /\ TypeOK /\ Progress /\ Counted /\ Detailed /\ result \in Result
      /\ identity \in Ids /\ identity \in Pairs /\ identity \notin todo /\ loop = "both"
  BY <1>1 DEF IInv, TypeOK, Progress
<1>3. 1..(scan - 1) = 1..Len(Compared) /\ 1 \in 1..(Len(Compared) + 1)
  BY <1>1, ColumnFacts
<1>4. row_mismatched <=> ~Alike(identity)
  BY <1>1, <1>2, <1>3, DiffersFacts DEF Progress
<1>5. /\ result' \in Result /\ result'.detail = result.detail
      /\ result'.old_only = result.old_only /\ result'.view_only = result.view_only
      /\ result'.inflation = result.inflation
      /\ result'.matched = IF Alike(identity) THEN result.matched + 1 ELSE result.matched
      /\ result'.mismatched = IF Alike(identity) THEN result.mismatched ELSE result.mismatched + 1
  BY <1>1, <1>2, <1>4 DEF Result
<1>6. TypeOK'
  BY <1>1, <1>2, <1>3, <1>5 DEF TypeOK, input
<1>7. Progress'
  BY <1>1, <1>2, InputStays DEF Progress
<1>8. /\ VisitedBoth' = VisitedBoth /\ VisitedOld' = VisitedOld /\ VisitedView' = VisitedView
      /\ identity \in VisitedBoth /\ identity \notin Finished
      /\ Finished \subseteq IdsOf(old)
  BY <1>1, <1>2, InputStays DEF VisitedBoth, VisitedOld, VisitedView, Pairs, Finished, Both
<1>9. Finished' = Finished \cup {identity}
  <2>1. None \notin VisitedBoth
    BY <1>2, IdFacts DEF VisitedBoth, Both
  <2> QED BY <1>1, <1>2, <1>8, <2>1, InputStays DEF Finished, Pairs
<1>10. Counted'
  <2> DEFINE A == {y \in Finished : Alike(y)}
             D == {y \in Finished : ~Alike(y)}
  <2>1. A' = {y \in Finished \cup {identity} : Alike(y)} /\ D' = {y \in Finished \cup {identity} : ~Alike(y)}
    BY <1>1, <1>9, InputStays
  <2>2. A' = (IF Alike(identity) THEN A \cup {identity} ELSE A)
        /\ D' = (IF Alike(identity) THEN D ELSE D \cup {identity})
    BY <2>1
  <2>3. IsFiniteSet(A) /\ IsFiniteSet(D) /\ identity \notin A /\ identity \notin D
    BY <1>2, <1>8, IdFacts
  <2>4. /\ Cardinality(A \cup {identity}) = Cardinality(A) + 1
        /\ Cardinality(D \cup {identity}) = Cardinality(D) + 1
    BY <2>3, FS_AddElement
  <2>5. result.matched = Cardinality(A) /\ result.mismatched = Cardinality(D)
    BY <1>2 DEF Counted
  <2>6. result'.matched = Cardinality(A') /\ result'.mismatched = Cardinality(D')
    BY <1>5, <2>2, <2>4, <2>5
  <2> HIDE DEF A, D
  <2>7. result'.matched = Cardinality({y \in Finished : Alike(y)})'
        /\ result'.mismatched = Cardinality({y \in Finished : ~Alike(y)})'
    BY <2>6 DEF A, D
  <2> QED BY <1>1, <1>2, <1>5, <1>8, <2>7, InputStays DEF Counted
<1>11. \A d \in Detail : Due(d)' <=> Due(d)
  <2>1. \A d \in Detail : DueAlone(d)' <=> DueAlone(d)
    BY <1>1, <1>8, InputStays DEF DueAlone
  <2>2. \A d \in Detail : ~DueNow(d)'
    BY <1>1 DEF DueNow
  <2>3. \A d \in Detail : DueFinished(d)' <=>
            d.kind = "differs" /\ d.id \in Finished \cup {identity} /\ d.column \in Columns /\ Differs(d.id, d.column)
    BY <1>1, <1>9, InputStays DEF DueFinished
  <2>4. \A d \in Detail : DueNow(d) <=>
            d.kind = "differs" /\ d.id = identity /\ d.column \in Columns /\ Differs(d.id, d.column)
    BY <1>1, <1>3, ColumnFacts DEF DueNow
  <2> QED BY <2>1, <2>2, <2>3, <2>4 DEF Due, DueFinished
<1>12. Detailed'
  BY <1>2, <1>5, <1>11, DetailStays
<1> QED BY <1>6, <1>7, <1>10, <1>12 DEF IInv

\* Between two loops nothing is left of the first and nothing visited of the next.
LEMMA NextLoopStep ==
  ASSUME IInv, NextLoop
  PROVE  IInv'
<1>1. /\ UNCHANGED <<input, pair, result>> /\ todo = {} /\ identity = None /\ loop # "done"
      /\ \/ loop = "old_only" /\ loop' = "view_only" /\ todo' = ViewOnly
         \/ loop = "view_only" /\ loop' = "both" /\ todo' = Both
         \/ loop = "both" /\ loop' = "done" /\ todo' = {}
  BY DEF NextLoop, ViewOnly, Both
<1>2. /\ TypeOK /\ Progress /\ Counted /\ Detailed /\ result \in Result
      /\ identity' = identity /\ scan' = scan /\ row_mismatched' = row_mismatched
      /\ result' = result
  BY <1>1 DEF IInv, TypeOK, pair
<1>3. TypeOK'
  BY <1>1, <1>2, IdFacts DEF TypeOK, input, Loops, ViewOnly, Both
<1>4. Progress'
  BY <1>1, <1>2, InputStays DEF Progress
<1>5. /\ VisitedOld' = VisitedOld /\ VisitedView' = VisitedView
      /\ VisitedBoth' = VisitedBoth /\ Finished' = Finished
  <2>1. VisitedOld' = VisitedOld /\ VisitedView' = VisitedView
    BY <1>1, InputStays DEF VisitedOld, VisitedView
  <2>2. VisitedBoth' = VisitedBoth
    BY <1>1, InputStays DEF VisitedBoth
  <2> QED BY <1>1, <1>2, <2>1, <2>2, InputStays DEF Finished
<1>6. Counted'
  <2>1. /\ {y \in Finished : Alike(y)}' = {y \in Finished : Alike(y)}
        /\ {y \in Finished : ~Alike(y)}' = {y \in Finished : ~Alike(y)}
    BY <1>1, <1>5, InputStays
  <2> QED BY <1>1, <1>2, <1>5, <2>1, InputStays DEF Counted
<1>7. \A d \in Detail : Due(d)' <=> Due(d)
  <2>1. \A d \in Detail : (DueAlone(d)' <=> DueAlone(d)) /\ (DueFinished(d)' <=> DueFinished(d))
    BY <1>1, <1>5, InputStays DEF DueAlone, DueFinished
  <2>2. \A d \in Detail : ~DueNow(d)' /\ ~DueNow(d)
    BY <1>1, <1>2 DEF DueNow
  <2> QED BY <2>1, <2>2 DEF Due
<1>8. Detailed'
  BY <1>2, <1>7, DetailStays
<1> QED BY <1>3, <1>4, <1>6, <1>8 DEF IInv

\* IInv is inductive: one case per action.
LEMMA NextIInv == IInv /\ [Next]_vars => IInv'
<1> SUFFICES ASSUME IInv, [Next]_vars PROVE IInv'
  OBVIOUS
<1>1. CASE UNCHANGED vars
  <2>1. /\ UNCHANGED input /\ loop' = loop /\ todo' = todo /\ identity' = identity /\ scan' = scan
        /\ row_mismatched' = row_mismatched /\ result' = result
    BY <1>1 DEF vars, pair
  <2>2. TypeOK' /\ Progress'
    BY <2>1, InputStays DEF IInv, TypeOK, Progress, input
  <2>3. /\ VisitedOld' = VisitedOld /\ VisitedView' = VisitedView
        /\ VisitedBoth' = VisitedBoth /\ Finished' = Finished
    BY <2>1, InputStays DEF VisitedOld, VisitedView, VisitedBoth, Finished
  <2>4. Counted'
    <3>1. /\ {y \in Finished : Alike(y)}' = {y \in Finished : Alike(y)}
          /\ {y \in Finished : ~Alike(y)}' = {y \in Finished : ~Alike(y)}
      BY <2>1, <2>3, InputStays
    <3> QED BY <2>1, <2>3, <3>1, InputStays DEF IInv, Counted
  <2>5. \A d \in Detail : Due(d)' <=> Due(d)
    BY <2>1, <2>3, InputStays DEF Due, DueAlone, DueFinished, DueNow
  <2>6. Detailed'
    BY <2>1, <2>5, DetailStays DEF IInv, TypeOK
  <2> QED BY <2>2, <2>4, <2>6 DEF IInv
<1>2. CASE \E x \in Ids : VisitOneSided(x) \/ VisitInflated(x) \/ VisitPair(x)
  BY <1>2, VisitOneSidedStep, VisitInflatedStep, VisitPairStep
<1>3. CASE CompareColumn \/ EndPair \/ NextLoop
  BY <1>3, CompareColumnStep, EndPairStep, NextLoopStep
<1> QED BY <1>1, <1>2, <1>3 DEF Next

\* The inductive invariant holds of every reachable state.
LEMMA Invariance == Spec => []IInv
BY InitIInv, NextIInv, PTL DEF Spec

\* The variables keep their types: no count becomes negative.
THEOREM TypeCorrect == Spec => []TypeOK
<1>1. IInv => TypeOK
  BY DEF IInv
<1> QED BY <1>1, Invariance, PTL

-----------------------------------------------------------------------------
\* Two disjoint sets of identities together have the sum of their sizes.
LEMMA DisjointSizes ==
  ASSUME NEW S, NEW T, IsFiniteSet(S), IsFiniteSet(T), S \cap T = {}
  PROVE  /\ IsFiniteSet(S \cup T) /\ Cardinality(S) \in Nat /\ Cardinality(T) \in Nat
         /\ Cardinality(S \cup T) = Cardinality(S) + Cardinality(T)
<1>1. Cardinality(S \cap T) = 0
  BY FS_EmptySet
<1>2. Cardinality(S) \in Nat /\ Cardinality(T) \in Nat
  BY FS_CardinalityType
<1>3. /\ IsFiniteSet(S \cup T)
      /\ Cardinality(S \cup T) = Cardinality(S) + Cardinality(T) - Cardinality(S \cap T)
  BY FS_Union
<1> QED BY <1>1, <1>2, <1>3

\* When the loops are over everything has been visited.
LEMMA AllVisited ==
  ASSUME IInv, loop = "done"
  PROVE  /\ identity = None /\ VisitedOld = OldOnly /\ VisitedView = ViewOnly
         /\ VisitedBoth = Both /\ Finished = Pairs
         /\ Pairs = (IdsOf(old) \cap IdsOf(view)) \ Inflated
<1>1. TypeOK /\ Progress
  BY DEF IInv
<1>2. todo = {} /\ identity = None
  BY <1>1 DEF Progress
<1>3. VisitedOld = OldOnly /\ VisitedView = ViewOnly /\ VisitedBoth = Both
  BY <1>2 DEF VisitedOld, VisitedView, VisitedBoth
<1>4. None \notin Both
  BY <1>1, IdFacts DEF Both
<1> QED BY <1>2, <1>3, <1>4 DEF Finished, Pairs, Both

\* The sizes that the counts report, and how they add up.
LEMMA Sizes ==
  ASSUME IInv, loop = "done"
  PROVE  /\ IsFiniteSet(OldOnly) /\ IsFiniteSet(ViewOnly)
         /\ IsFiniteSet({x \in Pairs : Alike(x)}) /\ IsFiniteSet({x \in Pairs : ~Alike(x)})
         /\ IsFiniteSet(Inflated)
         /\ result.old_only = Cardinality(OldOnly) /\ result.view_only = Cardinality(ViewOnly)
         /\ result.matched = Cardinality({x \in Pairs : Alike(x)})
         /\ result.mismatched = Cardinality({x \in Pairs : ~Alike(x)})
         /\ Cardinality(IdsOf(old) \cup IdsOf(view)) =
               result.matched + result.mismatched + result.old_only
               + result.view_only + Cardinality(Inflated)
<1> DEFINE A == {x \in Pairs : Alike(x)}
           D == {x \in Pairs : ~Alike(x)}
<1>1. /\ A \subseteq IdsOf(old) /\ D \subseteq IdsOf(old) /\ OldOnly \subseteq IdsOf(old)
      /\ ViewOnly \subseteq IdsOf(view) /\ Inflated \subseteq IdsOf(old)
  BY DEF Pairs, Both, OldOnly, ViewOnly, Inflated
<1>2. /\ IsFiniteSet(A) /\ IsFiniteSet(D) /\ IsFiniteSet(OldOnly)
      /\ IsFiniteSet(ViewOnly) /\ IsFiniteSet(Inflated)
  BY <1>1, IdFacts DEF IInv
<1>3. /\ result.old_only = Cardinality(OldOnly) /\ result.view_only = Cardinality(ViewOnly)
      /\ result.matched = Cardinality(A) /\ result.mismatched = Cardinality(D)
  BY AllVisited DEF IInv, Counted
<1>4. /\ A \cap D = {} /\ (A \cup D) \cap OldOnly = {}
      /\ ((A \cup D) \cup OldOnly) \cap ViewOnly = {}
      /\ (((A \cup D) \cup OldOnly) \cup ViewOnly) \cap Inflated = {}
  BY InflatedFacts DEF Pairs, Both, OldOnly, ViewOnly
<1>5. IdsOf(old) \cup IdsOf(view) = (((A \cup D) \cup OldOnly) \cup ViewOnly) \cup Inflated
  BY InflatedFacts DEF Pairs, Both, OldOnly, ViewOnly
<1> HIDE DEF A, D
<1>6. IsFiniteSet(A \cup D) /\ Cardinality(A \cup D) = Cardinality(A) + Cardinality(D)
  BY <1>2, <1>4, DisjointSizes
<1>7. /\ IsFiniteSet((A \cup D) \cup OldOnly)
      /\ Cardinality((A \cup D) \cup OldOnly) = Cardinality(A \cup D) + Cardinality(OldOnly)
  BY <1>2, <1>4, <1>6, DisjointSizes
<1>8. /\ IsFiniteSet(((A \cup D) \cup OldOnly) \cup ViewOnly)
      /\ Cardinality(((A \cup D) \cup OldOnly) \cup ViewOnly)
            = Cardinality((A \cup D) \cup OldOnly) + Cardinality(ViewOnly)
  BY <1>2, <1>4, <1>7, DisjointSizes
<1>9. Cardinality(IdsOf(old) \cup IdsOf(view))
        = Cardinality(((A \cup D) \cup OldOnly) \cup ViewOnly) + Cardinality(Inflated)
  BY <1>2, <1>4, <1>5, <1>8, DisjointSizes
<1>10. /\ Cardinality(A) \in Nat /\ Cardinality(D) \in Nat /\ Cardinality(OldOnly) \in Nat
       /\ Cardinality(ViewOnly) \in Nat /\ Cardinality(Inflated) \in Nat
  BY <1>2, FS_CardinalityType
<1>11. Cardinality(IdsOf(old) \cup IdsOf(view)) =
          result.matched + result.mismatched + result.old_only
          + result.view_only + Cardinality(Inflated)
  BY <1>3, <1>6, <1>7, <1>8, <1>9, <1>10
<1> QED BY <1>2, <1>3, <1>11 DEF A, D

\* compare_row_sets counts every identity once and where it belongs, and the
\* standalone check's exit status is zero exactly when they agree but for inflation.
THEOREM ReportExact == Spec => []ReportIsExact
<1>1. ASSUME IInv, loop = "done" PROVE ReportIsExact
  <2> DEFINE pairs == (IdsOf(old) \cap IdsOf(view)) \ Inflated
  <2>1. pairs = Pairs
    BY <1>1, AllVisited
  <2>2. /\ result.matched = Cardinality({x \in pairs : Alike(x)})
        /\ result.mismatched = Cardinality({x \in pairs : ~Alike(x)})
    BY <1>1, <2>1, Sizes
  <2>3. result.inflation <=> Inflated # {}
    BY <1>1, AllVisited, InflatedFacts DEF IInv, Counted
  <2>4. ExitStatus = 0 <=> result.old_only = 0 /\ result.view_only = 0 /\ result.mismatched = 0
    <3>1. {result.old_only, result.view_only, result.mismatched} \subseteq Nat
      BY <1>1 DEF IInv, TypeOK, Result
    <3> QED BY <3>1 DEF ExitStatus
  <2>5. /\ result.old_only = 0 <=> OldOnly = {}
        /\ result.view_only = 0 <=> ViewOnly = {}
        /\ result.mismatched = 0 <=> {x \in pairs : ~Alike(x)} = {}
    BY <1>1, <2>1, Sizes, FS_EmptySet
  <2>6. OldOnly = {} /\ ViewOnly = {} <=> IdsOf(old) = IdsOf(view)
    BY DEF OldOnly, ViewOnly
  <2>7. {x \in pairs : ~Alike(x)} = {} <=> \A x \in pairs : Alike(x)
    OBVIOUS
  <2>8. ExitStatus = 0 <=> IdsOf(old) = IdsOf(view) /\ \A x \in pairs : Alike(x)
    BY <2>4, <2>5, <2>6, <2>7
  <2>9. Cardinality(IdsOf(old) \cup IdsOf(view)) =
            result.matched + result.mismatched + result.old_only
            + result.view_only + Cardinality(Inflated)
    BY <1>1, Sizes
  <2> HIDE DEF pairs
  <2> QED BY <2>2, <2>3, <2>8, <2>9 DEF ReportIsExact, pairs
<1>2. IInv => ReportIsExact
  BY <1>1 DEF ReportIsExact
<1> QED BY <1>2, Invariance, PTL

\* Below DISCREPANCY_DETAIL_CAP the detail has exactly the entries that the counts
\* call for, and only a table without discrepancies, or no room, leaves it empty.
THEOREM DetailExplains == Spec => []DetailExplainsCounts
<1>1. ASSUME IInv, loop = "done" PROVE DetailExplainsCounts
  <2> DEFINE D == Elements(result.detail)
             Named(kind) == {e.id : e \in {d \in D : d.kind = kind}}
  <2>1. /\ Len(result.detail) <= Cap /\ Len(result.detail) \in Nat /\ Cap \in Nat
        /\ result.detail \in Seq(Detail) /\ \A e \in D : e \in Detail
    BY <1>1, ReconciliationAssumption DEF IInv, Detailed, TypeOK, Result, Elements
  <2>2. \A e : Due(e) <=>
          \/ /\ e.column = None
             /\ \/ e.kind = "old_only" /\ e.id \in OldOnly
                \/ e.kind = "view_only" /\ e.id \in ViewOnly
                \/ e.kind = "inflated" /\ e.id \in Inflated
          \/ e.kind = "differs" /\ e.id \in Pairs /\ e.column \in Columns /\ Differs(e.id, e.column)
    BY <1>1, AllVisited, InflatedFacts DEF Due, DueAlone, DueFinished, DueNow
  <2>3. \A e \in D : Due(e)
    BY <1>1 DEF IInv, Detailed
  <2>4. IdsOf(old) \subseteq Ids /\ IdsOf(view) \subseteq Ids /\ Pairs \subseteq Ids
        /\ OldOnly \subseteq Ids /\ ViewOnly \subseteq Ids /\ Inflated \subseteq Ids
    BY <1>1, IdFacts DEF IInv, Pairs, Both, OldOnly, ViewOnly, Inflated
  <2>5. \A x \in Pairs : ~Alike(x) <=> \E c \in Columns : Differs(x, c)
    BY DiffersFacts DEF Alike
  <2>6. ASSUME Len(result.detail) < Cap
        PROVE  /\ Named("old_only") = OldOnly /\ Named("view_only") = ViewOnly
               /\ Named("inflated") = Inflated
               /\ Named("differs") = {x \in Pairs : ~Alike(x)}
               /\ \A x \in Named("differs"), c \in Columns :
                     Shown(x, c) # Kept(x, c) <=> Entry(x, "differs", c) \in D
    <3>1. \A e \in Detail : Due(e) => e \in D
      BY <1>1, <2>6 DEF IInv, Detailed
    <3>2. \A x \in Ids, k \in Kinds, c \in Columns \cup {None} :
             /\ Entry(x, k, c) \in Detail
             /\ Entry(x, k, c).id = x /\ Entry(x, k, c).kind = k /\ Entry(x, k, c).column = c
      BY DEF Entry, Detail
    <3>3. ASSUME NEW x \in Ids PROVE
             /\ x \in OldOnly => Entry(x, "old_only", None) \in D
             /\ x \in ViewOnly => Entry(x, "view_only", None) \in D
             /\ x \in Inflated => Entry(x, "inflated", None) \in D
      BY <2>2, <3>1, <3>2 DEF Kinds
    <3>4. ASSUME NEW x \in Pairs, NEW c \in Columns
          PROVE  Differs(x, c) <=> Entry(x, "differs", c) \in D
      BY <2>2, <2>3, <2>4, <3>1, <3>2 DEF Kinds
    <3>5. Named("old_only") = OldOnly
      BY <2>2, <2>3, <2>4, <3>2, <3>3 DEF Kinds
    <3>6. Named("view_only") = ViewOnly
      BY <2>2, <2>3, <2>4, <3>2, <3>3 DEF Kinds
    <3>7. Named("inflated") = Inflated
      BY <2>2, <2>3, <2>4, <3>2, <3>3 DEF Kinds
    <3>8. Named("differs") = {x \in Pairs : ~Alike(x)}
      <4>1. ASSUME NEW x \in Named("differs") PROVE x \in Pairs /\ ~Alike(x)
        BY <2>2, <2>3, <2>5
      <4>2. ASSUME NEW x \in Pairs, ~Alike(x) PROVE x \in Named("differs")
        <5>1. PICK c \in Columns : Entry(x, "differs", c) \in D
          BY <2>5, <3>4, <4>2
        <5> QED BY <2>4, <3>2, <5>1 DEF Kinds
      <4> QED BY <4>1, <4>2
    <3>9. \A x \in Named("differs"), c \in Columns :
             Shown(x, c) # Kept(x, c) <=> Entry(x, "differs", c) \in D
      BY <3>4, <3>8, DiffersFacts
    <3> QED BY <3>5, <3>6, <3>7, <3>8, <3>9
  <2>7. Len(result.detail) < Cap =>
           /\ Cardinality(Named("old_only")) = result.old_only
           /\ Cardinality(Named("view_only")) = result.view_only
           /\ Cardinality(Named("differs")) = result.mismatched
           /\ Named("inflated") = Inflated
           /\ \A x \in Named("differs"), c \in Columns :
                 Shown(x, c) # Kept(x, c) <=> Entry(x, "differs", c) \in D
    BY <1>1, <2>6, Sizes
  <2>8. result.matched = Cardinality(IdsOf(old) \cup IdsOf(view)) <=>
           OldOnly = {} /\ ViewOnly = {} /\ Inflated = {} /\ {x \in Pairs : ~Alike(x)} = {}
    <3>1. /\ {result.matched, result.mismatched, result.old_only, result.view_only} \subseteq Nat
          /\ Cardinality(Inflated) \in Nat
      BY <1>1, Sizes, FS_CardinalityType DEF IInv, TypeOK, Result
    <3>2. result.matched = Cardinality(IdsOf(old) \cup IdsOf(view)) <=>
             result.mismatched = 0 /\ result.old_only = 0 /\ result.view_only = 0 /\ Cardinality(Inflated) = 0
      BY <1>1, <3>1, Sizes
    <3> QED BY <1>1, <3>2, Sizes, FS_EmptySet
  <2>9. result.detail = <<>> <=> D = {}
    <3>1. DOMAIN result.detail = 1..Len(result.detail)
      BY <2>1
    <3>2. CASE Len(result.detail) = 0
      BY <2>1, <3>1, <3>2 DEF Elements
    <3>3. CASE Len(result.detail) # 0
      <4>1. 1 \in DOMAIN result.detail
        BY <2>1, <3>1, <3>3
      <4>2. result.detail[1] \in D
        BY <4>1 DEF Elements
      <4> QED BY <3>3, <4>2
    <3> QED BY <3>2, <3>3
  <2>10. D = {} <=> Cap = 0 \/ result.matched = Cardinality(IdsOf(old) \cup IdsOf(view))
    <3>1. CASE Cap = 0
      <4>1. Len(result.detail) = 0
        BY <2>1, <3>1
      <4> QED BY <2>1, <2>9, <3>1, <4>1
    <3>2. CASE Cap # 0 /\ D = {}
      <4>1. Len(result.detail) < Cap
        BY <2>1, <2>9, <3>2
      <4> QED BY <2>6, <2>8, <3>2, <4>1
    <3>3. CASE result.matched = Cardinality(IdsOf(old) \cup IdsOf(view))
      BY <2>2, <2>3, <2>5, <2>8, <3>3
    <3> QED BY <3>1, <3>2, <3>3
  <2> QED BY <2>1, <2>7, <2>9, <2>10 DEF DetailExplainsCounts
<1>2. IInv => DetailExplainsCounts
  BY <1>1 DEF DetailExplainsCounts
<1> QED BY <1>2, Invariance, PTL
=============================================================================
