--------------------------- MODULE Reconciliation ---------------------------
(***************************************************************************)
(* compare_row_sets: the rows of the old table against the rows of the     *)
(* deployed view, grouped by identity.  Three loops in turn visit the      *)
(* identities only the old table has, those only the view has, and those   *)
(* both have; each counts, and adds to a detail list that is cut off at a  *)
(* cap while the counts go on.                                             *)
(*                                                                         *)
(* The identity column compares equal to itself and is left out of         *)
(* Compared.  The loops run in the order of the identities' text, which    *)
(* only decides what the cap cuts off; here any order will do.             *)
(***************************************************************************)
EXTENDS Integers, Sequences, FiniteSets

CONSTANTS Ids,        \* values of the identity column
          Compared,   \* the other captured columns, in order
          Values,     \* what a cell may hold, SQL NULL apart
          None,       \* SQL NULL
          MaxOld, MaxView,   \* bounds on the rows of the two sides
          Cap         \* DISCREPANCY_DETAIL_CAP

Elements(s) == {s[i] : i \in DOMAIN s}
Columns == Elements(Compared)
Row == [id : Ids, cells : [Columns -> Values \cup {None}]]
RowSeqs(most) == UNION {[1..n -> Row] : n \in 0..most}

ASSUME ReconciliationAssumption ==
    /\ IsFiniteSet(Ids)
    /\ Compared \in Seq(Columns)
    /\ \A i, j \in DOMAIN Compared : Compared[i] = Compared[j] => i = j
    /\ None \notin Values \cup Ids
    /\ {MaxOld, MaxView, Cap} \subseteq Nat

VARIABLES
    old, view,   \* the rows read, in the order of their reading
    retired,     \* columns whose rule is Retired
    loop,        \* the loop the comparison is in
    todo,        \* the identities it has not visited
    identity,    \* the identity whose rows are being compared, or None
    scan,        \* the position in Compared the comparison is at
    row_mismatched,
    result       \* ReconciliationResult

input == <<old, view, retired>>
pair == <<identity, scan, row_mismatched>>
vars == <<input, loop, todo, pair, result>>

Kinds == {"old_only", "view_only", "inflated", "differs"}
Detail == [id : Ids, kind : Kinds, column : Columns \cup {None}]
Result == [matched : Nat, old_only : Nat, view_only : Nat, mismatched : Nat,
           inflation : BOOLEAN, detail : Seq(Detail)]
Loops == {"old_only", "view_only", "both", "done"}

TypeOK ==
    /\ old \in RowSeqs(MaxOld) /\ view \in RowSeqs(MaxView)
    /\ retired \subseteq Columns
    /\ loop \in Loops
    /\ todo \subseteq Ids
    /\ identity \in Ids \cup {None}
    /\ scan \in 1..(Len(Compared) + 1)
    /\ row_mismatched \in BOOLEAN
    /\ result \in Result

-----------------------------------------------------------------------------
\* _group_by_identity: the identities, and the positions of one's rows.
IdsOf(rows) == {rows[i].id : i \in DOMAIN rows}
RowsOf(rows, x) == {i \in DOMAIN rows : rows[i].id = x}
First(rows, x) == CHOOSE i \in RowsOf(rows, x) : \A j \in RowsOf(rows, x) : i <= j

Init ==
    /\ old \in RowSeqs(MaxOld) /\ view \in RowSeqs(MaxView)
    /\ retired \in SUBSET Columns
    /\ loop = "old_only"
    /\ todo = IdsOf(old) \ IdsOf(view)
    /\ identity = None /\ scan = 1 /\ row_mismatched = FALSE
    /\ result = [matched |-> 0, old_only |-> Cardinality(IdsOf(old) \ IdsOf(view)),
                 view_only |-> Cardinality(IdsOf(view) \ IdsOf(old)),
                 mismatched |-> 0, inflation |-> FALSE, detail |-> <<>>]

Entry(x, kind, column) == [id |-> x, kind |-> kind, column |-> column]

\* Mutant: the last place below the cap is never filled.
WithDetailOffByOne(detail, entry) ==
    IF Len(detail) < Cap - 1 THEN Append(detail, entry) ELSE detail

\* _append_detail.
WithDetail(detail, entry) ==
    IF Len(detail) < Cap THEN Append(detail, entry) ELSE detail

\* Mutant: what a retired column holds in the view is not looked at.
DiffersUnlessRetired(x, c) ==
    c \notin retired /\ view[First(view, x)].cells[c] # old[First(old, x)].cells[c]

\* A retired column that the view nulls is compared with nothing.  Of several
\* old rows with one identity the first one read is compared.
Differs(x, c) ==
    LET there == view[First(view, x)].cells[c]
    IN  ~(c \in retired /\ there = None) /\ there # old[First(old, x)].cells[c]

-----------------------------------------------------------------------------
\* An identity one side lacks.
VisitOneSided(x) ==
    /\ loop \in {"old_only", "view_only"}
    /\ x \in todo
    /\ todo' = todo \ {x}
    /\ result' = [result EXCEPT !.detail = WithDetail(@, Entry(x, loop, None))]
    /\ UNCHANGED <<input, loop, pair>>

\* FR-014: more view rows than one are flagged and compared no further.
VisitInflated(x) ==
    /\ loop = "both" /\ identity = None
    /\ x \in todo
    /\ Cardinality(RowsOf(view, x)) > 1
    /\ todo' = todo \ {x}
    /\ result' = [result EXCEPT !.inflation = TRUE,
                                !.detail = WithDetail(@, Entry(x, "inflated", None))]
    /\ UNCHANGED <<input, loop, pair>>

\* The two rows of an identity are compared column by column.
VisitPair(x) ==
    /\ loop = "both" /\ identity = None
    /\ x \in todo
    /\ Cardinality(RowsOf(view, x)) <= 1
    /\ todo' = todo \ {x}
    /\ identity' = x /\ scan' = 1 /\ row_mismatched' = FALSE
    /\ UNCHANGED <<input, loop, result>>

CompareColumn ==
    LET c == Compared[scan]
    IN  /\ identity # None /\ scan <= Len(Compared)
        /\ scan' = scan + 1
        /\ row_mismatched' = (row_mismatched \/ Differs(identity, c))
        /\ result' = IF Differs(identity, c)
                     THEN [result EXCEPT !.detail = WithDetail(@, Entry(identity, "differs", c))]
                     ELSE result
        /\ UNCHANGED <<input, loop, todo, identity>>

EndPair ==
    /\ identity # None /\ scan = Len(Compared) + 1
    /\ result' = IF row_mismatched THEN [result EXCEPT !.mismatched = @ + 1]
                 ELSE [result EXCEPT !.matched = @ + 1]
    /\ identity' = None /\ scan' = 1 /\ row_mismatched' = FALSE
    /\ UNCHANGED <<input, loop, todo>>

NextLoop ==
    /\ todo = {} /\ identity = None /\ loop # "done"
    /\ \/ loop = "old_only" /\ loop' = "view_only" /\ todo' = IdsOf(view) \ IdsOf(old)
       \/ loop = "view_only" /\ loop' = "both" /\ todo' = IdsOf(old) \cap IdsOf(view)
       \/ loop = "both" /\ loop' = "done" /\ todo' = {}
    /\ UNCHANGED <<input, pair, result>>

Next ==
    \/ \E x \in Ids : VisitOneSided(x) \/ VisitInflated(x) \/ VisitPair(x)
    \/ CompareColumn \/ EndPair \/ NextLoop

Spec == Init /\ [][Next]_vars

\* local_reconcile.py's exit status, by which a script learns the outcome; an
\* inflated identity does not count.
ExitStatus ==
    IF result.old_only > 0 \/ result.view_only > 0 \/ result.mismatched > 0 THEN 1 ELSE 0

-----------------------------------------------------------------------------
\* The reference: what the report is about, read off the two tables.
Inflated == {x \in IdsOf(old) : Cardinality(RowsOf(view, x)) > 1}
Shown(x, c) == view[First(view, x)].cells[c]
Kept(x, c) == IF c \in retired /\ Shown(x, c) = None THEN None
              ELSE old[First(old, x)].cells[c]
Alike(x) == \A c \in Columns : Shown(x, c) = Kept(x, c)

\* FR-009: every identity of either table is counted exactly once, as matched,
\* mismatched, one-sided or (by the flag alone) inflated, and "matched" are
\* those whose row the view shows as the old table has it, a retired column's
\* NULL apart.  The standalone check exits with 0 exactly when the two sides have
\* the same identities and those the view shows once are alike: a view that
\* multiplies rows, and nothing else, passes unnoticed.
ReportIsExact ==
    loop = "done" =>
        LET pairs == (IdsOf(old) \cap IdsOf(view)) \ Inflated
        IN  /\ result.matched = Cardinality({x \in pairs : Alike(x)})
            /\ result.mismatched = Cardinality({x \in pairs : ~Alike(x)})
            /\ result.inflation <=> Inflated # {}
            /\ Cardinality(IdsOf(old) \cup IdsOf(view)) =
                 result.matched + result.mismatched + result.old_only
                 + result.view_only + Cardinality(Inflated)
            /\ ExitStatus = 0 <=> /\ IdsOf(old) = IdsOf(view)
                                  /\ \A x \in pairs : Alike(x)

\* The counts and the detail agree: below the cap every discrepancy counted has
\* its entries, one for each column that differs, and no matched identity has
\* any; the cap cuts off entries and never counts.
DetailExplainsCounts ==
    loop = "done" =>
        LET Named(kind) == {e.id : e \in {d \in Elements(result.detail) : d.kind = kind}}
        IN  /\ Len(result.detail) <= Cap
            /\ Len(result.detail) < Cap =>
                 /\ Cardinality(Named("old_only")) = result.old_only
                 /\ Cardinality(Named("view_only")) = result.view_only
                 /\ Cardinality(Named("differs")) = result.mismatched
                 /\ Named("inflated") = Inflated
                 /\ \A x \in Named("differs"), c \in Columns :
                        Shown(x, c) # Kept(x, c) <=> Entry(x, "differs", c) \in Elements(result.detail)
            /\ result.detail = <<>> <=>
                 Cap = 0 \/ result.matched = Cardinality(IdsOf(old) \cup IdsOf(view))
=============================================================================
