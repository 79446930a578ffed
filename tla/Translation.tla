---------------------------- MODULE Translation -----------------------------
(***************************************************************************)
(* One enum translation table and the two things that apply it: a mapping, *)
(* whose runs look each source value up in the version its link names      *)
(* (mapping_engine.py), and a compatibility view, into whose SQL the       *)
(* entries of the version are written when it is saved (ddl_generator.py). *)
(* Links are drawn in the browser (MappingCanvas.tsx, MappingEditor.tsx),  *)
(* which offers the current version of a table as it last fetched it.      *)
(*                                                                         *)
(* A version is named by its number, 0 where none is named.  The numbering *)
(* of concurrent saves is MappingVersions' protocol, without a config.  A  *)
(* view's source columns are named like the legacy columns.                *)
(***************************************************************************)
EXTENDS Integers, Sequences, SequencesExt

CONSTANTS
    Edges,         \* what the canvas can connect: a source with a target column
    Captured,      \* legacy columns of the view
    Codes, Translations,   \* texts, and what they are translated to
    SourceValues,  \* what a source cell may hold, NULL apart
    Null,
    Text(_),       \* str() of a source value, in Python
    Cast(_),       \* its CAST AS NVARCHAR(4000), in SQL Server
    AsLegacy(_, _),  \* the CAST of a value to a legacy column's type: the value, a
                     \* part of it, or the error that ends the view's SELECT
    Fold(_),       \* texts the database's collation calls equal have one Fold
    MaxVersions,   \* bound on the versions of the table
    EntryLists,    \* the entries callers send: sequences of [code, value]
    MaxMappings    \* bound on the column_mappings of a view

ASSUME TranslationAssumption ==
    /\ MaxVersions \in Nat \ {0} /\ MaxMappings \in Nat
    /\ EntryLists \subseteq Seq([code : Codes, value : Translations])
    /\ Null \notin SourceValues
    /\ \A v \in SourceValues : {Text(v), Cast(v)} \subseteq Codes

VARIABLES
    versions,   \* the saved versions, the last one current
    page,       \* the links drawn in the mapping editor
    mapping,    \* the links last saved
    answer,     \* what the page was answered when it saved them
    view        \* the view version last saved: its column_mappings, SQL and rules

vars == <<versions, page, mapping, answer, view>>

BoundedSeqs(S, n) == UNION {[1..k -> S] : k \in 0..n}
Pins == 0..MaxVersions
NoLink == -1   \* of an edge that is not drawn; 0 of a link without translation
NoLinks == [c \in Edges |-> NoLink]
\* Of a retired column nothing else is looked at.
ColumnMapping ==
    {m \in [column : Captured, retired : BOOLEAN, pin : Pins] : m.retired => m.pin = 0}
Blank == [kind |-> "null"]
NoView == [mappings |-> <<>>, sql |-> [c \in Captured |-> Blank], rules |-> {}]

-----------------------------------------------------------------------------
(* The table: EnumTranslationService.                                       *)

\* Mutant: whole entries are compared, not their codes.
ValidEntries(entries) == \A i, j \in DOMAIN entries : entries[i] = entries[j] => i = j
\* _validate_entries: no code twice; codes are compared as texts, not folded.
Valid(entries) == \A i, j \in DOMAIN entries : entries[i].code = entries[j].code => i = j

Init ==
    /\ \E entries \in EntryLists : Valid(entries) /\ versions = <<entries>>
    /\ page = NoLinks
    /\ mapping = NoLinks
    /\ answer = "none"
    /\ view = NoView

SaveEntries(entries) ==
    /\ Len(versions) < MaxVersions
    /\ Valid(entries)
    /\ versions' = Append(versions, entries)
    /\ UNCHANGED <<page, mapping, answer, view>>

\* Mutant: the entries of the version that is current now.
EntriesOfCurrent(n) == Last(versions)
\* A version that is not found has no entries.
EntriesOf(n) == IF n \in DOMAIN versions THEN versions[n] ELSE <<>>

-----------------------------------------------------------------------------
(* A run: load_translation_entries and translate_row.                       *)

Flagged == [translated |-> FALSE]
Written(x) == [translated |-> TRUE, value |-> x]

\* A dict of the entries: of two with one code the last one counts.
Translate(entries, v) ==
    LET at == SelectLastInSeq(entries, LAMBDA e : v # Null /\ e.code = Text(v))
    IN  IF at = 0 THEN Flagged ELSE Written(entries[at].value)

RunWrites(pin, v) == IF pin = 0 THEN Written(v) ELSE Translate(EntriesOf(pin), v)

-----------------------------------------------------------------------------
(* A view: _select_list with _enum_case_expr, and what SQL Server makes of   *)
(* the CASE: the first WHEN whose text is equal under the collation.        *)

\* Mutant: no mapping entry is looked at but the first of a column.
FirstMapping(p, c) == p[SelectInSeq(p, LAMBDA m : m.column = c)]
MappingOf(p, c) == p[SelectLastInSeq(p, LAMBDA m : m.column = c)]

Raw == [kind |-> "raw"]
Case(entries) == [kind |-> "case", when |-> entries]

\* What an item of the SELECT list casts to the legacy column's type.
Expression(m) ==
    IF m.retired THEN Blank
    ELSE IF m.pin = 0 THEN Raw
    ELSE IF EntriesOf(m.pin) = <<>> THEN Blank ELSE Case(EntriesOf(m.pin))

\* Mutant: ELSE keeps the code.
CaseElseCode(entries, v) ==
    LET at == SelectInSeq(entries, LAMBDA e : v # Null /\ Fold(e.code) = Fold(Cast(v)))
    IN  IF at = 0 THEN v ELSE entries[at].value
CaseShows(entries, v) ==
    LET at == SelectInSeq(entries, LAMBDA e : v # Null /\ Fold(e.code) = Fold(Cast(v)))
    IN  IF at = 0 THEN Null ELSE entries[at].value

CastTo(c, x) == IF x = Null THEN Null ELSE AsLegacy(c, x)

ViewShows(c, v) ==
    LET e == view.sql[c]
    IN  CastTo(c, CASE e.kind = "null" -> Null
                    [] e.kind = "raw" -> v
                    [] e.kind = "case" -> CaseShows(e.when, v))

\* Mutant: one rule for a column, that of its first entry.
RulesOfFirst(p) ==
    {[entry |-> 1, column |-> c, retired |-> FirstMapping(p, c).retired] : c \in Captured}
\* _write_column_rules: one rule for each entry.
RulesOf(p) ==
    {[entry |-> i, column |-> p[i].column, retired |-> p[i].retired] : i \in DOMAIN p}

\* validate_column_mappings: no captured column is missing; one mapped twice passes.
\* A payload it refuses for an unknown column, a status or a missing source is not
\* made of ColumnMappings.
Covers(p) == \A c \in Captured : \E i \in DOMAIN p : p[i].column = c

\* validate_enum_references and _validate_column_links.
Exists(n) == n \in 0..Len(versions)

\* create_view_definition or save_new_version, of what a caller sends.
SaveView(p) ==
    /\ Covers(p) /\ \A i \in DOMAIN p : Exists(p[i].pin)
    /\ view' = [mappings |-> p, sql |-> [c \in Captured |-> Expression(MappingOf(p, c))],
                rules |-> RulesOf(p)]
    /\ UNCHANGED <<versions, page, mapping, answer>>

-----------------------------------------------------------------------------
(* The mapping editor.                                                       *)

\* edgesToLinks: the canvas rebuilds all links from its edges, which know no
\* translations.
Rebuilt(edges) == [c \in Edges |-> IF c \in edges THEN 0 ELSE NoLink]
Linked == {c \in Edges : page[c] # NoLink}

\* onConnect: of an edge that is there already too, which addEdge leaves as it is.
Connect(c) ==
    /\ page' = Rebuilt(Linked \cup {c})
    /\ UNCHANGED <<versions, mapping, answer, view>>

\* handleEdgesChange, of the edges that are selected.
Disconnect(edges) ==
    /\ edges # {}
    /\ page' = Rebuilt(Linked \ edges)
    /\ UNCHANGED <<versions, mapping, answer, view>>

\* Mutant: the other links are rebuilt here too.
AttachRebuilding(c, pin) ==
    /\ c \in Linked
    /\ page' = [Rebuilt(Linked) EXCEPT ![c] = pin]
    /\ UNCHANGED <<versions, mapping, answer, view>>
\* setLinkTranslation.  The selection offers what was the current version when
\* the list of tables was fetched, which any version may have been.
Attach(c, pin) ==
    /\ c \in Linked
    /\ page' = [page EXCEPT ![c] = pin]
    /\ UNCHANGED <<versions, mapping, answer, view>>

\* Mutant: the links are stored without what the column cannot store.
SaveMappingUnpinned ==
    /\ Linked # {}
    /\ \A c \in Linked : Exists(page[c])
    /\ answer' = "saved" /\ mapping' = Rebuilt(Linked)
    /\ UNCHANGED <<versions, page, view>>
\* The links become the mapping's new version, unless one names a translation: its
\* id is a uuid.UUID, which the JSON column cannot store, and the INSERT fails.
SaveMapping ==
    /\ Linked # {}
    /\ \A c \in Linked : Exists(page[c])
    /\ IF \E c \in Linked : page[c] > 0
       THEN answer' = "failed" /\ UNCHANGED mapping
       ELSE answer' = "saved" /\ mapping' = page
    /\ UNCHANGED <<versions, page, view>>

\* Opening the mapping again starts from an empty canvas.
OpenEditor ==
    /\ page' = NoLinks
    /\ answer' = "none"
    /\ UNCHANGED <<versions, mapping, view>>

Next ==
    \/ \E entries \in EntryLists : SaveEntries(entries)
    \/ \E p \in BoundedSeqs(ColumnMapping, MaxMappings) : SaveView(p)
    \/ \E c \in Edges : Connect(c) \/ \E pin \in 0..Len(versions) : Attach(c, pin)
    \/ \E edges \in SUBSET Linked : Disconnect(edges)
    \/ SaveMapping \/ OpenEditor

Spec == Init /\ [][Next]_vars

-----------------------------------------------------------------------------
Pinned(links) == links \in [Edges -> {NoLink} \cup 0..Len(versions)]

TypeOK ==
    /\ versions \in Seq(EntryLists) /\ Len(versions) <= MaxVersions
    /\ Pinned(page) /\ Pinned(mapping)
    /\ answer \in {"none", "saved", "failed"}
    /\ \A i \in DOMAIN view.mappings : view.mappings[i].pin \in 0..Len(versions)

Saved == view # NoView
Cells == SourceValues \cup {Null}

\* A link and a column of the view that name the same version translate a value
\* alike, but for the CAST to the legacy column's type around the view's: the view
\* shows so cast what the run writes, and NULL what it flags; unless the database
\* writes the value otherwise than Python, or calls its code equal to another code's.
RunAndViewAgree ==
    Saved => \A c \in Captured, v \in Cells :
        LET m == MappingOf(view.mappings, c)
            run == RunWrites(m.pin, v)
            alike == {e \in Range(EntriesOf(m.pin)) : v # Null /\ Fold(e.code) = Fold(Cast(v))}
        IN  /\ ~m.retired
            /\ v # Null => Text(v) = Cast(v) /\ \A e \in alike : e.code = Text(v)
            => ViewShows(c, v) = CastTo(c, IF run.translated THEN run.value ELSE Null)

\* The translation policy: a code without an entry is never copied, guessed or
\* defaulted, neither by a run nor by a view, which casts an entry's value only.
NoCodeIsGuessed ==
    /\ \A n \in DOMAIN versions, v \in Cells :
        LET run == RunWrites(n, v)
        IN  run.translated => [code |-> Text(v), value |-> run.value] \in Range(versions[n])
    /\ Saved => \A c \in Captured, v \in Cells :
        LET m == MappingOf(view.mappings, c)
        IN  m.pin > 0 /\ ViewShows(c, v) # Null =>
                \E e \in Range(versions[m.pin]) :
                    Fold(e.code) = Fold(Cast(v)) /\ ViewShows(c, v) = CastTo(c, e.value)

\* A link that names a version, and a saved view, go on translating as they do,
\* whatever is saved for the table afterwards.
TranslationsNeverDrift ==
    [][/\ \A n \in DOMAIN versions, v \in Cells : RunWrites(n, v)' = RunWrites(n, v)
       /\ view' = view => \A c \in Captured, v \in Cells :
            Saved => ViewShows(c, v)' = ViewShows(c, v)]_vars

\* The rules, by which a reconciliation forgives a view's NULL, fit its SQL: a
\* retired column is forgiven, and one that is forgiven shows nothing but NULL,
\* so an untranslated code is reported; unless a payload maps the column twice.
RulesForgiveNulls ==
    Saved => \A c \in Captured :
        LET forgiven == \E r \in view.rules : r.column = c /\ r.retired
            repeated == \E i, j \in DOMAIN view.mappings : i # j /\
                            {view.mappings[i].column, view.mappings[j].column} = {c}
        IN  /\ MappingOf(view.mappings, c).retired => forgiven
            /\ forgiven /\ ~repeated => \A v \in Cells : ViewShows(c, v) = Null

\* An attached translation is taken off a link that stays only by the link's own
\* selection, which changes no other link, or by a canvas that is drawn on, which
\* takes off all of them: none is lost among others that are kept.
OnlyRedrawingUnpins ==
    [][\A c \in Edges : page[c] > 0 /\ page'[c] = 0 =>
        \/ \A d \in Edges : page'[d] <= 0
        \/ \A d \in Edges \ {c} : page'[d] = page[d]]_vars

\* What is stored is what the page shows, none of whose links has a translation; a
\* page with one is refused as a whole.  GUIDE.md: "attach it to the relevant link",
\* then "Save the mapping": what it describes is never stored.
SavesStoreWhatIsShown ==
    [][/\ mapping' # mapping => mapping' = page /\ \A c \in Edges : page[c] <= 0
       /\ answer # answer' /\ answer' = "failed" =>
            mapping' = mapping /\ \E c \in Edges : page[c] > 0]_vars
=============================================================================
