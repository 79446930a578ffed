----------------------------- MODULE XmlLookup ------------------------------
(***************************************************************************)
(* The XML fallback: an operator's panel (XmlLookupPanel.tsx) looks a      *)
(* column of one document up by the current version of a field mapping,    *)
(* and when the column has no path yet, merges one into the copy of the    *)
(* mapping that the page has fetched, saves that list as a new version and *)
(* looks up again.  The server (api/xml_mappings.py) numbers the version;  *)
(* the lookup (xml_lookup_service.py) is two statements on the document    *)
(* table, which belongs to others and changes in between.                  *)
(*                                                                         *)
(* A field_paths list is a sequence of [column, path]; a document maps     *)
(* paths to values, NoValue where the XPath finds nothing.                 *)
(***************************************************************************)
EXTENDS Integers, Sequences, SequencesExt

CONSTANTS Pages, Columns, Paths, Values, NoValue, NoDocument,
          MaxVersions,   \* bound on the versions of the mapping
          MaxInitial,    \* bound on the length of the list it is created with
          MaxChanges     \* bound on changes of the document

ASSUME XmlAssumption == MaxVersions \in Nat \ {0} /\ {MaxInitial, MaxChanges} \subseteq Nat

VARIABLES
    versions,   \* the mapping's versions, the last one current
    saved,      \* for the properties: the column and copy each version was saved from
    document,   \* the document of the identity that is looked up, or NoDocument
    changes,
    page,       \* of each page: its form, its copy of the mapping, its request
    witness     \* for the properties: of each page, the documents since its lookup began

vars == <<versions, saved, document, changes, page, witness>>

Entry == [column : Columns, path : Paths]
Documents == [Paths -> Values \cup {NoValue}]

\* find_field_path: the first entry of the column, NoValue if there is none.
FindFieldPath(list, c) ==
    LET at == SelectInSeq(list, LAMBDA e : e.column = c)
    IN  IF at = 0 THEN NoValue ELSE list[at].path

\* A page: its phase ("idle", "loading", "checking", "extracting", "posting" or
\* "numbered"), the column and path in its form, the version its copy is of, the
\* list it saves, what that was merged into and its number, the version a lookup
\* reads, and the last answer with its value.
Form(phase, c, path, copy) ==
    [phase |-> phase, column |-> c, path |-> path, copy |-> copy, list |-> <<>>, base |-> 0,
     number |-> 0, read |-> 0, answer |-> "none", value |-> NoValue]

\* create_xml_field_mapping stores the caller's list as version 1, duplicates
\* included; the pages have fetched it.
Init ==
    /\ \E n \in 0..MaxInitial : \E list \in [1..n -> Entry] : versions = <<list>>
    /\ saved = <<[column |-> NoValue, path |-> NoValue, copy |-> 0]>>
    /\ document \in Documents \cup {NoDocument} /\ changes = 0
    /\ page = [p \in Pages |-> Form("idle", NoValue, NoValue, 1)]
    /\ witness = [p \in Pages |-> {}]

Current == Len(versions)
In(p, ph) == page[p].phase = ph
Respond(p, answer, value) ==
    /\ page' = [page EXCEPT ![p] = [Form("idle", NoValue, NoValue, page[p].copy)
                                        EXCEPT !.answer = answer, !.value = value]]
    /\ witness' = [witness EXCEPT ![p] = {}]

\* The query cache fetches the mappings again: when its copy is older than
\* staleTime and the page gets the focus, but not because of a save.
Refetch(p) ==
    /\ page' = [page EXCEPT ![p].copy = Current]
    /\ UNCHANGED <<versions, saved, document, changes, witness>>

-----------------------------------------------------------------------------
(* run_xml_lookup and lookup_xml_field.                                     *)

BeginLookup(p) == witness' = [witness EXCEPT ![p] = {document}]

Lookup(p, c) ==
    /\ In(p, "idle")
    /\ page' = [page EXCEPT ![p] = Form("loading", c, NoValue, page[p].copy)]
    /\ BeginLookup(p)
    /\ UNCHANGED <<versions, saved, document, changes>>

LoadPaths(p) ==
    /\ In(p, "loading")
    /\ IF FindFieldPath(versions[Current], page[p].column) = NoValue
       THEN Respond(p, "not_configured", NoValue)
       ELSE /\ page' = [page EXCEPT ![p].phase = "checking", ![p].read = Current]
            /\ UNCHANGED witness
    /\ UNCHANGED <<versions, saved, document, changes>>

\* The path in use, of the version that was current when the lookup began.
\* Mutant: of the version that is current now.
PathNow(p) == FindFieldPath(versions[Current], page[p].column)
PathInUse(p) == FindFieldPath(versions[page[p].read], page[p].column)

CheckExists(p) ==
    /\ In(p, "checking")
    /\ IF document = NoDocument
       THEN Respond(p, "document_not_found", NoValue)
       ELSE page' = [page EXCEPT ![p].phase = "extracting"] /\ UNCHANGED witness
    /\ UNCHANGED <<versions, saved, document, changes>>

\* No row and no value are the same None to scalar().
Extract(p) ==
    LET value == IF document = NoDocument THEN NoValue ELSE document[PathInUse(p)]
    IN  /\ In(p, "extracting")
        /\ Respond(p, IF value = NoValue THEN "field_missing" ELSE "found", value)
        /\ UNCHANGED <<versions, saved, document, changes>>

-----------------------------------------------------------------------------
(* addFieldPathMutation and create_xml_field_mapping_version.               *)

\* Mutant: the list is replaced by the new entry.
MergeNothing(list, c, path) == <<[column |-> c, path |-> path]>>
\* Mutant: the new entry is appended, an old one of the column stays before it.
MergeAppending(list, c, path) == Append(list, [column |-> c, path |-> path])

\* filter and spread: the other columns' entries, in their order, then the new one.
Ascending(S) == CHOOSE f \in [1..Cardinality(S) -> S] :
                    \A i, j \in 1..Cardinality(S) : i < j => f[i] < f[j]
Merge(list, c, path) ==
    LET others == Ascending({i \in DOMAIN list : list[i].column # c})
    IN  Append([k \in DOMAIN others |-> list[others[k]]], [column |-> c, path |-> path])

\* The form is shown after "no path configured"; the column may be edited.
AddPath(p, c, path) ==
    /\ In(p, "idle") /\ page[p].answer = "not_configured"
    /\ page' = [page EXCEPT ![p] = [Form("posting", c, path, page[p].copy) EXCEPT
                    !.list = Merge(versions[page[p].copy], c, path), !.base = page[p].copy]]
    /\ UNCHANGED <<versions, saved, document, changes, witness>>

ReadMaxNumber(p) ==
    /\ In(p, "posting") /\ Current < MaxVersions
    /\ page' = [page EXCEPT ![p].phase = "numbered", ![p].number = Current + 1]
    /\ UNCHANGED <<versions, saved, document, changes, witness>>

\* INSERT, pointer and COMMIT; on success the panel looks up at once.
StoreVersion(p) ==
    /\ In(p, "numbered")
    /\ page[p].number = Current + 1
    /\ versions' = Append(versions, page[p].list)
    /\ saved' = Append(saved, [column |-> page[p].column, path |-> page[p].path,
                               copy |-> page[p].base])
    /\ page' = [page EXCEPT ![p].phase = "loading", ![p].list = <<>>, ![p].base = 0]
    /\ BeginLookup(p)
    /\ UNCHANGED <<document, changes>>

NumberTaken(p) ==
    /\ In(p, "numbered")
    /\ page[p].number <= Current
    /\ Respond(p, "error", NoValue)
    /\ UNCHANGED <<versions, saved, document, changes>>

\* The document's owner stores, changes or deletes it.
Change(d) ==
    /\ changes < MaxChanges /\ changes' = changes + 1
    /\ d # document /\ document' = d
    /\ witness' = [p \in Pages |-> IF page[p].phase \in {"loading", "checking", "extracting"}
                                   THEN witness[p] \cup {d} ELSE witness[p]]
    /\ UNCHANGED <<versions, saved, page>>

Next ==
    \/ \E p \in Pages :
        \/ Refetch(p) \/ LoadPaths(p) \/ CheckExists(p) \/ Extract(p)
        \/ ReadMaxNumber(p) \/ StoreVersion(p) \/ NumberTaken(p)
        \/ \E c \in Columns : Lookup(p, c) \/ \E path \in Paths : AddPath(p, c, path)
    \/ \E d \in Documents \cup {NoDocument} : Change(d)

Spec == Init /\ [][Next]_vars

-----------------------------------------------------------------------------
\* FR-012: the answer was true at some moment of the request, by the version
\* current when it began, except that a document deleted between the two
\* statements is reported as a missing field although it has none any more.
AnswersAreTrue ==
    [][\A p \in Pages :
        LET path == FindFieldPath(versions[page[p].read], page[p].column)
            seen == {d \in witness[p] : d # NoDocument}
            gone == NoDocument \in witness[p]
            absent == \E d \in seen : d[path] = NoValue
        IN  page[p].phase \in {"checking", "extracting"} /\ page'[p].phase = "idle" =>
            CASE page'[p].answer = "found" -> \E d \in seen : d[path] = page'[p].value
              [] page'[p].answer = "document_not_found" -> gone
              [] page'[p].answer = "field_missing" -> absent \/ (gone /\ seen # {})]_vars

\* The lookup that follows a save uses the path just saved, unless somebody has
\* saved in between; it never uses an older version than the one saved.
SavedPathIsUsed ==
    \A p \in Pages :
        page[p].phase \in {"checking", "extracting"} /\ page[p].path # NoValue =>
            /\ page[p].read >= page[p].number
            /\ page[p].read = page[p].number => PathInUse(p) = page[p].path

\* A save changes no other column's path if the page had fetched the version it
\* replaces: only a stale copy loses paths.
OnlyStaleCopiesLosePaths ==
    \A v \in 2..Current : saved[v].copy = v - 1 =>
        \A c \in Columns \ {saved[v].column} :
            FindFieldPath(versions[v], c) = FindFieldPath(versions[v - 1], c)

\* The panel's claim: a save "merges the new entry into what's already
\* configured instead of clobbering every previously-added column's path".
AddedPathsSurvive ==
    \A v \in 2..Current : \A w \in v..Current :
        (\A u \in (v + 1)..w : saved[u].column # saved[v].column) =>
            FindFieldPath(versions[w], saved[v].column) = saved[v].path
=============================================================================
