----------------------------- MODULE MappingRun -----------------------------
(***************************************************************************)
(* run_mapping for column mappings: requests that dry-run or execute the   *)
(* current version of one mapping, while other requests save new versions  *)
(* of it (VersionHistory, which MappingVersions implements) and while the  *)
(* owners of the source and target databases alter their tables.  A run    *)
(* crosses four transactions: reads of the metadata store, the source's    *)
(* SELECT, the target's inserts with one commit, and at last the run_log   *)
(* entry in the metadata store.                                            *)
(*                                                                         *)
(* Every member of Runs is one request.  The links of one version have     *)
(* distinct target columns.                                                *)
(***************************************************************************)
EXTENDS Integers, FiniteSets, Sequences

CONSTANTS Runs,         \* requests
          Rows,         \* rows of the source table
          SourceCols, TargetCols,   \* columns the two tables have or had
          Value,        \* Value[row][column] of the source table
          Entries,      \* the translation table: a function from codes
          Versions,     \* column_links a save may store: sets of links
          Production,   \* whether either connection is tagged "prod"
          KeyedTarget,  \* whether a key of the target admits a row only once
          Alterable,    \* columns that may vanish or return while runs are on
          MaxVersion,   \* bound on the versions saved
          None          \* SQL NULL, and what a column that is missing yields

Link == [source : SourceCols, target : TargetCols, coded : BOOLEAN]

ASSUME RunAssumption ==
    /\ Versions \subseteq SUBSET Link
    /\ IsFiniteSet(Rows)
    /\ {Production, KeyedTarget} \subseteq BOOLEAN
    /\ Alterable \subseteq SourceCols \cup TargetCols
    /\ MaxVersion \in Nat

VARIABLES
    history,      \* the saved versions; the last is current_version_id
    sourceNow, targetNow,   \* the columns the tables have
    phase,        \* where each run is, or the answer it gave
    request,      \* its mode, its confirm_production, the version it names
    version,      \* the version number it loaded
    columns,      \* the source columns its SELECT reflected
    todo,         \* the rows its loop has not reached
    counts,       \* OrchestrationResult
    pending,      \* target rows inserted and not committed
    target,       \* committed target rows, each naming the run that wrote it
    log,          \* run_log entries
    found         \* for the properties: the columns a run's drift check found

tables == <<sourceNow, targetNow>>
vars == <<history, tables, phase, request, version, columns, todo, counts,
          pending, target, log, found>>

Saved == INSTANCE VersionHistory WITH
             Links <- Versions, Configs <- {}, NoConfig <- None

Modes == {"dry_run", "execute"}
Request == [mode : Modes, confirmed : BOOLEAN]
Answers == {"logged", "needs_confirmation", "schema_drift", "constraint_violation", "failed"}
Phases == {"idle", "source_check", "target_check", "connect", "rows", "committed"} \cup Answers
TargetRow == [run : Runs, row : Rows]
LogEntry == [run : Runs, version : Nat, mode : Modes, read : Nat, written : Nat,
             flagged : Nat, production_confirmed : BOOLEAN]

TypeOK ==
    /\ history \in Seq(Saved!Entry)
    /\ sourceNow \subseteq SourceCols /\ targetNow \subseteq TargetCols
    /\ phase \in [Runs -> Phases]
    /\ request \in [Runs -> Request]
    /\ version \in [Runs -> Nat]
    /\ columns \in [Runs -> SUBSET SourceCols]
    /\ todo \in [Runs -> SUBSET Rows]
    /\ counts \in [Runs -> [read : Nat, written : Nat, flagged : Nat]]
    /\ pending \in [Runs -> SUBSET TargetRow]
    /\ target \subseteq TargetRow
    /\ log \subseteq LogEntry
    /\ found \in [Runs -> [source : SUBSET SourceCols, target : SUBSET TargetCols]]

Init ==
    /\ \E links \in Versions : history = <<[links |-> links, config |-> None]>>
    /\ sourceNow = SourceCols /\ targetNow = TargetCols
    /\ phase = [r \in Runs |-> "idle"]
    /\ request = [r \in Runs |-> [mode |-> "dry_run", confirmed |-> FALSE]]
    /\ version = [r \in Runs |-> 0]
    /\ columns = [r \in Runs |-> {}]
    /\ todo = [r \in Runs |-> {}]
    /\ counts = [r \in Runs |-> [read |-> 0, written |-> 0, flagged |-> 0]]
    /\ pending = [r \in Runs |-> {}]
    /\ target = {}
    /\ log = {}
    /\ found = [r \in Runs |-> [source |-> {}, target |-> {}]]

-----------------------------------------------------------------------------
LinksOf(r) == history[version[r]].links
Needs(r, side) == {IF side = "source" THEN l.source ELSE l.target : l \in LinksOf(r)}

\* translate_row: a column the row lacks reads as None; a coded column whose
\* value is None or no code makes the whole row untranslatable.
Cell(x, column, present) == IF column \in present THEN Value[x][column] ELSE None
Untranslatable(x, links, present) ==
    \E l \in links : l.coded /\ Cell(x, l.source, present) \notin DOMAIN Entries

-----------------------------------------------------------------------------
\* Mutant: confirm_production is not looked at.
LoadUnconfirmed(r, m, confirmed) ==
    /\ phase[r] = "idle"
    /\ request' = [request EXCEPT ![r] = [mode |-> m, confirmed |-> confirmed]]
    /\ version' = [version EXCEPT ![r] = Len(history)]
    /\ phase' = [phase EXCEPT ![r] = IF m = "dry_run" THEN "connect" ELSE "source_check"]
    /\ UNCHANGED <<history, tables, columns, todo, counts, pending, target, log, found>>

\* Definition, current version and connections are loaded; the version the
\* request may name is not among what the handler passes on.  An execution that
\* touches production needs confirm_production.
Load(r, m, confirmed) ==
    /\ phase[r] = "idle"
    /\ request' = [request EXCEPT ![r] = [mode |-> m, confirmed |-> confirmed]]
    /\ version' = [version EXCEPT ![r] = Len(history)]
    /\ phase' = [phase EXCEPT ![r] =
                    IF m = "dry_run" THEN "connect"
                    ELSE IF Production /\ ~confirmed THEN "needs_confirmation"
                    ELSE "source_check"]
    /\ UNCHANGED <<history, tables, columns, todo, counts, pending, target, log, found>>

\* Mutant: the source is introspected and its drift not reported.
CheckSourceUnreported(r) ==
    /\ phase[r] = "source_check"
    /\ found' = [found EXCEPT ![r].source = sourceNow]
    /\ phase' = [phase EXCEPT ![r] = "target_check"]
    /\ UNCHANGED <<history, tables, request, version, columns, todo, counts, pending, target, log>>

\* _check_schema_drift introspects the source, then the target, and reports
\* what is missing in either; it finds the drift of the moment it looks.
CheckSource(r) ==
    /\ phase[r] = "source_check"
    /\ found' = [found EXCEPT ![r].source = sourceNow]
    /\ phase' = [phase EXCEPT ![r] =
                    IF Needs(r, "source") \subseteq sourceNow THEN "target_check"
                    ELSE "schema_drift"]
    /\ UNCHANGED <<history, tables, request, version, columns, todo, counts, pending, target, log>>

CheckTarget(r) ==
    /\ phase[r] = "target_check"
    /\ found' = [found EXCEPT ![r].target = targetNow]
    /\ phase' = [phase EXCEPT ![r] =
                    IF Needs(r, "target") \subseteq targetNow THEN "connect"
                    ELSE "schema_drift"]
    /\ UNCHANGED <<history, tables, request, version, columns, todo, counts, pending, target, log>>

\* New connections, the source reflected as it now is, and all its rows read.
ReadSource(r) ==
    /\ phase[r] = "connect"
    /\ phase' = [phase EXCEPT ![r] = "rows"]
    /\ columns' = [columns EXCEPT ![r] = sourceNow]
    /\ todo' = [todo EXCEPT ![r] = Rows]
    /\ UNCHANGED <<history, tables, request, version, counts, pending, target, log, found>>

\* Mutant: a flagged row is not counted as read.
SkipRowUncounted(r, x) ==
    /\ phase[r] = "rows"
    /\ x \in todo[r]
    /\ Untranslatable(x, LinksOf(r), columns[r])
    /\ todo' = [todo EXCEPT ![r] = @ \ {x}]
    /\ counts' = [counts EXCEPT ![r].flagged = @ + 1]
    /\ UNCHANGED <<history, tables, phase, request, version, columns, pending, target, log, found>>

SkipRow(r, x) ==
    /\ phase[r] = "rows"
    /\ x \in todo[r]
    /\ Untranslatable(x, LinksOf(r), columns[r])
    /\ todo' = [todo EXCEPT ![r] = @ \ {x}]
    /\ counts' = [counts EXCEPT ![r].read = @ + 1, ![r].flagged = @ + 1]
    /\ UNCHANGED <<history, tables, phase, request, version, columns, pending, target, log, found>>

\* A dry run only counts the row; an execution inserts it, which waits for and
\* then fails on a row with the same key.
KeyHeld(r, x) ==
    KeyedTarget /\ \E s \in Runs \ {r} : \E t \in pending[s] : t.row = x
KeyTaken(x) == KeyedTarget /\ \E t \in target : t.row = x

\* Mutant: every row is committed as it is inserted.
WriteRowAutocommit(r, x) ==
    /\ phase[r] = "rows"
    /\ x \in todo[r]
    /\ ~Untranslatable(x, LinksOf(r), columns[r])
    /\ request[r].mode = "execute"
    /\ Needs(r, "target") \subseteq targetNow
    /\ ~KeyHeld(r, x) /\ ~KeyTaken(x)
    /\ target' = target \cup {[run |-> r, row |-> x]}
    /\ todo' = [todo EXCEPT ![r] = @ \ {x}]
    /\ counts' = [counts EXCEPT ![r].read = @ + 1, ![r].written = @ + 1]
    /\ UNCHANGED <<history, tables, phase, request, version, columns, pending, log, found>>

WriteRow(r, x) ==
    /\ phase[r] = "rows"
    /\ x \in todo[r]
    /\ ~Untranslatable(x, LinksOf(r), columns[r])
    /\ \/ request[r].mode = "dry_run" /\ UNCHANGED pending
       \/ /\ request[r].mode = "execute"
          /\ Needs(r, "target") \subseteq targetNow
          /\ ~KeyHeld(r, x) /\ ~KeyTaken(x)
          /\ pending' = [pending EXCEPT ![r] = @ \cup {[run |-> r, row |-> x]}]
    /\ todo' = [todo EXCEPT ![r] = @ \ {x}]
    /\ counts' = [counts EXCEPT ![r].read = @ + 1, ![r].written = @ + 1]
    /\ UNCHANGED <<history, tables, phase, request, version, columns, target, log, found>>

\* The error paths that leave the `with` block: the target rolls back.
Abandon(r, answer) ==
    /\ phase' = [phase EXCEPT ![r] = answer]
    /\ pending' = [pending EXCEPT ![r] = {}]
    /\ UNCHANGED <<history, tables, request, version, columns, todo, counts, target, log, found>>

\* IntegrityError: the key, or a constraint the model does not know.
RejectRow(r, x) ==
    /\ phase[r] = "rows" /\ request[r].mode = "execute"
    /\ x \in todo[r]
    /\ ~Untranslatable(x, LinksOf(r), columns[r])
    /\ ~KeyHeld(r, x)
    /\ Abandon(r, "constraint_violation")

\* Any other database error, a column missing at the insert, a deadlock the
\* server broke, or the death of the worker.  After the target's commit this
\* leaves the target as it is and no entry in the log.
Fail(r) ==
    /\ phase[r] \in {"source_check", "target_check", "connect", "rows", "committed"}
    /\ Abandon(r, "failed")

\* The loop is over: one commit publishes every row an execution inserted.
Finish(r) ==
    /\ phase[r] = "rows"
    /\ todo[r] = {}
    /\ phase' = [phase EXCEPT ![r] = "committed"]
    /\ target' = target \cup pending[r]
    /\ pending' = [pending EXCEPT ![r] = {}]
    /\ UNCHANGED <<history, tables, request, version, columns, todo, counts, log, found>>

SaveLog(r) ==
    /\ phase[r] = "committed"
    /\ phase' = [phase EXCEPT ![r] = "logged"]
    /\ log' = log \cup
         {[run |-> r, version |-> version[r], mode |-> request[r].mode,
           read |-> counts[r].read,
           written |-> IF request[r].mode = "dry_run" THEN 0 ELSE counts[r].written,
           flagged |-> counts[r].flagged,
           production_confirmed |-> Production /\ request[r].confirmed]}
    /\ UNCHANGED <<history, tables, request, version, columns, todo, counts, pending, target, found>>

-----------------------------------------------------------------------------
\* save_new_version by another request.
SaveVersion ==
    /\ Len(history) < MaxVersion
    /\ \E links \in Versions : Saved!Save(links, None)
    /\ UNCHANGED <<tables, phase, request, version, columns, todo, counts, pending, target, log, found>>

\* The databases belong to others.  A table with uncommitted rows of a run is
\* locked against ALTER.
AlterTable ==
    /\ \/ \E c \in Alterable \cap SourceCols :
            /\ sourceNow' \in {sourceNow \ {c}, sourceNow \cup {c}}
            /\ UNCHANGED targetNow
       \/ /\ \A r \in Runs : pending[r] = {}
          /\ \E c \in Alterable \cap TargetCols : targetNow' \in {targetNow \ {c}, targetNow \cup {c}}
          /\ UNCHANGED sourceNow
    /\ UNCHANGED <<history, phase, request, version, columns, todo, counts, pending, target, log, found>>

Next ==
    \/ \E r \in Runs :
        \/ \E m \in Modes, ok \in BOOLEAN : Load(r, m, ok)
        \/ CheckSource(r) \/ CheckTarget(r) \/ ReadSource(r)
        \/ \E x \in Rows : SkipRow(r, x) \/ WriteRow(r, x) \/ RejectRow(r, x)
        \/ Finish(r) \/ SaveLog(r) \/ Fail(r)
    \/ SaveVersion
    \/ AlterTable

Spec == Init /\ [][Next]_vars

-----------------------------------------------------------------------------
WrittenBy(r) == {t \in target : t.run = r}

\* An execution is all or nothing for readers of the target: either no row of
\* it is there, or exactly the rows its version can translate; and a request
\* that was refused or rejected has left none (US5, "zero partial writes").
AllOrNothing ==
    \A r \in Runs :
        \/ WrittenBy(r) = {}
        \/ /\ phase[r] \in {"committed", "logged", "failed"}
           /\ {t.row : t \in WrittenBy(r)} =
                {x \in Rows : ~Untranslatable(x, LinksOf(r), columns[r])}

\* The run_log is the truth about the target: each entry counts the rows its
\* run wrote there, none for a dry run, accounts for every source row, and a
\* row on a production target has a confirmed request behind it.
LogMatchesTarget ==
    \A e \in log :
        /\ e.written = Cardinality(WrittenBy(e.run))
        /\ e.mode = "dry_run" => WrittenBy(e.run) = {}
        /\ e.mode = "execute" => e.read = e.written + e.flagged
        /\ Production /\ WrittenBy(e.run) # {} => e.production_confirmed

\* Two logged runs of one version over the same columns agree: an execution
\* writes as many rows as a dry run's entry lets the operator derive.
DryRunPredicts ==
    \A d, e \in log :
        /\ d.mode = "dry_run" /\ e.mode = "execute" /\ d.version = e.version
        /\ columns[d.run] = columns[e.run]
        => d.read - d.flagged = e.written

\* FR-015: what its version references and the source or the target lacks stops
\* an execution before any write; a row was written only if every column was
\* there when the check looked.  (It may be gone by the time the row is read.)
DriftStopsWrites ==
    \A t \in target :
        /\ Needs(t.run, "source") \subseteq found[t.run].source
        /\ Needs(t.run, "target") \subseteq found[t.run].target
=============================================================================
