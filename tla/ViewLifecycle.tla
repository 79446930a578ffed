--------------------------- MODULE ViewLifecycle ----------------------------
(***************************************************************************)
(* One compatibility view: requests save versions of its definition,       *)
(* preview them, deploy them as CREATE OR ALTER VIEW in the target         *)
(* database and reconcile the live view with the old table, while the      *)
(* owners of the two databases alter the old table or drop the view.       *)
(* A save commits the version first and its column rules after; a deploy   *)
(* commits the view in the target first and its log entry after.           *)
(*                                                                         *)
(* The numbering of concurrent saves is MappingVersions' protocol; here a  *)
(* save appends to the history that protocol implements (VersionHistory).  *)
(*                                                                         *)
(* A request that names a version may name it under another definition,    *)
(* whose version it is not; that definition has the same target database   *)
(* and its old table and view are not modelled: they may be in any shape.  *)
(***************************************************************************)
EXTENDS Integers, Sequences, FiniteSets

CONSTANTS Requests,
          Columns,        \* columns, each with its type, the old table may have
          Captured,       \* the columns legacy_shape_capture recorded, in order
          Payloads,       \* column_mappings: sequences of [column, retired]
          Production,     \* whether the target connection is tagged "prod"
          NamesVersions,  \* whether requests name a version
          Apart,          \* pairs {k, l} of kinds whose requests never overlap
          Failures,       \* whether databases, connections and workers fail
          Interference,   \* whether the databases' owners interfere
          MaxVersion,     \* bound on the versions saved
          None

Elements(s) == {s[i] : i \in DOMAIN s}
Mapping == [column : Columns, retired : BOOLEAN]
Kinds == {"save", "preview", "deploy", "reconcile"}

ASSUME ViewAssumption ==
    /\ Captured \in Seq(Columns)
    /\ Payloads \subseteq Seq(Mapping)
    /\ {Production, NamesVersions, Failures, Interference} \subseteq BOOLEAN
    /\ Apart \subseteq SUBSET Kinds
    /\ MaxVersion \in Nat
    /\ IsFiniteSet(Requests)

VARIABLES
    history,    \* the saved versions; the last is current_version_id
    rules,      \* legacy_view_column_rule rows
    legacy,     \* the columns the old table has, in order
    live,       \* the version the view in the target was created from, 0 if none
    log,        \* view_deployment_log entries
    results,    \* reconciliation_run rows
    phase, request, version,
    started,    \* order in which the requests' transactions began
    previous,   \* the version of the last successful deploy a deploy found
    compared,   \* the version whose rows a reconciliation read
    shape, replaced   \* for the properties: the old table as the drift check saw
                      \* it, and the version a deploy's DDL replaced

locals == <<request, started>>
ghosts == <<shape, replaced>>
vars == <<history, rules, legacy, live, log, results, phase, version, locals,
          previous, compared, ghosts>>

Saved == INSTANCE VersionHistory WITH Links <- Payloads, Configs <- {}, NoConfig <- None

Ended == {"done", "schema_mismatch", "needs_confirmation", "verification_failed",
          "not_deployed", "failed"}
Phases == {"idle", "saved", "loaded", "checked", "ddl", "verify", "verified", "gate",
           "read", "compare"} \cup Ended
Request == [kind : Kinds, confirmed : BOOLEAN,
            foreign : BOOLEAN]   \* whether it names another definition
Rule == [version : Nat, entry : Nat, column : Columns, retired : BOOLEAN]
LogEntry(e) == /\ e.request \in Requests /\ e.version \in 1..Len(history) /\ e.confirmed \in BOOLEAN
               /\ e.mode = "deploy" \/ (e.mode = "preview" /\ e.diff = None)
Result == [request : Requests, version : Nat, retired : SUBSET Columns]

TypeOK ==
    /\ history \in Seq(Saved!Entry)
    /\ rules \subseteq Rule
    /\ legacy \in Seq(Columns)
    /\ live \in 0..Len(history)
    /\ \A e \in log : LogEntry(e)
    /\ results \subseteq Result
    /\ phase \in [Requests -> Phases]
    /\ request \in [Requests -> Request]
    /\ version \in [Requests -> 0..Len(history)]
    /\ started \in [Requests -> 0..Cardinality(Requests)]
    /\ previous \in [Requests -> 0..Len(history)]
    /\ compared \in [Requests -> 0..Len(history)]
    /\ shape \in [Requests -> Seq(Columns)]
    /\ replaced \in [Requests -> 0..Len(history)]

Init ==
    /\ history = <<>> /\ rules = {} /\ legacy = Captured /\ live = 0
    /\ log = {} /\ results = {}
    /\ phase = [r \in Requests |-> "idle"]
    /\ request = [r \in Requests |-> [kind |-> "save", confirmed |-> FALSE, foreign |-> FALSE]]
    /\ version = [r \in Requests |-> 0]
    /\ started = [r \in Requests |-> 0]
    /\ previous = [r \in Requests |-> 0]
    /\ compared = [r \in Requests |-> 0]
    /\ shape = [r \in Requests |-> <<>>]
    /\ replaced = [r \in Requests |-> 0]

-----------------------------------------------------------------------------
Names(p) == [i \in DOMAIN p |-> p[i].column]
PayloadOf(n) == history[n].links

\* validate_column_mappings: every captured column is mapped, and no other.
\* A column mapped twice passes; a payload refused for a column's status or its
\* missing source is not made of Mappings.
Covers(p) == Elements(Names(p)) = Elements(Captured)

\* build_select_sql lists the captured columns in their order, whatever the
\* order of the payload; of two entries for one column the last one counts.
Output(n) == Captured
RetiredIn(n) ==
    {c \in Columns : \E i \in DOMAIN PayloadOf(n) :
        /\ PayloadOf(n)[i].column = c /\ PayloadOf(n)[i].retired
        /\ \A j \in DOMAIN PayloadOf(n) : j > i => PayloadOf(n)[j].column # c}

\* compute_column_diff.
ColumnDiff(old, new) ==
    LET kept == SelectSeq(old, LAMBDA c : c \in Elements(new))
        now == SelectSeq(new, LAMBDA c : c \in Elements(old))
    IN  [added |-> SelectSeq(new, LAMBDA c : c \notin Elements(old)),
         removed |-> SelectSeq(old, LAMBDA c : c \notin Elements(new)),
         reordered |-> IF kept # now THEN now ELSE <<>>]

Deploys == {e \in log : e.mode = "deploy"}

-----------------------------------------------------------------------------
Busy(r) == phase[r] \notin {"idle"} \cup Ended

\* A request begins; the metadata store stamps its transaction.  Nothing in the
\* code keeps requests apart: what Apart names is up to the users.
Begin(r, kind, ok, other) ==
    /\ phase[r] = "idle"
    /\ \A s \in Requests : Busy(s) => {kind, request[s].kind} \notin Apart
    /\ request' = [request EXCEPT ![r] = [kind |-> kind, confirmed |-> ok, foreign |-> other]]
    /\ started' = [started EXCEPT ![r] = Cardinality({s \in Requests : phase[s] # "idle"}) + 1]

\* create_view_definition and save_new_version up to their first commit.
SaveVersion(r, p) ==
    /\ Begin(r, "save", FALSE, FALSE)
    /\ Len(history) < MaxVersion
    /\ Covers(p)
    /\ Saved!Create([links |-> p, config |-> None]) \/ Saved!Save(p, None)
    /\ phase' = [phase EXCEPT ![r] = "saved"]
    /\ version' = [version EXCEPT ![r] = Len(history) + 1]
    /\ UNCHANGED <<rules, legacy, live, log, results, previous, compared, ghosts>>

RulesOf(n) == {[version |-> n, entry |-> i, column |-> PayloadOf(n)[i].column,
                retired |-> PayloadOf(n)[i].retired] : i \in DOMAIN PayloadOf(n)}

\* _write_column_rules, the save's second commit.
WriteRules(r) ==
    /\ phase[r] = "saved"
    /\ phase' = [phase EXCEPT ![r] = "done"]
    /\ rules' = rules \cup RulesOf(version[r])
    /\ UNCHANGED <<history, legacy, live, log, results, version, locals, previous, compared, ghosts>>

\* The version a request is about: the one it names, whatever definition it
\* names it under, or the current one of the definition.
Load(r, kind, ok, other, n) ==
    /\ Begin(r, kind, ok, other)
    /\ n \in 1..Len(history)
    /\ NamesVersions \/ (n = Len(history) /\ ~other)
    /\ version' = [version EXCEPT ![r] = n]
    /\ phase' = [phase EXCEPT ![r] = IF kind = "reconcile" THEN "gate" ELSE "loaded"]
    /\ UNCHANGED <<history, rules, legacy, live, log, results, previous, compared, ghosts>>

\* check_drift compares what the old table has with what was captured, column
\* by column and not in order, for the definition the request names.
Drifts(r) == IF request[r].foreign THEN BOOLEAN
             ELSE {Elements(legacy) # Elements(Captured)}
Seen(r) == IF request[r].foreign THEN shape ELSE [shape EXCEPT ![r] = legacy]

\* Mutant: the production gate looks at nothing.
CheckDriftUngated(r) ==
    /\ phase[r] = "loaded"
    /\ shape' = Seen(r)
    /\ \E drifted \in Drifts(r) :
         phase' = [phase EXCEPT ![r] = IF drifted THEN "schema_mismatch" ELSE "checked"]
    /\ UNCHANGED <<history, rules, legacy, live, log, results, version, locals,
                   previous, compared, replaced>>

\* check_drift, then deploy_view's production gate.
CheckDrift(r) ==
    /\ phase[r] = "loaded"
    /\ shape' = Seen(r)
    /\ \E drifted \in Drifts(r) :
         phase' = [phase EXCEPT ![r] =
           IF drifted THEN "schema_mismatch"
           ELSE IF request[r].kind = "deploy" /\ Production /\ ~request[r].confirmed
                THEN "needs_confirmation"
           ELSE "checked"]
    /\ UNCHANGED <<history, rules, legacy, live, log, results, version, locals,
                   previous, compared, replaced>>

\* preview_view: a capped SELECT, then the log entry.
Preview(r) ==
    /\ phase[r] = "checked" /\ request[r].kind = "preview"
    /\ phase' = [phase EXCEPT ![r] = "done"]
    /\ log' = log \cup {[request |-> r, version |-> version[r], mode |-> "preview",
                         diff |-> None, confirmed |-> FALSE]}
    /\ UNCHANGED <<history, rules, legacy, live, results, version, locals, previous, compared, ghosts>>

\* The successful deploy with the latest started_at.
Latest == CHOOSE e \in Deploys : \A d \in Deploys : started[d.request] <= started[e.request]

\* Mutant: deploys are searched by the version to be deployed, not by its definition.
FindPreviousOfVersion(r) ==
    /\ phase[r] = "checked" /\ request[r].kind = "deploy"
    /\ phase' = [phase EXCEPT ![r] = "ddl"]
    /\ previous' = [previous EXCEPT ![r] =
         IF \E d \in Deploys : d.version = version[r] THEN version[r] ELSE 0]
    /\ UNCHANGED <<history, rules, legacy, live, log, results, version, locals, compared, ghosts>>

\* Deploys are searched by the definition the request names.
FindPrevious(r) ==
    /\ phase[r] = "checked" /\ request[r].kind = "deploy"
    /\ phase' = [phase EXCEPT ![r] = "ddl"]
    /\ previous' = [previous EXCEPT ![r] =
         IF Deploys = {} \/ request[r].foreign THEN 0 ELSE Latest.version]
    /\ UNCHANGED <<history, rules, legacy, live, log, results, version, locals, compared, ghosts>>

\* CREATE OR ALTER VIEW and its commit; the view's name is in the version's SQL.
AlterView(r) ==
    /\ phase[r] = "ddl"
    /\ phase' = [phase EXCEPT ![r] = "verify"]
    /\ replaced' = [replaced EXCEPT ![r] = live]
    /\ live' = version[r]
    /\ UNCHANGED <<history, rules, legacy, log, results, version, locals, previous, compared, shape>>

\* The view of the definition named is introspected again; a view that is not
\* there is an error.
Verify(r) ==
    /\ phase[r] = "verify"
    /\ \E outcome \in IF request[r].foreign
                      THEN {"failed", "verification_failed", "verified"}
                      ELSE {IF live = 0 THEN "failed"
                            ELSE IF Output(live) # Captured THEN "verification_failed"
                            ELSE "verified"} :
         phase' = [phase EXCEPT ![r] = outcome]
    /\ UNCHANGED <<history, rules, legacy, live, log, results, version, locals,
                   previous, compared, ghosts>>

LogDeploy(r) ==
    /\ phase[r] = "verified"
    /\ phase' = [phase EXCEPT ![r] = "done"]
    /\ log' = log \cup
         {[request |-> r, version |-> version[r], mode |-> "deploy",
           diff |-> IF previous[r] = 0 THEN None
                    ELSE ColumnDiff(Names(PayloadOf(previous[r])), Names(PayloadOf(version[r]))),
           confirmed |-> Production /\ request[r].confirmed]}
    /\ UNCHANGED <<history, rules, legacy, live, results, version, locals, previous, compared, ghosts>>

-----------------------------------------------------------------------------
\* Mutant: any deploy of the definition opens the gate.
CheckDeployedAny(r) ==
    /\ phase[r] = "gate"
    /\ phase' = [phase EXCEPT ![r] = IF Deploys # {} THEN "read" ELSE "not_deployed"]
    /\ UNCHANGED <<history, rules, legacy, live, log, results, version, locals,
                   previous, compared, ghosts>>

\* Mutant: any log entry of the version opens the gate, a preview's included.
CheckDeployedPreviewed(r) ==
    /\ phase[r] = "gate"
    /\ phase' = [phase EXCEPT ![r] =
         IF \E e \in log : e.version = version[r] THEN "read" ELSE "not_deployed"]
    /\ UNCHANGED <<history, rules, legacy, live, log, results, version, locals,
                   previous, compared, ghosts>>

\* reconcile_view's gate: this version was deployed at some time.
CheckDeployed(r) ==
    /\ phase[r] = "gate"
    /\ phase' = [phase EXCEPT ![r] =
         IF \E e \in Deploys : e.version = version[r] THEN "read" ELSE "not_deployed"]
    /\ UNCHANGED <<history, rules, legacy, live, log, results, version, locals,
                   previous, compared, ghosts>>

\* The rows of the old table, then those of the view, whatever it is by then.
ReadRows(r) ==
    /\ phase[r] = "read"
    /\ compared' = [compared EXCEPT ![r] = IF request[r].foreign THEN 0 ELSE live]
    /\ \E gone \in IF request[r].foreign THEN BOOLEAN ELSE {live = 0} :
         phase' = [phase EXCEPT ![r] = IF gone THEN "failed" ELSE "compare"]
    /\ UNCHANGED <<history, rules, legacy, live, log, results, version, locals, previous, ghosts>>

\* Mutant: the query of the version's rules does not look at their status.
SaveResultOfAnyStatus(r) ==
    /\ phase[r] = "compare"
    /\ phase' = [phase EXCEPT ![r] = "done"]
    /\ results' = results \cup
         {[request |-> r, version |-> version[r],
           retired |-> {x.column : x \in {y \in rules : y.version = version[r]}}]}
    /\ UNCHANGED <<history, rules, legacy, live, log, version, locals, previous, compared, ghosts>>

\* The comparison ignores what the version's rules call Retired.
SaveResult(r) ==
    /\ phase[r] = "compare"
    /\ phase' = [phase EXCEPT ![r] = "done"]
    /\ results' = results \cup
         {[request |-> r, version |-> version[r],
           retired |-> {x.column : x \in {y \in rules : y.version = version[r] /\ y.retired}}]}
    /\ UNCHANGED <<history, rules, legacy, live, log, version, locals, previous, compared, ghosts>>

\* A database error or the death of the worker; what was committed stays.
Fail(r) ==
    /\ Failures
    /\ Busy(r)
    /\ phase' = [phase EXCEPT ![r] = "failed"]
    /\ UNCHANGED <<history, rules, legacy, live, log, results, version, locals,
                   previous, compared, ghosts>>

\* A column of the old table is dropped, or one is added, always at the end;
\* changing a column's type replaces it.
AlterLegacy ==
    /\ Interference
    /\ \/ \E i \in DOMAIN legacy :
            legacy' = SubSeq(legacy, 1, i - 1) \o SubSeq(legacy, i + 1, Len(legacy))
       \/ \E c \in Columns \ Elements(legacy) : legacy' = Append(legacy, c)
       \/ \E i \in DOMAIN legacy, c \in Columns \ Elements(legacy) :
            legacy' = [legacy EXCEPT ![i] = c]
    /\ UNCHANGED <<history, rules, live, log, results, phase, version, locals,
                   previous, compared, ghosts>>

DropView ==
    /\ Interference
    /\ live # 0 /\ live' = 0
    /\ UNCHANGED <<history, rules, legacy, log, results, phase, version, locals,
                   previous, compared, ghosts>>

Next ==
    \/ \E r \in Requests :
        \/ \E p \in Payloads : SaveVersion(r, p)
        \/ WriteRules(r)
        \/ \E kind \in Kinds \ {"save"}, other \in BOOLEAN, n \in 1..Len(history) :
             \/ Load(r, kind, FALSE, other, n)
             \/ Production /\ kind = "deploy" /\ Load(r, kind, TRUE, other, n)
        \/ CheckDrift(r) \/ Preview(r)
        \/ FindPrevious(r) \/ AlterView(r) \/ Verify(r) \/ LogDeploy(r)
        \/ CheckDeployed(r) \/ ReadRows(r) \/ SaveResult(r)
        \/ Fail(r)
    \/ AlterLegacy
    \/ DropView

Spec == Init /\ [][Next]_vars

-----------------------------------------------------------------------------
\* Whatever is live in the target was put there by a request that, on
\* production, had its confirmation, and that saw the old table with the
\* captured columns unless it named the version under another definition
\* (FR-013, production-confirmation policy).
Authorised(n) ==
    \E r \in Requests :
        /\ request[r].kind = "deploy" /\ version[r] = n
        /\ Production => request[r].confirmed
        /\ ~request[r].foreign => Elements(shape[r]) = Elements(Captured)
LiveIsAuthorised == live # 0 => Authorised(live)

\* A reconciliation run is recorded under a version that a confirmed deploy logged,
\* it read rows that an authorised deploy had made visible, and it forgives what the
\* payload of its version retires, whatever is saved, deployed and dropped meanwhile;
\* it forgives nothing instead only while the save of that version has not written
\* its rules or after it failed to.  (Which version's rows it read is another matter.)
ForgivenBy(p) == {p[i].column : i \in {j \in DOMAIN p : p[j].retired}}
WithoutRules(n) ==
    \E s \in Requests : /\ request[s].kind = "save" /\ version[s] = n
                        /\ phase[s] \in {"saved", "failed"}
ResultsFollowDeploys ==
    [][\A e \in results' \ results :
        /\ \E d \in Deploys : d.version = e.version /\ (Production => d.confirmed)
        /\ ~request[e.request].foreign => Authorised(compared[e.request])
        /\ \/ e.retired = ForgivenBy(PayloadOf(e.version))
           \/ e.retired = {} /\ WithoutRules(e.version)]_vars

\* A reconciliation run compares the version it is recorded under ("one
\* comparison between a deployed view version and the old table").
ReconciledVersionIsLive == \A e \in results : compared[e.request] = e.version

\* A reconciliation of the live version forgives the old table exactly the
\* columns that the view casts to NULL, once the version has its rules.
RetiredColumnsAgree ==
    \A e \in results :
        compared[e.request] = e.version =>
            \/ e.retired = RetiredIn(e.version)
            \/ e.retired = {} /\ \A x \in rules : x.version # e.version

\* Only a deploy that began after the one the diff is relative to, and ended
\* between its DDL and its log entry, makes a column_diff relative to a version
\* that is not live.
OnlyUnloggedDeploysMislead ==
    \A e \in Deploys : previous[e.request] # replaced[e.request] =>
        \E r \in Requests :
            /\ request[r].kind = "deploy" /\ phase[r] = "failed"
            /\ version[r] = replaced[e.request]
            /\ started[r] < started[e.request]
            /\ \A d \in Deploys : started[d.request] < started[e.request] =>
                                   started[d.request] < started[r]
=============================================================================
