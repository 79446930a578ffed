------------------------------ MODULE Startup -------------------------------
(***************************************************************************)
(* From a container's start to its first request: docker/entrypoint.sh     *)
(* waits for the metadata store, runs "alembic upgrade head" in one        *)
(* transaction, may seed a test database and starts the server, or exits   *)
(* and is started again.                                                   *)
(* Several containers start side by side, an operator may downgrade, the   *)
(* store may be away, and connections created under one revision of the    *)
(* schema are used under another.                                          *)
(*                                                                         *)
(* A revision is the sequence of its DDL operations.  Of a table only its  *)
(* name, its foreign keys and the enum types of its columns are kept, and  *)
(* the columns auth_mode and username of connection_config.                *)
(***************************************************************************)
EXTENDS Integers, Sequences, FiniteSets, SequencesExt

CONSTANTS Containers,
          Names,            \* SQL logins and credential references
          NoValue,          \* NULL or ""
          Service,          \* the backend's own Windows identity
          MaxTries,         \* attempts of the wait loop, 30 in the script
          MaxConnections,   \* bound on rows of connection_config
          MaxFaults         \* bound on crashes, outages and downgrades together

ASSUME StartupAssumption ==
    MaxTries \in Nat \ {0} /\ MaxConnections \in Nat /\ MaxFaults \in Nat

VARIABLES
    store,       \* the committed schema and the rows of connection_config
    reachable,   \* whether the metadata store accepts connections
    txn,         \* the uncommitted upgrade, or NoTxn; its locks exclude others
    phase, tries, base,   \* of each container; base is the revision alembic read
    faults,
    lowered      \* for the properties: containers between whose migration and whose
                 \* server an operator has downgraded

vars == <<store, reachable, txn, phase, tries, base, faults, lowered>>

-----------------------------------------------------------------------------
(* The revisions, as db/alembic/versions/ has them.  A foreign key declared *)
(* with use_alter is not part of CREATE TABLE: a later revision adds it.    *)

Create(t, refs, types) == [op |-> "create", table |-> t, refs |-> refs, types |-> types]
Drop(t) == [op |-> "drop", table |-> t]
AddKey(t, u) == [op |-> "add_key", key |-> <<t, u>>]
DropKey(t, u) == [op |-> "drop_key", key |-> <<t, u>>]

Initial == <<
    Create("connection_config", {}, {"connection_role", "connection_environment"}),
    Create("enum_translation_table", {}, {}),
    Create("enum_translation_version", {"enum_translation_table"}, {}),
    Create("mapping_definition", {"connection_config"}, {"mapping_kind"}),
    Create("mapping_version", {"mapping_definition"}, {}),
    Create("run_log_entry", {"mapping_version"}, {"run_mode", "run_outcome"})>>
DropInitial == <<
    Drop("run_log_entry"), Drop("mapping_version"), Drop("mapping_definition"),
    Drop("enum_translation_version"), Drop("enum_translation_table"),
    Drop("connection_config")>>

Views == <<
    Create("legacy_shape_capture", {"connection_config"}, {}),
    Create("view_definition", {"legacy_shape_capture", "connection_config"}, {}),
    Create("xml_field_mapping", {"legacy_shape_capture", "connection_config"}, {}),
    Create("view_definition_version", {"view_definition"}, {}),
    Create("xml_field_mapping_version", {"xml_field_mapping"}, {}),
    Create("reconciliation_run", {"view_definition_version"}, {"reconciliation_outcome"}),
    Create("view_deployment_log", {"view_definition_version"},
           {"deployment_mode", "deployment_outcome"}),
    AddKey("enum_translation_table", "enum_translation_version"),
    AddKey("mapping_definition", "mapping_version")>>
DropViews == <<
    DropKey("mapping_definition", "mapping_version"),
    DropKey("enum_translation_table", "enum_translation_version"),
    Drop("view_deployment_log"), Drop("reconciliation_run"),
    Drop("xml_field_mapping_version"), Drop("view_definition_version"),
    Drop("xml_field_mapping"), Drop("view_definition"), Drop("legacy_shape_capture")>>

\* Mutant: the second of the two keys is forgotten.
RulesWithoutXmlKey == <<
    Create("legacy_view_column_rule", {"view_definition_version"}, {}),
    AddKey("view_definition", "view_definition_version")>>
Rules == <<
    Create("legacy_view_column_rule", {"view_definition_version"}, {}),
    AddKey("view_definition", "view_definition_version"),
    AddKey("xml_field_mapping", "xml_field_mapping_version")>>
\* Mutant: the downgrade leaves one of the keys behind.
DropRulesKeepKey == <<
    DropKey("xml_field_mapping", "xml_field_mapping_version"),
    Drop("legacy_view_column_rule")>>
DropRules == <<
    DropKey("xml_field_mapping", "xml_field_mapping_version"),
    DropKey("view_definition", "view_definition_version"),
    Drop("legacy_view_column_rule")>>

AddLogins == <<[op |-> "add_logins"]>>
DropLogins == <<[op |-> "drop_logins"]>>

Upgrades == <<Initial, Views, Rules, AddLogins>>
Downgrades == <<DropInitial, DropViews, DropRules, DropLogins>>
Latest == Len(Upgrades)

-----------------------------------------------------------------------------
(* What PostgreSQL does with them.  CREATE TABLE creates the enum types of  *)
(* its columns and fails if one exists; DROP TABLE does not drop them.      *)

Empty == [rev |-> 0, tables |-> {}, keys |-> {}, types |-> {}, logins |-> FALSE, rows |-> {}]

Possible(o, s) ==
    CASE o.op = "create" ->
            /\ o.table \notin s.tables /\ o.refs \subseteq s.tables
            /\ o.types \cap s.types = {}
      [] o.op = "drop" ->
            o.table \in s.tables /\ \A k \in s.keys : k[2] = o.table => k[1] = o.table
      [] o.op = "add_key" -> o.key \notin s.keys /\ {o.key[1], o.key[2]} \subseteq s.tables
      [] o.op = "drop_key" -> o.key \in s.keys
      [] o.op = "add_logins" -> ~s.logins /\ "connection_config" \in s.tables
      [] o.op = "drop_logins" ->   \* credential_ref becomes NOT NULL again
            s.logins /\ \A r \in s.rows : r.credential_ref # NoValue

\* A row also says, for the properties, whose login it was entered with and
\* whether a downgrade has cut off its username.
Backfilled(r) == [r EXCEPT !.auth_mode = "sql"]
CutOff(r) == [r EXCEPT !.auth_mode = NoValue, !.username = NoValue,
                       !.cut = @ \/ r.username # NoValue]

Effect(o, s) ==
    CASE o.op = "create" ->
            [s EXCEPT !.tables = @ \cup {o.table}, !.types = @ \cup o.types,
                      !.keys = @ \cup {<<o.table, u>> : u \in o.refs}]
      [] o.op = "drop" ->
            [s EXCEPT !.tables = @ \ {o.table}, !.keys = {k \in @ : k[1] # o.table},
                      !.rows = IF o.table = "connection_config" THEN {} ELSE @]
      [] o.op = "add_key" -> [s EXCEPT !.keys = @ \cup {o.key}]
      [] o.op = "drop_key" -> [s EXCEPT !.keys = @ \ {o.key}]
      [] o.op = "add_logins" ->   \* the type is created only if it does not exist
            [s EXCEPT !.logins = TRUE, !.types = @ \cup {"connection_auth_mode"},
                      !.rows = {Backfilled(r) : r \in @}]
      [] o.op = "drop_logins" ->
            [s EXCEPT !.logins = FALSE, !.types = @ \ {"connection_auth_mode"},
                      !.rows = {CutOff(r) : r \in @}]

\* What a statement makes of a schema, as the set of possible outcomes: none if
\* it fails, which fails the whole transaction.
Execute(S, o) == {Effect(o, s) : s \in {t \in S : Possible(o, t)}}

\* One revision's operations, then its stamp on alembic_version.
Script(S, ops, from, to) ==
    {[t EXCEPT !.rev = to] : t \in {u \in FoldLeft(Execute, S, ops) : u.rev = from}}

\* env.py: all pending revisions, counted from the one alembic read.
UpgradeFrom(s, r) ==
    FoldLeft(LAMBDA S, i : Script(S, Upgrades[i], i - 1, i), {s}, [i \in 1..(Latest - r) |-> r + i])
DowngradeOne(s) == Script({s}, Downgrades[s.rev], s.rev, s.rev - 1)

-----------------------------------------------------------------------------
NoTxn == [by |-> NoValue]
Value == Names \cup {NoValue}
\* Rows of the release before usernames: the reference doubled as the login.
OldRow(n) == [auth_mode |-> NoValue, username |-> NoValue, credential_ref |-> n,
              login |-> n, cut |-> FALSE]

\* A store that some earlier release has brought to revision r, or an empty one.
AtRevision(r, old) ==
    {[s EXCEPT !.rows = {OldRow(n) : n \in old}] :
        s \in FoldLeft(LAMBDA S, i : Script(S, Upgrades[i], i - 1, i), {Empty}, [i \in 1..r |-> i])}

Init ==
    /\ \E r \in 0..(Latest - 1) :
        \E old \in {S \in SUBSET Names : Cardinality(S) <= MaxConnections} :
            /\ r = 0 => old = {}
            /\ store \in AtRevision(r, old)
    /\ reachable \in BOOLEAN
    /\ txn = NoTxn
    /\ phase = [c \in Containers |-> "waiting"]
    /\ tries = [c \in Containers |-> 0]
    /\ base = [c \in Containers |-> 0]
    /\ faults = 0
    /\ lowered = {}

Move(c, from, to) == phase[c] = from /\ phase' = [phase EXCEPT ![c] = to]

\* One attempt of the wait loop; set -e ends the script when all have failed.
Try(c) ==
    /\ \/ reachable /\ Move(c, "waiting", "reading") /\ UNCHANGED tries
       \/ /\ ~reachable
          /\ tries' = [tries EXCEPT ![c] = @ + 1]
          /\ Move(c, "waiting", IF tries[c] + 1 = MaxTries THEN "exited" ELSE "waiting")
    /\ UNCHANGED <<store, reachable, txn, base, faults, lowered>>

\* alembic reads the revision; at head there is nothing to do.
ReadRevision(c) ==
    /\ reachable
    /\ base' = [base EXCEPT ![c] = store.rev]
    /\ Move(c, "reading", IF store.rev = Latest THEN "migrated" ELSE "migrating")
    /\ UNCHANGED <<store, reachable, txn, tries, faults, lowered>>

\* The first operation waits for the locks of another's uncommitted upgrade; one
\* that fails ends the script (set -e).
Migrate(c) ==
    /\ reachable /\ txn = NoTxn
    /\ \/ \E s \in UpgradeFrom(store, base[c]) :
            Move(c, "migrating", "committing") /\ txn' = [by |-> c, store |-> s]
       \/ /\ UpgradeFrom(store, base[c]) = {}
          /\ Move(c, "migrating", "refused") /\ UNCHANGED txn
    /\ UNCHANGED <<store, reachable, tries, base, faults, lowered>>

Commit(c) ==
    /\ txn.by = c
    /\ store' = txn.store
    /\ txn' = NoTxn
    /\ Move(c, "committing", "migrated")
    /\ UNCHANGED <<reachable, tries, base, faults, lowered>>

\* The rest of the script, which does not look at the store again: exec uvicorn, after
\* the seeding of a test database, whose failure is a Crash.
Serve(c) ==
    /\ Move(c, "migrated", "serving")
    /\ lowered' = lowered \ {c}
    /\ UNCHANGED <<store, reachable, txn, tries, base, faults>>

\* Mutant: a container that has exited is not started again.
RestartRefused(c) ==
    /\ Move(c, "exited", "waiting")
    /\ tries' = [tries EXCEPT ![c] = 0]
    /\ UNCHANGED <<store, reachable, txn, base, faults, lowered>>

\* restart_policy: condition: on-failure.
Restart(c) ==
    /\ \/ Move(c, "exited", "waiting")
       \/ Move(c, "refused", "waiting")
    /\ tries' = [tries EXCEPT ![c] = 0]
    /\ UNCHANGED <<store, reachable, txn, base, faults, lowered>>

-----------------------------------------------------------------------------
\* ConnectionService.create, which refuses what build_engine could not use.
Accepts(auth, user, ref) ==
    /\ auth = "sql" => ref # NoValue
    /\ auth = "windows_integrated" => user = NoValue /\ ref = NoValue

\* build_engine: whom a stored connection logs in as.
\* Mutant: no fallback for rows without a username.
LoginWithoutFallback(r) ==
    IF r.auth_mode = "windows_integrated" THEN Service ELSE r.username

LoginOf(r) ==
    IF r.auth_mode = "windows_integrated" THEN Service
    ELSE IF r.credential_ref = NoValue THEN NoValue   \* refused
    ELSE IF r.username # NoValue THEN r.username ELSE r.credential_ref

CreateConnection(c, auth, user, ref) ==
    /\ phase[c] = "serving" /\ reachable /\ txn = NoTxn
    /\ store.logins
    /\ Accepts(auth, user, ref)
    /\ Cardinality(store.rows) < MaxConnections
    /\ store' = [store EXCEPT !.rows = @ \cup {
            [auth_mode |-> auth, username |-> user, credential_ref |-> ref, cut |-> FALSE,
             login |-> IF auth = "windows_integrated" THEN Service
                       ELSE IF user # NoValue THEN user ELSE ref]}]
    /\ UNCHANGED <<reachable, txn, phase, tries, base, faults, lowered>>

-----------------------------------------------------------------------------
Fault == faults < MaxFaults /\ faults' = faults + 1

\* A dying container loses its transaction.  A seeding that fails ends it too (set -e).
Crash(c) ==
    /\ Fault
    /\ phase[c] # "exited"
    /\ phase' = [phase EXCEPT ![c] = "exited"]
    /\ txn' = IF txn.by = c THEN NoTxn ELSE txn
    /\ lowered' = lowered \ {c}
    /\ UNCHANGED <<store, reachable, tries, base>>

\* When the store goes away, so does everything uncommitted.
StoreDown ==
    /\ Fault
    /\ reachable /\ reachable' = FALSE
    /\ txn' = NoTxn
    /\ phase' = [c \in Containers |->
                    IF phase[c] \in {"reading", "migrating", "committing"} THEN "exited" ELSE phase[c]]
    /\ UNCHANGED <<store, tries, base, lowered>>

StoreUp ==
    /\ ~reachable /\ reachable' = TRUE
    /\ UNCHANGED <<store, txn, phase, tries, base, faults, lowered>>

\* An operator's "alembic downgrade -1"; one that fails changes nothing.
Downgrade ==
    /\ Fault
    /\ reachable /\ txn = NoTxn /\ store.rev > 0
    /\ store' \in DowngradeOne(store)
    /\ lowered' = lowered \cup {c \in Containers : phase[c] = "migrated"}
    /\ UNCHANGED <<reachable, txn, phase, tries, base>>

Start(c) ==
    Try(c) \/ ReadRevision(c) \/ Migrate(c) \/ Commit(c) \/ Serve(c) \/ Restart(c)

Next ==
    \/ \E c \in Containers :
        \/ Start(c) \/ Crash(c)
        \/ \E auth \in {"sql", "windows_integrated"} : \E user, ref \in Value :
            CreateConnection(c, auth, user, ref)
    \/ StoreDown \/ StoreUp \/ Downgrade

Spec ==
    /\ Init /\ [][Next]_vars
    /\ \A c \in Containers : WF_vars(Start(c))
    /\ WF_vars(StoreUp)

-----------------------------------------------------------------------------
(* What the models declare, and ensure_sqlite_schema creates at once.       *)
ModelTables ==
    {"connection_config", "enum_translation_table", "enum_translation_version",
     "mapping_definition", "mapping_version", "run_log_entry", "legacy_shape_capture",
     "view_definition", "view_definition_version", "xml_field_mapping",
     "xml_field_mapping_version", "reconciliation_run", "view_deployment_log",
     "legacy_view_column_rule"}
Versioned == {<<"enum_translation_table", "enum_translation_version">>,
              <<"mapping_definition", "mapping_version">>,
              <<"view_definition", "view_definition_version">>,
              <<"xml_field_mapping", "xml_field_mapping_version">>}
ModelKeys ==
    Versioned \cup {<<v[2], v[1]>> : v \in Versioned}
    \cup {"mapping_definition", "legacy_shape_capture", "view_definition", "xml_field_mapping"}
            \X {"connection_config"}
    \cup {"view_definition", "xml_field_mapping"} \X {"legacy_shape_capture"}
    \cup {"reconciliation_run", "view_deployment_log", "legacy_view_column_rule"}
            \X {"view_definition_version"}
    \cup {<<"run_log_entry", "mapping_version">>}
ModelTypes ==
    {"connection_role", "connection_environment", "connection_auth_mode", "mapping_kind",
     "run_mode", "run_outcome", "reconciliation_outcome", "deployment_mode",
     "deployment_outcome"}

\* session.py: creating the models' tables "is equivalent to migrate to head":
\* the four revisions together, keys added late included, give what the models
\* declare, also when a revision was taken back and applied again.
HeadIsTheModels ==
    store.rev = Latest =>
        store.tables = ModelTables /\ store.keys = ModelKeys /\ store.types = ModelTypes

\* Types that a downgrade has left and a later upgrade will create again.
TypesOf ==
    [r \in 1..Latest |-> UNION {o.types : o \in {p \in Range(Upgrades[r]) : p.op = "create"}}]
Leftovers(s) == \E r \in (s.rev + 1)..Latest : TypesOf[r] \cap s.types # {}

\* How an upgrade may end.  The server only starts on the schema its models
\* describe, unless it was downgraded after the container's own migration, whatever
\* the other container does meanwhile; and a container whose upgrade fails found the schema moved by
\* another container or an operator since it read the revision, or types that a
\* downgrade left: from every revision the remaining scripts apply.
UpgradesEndAtHead ==
    [][\A c \in Containers :
        /\ phase[c] # "serving" /\ phase'[c] = "serving" =>
                store.rev = Latest \/ c \in lowered
        /\ phase[c] = "migrating" /\ phase'[c] = "refused" =>
                store.rev # base[c] \/ Leftovers(store)]_vars

\* A stored connection logs in as whom it was entered for, through every
\* upgrade, for rows of before usernames too; only a downgrade that dropped its
\* username can change that.
LoginsSurvive ==
    store.logins => \A r \in store.rows : LoginOf(r) = r.login \/ r.cut

\* Once faults cease every container serves, unless a downgrade has left types
\* that no upgrade gets past.
EveryContainerServes ==
    []~Leftovers(store) => \A c \in Containers : <>[](phase[c] = "serving")
=============================================================================
