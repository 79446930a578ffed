-------------------------- MODULE MappingVersions ---------------------------
(***************************************************************************)
(* MappingService.create_mapping and save_new_version run by concurrent    *)
(* request handlers on one mapping definition.  Every handler has its own  *)
(* Session, hence its own READ COMMITTED transaction, and save_new_version *)
(* reads what it later relies on in two statements before it writes: the   *)
(* definition (whose current_version_id stays in the session's identity    *)
(* map) and max(version_number).  Only the unique constraint on            *)
(* (mapping_definition_id, version_number) arbitrates between handlers.    *)
(*                                                                         *)
(* A row of mapping_version is immutable and its id is a fresh uuid4, so   *)
(* the row itself stands for its id.                                       *)
(***************************************************************************)
EXTENDS Integers, FiniteSetsExt

CONSTANTS Handlers,      \* request handlers of the API's thread pool
          Links,         \* column_links payloads
          ValidLinks,    \* those _validate_column_links accepts
          Configs,       \* retirement_config payloads
          WellFormed,    \* those _validate_retirement_config accepts
          NoConfig,      \* retirement_config = None
          MaxVersion     \* bound: no save starts once this number is current

ASSUME PayloadAssumption ==
    /\ Links # {}
    /\ ValidLinks \subseteq Links
    /\ WellFormed \subseteq Configs
    /\ NoConfig \notin Configs
    /\ MaxVersion \in Nat

VARIABLES
    kind,       \* MappingDefinition.kind, "none" before the mapping exists
    versions,   \* committed rows of mapping_version
    current,    \* the row definition.current_version_id references
    phase,      \* where each handler is in save_new_version
    request,    \* the body each handler serves
    seen,       \* current_version_id as the handler's session loaded it
    number      \* the handler's next_version_number

vars == <<kind, versions, current, phase, request, seen, number>>

Kinds == {"column_mapping", "retirement"}
Optional == Configs \cup {NoConfig}
Row == [number : Nat, links : Links, config : Optional]
Request == [links : Links, config : Optional]
NoRow == [number |-> 0, links |-> CHOOSE l \in Links : TRUE, config |-> NoConfig]

TypeOK ==
    /\ kind \in Kinds \cup {"none"}
    /\ versions \in SUBSET Row
    /\ current \in Row
    /\ phase \in [Handlers -> {"idle", "loaded", "numbered", "inserted"}]
    /\ request \in [Handlers -> Request]
    /\ seen \in [Handlers -> Row]
    /\ number \in [Handlers -> Nat]

Init ==
    /\ kind = "none"
    /\ versions = {}
    /\ current = NoRow
    /\ phase = [h \in Handlers |-> "idle"]
    /\ request = [h \in Handlers |-> [links |-> NoRow.links, config |-> NoConfig]]
    /\ seen = [h \in Handlers |-> NoRow]
    /\ number = [h \in Handlers |-> 0]

-----------------------------------------------------------------------------
\* Mutant: the row to inherit from is stored instead of its config.
EffectiveRow(config, previous) == IF config # NoConfig THEN config ELSE previous

\* The retirement_config a save ends up storing.
Effective(config, previous) == IF config # NoConfig THEN config ELSE previous.config

\* Mutant: the config's presence is checked, its required keys are not.
AcceptableIfPresent(k, config) == k = "retirement" => config # NoConfig

\* _validate_retirement_config is called for retirement mappings only.
Acceptable(k, config) == k = "retirement" => config \in WellFormed

\* create_mapping: definition, version 1 and the pointer commit together, and
\* nobody can address the definition before that.
Create(k, l, c) ==
    LET first == [number |-> 1, links |-> l, config |-> c]
    IN  /\ kind = "none"
        /\ l \in ValidLinks
        /\ Acceptable(k, c)
        /\ kind' = k
        /\ versions' = {first}
        /\ current' = first
        /\ UNCHANGED <<phase, request, seen, number>>

\* save_new_version up to its validations; a refused body changes nothing.
LoadDefinition(h, l, c) ==
    /\ phase[h] = "idle"
    /\ kind # "none"
    /\ current.number < MaxVersion
    /\ l \in ValidLinks
    /\ Acceptable(kind, Effective(c, current))
    /\ phase' = [phase EXCEPT ![h] = "loaded"]
    /\ request' = [request EXCEPT ![h] = [links |-> l, config |-> c]]
    /\ seen' = [seen EXCEPT ![h] = current]
    /\ UNCHANGED <<kind, versions, current, number>>

\* next_version_number = max(version_number) + 1 over the committed rows.
ReadMax(h) ==
    /\ phase[h] = "loaded"
    /\ phase' = [phase EXCEPT ![h] = "numbered"]
    /\ number' = [number EXCEPT ![h] = Max({v.number : v \in versions} \cup {0}) + 1]
    /\ UNCHANGED <<kind, versions, current, request, seen>>

\* The row a handler flushes: what its request leaves out comes from the row
\* its session saw as current, not from the row numbered before it.
NewRow(h) == [number |-> number[h],
              links  |-> request[h].links,
              config |-> Effective(request[h].config, seen[h])]

\* Mutant: mapping_version has no unique constraint on the number.
KeyNeverTaken(h) == FALSE

\* The unique index: an uncommitted row with the same number makes the INSERT
\* wait for its owner, a committed one makes it fail.
KeyHeld(h) == \E g \in Handlers \ {h} : phase[g] = "inserted" /\ number[g] = number[h]
KeyTaken(h) == \E v \in versions : v.number = number[h]

InsertVersion(h) ==
    /\ phase[h] = "numbered"
    /\ ~KeyHeld(h)
    /\ ~KeyTaken(h)
    /\ phase' = [phase EXCEPT ![h] = "inserted"]
    /\ UNCHANGED <<kind, versions, current, request, seen, number>>

\* Mutant: the handler retries the insert without reading the maximum again.
RetryInsert(h) ==
    /\ phase[h] = "numbered"
    /\ ~KeyHeld(h)
    /\ KeyTaken(h)
    /\ UNCHANGED vars

\* IntegrityError: the session rolls back and the request fails.
InsertConflict(h) ==
    /\ phase[h] = "numbered"
    /\ ~KeyHeld(h)
    /\ KeyTaken(h)
    /\ phase' = [phase EXCEPT ![h] = "idle"]
    /\ UNCHANGED <<kind, versions, current, request, seen, number>>

\* Mutant: the config is kept with the definition, for all its versions.
CommitSharedConfig(h) ==
    /\ phase[h] = "inserted"
    /\ versions' = {[v EXCEPT !.config = NewRow(h).config] : v \in versions} \cup {NewRow(h)}
    /\ current' = NewRow(h)
    /\ phase' = [phase EXCEPT ![h] = "idle"]
    /\ UNCHANGED <<kind, request, seen, number>>

\* The pointer's UPDATE is flushed by the commit that publishes the row.
Commit(h) ==
    /\ phase[h] = "inserted"
    /\ versions' = versions \cup {NewRow(h)}
    /\ current' = NewRow(h)
    /\ phase' = [phase EXCEPT ![h] = "idle"]
    /\ UNCHANGED <<kind, request, seen, number>>

\* The worker dies or loses the metadata store: nothing uncommitted survives.
Rollback(h) ==
    /\ phase[h] # "idle"
    /\ phase' = [phase EXCEPT ![h] = "idle"]
    /\ UNCHANGED <<kind, versions, current, request, seen, number>>

Step(h) == ReadMax(h) \/ InsertVersion(h) \/ InsertConflict(h) \/ Commit(h)

Next ==
    \/ \E k \in Kinds, l \in Links, c \in Optional : Create(k, l, c)
    \/ \E h \in Handlers :
        \/ \E l \in Links, c \in Optional : LoadDefinition(h, l, c)
        \/ Step(h)
        \/ Rollback(h)

\* A handler that started is straight-line code on a thread of its own.
Spec == Init /\ [][Next]_vars /\ \A h \in Handlers : WF_vars(Step(h))

-----------------------------------------------------------------------------
\* The committed rows of a definition number 1, 2, ..., n without a gap, no two
\* share a number, and current_version_id references the n-th: whatever two
\* saves read before the other committed, neither rewinds the pointer
\* (mapping_service.py save_new_version, models/mapping.py unique constraint).
HistoryIsGapless ==
    kind # "none" =>
        /\ current \in versions
        /\ {v.number : v \in versions} = 1..current.number
        /\ \A v, w \in versions : v.number = w.number => v = w

\* Every version of a retirement mapping carries a config that passed
\* validation, although a save may validate and store the config of a row that
\* stopped being current while it ran (run_mapping indexes it unguarded).
RetirementVersionsConfigured ==
    kind = "retirement" => \A v \in versions : v.config \in WellFormed

\* The history readers see: entry n is what the row numbered n holds.
RowNumbered(n) == CHOOSE r \in versions : r.number = n
SavedHistory == [n \in 1..current.number |->
    [links |-> RowNumbered(n).links, config |-> RowNumbered(n).config]]

History == INSTANCE VersionHistory WITH history <- SavedHistory

\* Every interleaving of saves, failures and rollbacks looks, to readers of the
\* metadata store, like appends to a history nobody rewrites (the
\* "immutable-version policy" of MappingService).
AppendOnlyHistory == History!Spec

\* Two saves that were numbered alike cannot block each other for ever: unless
\* connections are lost again and again, every save that began is answered.
SavesAreAnswered ==
    <>[][\A h \in Handlers : ~Rollback(h)]_vars =>
        \A h \in Handlers : phase[h] # "idle" ~> phase[h] = "idle"
=============================================================================
