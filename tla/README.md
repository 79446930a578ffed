# viewBuilder: TLA+ specifications, model checking and proofs

viewBuilder lets operators map legacy SQL Server tables to new ones, run such a
mapping, retire rows into an audit table, and generate, deploy and reconcile views
that give an old wide table's shape to new normalized tables. This directory
specifies the part of it where order, failure and concurrency matter. All paths
below are relative to the repository, `B/` being `src/backend/src/`.

## 1. Inventory

Three stores take part, and no transaction spans two of them:

* the **metadata store** (PostgreSQL, one `Session` per HTTP request, closed and
  hence rolled back by `get_db`, `B/db/session.py`),
* **source, target, old-table databases** (SQL Server, one engine and one
  connection per use, `B/connectors/mssql.py`), which belong to other people and
  change under the program,
* the **browser**, which holds a form or a canvas and talks HTTP.

Handlers are plain `def` functions, so FastAPI runs each in a thread of its pool:
two requests about one mapping or view interleave at every statement.

| component | state | operations | talks to | hard part | correct when |
|---|---|---|---|---|---|
| Mapping versions (`mapping_service.py`) | `mapping_definition` with `current_version_id`, immutable `mapping_version` rows | create, save a new version, list | metadata store | read max number, insert, move the pointer by concurrent saves; inheritance of `retirement_config` | numbers are 1..n, the pointer is at n, no row is rewritten, retirement versions are configured |
| Mapping runs (`run_orchestrator.py`) | `run_log` | dry run, execute | metadata store, source, target, retirement writer, translation | four transactions; drift between check and use; a row rejected after others | all or nothing; the log tells the truth; a dry run predicts |
| Translation (`mapping_engine.py`) | none | translate a row | called by runs | codes without an entry, missing columns | a row is written whole or flagged |
| Retirement writer (`retirement_writer.py`) | audit table in the target | run | source, target | SELECT-then-INSERT deduplication | never the same identity twice, all rows or none |
| Enum translations (`enum_translation_service.py`) | versioned code tables | create, save | metadata store; links and views name a version | two engines apply one table: a Python dictionary in runs, a SQL CASE in views | both show the same, nothing is guessed, what is saved keeps its meaning |
| Join graphs and DDL (`view_definition_service.py`, `ddl_generator.py`) | none | validate, order, emit | called by saves | two different searches over one graph that must agree | exactly the connected graphs are accepted, and accepted ones generate scoped SQL |
| View definitions and deployment (`view_definition_service.py`, `view_deployment_service.py`) | definition, versions, column rules, deployment log; the view itself | save, preview, deploy | metadata store, old-table database, target | two commits per save; view committed before its log entry; gates checked before use | what is live was checked and confirmed; the log and the rules describe it |
| Legacy shapes (`legacy_shape_service.py`) | captures | capture, check drift | old-table database | the old table changes later | drift blocks |
| Reconciliation (`api/reconciliation.py`, `reconciliation_engine.py`) | `reconciliation_run` | compare | both databases, rules, log | which version is really live; duplicates; a capped detail | the result is about the version it names, and exact |
| XML lookup (`xml_lookup_service.py`, `api/xml_mappings.py`, `XmlLookupPanel.tsx`) | versioned field mappings; the page's copy of one | save, merge a path, look up | document database, query cache | two statements; a page merges into a copy that saves overtake | an answer was true at some moment of the lookup; a saved path stays |
| Connections (`connection_service.py`, `connectors/mssql.py`) | `connection_config` | create, list, test, introspect | all databases | rows of an earlier release; engines never disposed of | a stored connection logs in as whom it was entered for |
| Startup (`src/backend/docker/entrypoint.sh`, `src/backend/db/alembic`) | schema, revision | wait, migrate, seed, serve | metadata store | bounded retry, containers that migrate at once, downgrades | whoever serves migrated to head first, and head is what the models declare |
| Frontend (`src/frontend/src`) | forms, canvas | edit, save, run, confirm | API | answers out of order, lossy canvas conversion | a save stores what was shown |
| API shell, settings, audit logging | none | routing, wording | | | |

## 2. Modules

| module | models | main correspondence |
|---|---|---|
| `VersionHistory` | abstract: what the versioned tables promise readers | an append-only sequence; `Create`, `Save` |
| `MappingVersions` | `MappingService.create_mapping`, `save_new_version` by concurrent handlers | one action per statement that reads or writes shared state: `LoadDefinition`, `ReadMax`, `InsertVersion` / `InsertConflict`, `Commit`, and `Rollback` for `get_db`'s close or a dead worker |
| `Retirement` | `run_retirement` and its `run_log` entry | `Begin` is the source SELECT, `NextRow` the loop, then the dedup SELECT's outcomes (`SkipDuplicate`, `SkipUntranslatable`, `CountOnly`, `DecideInsert`), `Insert`, `Finish` (commit), `SaveLog` |
| `MappingRun` | `run_mapping` for column mappings | `Load` with the production gate, `CheckSource`, `CheckTarget`, `ReadSource`, `SkipRow`, `WriteRow`, `RejectRow`, `Finish`, `SaveLog`, `Fail`; saves and ALTER TABLE as environment |
| `JoinGraph` | `validate_join_graph`, then `_build_join_order` on the same input | one action per iteration of each loop |
| `ViewLifecycle` | save, preview, deploy, reconcile of one view | one action per commit or per statement on another store; `AlterLegacy`, `DropView` as environment |
| `Reconciliation` | `compare_row_sets` and the exit status of `scripts/local_reconcile.py` | one action per identity visited by its loops over one-sided and inflated identities (`VisitOneSided`, `VisitInflated`); for a pair `VisitPair`, one `CompareColumn` per column, and `EndPair`; `ExitStatus` |
| `Translation` | an enum translation table, the runs and the views that apply it, the canvas on which links are drawn | `Translate` is `translate_row`'s lookup, `Expression` a column of `_select_list`, `CaseShows` what the database makes of it; `CastTo` the CAST to the legacy column's type around it; `SaveEntries`, `SaveView`; `Connect`, `Disconnect`, `Attach`, `SaveMapping` (which fails on a link with a translation), `OpenEditor` |
| `XmlLookup` | the versions of a field mapping, the panel's merge, the lookup | one action per request or statement: `AddPath`, `ReadMaxNumber`, `StoreVersion` / `NumberTaken`; `LoadPaths`, `CheckExists`, `Extract`; `Refetch` is the query cache, `Change` the documents' owner |
| `Startup` | `entrypoint.sh`, the Alembic revisions, creation and login of connections | `Try`, `ReadRevision`, `Migrate`, `Commit`, `Serve`, `Restart` per container; a revision is the sequence of its DDL operations (`Upgrades`, `Downgrades`), executed by `Execute`; `CreateConnection`, `LoginOf` |
| `MappingVersionsProofs`, `RetirementProofs`, `JoinGraphProofs`, `MappingRunProofs`, `ViewLifecycleProofs`, `TranslationProofs`, `ReconciliationProofs`, `XmlLookupProofs` | theorems | see section 5 |
| `MC...` | constants and symmetry for TLC | |

**Composition.** `MappingVersions` is proved to implement `VersionHistory`, so the
modules that only need to know that somebody saves versions (`MappingRun`,
`ViewLifecycle`) instantiate `VersionHistory` and take its `Create` and `Save` as
actions of their own. View versions and enum-translation versions are numbered by
the same protocol as mapping versions without inheritance, i.e. `MappingVersions`
with `Configs = {}`. `MappingRun` decides which rows of a run are flagged and what
is committed; `Translation` says what a translated cell holds, and that a view shows
the same. `ViewLifecycle` produces the rules that `Reconciliation` takes as
`retired`; `Translation` shows that those rules fit the view's SQL.

**Conventions.** Values that no property looks into are model values. A variable
marked *for the properties* (`found`, `shape`, `replaced`, `before`, `lowered`) records the
past and guards nothing. An operator whose comment begins with *Mutant:* is a
definition of the specification with one plausible mistake; nothing uses it. Each
property has one: replacing the definition by its mutant makes TLC find the
property violated, which shows that the instance is large enough for the property
to be at stake.

### Abstractions

* *Transactions.* The metadata store is READ COMMITTED: a statement sees what was
  committed before it. An INSERT under a unique key waits for an uncommitted equal
  key and fails on a committed one. A failed or dying handler loses exactly its
  uncommitted work.
* *How the target reads.* SQL Server's READ COMMITTED depends on a database
  setting and on indexes the program does not control, so `Retirement` starts in
  any of three ways: row versioning (nobody waits), an index seek (a SELECT waits
  for an uncommitted row with its identity) and a scan (for any uncommitted row).
* *Deadlocks* between waiting statements are broken by the server failing one member
  of a circle: runs each of which waits for another of them, and of which none could be
  left out (`Retirement.Circle`). `MappingRun` has that victim in its `Fail` action,
  because it states no liveness.
* *`Fail`* stands for database errors, lost connections and the death of the
  worker, at every point where the code has something in flight.
* *`started_at`* is filled in by PostgreSQL's `now()`, the start of the
  transaction; `ViewLifecycle.started` orders transactions so.
* *Source rows* do not change during `MappingRun`; in `Retirement` every run reads
  an arbitrary subset of the rows, since their status changes between runs.
* *Versions in `ViewLifecycle`* belong to one definition and one capture. A request
  that names one of them may name another definition with it (`request.foreign`);
  that definition has the same target database, so the named version's SQL changes
  the one view, but its old table and its view are not modelled and may be found in
  any shape. Its deploys are not in the model, so `previous` is 0 for such a request.
* In `Reconciliation` the identity column always equals itself and is not compared,
  and `sorted(..., key=str)` is any order: it only decides what the cap cuts off.
* In `Translation` a version of the table is its number, and saves of the table, the
  mapping and the view are atomic: their interleavings are `MappingVersions`' and
  `ViewLifecycle`'s matter. `Text`, `Cast`, `Fold` and `AsLegacy` are constants:
  `str()`, the database's `CAST AS NVARCHAR(4000)`, its collation, and the CAST of an item
  of the SELECT list to the legacy column's type, which may change a value or fail. The
  code assumes much about them and knows nothing.
* In `XmlLookup` a document is a function from paths to values. An element that is
  there and empty is a value like any other, as it is for the code.
* In `Startup` PostgreSQL runs one upgrade as one transaction, whose locks keep others
  out until it ends. Enum types are created with the first table that uses them and
  outlive it, except `connection_auth_mode`, which its revision drops by hand.

## 3. Runs

All passing runs finish in under three minutes with two workers. Deadlock
checking is off everywhere: a set of requests that have all been answered is a
state in which the system rightly stops.

| run | instance | shows |
|---|---|---|
| `mapping_versions` | 2 handlers, 2 valid and 1 malformed config, a valid and an invalid link list, saves up to version 4 | `HistoryIsGapless`, `RetirementVersionsConfigured`, refinement `AppendOnlyHistory`, liveness `SavesAreAnswered` |
| `retirement` | 2 runs, 3 rows two of which share an identity and one of which cannot be translated, all three ways of reading | `NoDuplicateAfterCommit`, `LogCountsRecords`, `RetiredOrRolledBack`, `NobodyWaitsInVain`, liveness `RunsEnd` |
| `mapping_run` | 2 runs, 2 rows (one code lacks a translation), 2 payloads, 2 versions, a keyed production target, one source and one target column that come and go | `DryRunPredicts`, `AllOrNothing`, `DriftStopsWrites`, `LogMatchesTarget` |
| `join_graph` | every graph of up to 3 edges over 3 tables, every choice of live and retired tables | `ValidationIsExact`, `BackstopNeverFires`, `EveryJoinIsScoped`, `TreesKeepEveryEdge`, action property `EveryStepAdvances`, liveness `SaveIsAnswered` |
| `view_apart` | 5 requests about the current version, any may fail, which overlap but for a deploy with a deploy and a save with a reconciliation, up to 3 versions | `ReconciledVersionIsLive`, `OnlyUnloggedDeploysMislead`, `RetiredColumnsAgree` |
| `view_concurrent` | 3 overlapping requests that may name a version, also under another definition, production target, failures, an old table that changes, a view that is dropped | `LiveIsAuthorised`, action property `ResultsFollowDeploys` |
| `reconciliation` | every old table of up to 2 rows against every view of up to 3, 2 identities, 2 columns of value or NULL, any retired, detail capped at 3 | `ReportIsExact` (with the exit status), `DetailExplainsCounts` |
| `translation` | 2 versions of a table over 4 lists of entries (none, a BIT's two texts, two codes that differ in case, a repeated code), 4 source values and NULL, a mapping of 2 links, a view that may map its column twice and whose column's type cuts one translation and cannot hold the other | `RunAndViewAgree`, `NoCodeIsGuessed`, `RulesForgiveNulls`, action properties `TranslationsNeverDrift`, `OnlyRedrawingUnpins`, `SavesStoreWhatIsShown` |
| `xml_lookup` | 2 pages, 2 columns, 2 paths, up to version 3, a document that is changed or deleted once | `SavedPathIsUsed`, `OnlyStaleCopiesLosePaths`, `AnswersAreTrue` |
| `startup` | 2 containers, a store at any earlier revision with or without an old connection, 2 faults (crash, outage, downgrade), 2 tries per start | `HeadIsTheModels`, `LoginsSurvive`, action property `UpgradesEndAtHead`, liveness `EveryContainerServes` |

*Why the bounds are enough.* Version races are between two saves; the third and
fourth version let one of them be overtaken twice between its two reads. A duplicate
needs two rows of one identity, in one run or in two; waiting in a circle needs two
runs. The smallest graphs with a cycle, a composite key (parallel edges), a self
join and a table reached only through another have three tables and three edges.
A stale `column_diff` needs two saves and three deploys, five requests. The detail
list can get four entries (two identities, two columns), one more than the cap. A
path is lost by the second of two saves from one copy, and a third version lets
another page save in between; one change of the document is enough to fall between
the two statements of a lookup. The values of `translation` are the ways a code can
be read differently by the two engines: a type whose text differs, a collation that
folds, a code that occurs twice; and a view's column may be too narrow for a value. The race to migrate is between two containers; two
faults let a downgrade meet a crash or an outage; two tries, of the script's thirty,
are an attempt that is not the last and one that is. The theorems of section 5 lift
thirty-three of these forty properties to every size.

The type invariant of `MappingVersions` is checked by its run. Those of the other
modules with theorems are part of their inductive invariants and are proved instead
(`TypeCorrect`; in `XmlLookup`, `Typed`). `Startup` states none: its properties read
every variable, and TLC evaluates them on values of the wrong type only by failing.

*Requests that do not overlap.* Nothing in the code keeps two requests about one view
apart. Three things its users may take for granted hold only if some requests are: that
a reconciliation compares the version it is recorded under, that it forgives what the
view casts to NULL, and that a `column_diff` is relative to what was live. The constant
`Apart` says which: `{k}` that requests of kind k do not overlap each other, `{k, l}`
that none of kind k overlaps one of kind l. `view_apart` keeps apart what the three
properties need and no more, and lets everything else overlap. Without `{"deploy"}` TLC
refutes `ReconciledVersionIsLive` and `OnlyUnloggedDeploysMislead`: two deploys change
the view in one order and log in the other. Without `{"save", "reconcile"}` it refutes
`RetiredColumnsAgree`: a reconciliation reads the column rules between the two commits
of a save, and a later commit gives the version rules that it did not forgive by. What
is left of a reconciliation when anything overlaps is `ResultsFollowDeploys`, which
`view_concurrent` checks.

### Fairness

* `MappingVersions`: weak fairness of every handler's `Step`. A handler is
  straight-line code on its own thread. Nothing forces a request to arrive
  (`LoadDefinition`), and `SavesAreAnswered` assumes that rollbacks cease.
* `Retirement`: weak fairness of every run's `Step`, and of the deadlock monitor,
  which SQL Server runs periodically. Failures need not happen.
* `JoinGraph`: weak fairness of `Next`: one thread executes both loops.
* `Startup`: weak fairness of each container's `Start` (a script that runs, and the
  deployment's `restart_policy: condition: on-failure`) and of `StoreUp`: an outage
  ends. Faults are bounded by `MaxFaults`, which is what "once faults cease" means.
* The other modules state safety only and assume no fairness.

## 4. Where the code departs from what it says

Runs that are expected to find a violation, each of one statement quoted in
`PROJECT.json`:

| run | property | what happens |
|---|---|---|
| `retirement_duplicates` | `OneRecordPerIdentity` | overlapping runs both find an identity absent and both record it; the audit table has no unique constraint |
| `xml_paths_lost` | `AddedPathsSurvive` | a second path added from one page is merged into the copy fetched before the first, and the version it saves lacks the first |

Further divergences met while modelling, of which the passing runs show the reach but
which have no run of their own:

* `run_mapping` commits the target before the `run_log` entry. A failure in between
  leaves rows that no entry tells of, against "every preview and execution is
  recorded" (`src/GUIDE.md:81`); `LogMatchesTarget` says only that recorded entries
  are true. `mapping_version_id` is accepted by `api/runs.py:30` and not passed on:
  the current version runs, whichever was named.
* A failure between the two commits of a view's save leaves a current version without
  column rules, against "one row per legacy-shape column, per
  view_definition_version"; `ResultsFollowDeploys` says that a reconciliation which
  forgives too little for that reason met a save that had not come to its second commit
  or failed there. A reconciliation that names an earlier deployed version compares the rows of
  the one deployed since and records them under the earlier one;
  `ReconciledVersionIsLive` holds for requests about the current version whose deploys do
  not overlap; `ResultsFollowDeploys` is what holds always.
* A version named with another definition's id is not checked to belong to it
  (`view_deployment_service.py:82`). `LiveIsAuthorised` states what is left: a view
  deployed so was confirmed, but the drift check looked at another old table.
* A mapping with a translation attached to a link cannot be saved. Both handlers pass on
  `model_dump(exclude_none=True)` without `mode="json"` (`B/api/mappings.py:80`, `:117`),
  so `enumTranslationVersionId` is still a `uuid.UUID` when it reaches the JSON column
  (`B/models/mapping.py:60`, no `json_serializer` at `B/db/session.py:11`), and the
  INSERT fails. `src/GUIDE.md:75-77` tells the user to attach a translation to a link and
  then to save. `SavesStoreWhatIsShown`, which holds, says what happens instead: a save
  stores the page as shown only if no link has a translation, and a page with one stores
  nothing. It is listed among the findings under the run that checks it. Runs of such
  mappings are modelled (`RunWrites`, `MappingRun`) from versions as `MappingService`
  stores them when a caller passes a string, as `tests/integration/test_enum_dry_run.py`
  does.
* Whatever connects or removes a line on the canvas, connecting two columns that are
  connected already included, takes the translations off every link
  (`MappingCanvas.tsx:85-113`, `linkEdgeConversion.ts:14-19`); `OnlyRedrawingUnpins` says
  that a translation goes only so, or by the link's own selection. The editor of an existing mapping
  opens with no links, so a save replaces them all. The version it offers is the one
  current when the list was fetched.
* A view casts each translation to the legacy column's type (`ddl_generator.py:177-178`),
  where a run writes it whole: a `CHAR(1)` column shows a part of the label, and a number's
  makes the view's SELECT fail, though nothing was flagged or rejected.
  `RunAndViewAgree` and `NoCodeIsGuessed` are stated up to that cast.
* A downgrade leaves the enum types of its tables behind, and the next upgrade fails
  on them at every restart; `EveryContainerServes` excludes exactly that.
* `entrypoint.sh` does not look at the schema again after `alembic upgrade head`: a
  downgrade before `exec uvicorn` (in a test deployment the seeding lies between, too)
  starts the server on an older schema. `UpgradesEndAtHead` excludes nothing else.
* An XML document deleted between the two statements is answered "field_missing"
  (`AnswersAreTrue`), and an empty element is "found" with an empty value.
* `local_reconcile.py` exits with 0 when the view multiplies rows and nothing else is
  wrong (the last conjunct of `ReportIsExact`).

Neither failure nor concurrency is needed for these: `check_drift` compares columns as
sets, so a changed order is no drift although the captured shape is "column list/order/types"; `compute_column_diff` is handed the order
of the payloads, not of the views' columns; a payload that maps one column twice
passes `validate_column_mappings` and leaves two rules, so that a column retired by the
first entry and not by the second is shown by the view and forgiven by the
reconciliation (`RetiredColumnsAgree` is proved of all other payloads, and TLC refutes
it of that one); a view all of whose columns
are Retired is accepted and then has no table to select from; a dry run's derived
"would write" number counts the duplicates that the run skips (`LogCountsRecords`
says by exactly how many it is too large). `OnlyUnloggedDeploysMislead` states precisely
when a deploy's `column_diff` is relative to a version that is not live.

## 5. Proofs

Checked by TLAPS for every value of the constants that satisfies the named
assumptions.

**`MappingVersionsProofs`** (from `PayloadAssumption`: some payload exists, the
valid ones are payloads, `None` is no config): `TypeCorrect`, `GaplessHistory`,
`ConfiguredRetirements` and `ImplementsHistory`, the refinement of `VersionHistory`.
`HistoryIsGapless` alone is not inductive: the step that could break it is `Commit`,
which must know that the number a handler inserted is still one past the maximum.
`NumberIsNextOrTaken` says that no number in hand is more than one ahead of the
pointer and that an uncommitted row has exactly the next one; `OneInserter` that
only one handler can hold such a row, which is what the unique index is for;
`InFlightIsAcceptable` that what a save is going to store passed the validation and
that the row it inherits from is committed; `NothingBeforeCreate` covers the time
before the mapping exists.

**`RetirementProofs`** (from `RetirementAssumption`: finitely many rows, at least
one, each with an identity): `TypeCorrect`, `NoDuplicates`, `CompleteOrNothing`,
`LogCounts`, `WaitingEnds`. The invariant adds that records belong to runs that committed (`RecordsHaveRuns`), that
the runs a run looks back on have ended (`LooksBack`), that what a run has inserted
or is about to is fresh with respect to those and to its own records
(`InsertsAreFresh`), and that every translatable row is ahead of the loop, in its
hands or retired in the run's view (`RowsAreHandled`). `LogCounts` needs a second one
on top (`CountInv`): a row taken is counted once more when it is decided, what an
execution counts as written is what it has inserted and then committed (`RunCounts`),
and an entry repeats the counts of a run that changes no more (`LogIsOfRuns`).
`WaitingEnds` is the safety half of `RunsEnd`: that no run is left waiting for nobody,
for itself or for a run that has ended. A set of runs each of which waits for another of
them has a smallest such subset, the circle the server looks for (`StuckHasCircle`), in
which each is waited for (`CircleMembersHold`), holds records, and so is an execution.

**`JoinGraphProofs`** (from `GraphAssumption`: finitely many tables): `TypeCorrect`,
`ValidationExact`, `BackstopUnused`, `JoinsScoped`, `TreesKeepEdges`, `StepsAdvance`,
with the lemma `NoEndlessDescent`. "Connected" is stated without paths, as the absence of a closed proper part, so that no recursion is
needed. `Partition` and `Explored` say that the components found are closed under edges
and that no closed set divides one; `Frontier` that a table which has left the queue has
only visited neighbours, so that the visited set is closed when the queue is empty,
hence everything. `JoinsCounted` says that the joins so far introduce the visited tables
other than the root, one each, by an edge to a table introduced before; two joins then
have different edges (`EdgesDiffer`), and where there are no more edges than joins every
edge is the condition of one. That both searches end is split in two: `StepsAdvance` says
that every step makes what remains (`Remaining`: phases, tables, stack or queue, edges)
less in the order of the leftmost difference (`Below`), and `NoEndlessDescent`, a fact
about four natural numbers and not about the code, that this order is well founded. No behaviour has infinitely many steps,
then; that the steps do not cease before the answer is fairness and stays with TLC
(`SaveIsAnswered`).

**`MappingRunProofs`** (from `RunAssumption`: finitely many source rows, payloads are
sets of links): `TypeCorrect`, `AllOrNothingAlways`, `DriftStopsWritesAlways`,
`LogMatchesTargetAlways`, `DryRunPredictsAlways`. The invariant describes one run at a
time (`RunInv`), so that a step of another run leaves it alone (`Frame`, `RunStep`) and
a save or an ALTER TABLE leaves all of them alone (`QuietStep`). `PendingIsReached` says
that the uncommitted rows of an execution are the translatable rows its loop has
reached, `WrittenIsWhole` that its committed rows are all of them or none,
`CountsAreExact` that the counts are the number of those rows, `Checked` and `Gated`
that what the gates found is still true of the run later, `Loaded` that the version it
runs stays saved. `LogIsOfRuns` ties an entry to its run, which has ended; the log and
the dry run's prediction then follow, and the rows of the target are counted by the
bijection between them and the source's (`RowsOfCount`).

**`ViewLifecycleProofs`** (from `ViewAssumption`: finitely many requests, payloads are
sequences of mappings): `TypeCorrect`, `LiveIsAuthorisedAlways`,
`ResultsFollowDeploysAlways` for all requests.
`LiveIsAuthorised` is not inductive: the request it
names might still change what it asked for. `LiveHasDeploy` adds that this request is
past its DDL (`Settled`), after which nothing of it changes, and `DeployIsCleared` that
a request between the gates and its DDL is a deploy that passed them. That the latest
deploy exists at all (`LatestExists`) rests on the transactions being finitely many.

`ResultsFollowDeploysAlways` holds for any overlap. A request past the
gate names a version that was deployed (`WasDeployed`), and whoever put the version it
reads there is settled (`PutThere`); both stay true of a request that changes neither
(`FoundedStays`). The rules a result is made from are all there or none
(`RulesDescribeTheirVersion`, part of the invariant), and while there are none the save
of that version is between its two commits or failed there (`RulesUnlessUnfinished`).

The properties of `view_apart` fail if everything overlaps, so their theorems have
hypotheses on the constants, each no stronger than its run has. `KeptApart` turns
`Apart` into an invariant about the phases of requests in progress, `DeploysInTurn` says
that a deploy in progress is the only one and began after all others.

* `ReconciledVersionIsLiveApart`: requests name no version, deploys do not overlap each
  other, and reconciliations overlap no deploys or no saves (`ComparesApart`). Either
  will do: if no save comes in between, the version a reconciliation found deployed is
  still the current one, which is all a deploy can put there (`UpToDate`). The owners of
  the databases may interfere: a view that was dropped is not read.
* `OnlyUnloggedDeploysMisleadApart`: requests name no version, nobody drops the view,
  deploys do not overlap each other; saves, previews and reconciliations overlap them as
  they like. The live version was put there by a request newer than every logged deploy
  but its own (`SomebodyPutIt`). If it is logged it is what a deploy finds as its
  predecessor (`FoundLatest`); if not, it is the failed deploy that explains the diff
  (`NotMisled`).
* `RetiredColumnsAgreeApart`: saves and reconciliations do not overlap; requests may name
  versions, but no payload retires a column in one entry and keeps it in another
  (`NoContradiction`; the code accepts such a payload, see section 4). A version that has
  yet to get its rules was not reconciled (`RetiredInv`), and complete rules retire what
  the SELECT list casts to NULL (`RetiredRules`).

**`TranslationProofs`** (from `TranslationAssumption`; whatever `Text`, `Cast`,
`AsLegacy` and `Fold` are): `TypeCorrect`, `TranslationsNeverDriftAlways`, `NoCodeIsGuessedAlways`,
`RunAndViewAgreeAlways`, `RulesForgiveNullsAlways`, `OnlyRedrawingUnpinsAlways`, `SavesStoreWhatIsShownAlways`.
`EntriesStay` says that no step changes the entries of a saved version, `ViewIsRendered`
that the SQL of the saved view is the one its mappings and those entries give;
`TranslateSound` and `CaseSound` that a dictionary lookup and a CASE return the value of
an entry with the code, which needs that a set of positions has a last and a first
member (`ExtremesExist`, from the well-foundedness of the naturals). That the two agree
needs the converse: every code of the entries gets some branch of the CASE
(`CaseTranslates`), and a saved version has no code twice (`EntriesAreValid`).
`RulesFit` ties the rules to the mappings the SQL was rendered from.

**`ReconciliationProofs`** (from `ReconciliationAssumption`: finitely many identities,
finitely many columns, none listed twice): `TypeCorrect`, `ReportExact`,
`DetailExplains`. The exit status is zero exactly when the sides agree but for inflation. The invariant says what the loops have done when they are in the
middle: `Progress` which identities are left and, within a pair, that the flag tells of
the columns before the scan; `Counted` that the counts are the cardinalities of the
identities visited, pairs only when their scan has ended; `Detailed` that every entry of
the detail is due, and every due entry is there as long as the list is shorter than the
cap. An entry can be due for an identity that is finished or for the columns scanned of
the one that is not (`DueFinished`, `DueNow`), which is why one step of the invariant per
column is needed. At the end the cardinalities add up (`Sizes`).

**`XmlLookupProofs`** (from `XmlAssumption`): `SavedPathUsed`, `OnlyStaleCopies`,
`AnswersTrue`. `Merged` says of every saved version that it is the merge of its path into
the copy it was saved from; `MergeFacts` that a merge sets the path found for its
column and keeps that of every other, for lists of any length, which rests on the
enumeration of a finite set of positions (`AscendingFacts`). `Posting` describes a save
between its two statements, `Looking` and `Reading` a lookup: the version it loaded and
the document it saw are among those since it began. A document deleted between the two
is the exception that `AnswersAreTrue` makes.

Model-checked only:

* liveness (`SavesAreAnswered`, `RunsEnd`, `SaveIsAnswered`, `EveryContainerServes`),
  which is outside what the prover does;
* `HeadIsTheModels`, `LoginsSurvive` and `UpgradesEndAtHead`, all of them of `Startup`:
  executing a revision is a fold over its DDL operations, of which nothing can be proved
  without an induction over data. The revisions are constants of the program, so TLC runs
  the real ones; it bounds the containers and the faults.

## 6. Not modelled

* HTTP routing, error wording, audit logging and settings: no state of their own.
* The text of the generated SQL: `JoinGraph` has the order of its joins,
  `Translation` what each expression shows.
* Values the driver converts other than the ones `Translation` names; sample rows.
* Columns of the metadata tables other than those of a login; of the optional
  seeding of a test database (`entrypoint.sh:31-42`) there is only its failure, a `Crash`
  between migration and server: what it writes, and its own wait loop, concern no store of
  this specification.
* Connection pools: engines are built per request and never disposed of, but how long
  their connections stay open is up to the garbage collector and the library.
* The editor of view definitions, the join canvas and the pages that are forms over one
  request each.

## 7. Plan

Done: the two protocols on the metadata store, runs, retirement, join graphs, the
view lifecycle, the comparison, translations, XML lookup, startup, and the proof
modules of section 5. Left:

* `ViewEditor`: hydration of the editor's form by answers in any order.
