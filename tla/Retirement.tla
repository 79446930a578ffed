----------------------------- MODULE Retirement -----------------------------
(***************************************************************************)
(* run_retirement executed by concurrent requests against one audit table, *)
(* followed by run_mapping's run_log entry.  A run reads its source rows   *)
(* once, then for every row asks the audit table whether the row's         *)
(* identity is already there and, if not, inserts a record; one commit at  *)
(* the end publishes all of them.  The audit table has no unique           *)
(* constraint on the identity, so the question and the insert are two      *)
(* statements with nothing that ties them together.                        *)
(*                                                                         *)
(* Every member of Runs is one request; it runs at most once.              *)
(***************************************************************************)
EXTENDS Integers, FiniteSets

CONSTANTS Runs,          \* requests to dry-run or execute a retirement mapping
          Rows,          \* rows the source table may hold
          Identity,      \* row_identity_column of each row, as the audit stores it
          Translatable   \* rows whose reason code has a translation entry

ASSUME RetirementAssumption ==
    /\ Translatable \subseteq Rows
    /\ DOMAIN Identity = Rows
    /\ IsFiniteSet(Rows) /\ Rows # {}
    /\ IsFiniteSet(Runs)

VARIABLES
    phase,     \* where each run is
    mode,      \* "dry_run" or "execute"
    batch,     \* the rows the run's one SELECT returned
    todo,      \* those its loop has not reached
    row,       \* the row its loop is at
    counts,    \* RetirementRunResult
    pending,   \* rows whose records the run inserted and did not commit
    audit,     \* committed records, each naming its run and its source row
    log,       \* run_log entries
    before,    \* runs that had committed when this one read the source
    reads      \* how the target's READ COMMITTED treats uncommitted rows

vars == <<phase, mode, batch, todo, row, counts, pending, audit, log, before, reads>>

Modes == {"dry_run", "execute"}
ReadModes == {"snapshot", "seek", "scan"}
Phases == {"idle", "open", "check", "insert", "written", "logged", "failed"}
Record == [run : Runs, row : Rows]
Counts == [considered : Nat, written : Nat, duplicates : Nat, untranslatable : Nat]
LogEntry == [run : Runs, mode : Modes, read : Nat, written : Nat, flagged : Nat]
Zero == [considered |-> 0, written |-> 0, duplicates |-> 0, untranslatable |-> 0]

TypeOK ==
    /\ phase \in [Runs -> Phases]
    /\ mode \in [Runs -> Modes]
    /\ batch \in [Runs -> SUBSET Rows]
    /\ todo \in [Runs -> SUBSET Rows]
    /\ row \in [Runs -> Rows]
    /\ counts \in [Runs -> Counts]
    /\ pending \in [Runs -> SUBSET Rows]
    /\ audit \subseteq Record
    /\ log \subseteq LogEntry
    /\ before \in [Runs -> SUBSET Runs]
    /\ reads \in ReadModes

Init ==
    /\ phase = [r \in Runs |-> "idle"]
    /\ mode = [r \in Runs |-> "dry_run"]
    /\ batch = [r \in Runs |-> {}]
    /\ todo = [r \in Runs |-> {}]
    /\ row = [r \in Runs |-> CHOOSE x \in Rows : TRUE]
    /\ counts = [r \in Runs |-> Zero]
    /\ pending = [r \in Runs |-> {}]
    /\ audit = {}
    /\ log = {}
    /\ before = [r \in Runs |-> {}]
    /\ reads \in ReadModes

-----------------------------------------------------------------------------
RecordsOf(r) == {a \in audit : a.run = r}
Committed == {a.run : a \in audit}

\* Identities the run's own SELECT on the audit table can return.
Visible(r) == {Identity[a.row] : a \in audit} \cup {Identity[x] : x \in pending[r]}

\* The source SELECT: the rows whose status is a retired code at that moment.
Begin(r, m, selected) ==
    /\ phase[r] = "idle"
    /\ phase' = [phase EXCEPT ![r] = "open"]
    /\ mode' = [mode EXCEPT ![r] = m]
    /\ batch' = [batch EXCEPT ![r] = selected]
    /\ todo' = [todo EXCEPT ![r] = selected]
    /\ before' = [before EXCEPT ![r] = Committed]
    /\ UNCHANGED <<row, counts, pending, audit, log, reads>>

\* The loop takes the next row; no ORDER BY fixes which.
NextRow(r, x) ==
    /\ phase[r] = "open"
    /\ x \in todo[r]
    /\ phase' = [phase EXCEPT ![r] = "check"]
    /\ row' = [row EXCEPT ![r] = x]
    /\ todo' = [todo EXCEPT ![r] = @ \ {x}]
    /\ counts' = [counts EXCEPT ![r].considered = @ + 1]
    /\ UNCHANGED <<mode, batch, pending, audit, log, before, reads>>

\* Mutant: no row is ever looked up in the audit table.
NeverRetired(r) == FALSE

\* The dedup SELECT waits for the writer of an uncommitted row it would read:
\* any such row when it scans the table, one with its identity when an index
\* leads it there, none under row versioning.
WaitsFor(r, s) ==
    /\ r # s
    /\ phase[r] = "check"
    /\ \/ reads = "scan" /\ pending[s] # {}
       \/ reads = "seek" /\ \E x \in pending[s] : Identity[x] = Identity[row[r]]

Answered(r) == phase[r] = "check" /\ \A s \in Runs : ~WaitsFor(r, s)
Retired(r) == Identity[row[r]] \in Visible(r)

SkipDuplicate(r) ==
    /\ Answered(r)
    /\ Retired(r)
    /\ phase' = [phase EXCEPT ![r] = "open"]
    /\ counts' = [counts EXCEPT ![r].duplicates = @ + 1]
    /\ UNCHANGED <<mode, batch, todo, row, pending, audit, log, before, reads>>

SkipUntranslatable(r) ==
    /\ Answered(r)
    /\ ~Retired(r)
    /\ row[r] \notin Translatable
    /\ phase' = [phase EXCEPT ![r] = "open"]
    /\ counts' = [counts EXCEPT ![r].untranslatable = @ + 1]
    /\ UNCHANGED <<mode, batch, todo, row, pending, audit, log, before, reads>>

\* A dry run counts the record it would write and goes on.
CountOnly(r) ==
    /\ Answered(r)
    /\ ~Retired(r)
    /\ row[r] \in Translatable
    /\ mode[r] = "dry_run"
    /\ phase' = [phase EXCEPT ![r] = "open"]
    /\ counts' = [counts EXCEPT ![r].written = @ + 1]
    /\ UNCHANGED <<mode, batch, todo, row, pending, audit, log, before, reads>>

\* An execution has its answer; the INSERT is a later statement.
DecideInsert(r) ==
    /\ Answered(r)
    /\ ~Retired(r)
    /\ row[r] \in Translatable
    /\ mode[r] = "execute"
    /\ phase' = [phase EXCEPT ![r] = "insert"]
    /\ UNCHANGED <<mode, batch, todo, row, counts, pending, audit, log, before, reads>>

Insert(r) ==
    /\ phase[r] = "insert"
    /\ phase' = [phase EXCEPT ![r] = "open"]
    /\ pending' = [pending EXCEPT ![r] = @ \cup {row[r]}]
    /\ counts' = [counts EXCEPT ![r].written = @ + 1]
    /\ UNCHANGED <<mode, batch, todo, row, audit, log, before, reads>>

\* The loop is over: an execution commits, a dry run has nothing to commit.
Finish(r) ==
    /\ phase[r] = "open"
    /\ todo[r] = {}
    /\ phase' = [phase EXCEPT ![r] = "written"]
    /\ audit' = audit \cup {[run |-> r, row |-> x] : x \in pending[r]}
    /\ pending' = [pending EXCEPT ![r] = {}]
    /\ UNCHANGED <<mode, batch, todo, row, counts, log, before, reads>>

\* Mutant: a dry run persists the count of what it would have written.
SaveLogUnmasked(r) ==
    /\ phase[r] = "written"
    /\ phase' = [phase EXCEPT ![r] = "logged"]
    /\ log' = log \cup {[run |-> r, mode |-> mode[r],
                         read |-> counts[r].considered, written |-> counts[r].written,
                         flagged |-> counts[r].untranslatable]}
    /\ UNCHANGED <<mode, batch, todo, row, counts, pending, audit, before, reads>>

\* run_mapping's second transaction, on the metadata store; duplicates_skipped
\* has no column there, and a dry run's counts are not persisted.
SaveLog(r) ==
    /\ phase[r] = "written"
    /\ phase' = [phase EXCEPT ![r] = "logged"]
    /\ log' = log \cup {[run |-> r, mode |-> mode[r],
                         read |-> counts[r].considered,
                         written |-> IF mode[r] = "dry_run" THEN 0 ELSE counts[r].written,
                         flagged |-> counts[r].untranslatable]}
    /\ UNCHANGED <<mode, batch, todo, row, counts, pending, audit, before, reads>>

\* Mutant: the failed request keeps its connection, and its locks.
AbandonOpen(r) ==
    /\ phase' = [phase EXCEPT ![r] = "failed"]
    /\ UNCHANGED <<mode, batch, todo, row, counts, pending, audit, log, before, reads>>

\* Mutant: the records inserted before the error stay.
AbandonCommitting(r) ==
    /\ phase' = [phase EXCEPT ![r] = "failed"]
    /\ audit' = audit \cup {[run |-> r, row |-> x] : x \in pending[r]}
    /\ pending' = [pending EXCEPT ![r] = {}]
    /\ UNCHANGED <<mode, batch, todo, row, counts, log, before, reads>>

\* Leaving the connection's `with` block on an error rolls the records back.
Abandon(r) ==
    /\ phase' = [phase EXCEPT ![r] = "failed"]
    /\ pending' = [pending EXCEPT ![r] = {}]
    /\ UNCHANGED <<mode, batch, todo, row, counts, audit, log, before, reads>>

\* A database error, a lost connection or the death of the worker.
Fail(r) == phase[r] \in {"open", "check", "insert", "written"} /\ Abandon(r)

\* Runs that wait for each other, none of which could be left out.
Stuck(D) == D # {} /\ \A a \in D : \E b \in D : WaitsFor(a, b)
Circle(D) == Stuck(D) /\ \A E \in SUBSET D : Stuck(E) => E = D

\* The target breaks a cycle of waiting SELECTs by failing one of them.
DeadlockVictim(r) ==
    /\ \E D \in SUBSET Runs : r \in D /\ Circle(D)
    /\ Abandon(r)

Step(r) ==
    \/ \E x \in Rows : NextRow(r, x)
    \/ SkipDuplicate(r) \/ SkipUntranslatable(r) \/ CountOnly(r)
    \/ DecideInsert(r) \/ Insert(r) \/ Finish(r) \/ SaveLog(r)

Next == \E r \in Runs :
    \/ \E m \in Modes, selected \in SUBSET Rows : Begin(r, m, selected)
    \/ Step(r)
    \/ Fail(r)
    \/ DeadlockVictim(r)

\* A handler is straight-line code on its own thread, and SQL Server's lock
\* monitor always ends a deadlock; connections need not fail.
Fairness ==
    /\ \A r \in Runs : WF_vars(Step(r))
    /\ WF_vars(\E r \in Runs : DeadlockVictim(r))

Spec == Init /\ [][Next]_vars /\ Fairness

-----------------------------------------------------------------------------
\* Once a run has committed, no run that reads the source afterwards retires one
\* of its identities again, and one run never does so twice, even when the source
\* repeats an identity (FR-011 for runs that do not overlap).
NoDuplicateAfterCommit ==
    \A a, b \in audit :
        /\ Identity[a.row] = Identity[b.row]
        /\ a # b
        => a.run # b.run /\ a.run \notin before[b.run]

\* A run_log entry tells what its run did to the target: as many records as it
\* claims, none for a dry run; and the number run_orchestrator.py derives from
\* it, source_rows_read - untranslatable_rows_flagged, exceeds the records the
\* run wrote or would write by exactly the duplicates it skipped.
LogCountsRecords ==
    \A e \in log :
        /\ e.written = Cardinality(RecordsOf(e.run))
        /\ e.mode = "dry_run" => RecordsOf(e.run) = {}
        /\ e.read - e.flagged = counts[e.run].written + counts[e.run].duplicates
        /\ e.mode = "execute" => e.written = counts[e.run].written

\* A run leaves all its records or none, whether it ended well, failed or is still
\* busy: none before its commit; and where one of its records is, or an execution has
\* committed, its loop had come to an end and every translatable identity it selected
\* has a record, its own or an earlier one: a skipped duplicate is never a row nobody
\* retires.
RetiredOrRolledBack ==
    \A r \in Runs :
        /\ phase[r] \in {"open", "check", "insert"} => RecordsOf(r) = {}
        /\ \/ RecordsOf(r) # {}
           \/ phase[r] \in {"written", "logged"} /\ mode[r] = "execute"
           => /\ todo[r] = {}
              /\ \A x \in batch[r] \cap Translatable :
                    \E a \in audit : Identity[a.row] = Identity[x]

\* Nobody waits in vain: of runs that wait for no others one can go on, or some
\* of them wait in a circle, which the target breaks.  A dry run holds nothing
\* that others wait for and is never in a circle.
Unanswered(r) == phase[r] \in {"open", "check", "insert", "written"}
CanGoOn(r) == phase[r] \in {"open", "insert", "written"} \/ Answered(r)
NobodyWaitsInVain ==
    /\ \A S \in SUBSET Runs :
         /\ \E r \in S : Unanswered(r)
         /\ \A r \in S, s \in Runs : WaitsFor(r, s) => s \in S
         => (\E r \in S : CanGoOn(r)) \/ (\E D \in SUBSET S : Circle(D))
    /\ \A D \in SUBSET Runs : Circle(D) => \A r \in D : mode[r] = "execute"

\* Every run ends with a logged result or an error, although runs wait for each
\* other's uncommitted records.
RunsEnd == \A r \in Runs : phase[r] # "idle" ~> phase[r] \in {"logged", "failed"}

\* FR-011 as retirement_writer.py states it: a row whose identity already has an
\* audit record is skipped, so no identity has two.
OneRecordPerIdentity ==
    \A a, b \in audit : Identity[a.row] = Identity[b.row] => a = b
=============================================================================
