-------------------------- MODULE MappingRunProofs --------------------------
(***************************************************************************)
(* For any number of runs, rows and versions, whatever tables are altered  *)
(* and runs fail: an execution writes all translatable rows or none, of a  *)
(* checked version and with its confirmation, and the log is true of it.   *)
(***************************************************************************)
EXTENDS MappingRun, FiniteSetTheorems, TLAPS

\* The rows a run's version can translate, given the columns it read.
Good(r) == {x \in Rows : ~Untranslatable(x, LinksOf(r), columns[r])}
RowsOf(r, S) == {[run |-> r, row |-> x] : x \in S}
Execution(r) == request[r].mode = "execute"

\* A run that has begun loaded a version that stays saved.
Loaded(r) == phase[r] # "idle" => version[r] \in 1..Len(history)

\* An unconfirmed execution on production gets nowhere.
Gated(r) == Execution(r) /\ Production /\ ~request[r].confirmed =>
                phase[r] \in {"idle", "needs_confirmation"}

\* An execution that has passed a check found what it needs.
Checked(r) ==
    Execution(r) =>
        /\ phase[r] \in {"target_check", "connect", "rows", "committed"} =>
                Needs(r, "source") \subseteq found[r].source
        /\ phase[r] \in {"connect", "rows", "committed"} =>
                Needs(r, "target") \subseteq found[r].target

\* What is uncommitted are the good rows an execution's loop has reached.
PendingIsReached(r) ==
    pending[r] = IF phase[r] = "rows" /\ Execution(r) THEN RowsOf(r, Good(r) \ todo[r]) ELSE {}

\* What is committed are all of them, of an execution that reached its commit.
WrittenIsWhole(r) ==
    /\ \/ WrittenBy(r) = {}
       \/ /\ phase[r] \in {"committed", "logged", "failed"} /\ Execution(r)
          /\ WrittenBy(r) = RowsOf(r, Good(r))
    /\ phase[r] \in {"committed", "logged"} /\ Execution(r) => WrittenBy(r) = RowsOf(r, Good(r))

\* The counts are those of the rows the loop has reached.
CountsAreExact(r) ==
    /\ phase[r] \in {"idle", "source_check", "target_check", "connect"} =>
            counts[r] = [read |-> 0, written |-> 0, flagged |-> 0]
    /\ phase[r] \in {"rows", "committed", "logged"} =>
            /\ counts[r].read = counts[r].written + counts[r].flagged
            /\ counts[r].written = Cardinality(Good(r) \ todo[r])
    /\ phase[r] \in {"committed", "logged"} => todo[r] = {}

RunInv(r) == /\ Loaded(r) /\ Gated(r) /\ Checked(r) /\ PendingIsReached(r)
             /\ WrittenIsWhole(r) /\ CountsAreExact(r)

\* What SaveLog stores of a run.
EntryOf(r) ==
    [run |-> r, version |-> version[r], mode |-> request[r].mode,
     read |-> counts[r].read,
     written |-> IF request[r].mode = "dry_run" THEN 0 ELSE counts[r].written,
     flagged |-> counts[r].flagged,
     production_confirmed |-> Production /\ request[r].confirmed]
LogIsOfRuns == \A e \in log : e.run \in Runs /\ phase[e.run] = "logged" /\ e = EntryOf(e.run)

IInv == /\ TypeOK
        /\ history # <<>>
        /\ \A r \in Runs : RunInv(r)
        /\ LogIsOfRuns
        /\ DriftStopsWrites

-----------------------------------------------------------------------------
\* Other runs are where they were, with what they had.
SameRun(s) ==
    /\ phase'[s] = phase[s] /\ request'[s] = request[s] /\ version'[s] = version[s]
    /\ columns'[s] = columns[s] /\ todo'[s] = todo[s] /\ counts'[s] = counts[s]
    /\ pending'[s] = pending[s] /\ found'[s] = found[s]

\* The links of a run stay those of the version it loaded.
LEMMA SameLinks ==
  ASSUME NEW s \in Runs, history' = history, version'[s] = version[s]
  PROVE  LinksOf(s)' = LinksOf(s) /\ \A side : Needs(s, side)' = Needs(s, side)
BY DEF LinksOf, Needs

\* A run nothing happens to keeps its invariant.
LEMMA Frame ==
  ASSUME NEW s \in Runs, RunInv(s), SameRun(s), WrittenBy(s)' = WrittenBy(s),
         phase[s] # "idle" => version[s] \in 1..Len(history'),
         phase[s] # "idle" => LinksOf(s)' = LinksOf(s)
  PROVE  RunInv(s)'
<1>1. CASE phase[s] = "idle"
  BY <1>1 DEF RunInv, SameRun, Loaded, Gated, Checked, PendingIsReached, WrittenIsWhole,
              CountsAreExact, Execution
<1>2. CASE phase[s] # "idle"
  <2>1. LinksOf(s)' = LinksOf(s)
    BY <1>2
  <2>2. Good(s)' = Good(s)
    BY <2>1 DEF Good, SameRun, Untranslatable, Cell
  <2>3. Needs(s, "source")' = Needs(s, "source") /\ Needs(s, "target")' = Needs(s, "target")
    BY <2>1 DEF Needs
  <2>4. RowsOf(s, Good(s) \ todo[s])' = RowsOf(s, Good(s) \ todo[s])
        /\ RowsOf(s, Good(s))' = RowsOf(s, Good(s)) /\ Execution(s)' = Execution(s)
    BY <2>2 DEF RowsOf, SameRun, Execution
  <2>5. Loaded(s)' /\ Gated(s)'
    BY <2>4 DEF RunInv, SameRun, Loaded, Gated, Execution
  <2>6. Checked(s)' /\ PendingIsReached(s)'
    BY <2>3, <2>4 DEF RunInv, SameRun, Checked, PendingIsReached
  <2>7. WrittenIsWhole(s)'
    BY <2>4 DEF RunInv, SameRun, WrittenIsWhole
  <2>8. CountsAreExact(s)'
    BY <2>2 DEF RunInv, SameRun, CountsAreExact
  <2> QED BY <2>5, <2>6, <2>7, <2>8 DEF RunInv
<1> QED BY <1>1, <1>2

\* A step of one run that writes and logs nothing: only its own invariant and
\* the types are at stake.
LEMMA RunStep ==
  ASSUME IInv, NEW r \in Runs, \A s \in Runs \ {r} : SameRun(s),
         phase[r] # "logged", phase[r] \notin {"committed", "failed"} \/ UNCHANGED <<version, found>>,
         UNCHANGED <<history, target, log>>,
         TypeOK', RunInv(r)'
  PROVE  IInv'
<1>1. \A s \in Runs : RunInv(s)'
  <2> SUFFICES ASSUME NEW s \in Runs, s # r PROVE RunInv(s)'
    OBVIOUS
  <2>1. WrittenBy(s)' = WrittenBy(s) /\ SameRun(s) /\ RunInv(s)
    BY DEF WrittenBy, IInv
  <2>2. LinksOf(s)' = LinksOf(s)
    BY <2>1, SameLinks DEF SameRun
  <2>3. phase[s] # "idle" => version[s] \in 1..Len(history')
    BY <2>1 DEF RunInv, Loaded
  <2> QED BY <2>1, <2>2, <2>3, Frame
<1>2. LogIsOfRuns'
  <2> SUFFICES ASSUME NEW e \in log
               PROVE  e.run \in Runs /\ phase'[e.run] = "logged" /\ e = EntryOf(e.run)'
    BY DEF LogIsOfRuns
  <2>1. e.run \in Runs /\ phase[e.run] = "logged" /\ e = EntryOf(e.run)
    BY DEF IInv, LogIsOfRuns
  <2>2. SameRun(e.run)
    BY <2>1
  <2> QED BY <2>1, <2>2 DEF SameRun, EntryOf
<1>3. DriftStopsWrites'
  <2> SUFFICES ASSUME NEW t \in target
               PROVE  /\ Needs(t.run, "source")' \subseteq found'[t.run].source
                      /\ Needs(t.run, "target")' \subseteq found'[t.run].target
    BY DEF DriftStopsWrites
  <2>1. t.run \in Runs /\ phase[t.run] \in {"committed", "logged", "failed"}
    BY DEF IInv, TypeOK, TargetRow, RunInv, WrittenIsWhole, WrittenBy
  <2>2. version'[t.run] = version[t.run] /\ found'[t.run] = found[t.run]
    BY <2>1 DEF SameRun
  <2> QED BY <2>1, <2>2, SameLinks DEF IInv, DriftStopsWrites
<1> QED BY <1>1, <1>2, <1>3 DEF IInv

-----------------------------------------------------------------------------
LEMMA InitIInv == Init => IInv
<1> SUFFICES ASSUME Init PROVE IInv
  OBVIOUS
<1>1. TypeOK
  <2>1. PICK links \in Versions : history = <<[links |-> links, config |-> None]>>
    BY DEF Init
  <2>2. history \in Seq(Saved!Entry)
    BY <2>1 DEF Saved!Entry
  <2> QED BY <2>2 DEF Init, TypeOK, Phases, Answers, Modes, Request
<1>2. \A r \in Runs : RunInv(r)
  BY DEF Init, RunInv, Loaded, Gated, Checked, PendingIsReached, WrittenIsWhole, CountsAreExact,
         WrittenBy, Execution
<1>3. history # <<>>
  BY DEF Init
<1> QED BY <1>1, <1>2, <1>3 DEF Init, IInv, LogIsOfRuns, DriftStopsWrites

LEMMA LoadStep ==
  ASSUME IInv, NEW r \in Runs, NEW m \in Modes, NEW ok \in BOOLEAN, Load(r, m, ok)
  PROVE  IInv'
<1>1. TypeOK /\ RunInv(r)
  BY DEF IInv
<1>2. Len(history) \in Nat /\ Len(history) >= 1
  BY <1>1 DEF TypeOK, IInv
<1>3. TypeOK'
  BY <1>1, <1>2 DEF TypeOK, Load, Phases, Answers, Request, tables
<1>4. RunInv(r)'
  BY <1>1, <1>2 DEF TypeOK, Load, RunInv, Loaded, Gated, Checked, PendingIsReached,
     WrittenIsWhole, WrittenBy, CountsAreExact, Execution, Modes
<1>5. \A s \in Runs \ {r} : SameRun(s)
  BY <1>1 DEF TypeOK, Load, SameRun
<1> QED BY <1>3, <1>4, <1>5, RunStep DEF Load

LEMMA CheckSourceStep ==
  ASSUME IInv, NEW r \in Runs, CheckSource(r)
  PROVE  IInv'
<1>1. TypeOK /\ RunInv(r)
  BY DEF IInv
<1>2. TypeOK'
  BY <1>1 DEF TypeOK, CheckSource, Phases, Answers, tables
<1>3. Needs(r, "source")' = Needs(r, "source")
  BY SameLinks DEF CheckSource
<1>4. RunInv(r)'
  BY <1>1, <1>3 DEF TypeOK, CheckSource, RunInv, Loaded, Gated, Checked, PendingIsReached,
     WrittenIsWhole, WrittenBy, CountsAreExact, Execution
<1>5. \A s \in Runs \ {r} : SameRun(s)
  BY <1>1 DEF TypeOK, CheckSource, SameRun
<1> QED BY <1>2, <1>4, <1>5, RunStep DEF CheckSource

LEMMA CheckTargetStep ==
  ASSUME IInv, NEW r \in Runs, CheckTarget(r)
  PROVE  IInv'
<1>1. TypeOK /\ RunInv(r)
  BY DEF IInv
<1>2. TypeOK'
  BY <1>1 DEF TypeOK, CheckTarget, Phases, Answers, tables
<1>3. /\ Needs(r, "source")' = Needs(r, "source")
      /\ Needs(r, "target")' = Needs(r, "target")
  BY SameLinks DEF CheckTarget
<1>4. RunInv(r)'
  BY <1>1, <1>3 DEF TypeOK, CheckTarget, RunInv, Loaded, Gated, Checked, PendingIsReached,
     WrittenIsWhole, WrittenBy, CountsAreExact, Execution
<1>5. \A s \in Runs \ {r} : SameRun(s)
  BY <1>1 DEF TypeOK, CheckTarget, SameRun
<1> QED BY <1>2, <1>4, <1>5, RunStep DEF CheckTarget

\* No row is reached when the loop begins.
LEMMA ReadSourceStep ==
  ASSUME IInv, NEW r \in Runs, ReadSource(r)
  PROVE  IInv'
<1>1. TypeOK /\ RunInv(r)
  BY DEF IInv
<1>2. TypeOK'
  BY <1>1 DEF TypeOK, ReadSource, Phases, Answers, tables
<1>3. /\ Needs(r, "source")' = Needs(r, "source")
      /\ Needs(r, "target")' = Needs(r, "target")
  BY SameLinks DEF ReadSource
<1>4. (Good(r) \ todo[r])' = {}
  BY <1>1 DEF TypeOK, ReadSource, Good
<1>5. Loaded(r)' /\ Gated(r)' /\ Checked(r)'
  BY <1>1, <1>3 DEF TypeOK, ReadSource, RunInv, Loaded, Gated, Checked, Execution
<1>6. PendingIsReached(r)' /\ WrittenIsWhole(r)'
  BY <1>1, <1>4 DEF TypeOK, ReadSource, RunInv, PendingIsReached, WrittenIsWhole, WrittenBy,
     Execution, RowsOf
<1>7. CountsAreExact(r)'
  <2>1. counts'[r] = [read |-> 0, written |-> 0, flagged |-> 0] /\ phase'[r] = "rows"
    BY <1>1 DEF TypeOK, ReadSource, RunInv, CountsAreExact
  <2> QED BY <1>4, <2>1, FS_EmptySet DEF CountsAreExact
<1>8. \A s \in Runs \ {r} : SameRun(s)
  BY <1>1 DEF TypeOK, ReadSource, SameRun
<1> QED BY <1>2, <1>5, <1>6, <1>7, <1>8, RunStep DEF ReadSource, RunInv

\* A row adds to two fields of its run's counts and to nothing else.
LEMMA CountUp ==
  ASSUME TypeOK, NEW r \in Runs,
         \/ counts' = [counts EXCEPT ![r].read = @ + 1, ![r].flagged = @ + 1]
         \/ counts' = [counts EXCEPT ![r].read = @ + 1, ![r].written = @ + 1]
  PROVE  counts' \in [Runs -> [read : Nat, written : Nat, flagged : Nat]]
<1>1. counts \in [Runs -> [read : Nat, written : Nat, flagged : Nat]]
  BY DEF TypeOK
<1>2. /\ counts[r].read + 1 \in Nat
      /\ counts[r].written + 1 \in Nat
      /\ counts[r].flagged + 1 \in Nat
  BY <1>1
<1>3. CASE counts' = [counts EXCEPT ![r].read = counts[r].read + 1,
                                    ![r].flagged = counts[r].flagged + 1]
  BY <1>1, <1>2, <1>3
<1>4. CASE counts' = [counts EXCEPT ![r].read = counts[r].read + 1,
                                    ![r].written = counts[r].written + 1]
  BY <1>1, <1>2, <1>4
<1> QED BY <1>3, <1>4

LEMMA SkipRowStep ==
  ASSUME IInv, NEW r \in Runs, NEW x \in Rows, SkipRow(r, x)
  PROVE  IInv'
<1>1. TypeOK /\ RunInv(r)
  BY DEF IInv
<1>2. TypeOK'
  <2>1. counts' \in [Runs -> [read : Nat, written : Nat, flagged : Nat]]
    BY <1>1, CountUp DEF SkipRow
  <2> QED BY <1>1, <2>1 DEF TypeOK, SkipRow, tables
<1>3. /\ Needs(r, "source")' = Needs(r, "source")
      /\ Needs(r, "target")' = Needs(r, "target")
  BY SameLinks DEF SkipRow
<1>4. (Good(r) \ todo[r])' = Good(r) \ todo[r]
  <2>1. Good(r)' = Good(r)
    BY DEF SkipRow, Good, LinksOf, Untranslatable, Cell
  <2>2. x \notin Good(r) /\ todo'[r] = todo[r] \ {x}
    BY <1>1 DEF SkipRow, Good, TypeOK
  <2> QED BY <2>1, <2>2
<1>5. Loaded(r)' /\ Gated(r)' /\ Checked(r)'
  BY <1>1, <1>3 DEF SkipRow, RunInv, Loaded, Gated, Checked, Execution
<1>6. PendingIsReached(r)' /\ WrittenIsWhole(r)'
  BY <1>1, <1>4 DEF SkipRow, RunInv, PendingIsReached, WrittenIsWhole, WrittenBy, Execution,
     RowsOf
<1>7. CountsAreExact(r)'
  <2>1. /\ counts'[r].read = counts[r].read + 1 /\ counts'[r].flagged = counts[r].flagged + 1
        /\ counts'[r].written = counts[r].written /\ phase'[r] = "rows" /\ phase[r] = "rows"
    BY <1>1 DEF TypeOK, SkipRow
  <2>2. counts[r].read \in Nat /\ counts[r].written \in Nat /\ counts[r].flagged \in Nat
    BY <1>1 DEF TypeOK
  <2>3. /\ counts[r].read = counts[r].written + counts[r].flagged
        /\ counts[r].written = Cardinality(Good(r) \ todo[r])
    BY <1>1, <2>1 DEF RunInv, CountsAreExact
  <2>4. counts'[r].read = counts'[r].written + counts'[r].flagged
    BY <2>1, <2>2, <2>3
  <2>5. counts'[r].written = Cardinality((Good(r) \ todo[r])')
    BY <1>4, <2>1, <2>3
  <2> QED BY <2>1, <2>4, <2>5 DEF CountsAreExact
<1>8. \A s \in Runs \ {r} : SameRun(s)
  BY <1>1 DEF TypeOK, SkipRow, SameRun
<1> QED BY <1>2, <1>5, <1>6, <1>7, <1>8, RunStep DEF SkipRow, RunInv

\* A translatable row joins the reached ones; an execution has it pending.
LEMMA WriteRowStep ==
  ASSUME IInv, NEW r \in Runs, NEW x \in Rows, WriteRow(r, x)
  PROVE  IInv'
<1>1. TypeOK /\ RunInv(r)
  BY DEF IInv
<1>2. counts' \in [Runs -> [read : Nat, written : Nat, flagged : Nat]]
  BY <1>1, CountUp DEF WriteRow
<1>3. TypeOK'
  <2>1. pending' \in [Runs -> SUBSET TargetRow]
    <3>1. [run |-> r, row |-> x] \in TargetRow
      BY DEF TargetRow
    <3>2. \/ pending' = pending
          \/ pending' = [pending EXCEPT ![r] = @ \cup {[run |-> r, row |-> x]}]
      BY DEF WriteRow
    <3>3. pending \in [Runs -> SUBSET TargetRow]
      BY <1>1 DEF TypeOK
    <3> QED BY <3>1, <3>2, <3>3
  <2> QED BY <1>1, <1>2, <2>1 DEF TypeOK, WriteRow, tables
<1>4. /\ Needs(r, "source")' = Needs(r, "source")
      /\ Needs(r, "target")' = Needs(r, "target")
  BY SameLinks DEF WriteRow
<1>5. /\ (Good(r) \ todo[r])' = (Good(r) \ todo[r]) \cup {x}
      /\ x \notin Good(r) \ todo[r]
      /\ Good(r)' = Good(r)
  <2>1. Good(r)' = Good(r)
    BY DEF WriteRow, Good, LinksOf, Untranslatable, Cell
  <2>2. x \in Good(r) /\ x \in todo[r] /\ todo'[r] = todo[r] \ {x}
    BY <1>1 DEF WriteRow, Good, TypeOK
  <2> QED BY <2>1, <2>2
<1>6. Loaded(r)' /\ Gated(r)' /\ Checked(r)'
  BY <1>1, <1>4 DEF WriteRow, RunInv, Loaded, Gated, Checked, Execution
<1>7. PendingIsReached(r)'
  <2>1. phase[r] = "rows" /\ phase' = phase /\ request' = request
    BY DEF WriteRow
  <2>2. CASE request[r].mode = "dry_run"
    BY <1>1, <2>1, <2>2 DEF WriteRow, RunInv, PendingIsReached, Execution
  <2>3. CASE request[r].mode = "execute"
    <3>1. pending'[r] = pending[r] \cup {[run |-> r, row |-> x]}
      BY <1>1, <2>3 DEF WriteRow, TypeOK
    <3>2. pending[r] = RowsOf(r, Good(r) \ todo[r])
      BY <1>1, <2>1, <2>3 DEF RunInv, PendingIsReached, Execution
    <3>3. RowsOf(r, Good(r) \ todo[r]) \cup {[run |-> r, row |-> x]}
            = RowsOf(r, (Good(r) \ todo[r]) \cup {x})
      BY DEF RowsOf
    <3>4. pending'[r] = RowsOf(r, (Good(r) \ todo[r])')
      BY <1>5, <3>1, <3>2, <3>3
    <3> QED BY <2>1, <2>3, <3>4 DEF PendingIsReached, Execution, RowsOf
  <2> QED BY <1>1, <2>2, <2>3 DEF TypeOK, Request, Modes
<1>8. WrittenIsWhole(r)'
  BY <1>1, <1>5 DEF WriteRow, RunInv, WrittenIsWhole, WrittenBy, Execution, RowsOf
<1>9. CountsAreExact(r)'
  <2>1. /\ counts'[r].read = counts[r].read + 1 /\ counts'[r].flagged = counts[r].flagged
        /\ counts'[r].written = counts[r].written + 1 /\ phase'[r] = "rows" /\ phase[r] = "rows"
    BY <1>1 DEF TypeOK, WriteRow
  <2>2. counts[r].read \in Nat /\ counts[r].written \in Nat /\ counts[r].flagged \in Nat
    BY <1>1 DEF TypeOK
  <2>3. /\ counts[r].read = counts[r].written + counts[r].flagged
        /\ counts[r].written = Cardinality(Good(r) \ todo[r])
    BY <1>1, <2>1 DEF RunInv, CountsAreExact
  <2>4. counts'[r].read = counts'[r].written + counts'[r].flagged
    BY <2>1, <2>2, <2>3
  <2>5. IsFiniteSet(Good(r) \ todo[r])
    BY RunAssumption, FS_Subset DEF Good
  <2>6. Cardinality((Good(r) \ todo[r]) \cup {x}) = Cardinality(Good(r) \ todo[r]) + 1
    BY <1>5, <2>5, FS_AddElement
  <2>7. counts'[r].written = Cardinality((Good(r) \ todo[r])')
    BY <1>5, <2>1, <2>3, <2>6
  <2> QED BY <2>1, <2>4, <2>7 DEF CountsAreExact
<1>10. \A s \in Runs \ {r} : SameRun(s)
  BY <1>1 DEF TypeOK, WriteRow, SameRun
<1> QED BY <1>3, <1>6, <1>7, <1>8, <1>9, <1>10, RunStep DEF WriteRow, RunInv

\* A run that gives up takes its uncommitted rows back; its committed rows, all
\* of them, stay.
LEMMA AbandonStep ==
  ASSUME IInv, NEW r \in Runs, NEW answer \in {"constraint_violation", "failed"},
         phase[r] \in {"source_check", "target_check", "connect", "rows", "committed"},
         phase[r] = "committed" => answer = "failed",
         request[r].mode = "execute" /\ Production => request[r].confirmed \/ phase[r] = "idle",
         Abandon(r, answer)
  PROVE  IInv'
<1>1. TypeOK /\ RunInv(r)
  BY DEF IInv
<1>2. TypeOK'
  BY <1>1 DEF TypeOK, Abandon, Phases, Answers, tables
<1>3. phase'[r] = answer /\ pending'[r] = {} /\ UNCHANGED <<request, version, columns, counts, found>>
  BY <1>1 DEF TypeOK, Abandon
<1>4. Good(r)' = Good(r)
  BY DEF Abandon, Good, LinksOf, Untranslatable, Cell
<1>5. Loaded(r)' /\ Gated(r)' /\ Checked(r)' /\ PendingIsReached(r)' /\ CountsAreExact(r)'
  BY <1>1, <1>3 DEF Abandon, RunInv, Loaded, Gated, Checked, Execution, PendingIsReached,
     CountsAreExact
<1>6. WrittenIsWhole(r)'
  BY <1>1, <1>3, <1>4 DEF Abandon, RunInv, WrittenIsWhole, WrittenBy, Execution, RowsOf
<1>7. \A s \in Runs \ {r} : SameRun(s)
  BY <1>1 DEF TypeOK, Abandon, SameRun
<1> QED BY <1>2, <1>5, <1>6, <1>7, RunStep DEF Abandon, RunInv

LEMMA RejectRowStep ==
  ASSUME IInv, NEW r \in Runs, NEW x \in Rows, RejectRow(r, x)
  PROVE  IInv'
<1>1. phase[r] = "rows" /\ RunInv(r) /\ TypeOK
  BY DEF IInv, RejectRow
<1>2. request[r].mode = "execute" /\ Production => request[r].confirmed
  BY <1>1 DEF RunInv, Gated, Execution
<1> QED BY <1>1, <1>2, AbandonStep DEF RejectRow

LEMMA FailStep ==
  ASSUME IInv, NEW r \in Runs, Fail(r)
  PROVE  IInv'
<1>1. RunInv(r) /\ phase[r] \in {"source_check", "target_check", "connect", "rows", "committed"}
  BY DEF IInv, Fail
<1>2. request[r].mode = "execute" /\ Production => request[r].confirmed
  BY <1>1 DEF RunInv, Gated, Execution
<1> QED BY <1>1, <1>2, AbandonStep DEF Fail

\* The commit publishes all good rows: none is left to reach.
LEMMA FinishStep ==
  ASSUME IInv, NEW r \in Runs, Finish(r)
  PROVE  IInv'
<1>1. TypeOK /\ RunInv(r)
  BY DEF IInv
<1>2. TypeOK'
  <2>1. target' \subseteq TargetRow
    BY <1>1 DEF TypeOK, Finish
  <2> QED BY <1>1, <2>1 DEF TypeOK, Finish, Phases, tables
<1>3. \A s \in Runs \ {r} : SameRun(s)
  BY <1>1 DEF TypeOK, Finish, SameRun
<1>4. \A s \in Runs : LinksOf(s)' = LinksOf(s) /\ \A side : Needs(s, side)' = Needs(s, side)
  BY SameLinks DEF Finish
<1>5. Good(r)' = Good(r)
  BY DEF Finish, Good, LinksOf, Untranslatable, Cell
<1>6. pending[r] = IF Execution(r) THEN RowsOf(r, Good(r)) ELSE {}
  BY <1>1 DEF Finish, RunInv, PendingIsReached
<1>7. \A s \in Runs : WrittenBy(s)' = WrittenBy(s) \cup (IF s = r THEN pending[r] ELSE {})
  BY <1>6 DEF Finish, WrittenBy, RowsOf
<1>8. WrittenBy(r) = {}
  BY <1>1 DEF Finish, RunInv, WrittenIsWhole
<1>9. RunInv(r)'
  <2>1. phase'[r] = "committed" /\ pending'[r] = {} /\ todo'[r] = {}
        /\ UNCHANGED <<request, version, columns, counts, found, history, todo>>
    BY <1>1 DEF TypeOK, Finish
  <2>2. Loaded(r)' /\ Gated(r)' /\ Checked(r)'
    BY <1>1, <1>4, <2>1 DEF Finish, RunInv, Loaded, Gated, Checked, Execution
  <2>3. PendingIsReached(r)' /\ CountsAreExact(r)'
    BY <1>1, <1>5, <2>1 DEF Finish, RunInv, PendingIsReached, CountsAreExact
  <2>4. WrittenIsWhole(r)'
    BY <1>5, <1>6, <1>7, <1>8, <2>1 DEF WrittenIsWhole, Execution, RowsOf
  <2> QED BY <2>2, <2>3, <2>4 DEF RunInv
<1>10. \A s \in Runs : RunInv(s)'
  <2> SUFFICES ASSUME NEW s \in Runs, s # r PROVE RunInv(s)'
    BY <1>9
  <2>1. WrittenBy(s)' = WrittenBy(s) /\ SameRun(s) /\ RunInv(s)
    BY <1>3, <1>7 DEF IInv
  <2>2. phase[s] # "idle" => version[s] \in 1..Len(history')
    BY <2>1 DEF RunInv, Loaded, Finish
  <2> QED BY <1>4, <2>1, <2>2, Frame
<1>11. LogIsOfRuns'
  <2> SUFFICES ASSUME NEW e \in log
               PROVE  e.run \in Runs /\ phase'[e.run] = "logged" /\ e = EntryOf(e.run)'
    BY DEF LogIsOfRuns, Finish
  <2>1. e.run \in Runs /\ phase[e.run] = "logged" /\ e = EntryOf(e.run)
    BY DEF IInv, LogIsOfRuns
  <2>2. SameRun(e.run)
    BY <1>3, <2>1 DEF Finish
  <2> QED BY <2>1, <2>2 DEF SameRun, EntryOf
<1>12. DriftStopsWrites'
  <2> SUFFICES ASSUME NEW t \in target'
               PROVE  /\ Needs(t.run, "source")' \subseteq found'[t.run].source
                      /\ Needs(t.run, "target")' \subseteq found'[t.run].target
    BY DEF DriftStopsWrites
  <2>1. CASE t \in target
    <3>1. t.run \in Runs
      BY <1>1, <2>1 DEF TypeOK, TargetRow
    <3> QED BY <1>4, <2>1, <3>1 DEF IInv, DriftStopsWrites, Finish
  <2>2. CASE t \in pending[r]
    <3>1. t.run = r /\ Execution(r) /\ phase[r] = "rows"
      BY <1>6, <2>2 DEF RowsOf, Finish
    <3>2. Needs(r, "source") \subseteq found[r].source /\ Needs(r, "target") \subseteq found[r].target
      BY <1>1, <3>1 DEF RunInv, Checked
    <3> QED BY <1>4, <3>1, <3>2 DEF Finish
  <2> QED BY <2>1, <2>2 DEF Finish
<1> QED BY <1>2, <1>10, <1>11, <1>12 DEF IInv, Finish

LEMMA SaveLogStep ==
  ASSUME IInv, NEW r \in Runs, SaveLog(r)
  PROVE  IInv'
<1>1. TypeOK /\ RunInv(r)
  BY DEF IInv
<1>2. log' = log \cup {EntryOf(r)}
  BY DEF SaveLog, EntryOf
<1>3. EntryOf(r) \in LogEntry
  <2>1. /\ version[r] \in Nat /\ request[r] \in Request
        /\ counts[r] \in [read : Nat, written : Nat, flagged : Nat]
    BY <1>1 DEF TypeOK
  <2>2. (Production /\ request[r].confirmed) \in BOOLEAN
    OBVIOUS
  <2> QED BY <2>1, <2>2 DEF EntryOf, LogEntry, Request
<1>4. TypeOK'
  BY <1>1, <1>2, <1>3 DEF TypeOK, SaveLog, Phases, Answers, tables
<1>5. \A s \in Runs \ {r} : SameRun(s)
  BY <1>1 DEF TypeOK, SaveLog, SameRun
<1>6. \A s \in Runs : LinksOf(s)' = LinksOf(s) /\ \A side : Needs(s, side)' = Needs(s, side)
  BY SameLinks DEF SaveLog
<1>7. Good(r)' = Good(r)
  BY DEF SaveLog, Good, LinksOf, Untranslatable, Cell
<1>8. phase'[r] = "logged" /\ phase[r] = "committed"
  BY <1>1 DEF TypeOK, SaveLog
<1>9. RunInv(r)'
  <2>1. Loaded(r)' /\ Gated(r)' /\ Checked(r)'
    BY <1>1, <1>6, <1>8 DEF SaveLog, RunInv, Loaded, Gated, Checked, Execution
  <2>2. PendingIsReached(r)' /\ CountsAreExact(r)'
    BY <1>1, <1>7, <1>8 DEF SaveLog, RunInv, PendingIsReached, CountsAreExact
  <2>3. WrittenIsWhole(r)'
    BY <1>1, <1>7, <1>8 DEF SaveLog, RunInv, WrittenIsWhole, WrittenBy, Execution, RowsOf
  <2> QED BY <2>1, <2>2, <2>3 DEF RunInv
<1>10. \A s \in Runs : RunInv(s)'
  <2> SUFFICES ASSUME NEW s \in Runs, s # r PROVE RunInv(s)'
    BY <1>9
  <2>1. WrittenBy(s)' = WrittenBy(s) /\ SameRun(s) /\ RunInv(s)
    BY <1>5 DEF IInv, SaveLog, WrittenBy
  <2>2. phase[s] # "idle" => version[s] \in 1..Len(history')
    BY <2>1 DEF RunInv, Loaded, SaveLog
  <2> QED BY <1>6, <2>1, <2>2, Frame
<1>11. \A s \in Runs : EntryOf(s)' = EntryOf(s)
  BY DEF EntryOf, SaveLog
<1>12. LogIsOfRuns'
  <2> SUFFICES ASSUME NEW e \in log'
               PROVE  e.run \in Runs /\ phase'[e.run] = "logged" /\ e = EntryOf(e.run)'
    BY DEF LogIsOfRuns
  <2>1. CASE e = EntryOf(r)
    BY <1>8, <1>11, <2>1 DEF EntryOf
  <2>2. CASE e \in log
    <3>1. e.run \in Runs /\ phase[e.run] = "logged" /\ e = EntryOf(e.run)
      BY <2>2 DEF IInv, LogIsOfRuns
    <3> QED BY <1>5, <1>8, <1>11, <3>1 DEF SameRun
  <2> QED BY <1>2, <2>1, <2>2
<1>13. DriftStopsWrites'
  <2> SUFFICES ASSUME NEW t \in target
               PROVE  /\ Needs(t.run, "source")' \subseteq found'[t.run].source
                      /\ Needs(t.run, "target")' \subseteq found'[t.run].target
    BY DEF DriftStopsWrites, SaveLog
  <2>1. t.run \in Runs
    BY <1>1 DEF TypeOK, TargetRow
  <2> QED BY <1>6, <2>1 DEF IInv, DriftStopsWrites, SaveLog
<1> QED BY <1>4, <1>10, <1>12, <1>13 DEF IInv, SaveLog

\* A step that changes no run: new versions come after those loaded.
LEMMA QuietStep ==
  ASSUME IInv, TypeOK', \E e \in Saved!Entry : history' = history \/ history' = Append(history, e),
         UNCHANGED <<phase, request, version, columns, todo, counts, pending, target, log, found>>
  PROVE  IInv'
<1>1. TypeOK /\ history # <<>>
  BY DEF IInv
<1>2. /\ history' # <<>> /\ Len(history') \in Nat /\ Len(history') >= Len(history)
      /\ \A i \in 1..Len(history) : history'[i] = history[i]
  <2>1. history \in Seq(Saved!Entry)
    BY <1>1 DEF TypeOK
  <2>2. PICK e \in Saved!Entry : history' = history \/ history' = Append(history, e)
    OBVIOUS
  <2>3. CASE history' = history
    BY <1>1, <2>1, <2>3
  <2>4. CASE history' = Append(history, e)
    <3>1. Len(history') = Len(history) + 1 /\ \A i \in 1..Len(history) : history'[i] = history[i]
      BY <2>1, <2>4
    <3> QED BY <2>1, <2>4, <3>1
  <2> QED BY <2>2, <2>3, <2>4
<1>3. ASSUME NEW s \in Runs, phase[s] # "idle"
      PROVE  LinksOf(s)' = LinksOf(s) /\ \A side : Needs(s, side)' = Needs(s, side)
  BY <1>2, <1>3 DEF LinksOf, Needs, IInv, RunInv, Loaded
<1>4. \A s \in Runs : RunInv(s)'
  <2> SUFFICES ASSUME NEW s \in Runs PROVE RunInv(s)'
    OBVIOUS
  <2>1. WrittenBy(s)' = WrittenBy(s) /\ SameRun(s) /\ RunInv(s)
    BY DEF WrittenBy, SameRun, IInv
  <2>2. phase[s] # "idle" => version[s] \in 1..Len(history')
    <3>1. phase[s] # "idle" => version[s] \in 1..Len(history)
      BY <2>1 DEF RunInv, Loaded
    <3> QED BY <1>1, <1>2, <3>1 DEF TypeOK
  <2>3. phase[s] # "idle" => LinksOf(s)' = LinksOf(s)
    BY <1>3
  <2> QED BY <2>1, <2>2, <2>3, Frame
<1>5. LogIsOfRuns'
  BY DEF IInv, LogIsOfRuns, EntryOf
<1>6. DriftStopsWrites'
  <2> SUFFICES ASSUME NEW t \in target
               PROVE  /\ Needs(t.run, "source")' \subseteq found'[t.run].source
                      /\ Needs(t.run, "target")' \subseteq found'[t.run].target
    BY DEF DriftStopsWrites
  <2>1. t.run \in Runs /\ phase[t.run] # "idle"
    BY DEF IInv, TypeOK, TargetRow, RunInv, WrittenIsWhole, WrittenBy
  <2> QED BY <1>3, <2>1 DEF IInv, DriftStopsWrites
<1> QED BY <1>2, <1>4, <1>5, <1>6 DEF IInv

LEMMA SaveVersionStep == IInv /\ SaveVersion => IInv'
<1> SUFFICES ASSUME IInv, SaveVersion PROVE IInv'
  OBVIOUS
<1>1. PICK links \in Versions : history' = Append(history, [links |-> links, config |-> None])
  <2>1. \A i \in 1..Len(history) : history[i].config = None
    <3> SUFFICES ASSUME NEW i \in 1..Len(history) PROVE history[i].config = None
      OBVIOUS
    <3>1. history \in Seq(Saved!Entry)
      BY DEF IInv, TypeOK
    <3>2. history[i] \in Saved!Entry
      BY <3>1
    <3> QED BY <3>2 DEF Saved!Entry
  <2> QED BY <2>1 DEF SaveVersion, Saved!Save
<1>2. [links |-> links, config |-> None] \in Saved!Entry
  BY DEF Saved!Entry
<1>3. TypeOK'
  BY <1>1, <1>2 DEF IInv, TypeOK, SaveVersion, tables
<1> QED BY <1>1, <1>2, <1>3, QuietStep DEF SaveVersion

LEMMA AlterTableStep == IInv /\ AlterTable => IInv'
<1> SUFFICES ASSUME IInv, AlterTable PROVE IInv'
  OBVIOUS
<1>1. sourceNow' \subseteq SourceCols /\ targetNow' \subseteq TargetCols
  BY DEF IInv, TypeOK, AlterTable
<1>2. TypeOK'
  BY <1>1 DEF IInv, TypeOK, AlterTable
<1>3. history[1] \in Saved!Entry
  BY DEF IInv, TypeOK
<1> QED BY <1>2, <1>3, QuietStep DEF AlterTable

LEMMA NextStep == IInv /\ [Next]_vars => IInv'
<1> SUFFICES ASSUME IInv, [Next]_vars PROVE IInv'
  OBVIOUS
<1>1. ASSUME NEW r \in Runs, NEW m \in Modes, NEW ok \in BOOLEAN, Load(r, m, ok) PROVE IInv'
  BY <1>1, LoadStep
<1>2. ASSUME NEW r \in Runs, CheckSource(r) \/ CheckTarget(r) \/ ReadSource(r) PROVE IInv'
  BY <1>2, CheckSourceStep, CheckTargetStep, ReadSourceStep
<1>3. ASSUME NEW r \in Runs, NEW x \in Rows, SkipRow(r, x) \/ WriteRow(r, x) \/ RejectRow(r, x)
      PROVE  IInv'
  BY <1>3, SkipRowStep, WriteRowStep, RejectRowStep
<1>4. ASSUME NEW r \in Runs, Finish(r) \/ SaveLog(r) \/ Fail(r) PROVE IInv'
  BY <1>4, FinishStep, SaveLogStep, FailStep
<1>5. CASE UNCHANGED vars
  <2>1. TypeOK'
    BY <1>5 DEF IInv, TypeOK, vars, tables
  <2>2. history[1] \in Saved!Entry
    BY DEF IInv, TypeOK
  <2> QED BY <1>5, <2>1, <2>2, QuietStep DEF vars
<1> QED BY <1>1, <1>2, <1>3, <1>4, <1>5, SaveVersionStep, AlterTableStep DEF Next

-----------------------------------------------------------------------------
THEOREM Invariance == Spec => []IInv
BY InitIInv, NextStep, PTL DEF Spec

\* Every variable holds what the program can put there.
THEOREM TypeCorrect == Spec => []TypeOK
BY Invariance, PTL DEF IInv

\* Readers of the target never see part of an execution.
THEOREM AllOrNothingAlways == Spec => []AllOrNothing
<1>1. ASSUME IInv PROVE AllOrNothing
  <2> SUFFICES ASSUME NEW r \in Runs, WrittenBy(r) # {}
               PROVE  /\ phase[r] \in {"committed", "logged", "failed"}
                      /\ {t.row : t \in WrittenBy(r)} = Good(r)
    BY DEF AllOrNothing, Good
  <2>1. phase[r] \in {"committed", "logged", "failed"} /\ WrittenBy(r) = RowsOf(r, Good(r))
    BY <1>1 DEF IInv, RunInv, WrittenIsWhole
  <2>2. \A S : {t.row : t \in RowsOf(r, S)} = S
    <3> SUFFICES ASSUME NEW S PROVE {t.row : t \in RowsOf(r, S)} = S
      OBVIOUS
    <3>1. \A t \in RowsOf(r, S) : t.row \in S
      BY DEF RowsOf
    <3>2. \A x \in S : \E t \in RowsOf(r, S) : t.row = x
      <4> SUFFICES ASSUME NEW x \in S PROVE \E t \in RowsOf(r, S) : t.row = x
        OBVIOUS
      <4>1. [run |-> r, row |-> x] \in RowsOf(r, S)
        BY DEF RowsOf
      <4> QED BY <4>1
    <3> QED BY <3>1, <3>2
  <2> QED BY <2>1, <2>2
<1> QED BY <1>1, Invariance, PTL

\* No row was written by an execution whose drift check lacked a column.
THEOREM DriftStopsWritesAlways == Spec => []DriftStopsWrites
BY Invariance, PTL DEF IInv

\* As many target rows as source rows.
LEMMA RowsOfCount ==
  ASSUME NEW r, NEW S, IsFiniteSet(S)
  PROVE  Cardinality(RowsOf(r, S)) = Cardinality(S)
<1> DEFINE f == [x \in S |-> [run |-> r, row |-> x]]
<1>1. f \in Bijection(S, RowsOf(r, S))
  BY DEF Bijection, Injection, Surjection, IsInjective, RowsOf
<1>2. ExistsBijection(S, RowsOf(r, S))
  BY <1>1 DEF ExistsBijection
<1> QED BY <1>2, FS_Bijection

\* What an entry says of its run, once it has one.
LEMMA LoggedRun ==
  ASSUME IInv, NEW e \in log
  PROVE  /\ e.run \in Runs /\ e = EntryOf(e.run)
         /\ counts[e.run] \in [read : Nat, written : Nat, flagged : Nat]
         /\ request[e.run].mode \in Modes
         /\ counts[e.run].read = counts[e.run].written + counts[e.run].flagged
         /\ counts[e.run].written = Cardinality(Good(e.run))
         /\ WrittenBy(e.run) = IF Execution(e.run) THEN RowsOf(e.run, Good(e.run)) ELSE {}
<1>1. e.run \in Runs /\ phase[e.run] = "logged" /\ e = EntryOf(e.run) /\ RunInv(e.run)
  BY DEF IInv, LogIsOfRuns
<1>2. counts[e.run] \in [read : Nat, written : Nat, flagged : Nat] /\ request[e.run].mode \in Modes
  BY <1>1 DEF IInv, TypeOK, Request
<1>3. Good(e.run) \ todo[e.run] = Good(e.run)
  BY <1>1 DEF RunInv, CountsAreExact
<1> QED BY <1>1, <1>2, <1>3 DEF RunInv, CountsAreExact, WrittenIsWhole

\* The run log is the truth about the target.
THEOREM LogMatchesTargetAlways == Spec => []LogMatchesTarget
<1>1. ASSUME IInv PROVE LogMatchesTarget
  <2> SUFFICES ASSUME NEW e \in log
               PROVE  /\ e.written = Cardinality(WrittenBy(e.run))
                      /\ e.mode = "dry_run" => WrittenBy(e.run) = {}
                      /\ e.mode = "execute" => e.read = e.written + e.flagged
                      /\ Production /\ WrittenBy(e.run) # {} => e.production_confirmed
    BY DEF LogMatchesTarget
  <2> DEFINE r == e.run
  <2>1. /\ r \in Runs /\ e = EntryOf(r) /\ request[r].mode \in Modes
        /\ counts[r] \in [read : Nat, written : Nat, flagged : Nat]
        /\ counts[r].read = counts[r].written + counts[r].flagged
        /\ counts[r].written = Cardinality(Good(r))
        /\ WrittenBy(r) = IF Execution(r) THEN RowsOf(r, Good(r)) ELSE {}
    BY <1>1, LoggedRun
  <2>2. /\ e.mode = request[r].mode /\ e.read = counts[r].read /\ e.flagged = counts[r].flagged
        /\ e.written = IF request[r].mode = "dry_run" THEN 0 ELSE counts[r].written
        /\ e.production_confirmed = (Production /\ request[r].confirmed)
    BY <2>1 DEF EntryOf
  <2>3. CASE request[r].mode = "dry_run"
    BY <2>1, <2>2, <2>3, FS_EmptySet DEF Execution
  <2>4. CASE request[r].mode = "execute"
    <3>1. IsFiniteSet(Good(r))
      BY RunAssumption, FS_Subset DEF Good
    <3>2. Cardinality(WrittenBy(r)) = Cardinality(Good(r))
      BY <2>1, <2>4, <3>1, RowsOfCount DEF Execution
    <3>3. phase[r] = "logged" /\ Gated(r)
      BY <1>1, <2>1 DEF IInv, LogIsOfRuns, RunInv
    <3>4. Production => request[r].confirmed
      BY <2>4, <3>3 DEF Gated, Execution
    <3> QED BY <2>1, <2>2, <2>4, <3>2, <3>4
  <2> QED BY <2>1, <2>3, <2>4 DEF Modes
<1> QED BY <1>1, Invariance, PTL

\* What a dry run of a version announces is what its executions write.
THEOREM DryRunPredictsAlways == Spec => []DryRunPredicts
<1>1. ASSUME IInv PROVE DryRunPredicts
  <2> SUFFICES ASSUME NEW d \in log, NEW e \in log, d.mode = "dry_run", e.mode = "execute",
                      d.version = e.version, columns[d.run] = columns[e.run]
               PROVE  d.read - d.flagged = e.written
    BY DEF DryRunPredicts
  <2>1. d = EntryOf(d.run) /\ e = EntryOf(e.run)
    BY <1>1, LoggedRun
  <2>2. version[d.run] = version[e.run] /\ request[e.run].mode = "execute"
    BY <2>1 DEF EntryOf
  <2>3. Good(d.run) = Good(e.run)
    BY <2>2 DEF Good, LinksOf, Untranslatable, Cell
  <2>4. /\ counts[d.run] \in [read : Nat, written : Nat, flagged : Nat]
        /\ counts[d.run].read = counts[d.run].written + counts[d.run].flagged
        /\ counts[d.run].written = counts[e.run].written
    BY <1>1, <2>3, LoggedRun
  <2>5. d.read = counts[d.run].read /\ d.flagged = counts[d.run].flagged
        /\ e.written = counts[e.run].written
    BY <2>1, <2>2 DEF EntryOf
  <2> QED BY <2>4, <2>5
<1> QED BY <1>1, Invariance, PTL
=============================================================================
