-------------------------- MODULE RetirementProofs --------------------------
(***************************************************************************)
(* For any number of runs and rows, any way identities repeat and any of   *)
(* the target's read modes: a committed record is never repeated by a run  *)
(* that starts afterwards, a run retires every row it should or none, its  *)
(* log entry counts the records it left, and no runs wait in vain.         *)
(***************************************************************************)
EXTENDS Retirement, FiniteSetTheorems, WellFoundedInduction, TLAPS

Active == {"open", "check", "insert"}
Ended == {"written", "logged", "failed"}

\* Records come from runs that reached their commit; uncommitted ones belong
\* to executions still in their loop.
RecordsHaveRuns ==
    /\ \A a \in audit : phase[a.run] \in Ended
    /\ \A r \in Runs : pending[r] # {} => phase[r] \in Active /\ mode[r] = "execute"
    /\ \A r \in Runs : phase[r] = "insert" => mode[r] = "execute" /\ row[r] \in Translatable

\* A run looks back only on runs that had ended.
LooksBack == \A r \in Runs : \A s \in before[r] : phase[s] \in Ended

\* What a run inserted was retired neither before it began nor by itself, and
\* the row it is about to insert is no different.
Fresh(r, x) == \A a \in audit : a.run \in before[r] => Identity[a.row] # Identity[x]
InsertsAreFresh ==
    \A r \in Runs :
        /\ \A x \in pending[r] : Fresh(r, x)
        /\ \A x, y \in pending[r] : Identity[x] = Identity[y] => x = y
        /\ phase[r] = "insert" =>
             /\ Fresh(r, row[r])
             /\ \A x \in pending[r] : Identity[x] # Identity[row[r]]

\* An execution's rows are ahead of the loop, in its hands, or retired in its
\* own view of the audit table.
RowsAreHandled ==
    \A r \in Runs : mode[r] = "execute" /\ phase[r] \in Active =>
        \A x \in batch[r] \cap Translatable :
            \/ x \in todo[r]
            \/ phase[r] \in {"check", "insert"} /\ x = row[r]
            \/ Identity[x] \in Visible(r)

IInv == /\ TypeOK
        /\ RecordsHaveRuns
        /\ LooksBack
        /\ InsertsAreFresh
        /\ RowsAreHandled
        /\ NoDuplicateAfterCommit
        /\ RetiredOrRolledBack

-----------------------------------------------------------------------------
\* Nothing is in flight and nothing recorded.
LEMMA InitIInv == Init => IInv
<1> SUFFICES ASSUME Init PROVE IInv
  OBVIOUS
<1>1. TypeOK
  <2>1. (CHOOSE x \in Rows : TRUE) \in Rows
    BY RetirementAssumption
  <2> QED BY <2>1 DEF Init, TypeOK, Phases, Modes, Counts, Zero
<1> QED BY <1>1 DEF Init, IInv, RecordsHaveRuns, LooksBack, InsertsAreFresh, RowsAreHandled,
           NoDuplicateAfterCommit, RetiredOrRolledBack, Active, Ended, RecordsOf

\* Beginning a run fills only its own variables, with a loop yet to run.
LEMMA BeginStep ==
  ASSUME IInv, NEW r \in Runs, NEW m \in Modes, NEW selected \in SUBSET Rows,
         Begin(r, m, selected)
  PROVE  IInv'
<1>1. /\ phase[r] = "idle" /\ phase' = [phase EXCEPT ![r] = "open"]
      /\ mode' = [mode EXCEPT ![r] = m]
      /\ batch' = [batch EXCEPT ![r] = selected] /\ todo' = [todo EXCEPT ![r] = selected]
      /\ before' = [before EXCEPT ![r] = Committed]
      /\ UNCHANGED <<row, counts, pending, audit, log, reads>>
  BY DEF Begin
<1>2. /\ TypeOK /\ pending[r] = {}
      /\ \A a \in audit : a.run \in Runs /\ a.run # r /\ phase[a.run] \in Ended
  BY <1>1 DEF IInv, TypeOK, RecordsHaveRuns, Active, Ended, Record
<1>3. TypeOK'
  BY <1>1, <1>2 DEF TypeOK, Phases, Committed
<1>4. RecordsHaveRuns'
  BY <1>1, <1>2 DEF IInv, TypeOK, RecordsHaveRuns, Active, Ended
<1>5. LooksBack'
  BY <1>1, <1>2 DEF IInv, TypeOK, LooksBack, Committed, Ended
<1>6. InsertsAreFresh'
  BY <1>1, <1>2 DEF IInv, TypeOK, InsertsAreFresh, Fresh
<1>7. RowsAreHandled'
  BY <1>1, <1>2 DEF IInv, TypeOK, RowsAreHandled, Visible, Active
<1>8. NoDuplicateAfterCommit'
  BY <1>1, <1>2 DEF IInv, TypeOK, NoDuplicateAfterCommit
<1>9. RetiredOrRolledBack'
  <2>1. \A s \in Runs : RecordsOf(s)' = RecordsOf(s)
    BY <1>1 DEF RecordsOf
  <2>2. RecordsOf(r) = {}
    BY <1>2 DEF RecordsOf
  <2> QED BY <1>1, <1>2, <2>1, <2>2 DEF IInv, TypeOK, RetiredOrRolledBack
<1> QED BY <1>3, <1>4, <1>5, <1>6, <1>7, <1>8, <1>9 DEF IInv

\* A step of the loop that inserts nothing: it moves the run within the loop.
LoopStep(r) ==
    /\ phase[r] \in {"open", "check"}
    /\ \E p \in Active : phase' = [phase EXCEPT ![r] = p]
    /\ \A s \in Runs : s # r => row'[s] = row[s] /\ todo'[s] = todo[s]
    /\ UNCHANGED <<mode, batch, pending, audit, log, before, reads>>

\* What the row at hand must be for the run to go on and insert it.
MayInsert(r) == /\ mode[r] = "execute" /\ row[r] \in Translatable
                /\ Identity[row[r]] \notin Visible(r)

\* The loop's bookkeeping apart, such a step disturbs nothing.
LEMMA LoopStepKeeps ==
  ASSUME IInv, NEW r \in Runs, LoopStep(r), TypeOK', RowsAreHandled',
         phase'[r] = "insert" => MayInsert(r) /\ row'[r] = row[r]
  PROVE  IInv'
<1>1. PICK p \in Active : phase' = [phase EXCEPT ![r] = p]
  BY DEF LoopStep
<1>2. /\ phase[r] \in {"open", "check"} /\ TypeOK
      /\ \A s \in Runs : s # r => row'[s] = row[s] /\ todo'[s] = todo[s]
      /\ mode' = mode /\ batch' = batch /\ pending' = pending /\ audit' = audit
      /\ before' = before
  BY DEF LoopStep, IInv
<1>3. phase'[r] = p /\ \A s \in Runs : s # r => phase'[s] = phase[s]
  BY <1>1, <1>2 DEF TypeOK
<1>4. RecordsHaveRuns'
  <2>1. \A a \in audit : phase'[a.run] \in Ended
    BY <1>2, <1>3 DEF IInv, RecordsHaveRuns, TypeOK, Record, Ended
  <2>2. \A s \in Runs : pending[s] # {} => phase'[s] \in Active /\ mode[s] = "execute"
    BY <1>2, <1>3 DEF IInv, RecordsHaveRuns
  <2>3. \A s \in Runs : phase'[s] = "insert" => mode[s] = "execute" /\ row'[s] \in Translatable
    BY <1>2, <1>3 DEF IInv, RecordsHaveRuns, MayInsert
  <2> QED BY <1>2, <2>1, <2>2, <2>3 DEF RecordsHaveRuns
<1>5. LooksBack'
  BY <1>2, <1>3 DEF IInv, LooksBack, TypeOK, Ended
<1>6. InsertsAreFresh'
  <2>1. \A s \in Runs, x \in Rows : Fresh(s, x)' <=> Fresh(s, x)
    BY <1>2 DEF Fresh
  <2>2. ASSUME NEW s \in Runs, phase'[s] = "insert"
        PROVE  Fresh(s, row'[s]) /\ \A x \in pending[s] : Identity[x] # Identity[row'[s]]
    <3>1. CASE s = r
      BY <2>2, <3>1 DEF MayInsert, Visible, Fresh
    <3>2. CASE s # r
      BY <1>2, <1>3, <2>2, <3>2 DEF IInv, InsertsAreFresh
    <3> QED BY <3>1, <3>2
  <2>3. \A s \in Runs : /\ \A x \in pending[s] : Fresh(s, x)
                      /\ \A x, y \in pending[s] : Identity[x] = Identity[y] => x = y
    BY DEF IInv, InsertsAreFresh
  <2> QED BY <1>2, <2>2, <2>3 DEF InsertsAreFresh, Fresh
<1>7. NoDuplicateAfterCommit'
  BY <1>2 DEF IInv, NoDuplicateAfterCommit
<1>8. RetiredOrRolledBack'
  <2>1. \A s \in Runs : RecordsOf(s)' = RecordsOf(s)
    BY <1>2 DEF RecordsOf
  <2>2. RecordsOf(r) = {}
    BY <1>2 DEF IInv, RetiredOrRolledBack
  <2> QED BY <1>2, <1>3, <2>1, <2>2 DEF IInv, RetiredOrRolledBack, Active
<1> QED BY <1>4, <1>5, <1>6, <1>7, <1>8 DEF IInv

\* The four ways a run goes on without inserting.
LEMMA LoopSteps ==
  ASSUME IInv, NEW r \in Runs,
         \/ \E x \in Rows : NextRow(r, x)
         \/ SkipDuplicate(r) \/ SkipUntranslatable(r) \/ CountOnly(r) \/ DecideInsert(r)
  PROVE  IInv'
<1>1. TypeOK
  BY DEF IInv
<1>2. ASSUME NEW x \in Rows, NextRow(r, x) PROVE IInv'
  <2>1. LoopStep(r)
    BY <1>1, <1>2 DEF NextRow, LoopStep, Active, TypeOK
  <2>0. counts' \in [Runs -> Counts]
    BY <1>1, <1>2, SMTT(60) DEF NextRow, TypeOK, Counts
  <2>2. TypeOK'
    BY <1>1, <1>2, <2>0 DEF NextRow, TypeOK, Phases
  <2>3. RowsAreHandled'
    BY <1>1, <1>2 DEF IInv, NextRow, TypeOK, RowsAreHandled, Visible, Active
  <2>4. phase'[r] # "insert"
    BY <1>1, <1>2 DEF NextRow, TypeOK
  <2> QED BY <2>1, <2>2, <2>3, <2>4, LoopStepKeeps
<1>3. CASE SkipDuplicate(r)
  <2>1. LoopStep(r)
    BY <1>1, <1>3 DEF SkipDuplicate, Answered, LoopStep, Active, TypeOK
  <2>0. counts' \in [Runs -> Counts]
    BY <1>1, <1>3, SMTT(60) DEF SkipDuplicate, TypeOK, Counts
  <2>2. TypeOK'
    BY <1>1, <1>3, <2>0 DEF SkipDuplicate, TypeOK, Phases
  <2>3. RowsAreHandled'
    BY <1>1, <1>3 DEF IInv, SkipDuplicate, Answered, Retired, TypeOK, RowsAreHandled, Visible, Active
  <2>4. phase'[r] # "insert"
    BY <1>1, <1>3 DEF SkipDuplicate, TypeOK
  <2> QED BY <2>1, <2>2, <2>3, <2>4, LoopStepKeeps
<1>4. CASE SkipUntranslatable(r) \/ CountOnly(r)
  <2>1. LoopStep(r)
    BY <1>1, <1>4 DEF SkipUntranslatable, CountOnly, Answered, LoopStep, Active, TypeOK
  <2>0. counts' \in [Runs -> Counts]
    <3>1. counts[r] \in Counts
      BY <1>1 DEF TypeOK
    <3>2. CASE SkipUntranslatable(r)
      BY <1>1, <3>1, <3>2 DEF SkipUntranslatable, TypeOK, Counts
    <3>3. CASE CountOnly(r)
      BY <1>1, <3>1, <3>3, SMTT(60) DEF CountOnly, TypeOK, Counts
    <3> QED BY <1>4, <3>2, <3>3
  <2>2. TypeOK'
    BY <1>1, <1>4, <2>0 DEF SkipUntranslatable, CountOnly, TypeOK, Phases
  <2>3. RowsAreHandled'
    BY <1>1, <1>4
       DEF IInv, SkipUntranslatable, CountOnly, Answered, TypeOK, RowsAreHandled, Visible, Active
  <2>4. phase'[r] # "insert"
    BY <1>1, <1>4 DEF SkipUntranslatable, CountOnly, TypeOK
  <2> QED BY <2>1, <2>2, <2>3, <2>4, LoopStepKeeps
<1>5. CASE DecideInsert(r)
  <2>1. LoopStep(r)
    BY <1>1, <1>5 DEF DecideInsert, Answered, LoopStep, Active, TypeOK
  <2>2. TypeOK'
    BY <1>1, <1>5 DEF DecideInsert, TypeOK, Phases
  <2>3. RowsAreHandled'
    BY <1>1, <1>5 DEF IInv, DecideInsert, Answered, TypeOK, RowsAreHandled, Visible, Active
  <2>4. MayInsert(r) /\ row'[r] = row[r]
    BY <1>5 DEF DecideInsert, Retired, MayInsert
  <2> QED BY <2>1, <2>2, <2>3, <2>4, LoopStepKeeps
<1> QED BY <1>2, <1>3, <1>4, <1>5

\* An insert adds a row that is fresh and unlike what the run holds already.
LEMMA InsertStep ==
  ASSUME IInv, NEW r \in Runs, Insert(r)
  PROVE  IInv'
<1>1. /\ phase[r] = "insert" /\ phase' = [phase EXCEPT ![r] = "open"]
      /\ pending' = [pending EXCEPT ![r] = @ \cup {row[r]}]
      /\ counts' = [counts EXCEPT ![r].written = @ + 1]
      /\ UNCHANGED <<mode, batch, todo, row, audit, log, before, reads>>
  BY DEF Insert
<1>2. /\ TypeOK /\ mode[r] = "execute" /\ row[r] \in Rows
  BY <1>1 DEF IInv, TypeOK, RecordsHaveRuns
<1>3. TypeOK'
  BY <1>1, <1>2 DEF TypeOK, Phases, Counts
<1>4. RecordsHaveRuns'
  BY <1>1, <1>2 DEF IInv, TypeOK, RecordsHaveRuns, Active, Ended, Record
<1>5. LooksBack'
  BY <1>1, <1>2 DEF IInv, TypeOK, LooksBack, Ended
<1>6. InsertsAreFresh'
  <2>1. \A s \in Runs : pending'[s] = IF s = r THEN pending[r] \cup {row[r]} ELSE pending[s]
    BY <1>1, <1>2 DEF TypeOK
  <2>2. \A s \in Runs : phase'[s] = "insert" => s # r /\ phase[s] = "insert"
    BY <1>1, <1>2 DEF TypeOK
  <2> QED BY <1>1, <2>1, <2>2 DEF IInv, InsertsAreFresh, Fresh
<1>7. RowsAreHandled'
  BY <1>1, <1>2 DEF IInv, TypeOK, RowsAreHandled, Visible, Active
<1>8. NoDuplicateAfterCommit' /\ RetiredOrRolledBack'
  BY <1>1, <1>2 DEF IInv, TypeOK, NoDuplicateAfterCommit, RetiredOrRolledBack, RecordsOf
<1> QED BY <1>3, <1>4, <1>5, <1>6, <1>7, <1>8 DEF IInv

\* The commit publishes records that clash with none a run before it left, and
\* covers every row of the run's batch.
LEMMA FinishStep ==
  ASSUME IInv, NEW r \in Runs, Finish(r)
  PROVE  IInv'
<1> DEFINE new == {[run |-> r, row |-> x] : x \in pending[r]}
<1>1. /\ phase[r] = "open" /\ todo[r] = {} /\ phase' = [phase EXCEPT ![r] = "written"]
      /\ audit' = audit \cup new /\ pending' = [pending EXCEPT ![r] = {}]
      /\ UNCHANGED <<mode, batch, todo, row, counts, log, before, reads>>
  BY DEF Finish
<1>2. /\ TypeOK /\ pending[r] \subseteq Rows
      /\ \A a \in audit : a.run # r /\ a.run \in Runs
      /\ \A s \in Runs : r \notin before[s]
      /\ \A a \in new : a.run = r /\ a.row \in pending[r] /\ a \in Record
  BY <1>1 DEF IInv, TypeOK, RecordsHaveRuns, LooksBack, Ended, Record
<1> HIDE DEF new
<1>3. TypeOK'
  BY <1>1, <1>2 DEF TypeOK, Phases
<1>4. RecordsHaveRuns'
  BY <1>1, <1>2 DEF IInv, TypeOK, RecordsHaveRuns, Active, Ended
<1>5. LooksBack'
  BY <1>1, <1>2 DEF IInv, TypeOK, LooksBack, Ended
<1>6. InsertsAreFresh'
  <2>1. \A s \in Runs, x \in Rows : Fresh(s, x) => Fresh(s, x)'
    BY <1>1, <1>2 DEF Fresh
  <2>2. \A s \in Runs : pending'[s] = IF s = r THEN {} ELSE pending[s]
    BY <1>1, <1>2 DEF TypeOK
  <2>3. \A s \in Runs : phase'[s] = "insert" => phase[s] = "insert"
    BY <1>1, <1>2 DEF TypeOK
  <2>4. \A s \in Runs : row[s] \in Rows /\ pending[s] \subseteq Rows
    BY <1>2 DEF TypeOK
  <2>5. \A s \in Runs : pending'[s] \subseteq pending[s]
    BY <2>2
  <2>6. ASSUME NEW s \in Runs, NEW x \in pending'[s] PROVE Fresh(s, x)'
    <3>1. x \in Rows /\ Fresh(s, x)
      BY <2>4, <2>5 DEF IInv, InsertsAreFresh
    <3> QED BY <2>1, <3>1
  <2>7. \A s \in Runs : \A x, y \in pending'[s] : Identity[x] = Identity[y] => x = y
    BY <2>5 DEF IInv, InsertsAreFresh
  <2>8. ASSUME NEW s \in Runs, phase'[s] = "insert"
        PROVE  Fresh(s, row[s])' /\ \A x \in pending'[s] : Identity[x] # Identity[row'[s]]
    <3>1. /\ row[s] \in Rows /\ Fresh(s, row[s])
          /\ \A x \in pending[s] : Identity[x] # Identity[row[s]]
      BY <2>3, <2>4, <2>8 DEF IInv, InsertsAreFresh
    <3>2. row' = row
      BY <1>1
    <3>3. \A a \in audit' : a.run \in before'[s] => Identity[a.row] # Identity[row'[s]]
      <4>1. \A a \in audit' : a.run \in before[s] => a \in audit
        BY <1>1, <1>2
      <4> QED BY <1>1, <3>1, <3>2, <4>1 DEF Fresh
    <3> QED BY <2>5, <3>1, <3>2, <3>3 DEF Fresh
  <2> QED BY <2>6, <2>7, <2>8 DEF InsertsAreFresh
<1>7. RowsAreHandled'
  <2>1. \A s \in Runs : s # r => Visible(s) \subseteq Visible(s)'
    BY <1>1, <1>2 DEF Visible, TypeOK
  <2> QED BY <1>1, <1>2, <2>1 DEF IInv, TypeOK, RowsAreHandled, Active
<1>8. NoDuplicateAfterCommit'
  <2> SUFFICES ASSUME NEW a \in audit', NEW b \in audit',
                      Identity[a.row] = Identity[b.row], a # b
               PROVE  a.run # b.run /\ a.run \notin before[b.run]
    BY <1>1 DEF NoDuplicateAfterCommit
  <2>1. CASE a \in audit /\ b \in audit
    BY <2>1 DEF IInv, NoDuplicateAfterCommit
  <2>2. CASE a \in new /\ b \in audit
    BY <1>2, <2>2
  <2>3. CASE a \in audit /\ b \in new
    BY <1>2, <2>3 DEF IInv, InsertsAreFresh, Fresh
  <2>4. CASE a \in new /\ b \in new
    <3>1. a.row = b.row
      BY <1>2, <2>4 DEF IInv, InsertsAreFresh
    <3> QED BY <1>2, <2>4, <3>1 DEF Record
  <2> QED BY <1>1, <2>1, <2>2, <2>3, <2>4
<1>9. RetiredOrRolledBack'
  <2>1. ASSUME NEW s \in Runs, phase'[s] \in {"open", "check", "insert"}
        PROVE  RecordsOf(s)' = {}
    <3>1. s # r /\ phase[s] \in {"open", "check", "insert"}
      BY <1>1, <1>2, <2>1 DEF TypeOK
    <3>2. RecordsOf(s) = {}
      BY <3>1 DEF IInv, RetiredOrRolledBack
    <3> QED BY <1>1, <1>2, <3>1, <3>2 DEF RecordsOf
  <2>0. ASSUME NEW s \in Runs, s # r PROVE RecordsOf(s)' = RecordsOf(s)
    BY <1>1, <1>2, <2>0 DEF RecordsOf
  <2>3. mode[r] # "execute" => RecordsOf(r)' = {}
    <3>1. mode[r] # "execute" => new = {}
      BY DEF new, IInv, RecordsHaveRuns
    <3> QED BY <1>1, <1>2, <3>1 DEF RecordsOf
  <2>4. ASSUME NEW s \in Runs,
               \/ RecordsOf(s)' # {}
               \/ phase'[s] \in {"written", "logged"} /\ mode[s] = "execute"
        PROVE  todo[s] = {}
    BY <1>1, <1>2, <2>0, <2>4 DEF IInv, TypeOK, RetiredOrRolledBack
  <2>2. ASSUME NEW s \in Runs,
               \/ RecordsOf(s)' # {}
               \/ phase'[s] \in {"written", "logged"} /\ mode[s] = "execute",
               NEW x \in batch[s] \cap Translatable
        PROVE  \E a \in audit' : Identity[a.row] = Identity[x]
    <3>1. CASE s = r
      <4>1. Identity[x] \in Visible(r)
        BY <1>1, <2>2, <2>3, <3>1 DEF IInv, RowsAreHandled, Active
      <4>2. CASE \E a \in audit : Identity[x] = Identity[a.row]
        BY <1>1, <4>2
      <4>3. CASE \E y \in pending[r] : Identity[x] = Identity[y]
        <5>1. PICK y \in pending[r] : Identity[x] = Identity[y]
          BY <4>3
        <5>2. [run |-> r, row |-> y] \in new
          BY DEF new
        <5> QED BY <1>1, <5>1, <5>2
      <4> QED BY <4>1, <4>2, <4>3 DEF Visible
    <3>2. CASE s # r
      BY <1>1, <1>2, <2>0, <2>2, <3>2 DEF IInv, TypeOK, RetiredOrRolledBack
    <3> QED BY <3>1, <3>2
  <2> QED BY <1>1, <2>1, <2>2, <2>4 DEF RetiredOrRolledBack
<1> QED BY <1>3, <1>4, <1>5, <1>6, <1>7, <1>8, <1>9 DEF IInv

\* Saving the log entry does not touch the target.
LEMMA SaveLogStep ==
  ASSUME IInv, NEW r \in Runs, SaveLog(r)
  PROVE  IInv'
<1>1. /\ phase[r] = "written" /\ phase' = [phase EXCEPT ![r] = "logged"]
      /\ UNCHANGED <<mode, batch, todo, row, counts, pending, audit, before, reads>>
  BY DEF SaveLog
<1>2. TypeOK /\ counts[r] \in Counts
  BY DEF IInv, TypeOK
<1>3. TypeOK'
  BY <1>1, <1>2 DEF SaveLog, TypeOK, Phases, LogEntry, Counts
<1>4. RecordsHaveRuns' /\ LooksBack'
  BY <1>1, <1>2 DEF IInv, TypeOK, RecordsHaveRuns, LooksBack, Active, Ended, Record
<1>5. InsertsAreFresh'
  BY <1>1, <1>2 DEF IInv, TypeOK, InsertsAreFresh, Fresh
<1>6. RowsAreHandled'
  BY <1>1, <1>2 DEF IInv, TypeOK, RowsAreHandled, Visible, Active
<1>7. NoDuplicateAfterCommit' /\ RetiredOrRolledBack'
  BY <1>1, <1>2 DEF IInv, TypeOK, NoDuplicateAfterCommit, RetiredOrRolledBack, RecordsOf
<1> QED BY <1>3, <1>4, <1>5, <1>6, <1>7 DEF IInv

\* Leaving the loop on an error discards what the run inserted.
LEMMA AbandonStep ==
  ASSUME IInv, NEW r \in Runs, Fail(r) \/ DeadlockVictim(r)
  PROVE  IInv'
<1>1. Abandon(r)
  BY DEF Fail, DeadlockVictim
<1>2. /\ phase' = [phase EXCEPT ![r] = "failed"] /\ pending' = [pending EXCEPT ![r] = {}]
      /\ UNCHANGED <<mode, batch, todo, row, counts, audit, log, before, reads>>
  BY <1>1 DEF Abandon
<1>3. TypeOK
  BY DEF IInv
<1>4. TypeOK'
  BY <1>2, <1>3 DEF TypeOK, Phases
<1>5. RecordsHaveRuns' /\ LooksBack'
  BY <1>2, <1>3 DEF IInv, TypeOK, RecordsHaveRuns, LooksBack, Active, Ended, Record
<1>6. InsertsAreFresh'
  BY <1>2, <1>3 DEF IInv, TypeOK, InsertsAreFresh, Fresh
<1>7. RowsAreHandled'
  BY <1>2, <1>3 DEF IInv, TypeOK, RowsAreHandled, Visible, Active
<1>8. NoDuplicateAfterCommit' /\ RetiredOrRolledBack'
  BY <1>2, <1>3 DEF IInv, TypeOK, NoDuplicateAfterCommit, RetiredOrRolledBack, RecordsOf
<1> QED BY <1>4, <1>5, <1>6, <1>7, <1>8 DEF IInv

\* IInv is inductive: one case per action.
LEMMA NextIInv == IInv /\ [Next]_vars => IInv'
<1> SUFFICES ASSUME IInv, [Next]_vars PROVE IInv'
  OBVIOUS
<1>1. CASE UNCHANGED vars
  BY <1>1 DEF vars, IInv, TypeOK, RecordsHaveRuns, LooksBack, InsertsAreFresh, Fresh,
     RowsAreHandled, Visible, NoDuplicateAfterCommit, RetiredOrRolledBack, RecordsOf
<1>2. ASSUME NEW r \in Runs,
             \/ \E m \in Modes, selected \in SUBSET Rows : Begin(r, m, selected)
             \/ Step(r) \/ Fail(r) \/ DeadlockVictim(r)
      PROVE  IInv'
  <2>1. CASE \E m \in Modes, selected \in SUBSET Rows : Begin(r, m, selected)
    BY <2>1, BeginStep
  <2>2. CASE Step(r)
    BY <2>2, LoopSteps, InsertStep, FinishStep, SaveLogStep DEF Step
  <2>3. CASE Fail(r) \/ DeadlockVictim(r)
    BY <2>3, AbandonStep
  <2> QED BY <1>2, <2>1, <2>2, <2>3
<1> QED BY <1>1, <1>2 DEF Next

\* The inductive invariant holds of every reachable state.
LEMMA Invariance == Spec => []IInv
BY InitIInv, NextIInv, PTL DEF Spec

\* The variables keep their types.
THEOREM TypeCorrect == Spec => []TypeOK
<1>1. IInv => TypeOK
  BY DEF IInv
<1> QED BY <1>1, Invariance, PTL

\* Runs that do not overlap never retire an identity twice, nor does any one
\* run, whatever the isolation of the target (FR-011 short of the race).
THEOREM NoDuplicates == Spec => []NoDuplicateAfterCommit
<1>1. IInv => NoDuplicateAfterCommit
  BY DEF IInv
<1> QED BY <1>1, Invariance, PTL

\* However it ends, a run leaves no record, or its loop had come to an end and no
\* translatable identity of its batch is without one.
THEOREM CompleteOrNothing == Spec => []RetiredOrRolledBack
<1>1. IInv => RetiredOrRolledBack
  BY DEF IInv
<1> QED BY <1>1, Invariance, PTL

-----------------------------------------------------------------------------
(* The counts.  They are proved on top of IInv, which knows that the row about *)
(* to be inserted is none of those inserted already.                           *)

Sum(r) == counts[r].written + counts[r].duplicates + counts[r].untranslatable

\* Every row taken is counted once more when it is decided, and what an
\* execution counts as written is what it has inserted, then committed.
RunCounts(r) ==
    /\ phase[r] = "idle" => counts[r] = Zero /\ pending[r] = {}
    /\ phase[r] \in {"open", "written", "logged"} => counts[r].considered = Sum(r)
    /\ phase[r] \in {"check", "insert"} => counts[r].considered = Sum(r) + 1
    /\ mode[r] = "execute" /\ phase[r] \in Active => counts[r].written = Cardinality(pending[r])
    /\ mode[r] = "execute" /\ phase[r] \in {"written", "logged"} =>
            counts[r].written = Cardinality(RecordsOf(r))
    /\ mode[r] = "dry_run" => RecordsOf(r) = {}

\* What SaveLog stores of a run.
EntryOf(r) == [run |-> r, mode |-> mode[r], read |-> counts[r].considered,
               written |-> IF mode[r] = "dry_run" THEN 0 ELSE counts[r].written,
               flagged |-> counts[r].untranslatable]
LogIsOfRuns == \A e \in log : e.run \in Runs /\ phase[e.run] = "logged" /\ e = EntryOf(e.run)

CountInv == (\A r \in Runs : RunCounts(r)) /\ LogIsOfRuns

\* A step of one run that logs nothing and leaves the records of others alone.
LEMMA CountStep ==
  ASSUME IInv, CountInv, NEW r \in Runs, phase[r] # "logged", log' = log, RunCounts(r)',
         \A s \in Runs \ {r} : /\ phase'[s] = phase[s] /\ mode'[s] = mode[s]
                               /\ counts'[s] = counts[s] /\ pending'[s] = pending[s]
                               /\ RecordsOf(s)' = RecordsOf(s)
  PROVE  CountInv'
<1>1. ASSUME NEW s \in Runs, s # r PROVE RunCounts(s)'
  <2>1. RunCounts(s)
    BY DEF CountInv
  <2>2. Sum(s)' = Sum(s)
    BY <1>1 DEF Sum
  <2> QED BY <1>1, <2>1, <2>2 DEF RunCounts
<1>2. LogIsOfRuns'
  BY DEF CountInv, LogIsOfRuns, EntryOf
<1> QED BY <1>1, <1>2 DEF CountInv

LEMMA CountNext == IInv /\ CountInv /\ [Next]_vars => CountInv'
<1> SUFFICES ASSUME IInv, CountInv, [Next]_vars PROVE CountInv'
  OBVIOUS
<1>0. TypeOK /\ \A r \in Runs : RunCounts(r) /\ counts[r] \in Counts
  BY DEF IInv, TypeOK, CountInv
<1>1. ASSUME NEW r \in Runs, NEW m \in Modes, NEW selected \in SUBSET Rows, Begin(r, m, selected)
      PROVE  CountInv'
  <2>1. phase[r] = "idle" /\ phase'[r] = "open" /\ counts'[r] = Zero /\ pending'[r] = {}
    BY <1>0, <1>1 DEF TypeOK, Begin, RunCounts
  <2>2. RecordsOf(r)' = {}
    BY <1>1, <2>1 DEF IInv, RecordsHaveRuns, RecordsOf, Begin, Ended
  <2>3. RunCounts(r)'
    BY <2>1, <2>2, FS_EmptySet DEF RunCounts, Sum, Zero
  <2> QED BY <1>0, <1>1, <2>1, <2>3, CountStep DEF TypeOK, Begin, RecordsOf
<1>2. ASSUME NEW r \in Runs, NEW x \in Rows, NextRow(r, x) PROVE CountInv'
  <2>1. counts'[r] = [counts[r] EXCEPT !.considered = @ + 1] /\ phase[r] = "open"
        /\ phase'[r] = "check" /\ UNCHANGED <<mode, pending, audit, log>>
    BY <1>0, <1>2 DEF TypeOK, NextRow
  <2>2. /\ counts[r].considered \in Nat
        /\ counts'[r].considered = counts[r].considered + 1
        /\ counts'[r].written = counts[r].written
        /\ counts'[r].duplicates = counts[r].duplicates
        /\ counts'[r].untranslatable = counts[r].untranslatable
    BY <1>0, <2>1 DEF Counts
  <2>3. Sum(r)' = Sum(r)
    BY <2>2 DEF Sum
  <2>4. counts'[r].considered = Sum(r)' + 1
    BY <1>0, <2>1, <2>2, <2>3 DEF RunCounts
  <2>5. RecordsOf(r)' = RecordsOf(r)
    BY <2>1 DEF RecordsOf
  <2>6. RunCounts(r)'
    BY <1>0, <2>1, <2>2, <2>4, <2>5 DEF RunCounts, Active
  <2> QED BY <1>0, <1>2, <2>1, <2>6, CountStep DEF TypeOK, NextRow, RecordsOf
<1>3. ASSUME NEW r \in Runs, SkipDuplicate(r) \/ SkipUntranslatable(r) \/ CountOnly(r)
      PROVE  CountInv'
  <2>1. /\ phase[r] = "check" /\ phase'[r] = "open" /\ UNCHANGED <<mode, pending, audit, log>>
        /\ \A s \in Runs \ {r} : phase'[s] = phase[s] /\ counts'[s] = counts[s]
    BY <1>0, <1>3 DEF TypeOK, SkipDuplicate, SkipUntranslatable, CountOnly, Answered
  <2>2. \/ counts'[r] = [counts[r] EXCEPT !.duplicates = @ + 1]
        \/ counts'[r] = [counts[r] EXCEPT !.untranslatable = @ + 1]
        \/ counts'[r] = [counts[r] EXCEPT !.written = @ + 1] /\ mode[r] = "dry_run"
    BY <1>0, <1>3 DEF TypeOK, SkipDuplicate, SkipUntranslatable, CountOnly
  <2>3. /\ counts[r].written \in Nat /\ counts[r].duplicates \in Nat
        /\ counts[r].untranslatable \in Nat
    BY <1>0 DEF Counts
  <2>4. counts'[r].considered = counts[r].considered /\ Sum(r)' = Sum(r) + 1
    <3>1. CASE counts'[r] = [counts[r] EXCEPT !.duplicates = @ + 1]
      BY <1>0, <2>3, <3>1 DEF Counts, Sum
    <3>2. CASE counts'[r] = [counts[r] EXCEPT !.untranslatable = @ + 1]
      BY <1>0, <2>3, <3>2 DEF Counts, Sum
    <3>3. CASE counts'[r] = [counts[r] EXCEPT !.written = @ + 1]
      BY <1>0, <2>3, <3>3 DEF Counts, Sum
    <3> QED BY <2>2, <3>1, <3>2, <3>3
  <2>5. counts'[r].considered = Sum(r)'
    BY <1>0, <2>1, <2>4 DEF RunCounts
  <2>6. mode[r] = "execute" => counts'[r].written = counts[r].written
    BY <1>0, <2>2 DEF Counts, Modes
  <2>7. RecordsOf(r)' = RecordsOf(r)
    BY <2>1 DEF RecordsOf
  <2>8. RunCounts(r)'
    BY <1>0, <2>1, <2>5, <2>6, <2>7 DEF RunCounts, Active
  <2> QED BY <1>0, <2>1, <2>8, CountStep DEF TypeOK, RecordsOf
<1>4. ASSUME NEW r \in Runs, DecideInsert(r) PROVE CountInv'
  <2>1. /\ phase[r] = "check" /\ phase'[r] = "insert"
        /\ UNCHANGED <<mode, counts, pending, audit, log>>
    BY <1>0, <1>4 DEF TypeOK, DecideInsert, Answered
  <2>2. RunCounts(r)'
    BY <1>0, <2>1 DEF RunCounts, Sum, RecordsOf, Active
  <2> QED BY <1>0, <1>4, <2>1, <2>2, CountStep DEF TypeOK, DecideInsert, RecordsOf
<1>5. ASSUME NEW r \in Runs, Insert(r) PROVE CountInv'
  <2>1. /\ phase[r] = "insert" /\ phase'[r] = "open" /\ UNCHANGED <<mode, audit, log>>
        /\ pending'[r] = pending[r] \cup {row[r]}
        /\ counts'[r] = [counts[r] EXCEPT !.written = @ + 1]
    BY <1>0, <1>5 DEF TypeOK, Insert
  <2>2. row[r] \notin pending[r] /\ IsFiniteSet(pending[r]) /\ mode[r] = "execute"
    <3>1. pending[r] \subseteq Rows
      BY <1>0 DEF TypeOK
    <3> QED BY <2>1, <3>1, RetirementAssumption, FS_Subset DEF IInv, InsertsAreFresh, RecordsHaveRuns
  <2>3. Cardinality(pending'[r]) = Cardinality(pending[r]) + 1
    BY <2>1, <2>2, FS_AddElement
  <2>4. /\ counts[r].written \in Nat /\ counts[r].duplicates \in Nat
        /\ counts[r].untranslatable \in Nat
        /\ counts'[r].considered = counts[r].considered
        /\ counts'[r].written = counts[r].written + 1
        /\ counts'[r].duplicates = counts[r].duplicates
        /\ counts'[r].untranslatable = counts[r].untranslatable
    BY <1>0, <2>1 DEF Counts
  <2>5. Sum(r)' = Sum(r) + 1
    BY <2>4 DEF Sum
  <2>6. counts[r].considered = Sum(r) + 1 /\ counts[r].written = Cardinality(pending[r])
    BY <1>0, <2>1, <2>2 DEF RunCounts, Active
  <2>7. counts'[r].considered = Sum(r)' /\ counts'[r].written = Cardinality(pending'[r])
    BY <2>3, <2>4, <2>5, <2>6
  <2>8. RecordsOf(r)' = RecordsOf(r)
    BY <2>1 DEF RecordsOf
  <2>9. RunCounts(r)'
    BY <1>0, <2>1, <2>2, <2>7, <2>8 DEF RunCounts, Active
  <2> QED BY <1>0, <1>5, <2>1, <2>9, CountStep DEF TypeOK, Insert, RecordsOf
<1>6. ASSUME NEW r \in Runs, Finish(r) PROVE CountInv'
  <2>1. /\ phase[r] = "open" /\ phase'[r] = "written" /\ UNCHANGED <<mode, counts, log>>
        /\ pending'[r] = {} /\ audit' = audit \cup {[run |-> r, row |-> x] : x \in pending[r]}
    BY <1>0, <1>6 DEF TypeOK, Finish
  <2>2. \A s \in Runs \ {r} : RecordsOf(s)' = RecordsOf(s)
    BY <2>1 DEF RecordsOf
  <2>3. RecordsOf(r)' = {[run |-> r, row |-> x] : x \in pending[r]}
    BY <2>1 DEF RecordsOf, IInv, RetiredOrRolledBack
  <2>4. Cardinality(RecordsOf(r)') = Cardinality(pending[r])
    <3> DEFINE f == [x \in pending[r] |-> [run |-> r, row |-> x]]
    <3>1. f \in Bijection(pending[r], RecordsOf(r)')
      BY <2>3 DEF Bijection, Injection, Surjection, IsInjective
    <3>2. ExistsBijection(pending[r], RecordsOf(r)')
      BY <3>1 DEF ExistsBijection
    <3>3. pending[r] \subseteq Rows
      BY <1>0 DEF TypeOK
    <3>4. IsFiniteSet(pending[r])
      BY <3>3, RetirementAssumption, FS_Subset
    <3> QED BY <3>2, <3>4, FS_Bijection
  <2>5. mode[r] = "dry_run" => RecordsOf(r)' = {}
    BY <2>3 DEF IInv, RecordsHaveRuns
  <2>6. RunCounts(r)'
    BY <1>0, <2>1, <2>4, <2>5 DEF RunCounts, Sum, Active
  <2> QED BY <1>0, <1>6, <2>1, <2>2, <2>6, CountStep DEF TypeOK, Finish
<1>7. ASSUME NEW r \in Runs, SaveLog(r) PROVE CountInv'
  <2>1. /\ phase[r] = "written" /\ phase' = [phase EXCEPT ![r] = "logged"]
        /\ UNCHANGED <<mode, counts, pending, audit>> /\ log' = log \cup {EntryOf(r)}
    BY <1>7 DEF SaveLog, EntryOf
  <2>2. phase'[r] = "logged" /\ \A s \in Runs : s # r => phase'[s] = phase[s]
    BY <1>0, <2>1 DEF TypeOK
  <2>3. \A s \in Runs : RecordsOf(s)' = RecordsOf(s) /\ Sum(s)' = Sum(s) /\ EntryOf(s)' = EntryOf(s)
    BY <2>1 DEF RecordsOf, Sum, EntryOf
  <2>4. \A s \in Runs : RunCounts(s)'
    BY <1>0, <2>1, <2>2, <2>3 DEF RunCounts, Active
  <2>5. LogIsOfRuns'
    <3> SUFFICES ASSUME NEW e \in log'
                 PROVE  e.run \in Runs /\ phase'[e.run] = "logged" /\ e = EntryOf(e.run)'
      BY DEF LogIsOfRuns
    <3>1. CASE e = EntryOf(r)
      BY <2>2, <2>3, <3>1 DEF EntryOf
    <3>2. CASE e \in log
      BY <2>1, <2>2, <2>3, <3>2 DEF CountInv, LogIsOfRuns
    <3> QED BY <2>1, <3>1, <3>2
  <2> QED BY <2>4, <2>5 DEF CountInv
<1>8. ASSUME NEW r \in Runs, Fail(r) \/ DeadlockVictim(r) PROVE CountInv'
  <2>1. Abandon(r)
    BY <1>8 DEF Fail, DeadlockVictim
  <2>2. phase[r] # "logged"
    <3>1. CASE Fail(r)
      BY <3>1 DEF Fail
    <3>2. CASE DeadlockVictim(r)
      BY <3>2 DEF DeadlockVictim, Circle, Stuck, WaitsFor
    <3> QED BY <1>8, <3>1, <3>2
  <2>3. phase'[r] = "failed" /\ UNCHANGED <<mode, counts, audit, log>>
    BY <1>0, <2>1 DEF TypeOK, Abandon
  <2>4. RunCounts(r)'
    BY <1>0, <2>3 DEF RunCounts, RecordsOf, Active
  <2> QED BY <1>0, <2>1, <2>2, <2>3, <2>4, CountStep DEF TypeOK, Abandon, RecordsOf
<1>9. CASE UNCHANGED vars
  BY <1>0, <1>9 DEF vars, CountInv, RunCounts, Sum, RecordsOf, LogIsOfRuns, EntryOf
<1> QED BY <1>1, <1>2, <1>3, <1>4, <1>5, <1>6, <1>7, <1>8, <1>9 DEF Next, Step

\* Every log entry counts the records its run left, and the number derived from
\* it is too large by the duplicates the run skipped.
THEOREM LogCounts == Spec => []LogCountsRecords
<1>1. Init => CountInv
  BY DEF Init, CountInv, RunCounts, Zero, Sum, RecordsOf, LogIsOfRuns, Active
<1>2. ASSUME IInv, CountInv PROVE LogCountsRecords
  <2> SUFFICES ASSUME NEW e \in log
               PROVE  /\ e.written = Cardinality(RecordsOf(e.run))
                      /\ e.mode = "dry_run" => RecordsOf(e.run) = {}
                      /\ e.read - e.flagged = counts[e.run].written + counts[e.run].duplicates
                      /\ e.mode = "execute" => e.written = counts[e.run].written
    BY DEF LogCountsRecords
  <2> DEFINE r == e.run
  <2>1. r \in Runs /\ phase[r] = "logged" /\ e = EntryOf(r) /\ RunCounts(r)
    BY <1>2 DEF CountInv, LogIsOfRuns
  <2>2. counts[r] \in Counts /\ mode[r] \in Modes
    BY <1>2, <2>1 DEF IInv, TypeOK
  <2>3. /\ e.mode = mode[r] /\ e.read = counts[r].considered
        /\ e.flagged = counts[r].untranslatable
        /\ e.written = IF mode[r] = "dry_run" THEN 0 ELSE counts[r].written
    BY <2>1 DEF EntryOf
  <2>4. counts[r].considered = Sum(r)
    BY <2>1 DEF RunCounts
  <2>5. e.read - e.flagged = counts[r].written + counts[r].duplicates
    BY <2>2, <2>3, <2>4 DEF Sum, Counts
  <2>6. CASE mode[r] = "dry_run"
    BY <2>1, <2>3, <2>5, <2>6, FS_EmptySet DEF RunCounts
  <2>7. CASE mode[r] = "execute"
    BY <2>1, <2>3, <2>5, <2>7 DEF RunCounts
  <2> QED BY <2>2, <2>6, <2>7 DEF Modes
<1> QED BY <1>1, <1>2, InitIInv, NextIInv, CountNext, PTL DEF Spec

-----------------------------------------------------------------------------
(***************************************************************************)
(* Waiting.  A set of runs that wait for each other has a smallest such    *)
(* subset, and in that every member is waited for.                         *)
(***************************************************************************)

\* Whatever is stuck holds a circle.
LEMMA StuckHasCircle ==
    ASSUME NEW W \in SUBSET Runs, Stuck(W)
    PROVE  \E D \in SUBSET W : Circle(D)
<1> DEFINE Sizes == {Cardinality(E) : E \in {F \in SUBSET W : Stuck(F)}}
<1>1. \A E \in SUBSET W : IsFiniteSet(E) /\ Cardinality(E) \in Nat
  BY RetirementAssumption, FS_Subset, FS_CardinalityType
<1>2. Sizes \subseteq Nat /\ Sizes # {}
  <2>1. W \in {F \in SUBSET W : Stuck(F)}
    OBVIOUS
  <2> QED BY <1>1, <2>1
<1>3. PICK n \in Sizes : \A m \in Sizes : ~(m < n)
  <2> HIDE DEF Sizes
  <2>1. PICK n \in Sizes : \A m \in Sizes : <<m, n>> \notin OpToRel(<, Nat)
    BY <1>2, NatLessThanWellFounded, WFMin
  <2> QED BY <1>2, <2>1 DEF OpToRel
<1>4. PICK D \in SUBSET W : Stuck(D) /\ Cardinality(D) = n
  BY <1>3
<1>5. ASSUME NEW E \in SUBSET D, Stuck(E) PROVE E = D
  <2>1. Cardinality(E) \in Sizes
    BY <1>4, <1>5
  <2>2. ~(Cardinality(E) < Cardinality(D))
    BY <1>3, <1>4, <2>1
  <2>3. IsFiniteSet(D) /\ Cardinality(E) \in Nat /\ Cardinality(D) \in Nat
    BY <1>1, <1>4
  <2>4. Cardinality(E) <= Cardinality(D) /\ (Cardinality(E) = Cardinality(D) => E = D)
    BY <2>3, FS_Subset
  <2> QED BY <2>2, <2>3, <2>4
<1> QED BY <1>4, <1>5 DEF Circle

\* In a circle every run is waited for: the others could not do without it.
LEMMA CircleMembersHold ==
    ASSUME NEW D \in SUBSET Runs, Circle(D), NEW r \in D
    PROVE  \E a \in D : WaitsFor(a, r)
<1> SUFFICES ASSUME \A a \in D : ~WaitsFor(a, r) PROVE FALSE
  OBVIOUS
<1> DEFINE E == D \ {r}
<1>1. Stuck(D) /\ (Stuck(E) => E = D)
  BY DEF Circle
<1>2. \A a \in D : \E b \in E : WaitsFor(a, b)
  BY <1>1 DEF Stuck
<1>3. Stuck(E)
  BY <1>2 DEF Stuck
<1> QED BY <1>1, <1>3

\* Of runs that wait only for each other, one can go on or some are in a circle
\* which the target breaks; and only executions are in circles.
THEOREM WaitingEnds == Spec => []NobodyWaitsInVain
<1>1. ASSUME IInv PROVE NobodyWaitsInVain
  <2>0. TypeOK /\ RecordsHaveRuns
    BY <1>1 DEF IInv
  <2>1. ASSUME NEW S \in SUBSET Runs, \E r \in S : Unanswered(r),
               \A r \in S, s \in Runs : WaitsFor(r, s) => s \in S,
               \A r \in S : ~CanGoOn(r)
        PROVE  \E D \in SUBSET S : Circle(D)
    <3> DEFINE W == {r \in S : Unanswered(r)}
    <3>1. \A r \in W : phase[r] = "check"
      BY <2>1 DEF Unanswered, CanGoOn
    <3>2. ASSUME NEW a \in W PROVE \E b \in W : WaitsFor(a, b)
      <4>1. PICK b \in Runs : WaitsFor(a, b)
        BY <2>1, <3>1, <3>2 DEF CanGoOn, Answered
      <4>2. b \in S
        BY <2>1, <4>1
      <4>3. pending[b] # {}
        BY <4>1 DEF WaitsFor
      <4>4. Unanswered(b)
        BY <2>0, <4>3 DEF RecordsHaveRuns, Active, Unanswered
      <4> QED BY <4>1, <4>2, <4>4
    <3>3. Stuck(W)
      BY <2>1, <3>2 DEF Stuck
    <3> HIDE DEF W
    <3>4. W \in SUBSET S /\ W \in SUBSET Runs
      BY <2>1 DEF W
    <3> QED BY <3>3, <3>4, StuckHasCircle
  <2>2. ASSUME NEW D \in SUBSET Runs, Circle(D), NEW r \in D PROVE mode[r] = "execute"
    <3>1. PICK a \in D : WaitsFor(a, r)
      BY <2>2, CircleMembersHold
    <3>2. pending[r] # {}
      BY <3>1 DEF WaitsFor
    <3> QED BY <2>0, <3>2 DEF RecordsHaveRuns
  <2> QED BY <2>1, <2>2 DEF NobodyWaitsInVain
<1> QED BY <1>1, Invariance, PTL
=============================================================================
