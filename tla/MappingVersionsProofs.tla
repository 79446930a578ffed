----------------------- MODULE MappingVersionsProofs ------------------------
(***************************************************************************)
(* For any number of handlers, payloads and versions: the history of a     *)
(* mapping is gapless, its retirement configs are well formed, and the     *)
(* protocol implements the append-only history of VersionHistory.          *)
(***************************************************************************)
EXTENDS MappingVersions, Sequences, TLAPS

\* Before the mapping exists nothing refers to it.
NothingBeforeCreate ==
    kind = "none" => versions = {} /\ current = NoRow
                     /\ \A h \in Handlers : phase[h] = "idle"

\* What a save is going to store passed the validation of its mapping's kind,
\* and the row it inherits from is committed.
InFlightIsAcceptable ==
    \A h \in Handlers : phase[h] # "idle" =>
        /\ Acceptable(kind, Effective(request[h].config, seen[h]))
        /\ request[h].links \in ValidLinks
        /\ seen[h] \in versions

\* A number is at most one ahead of the pointer; only one handler at a time
\* holds an uncommitted row, and that row is the next one.
NumberIsNextOrTaken ==
    \A h \in Handlers :
        /\ phase[h] \in {"numbered", "inserted"} => number[h] \in 1..(current.number + 1)
        /\ phase[h] = "inserted" => number[h] = current.number + 1

OneInserter ==
    \A g, h \in Handlers : phase[g] = "inserted" /\ phase[h] = "inserted" => g = h

IInv == /\ TypeOK
        /\ HistoryIsGapless
        /\ RetirementVersionsConfigured
        /\ NothingBeforeCreate
        /\ InFlightIsAcceptable
        /\ NumberIsNextOrTaken
        /\ OneInserter

-----------------------------------------------------------------------------
\* The empty row's links are a payload.
LEMMA NoRowType == NoRow \in Row /\ NoRow.number = 0 /\ NoRow.links \in Links
<1>1. (CHOOSE l \in Links : TRUE) \in Links
  BY PayloadAssumption
<1> QED BY <1>1 DEF NoRow, Row, Optional

LEMMA InitIInv == Init => IInv
BY NoRowType DEF Init, IInv, TypeOK, HistoryIsGapless, RetirementVersionsConfigured,
   NothingBeforeCreate, InFlightIsAcceptable, NumberIsNextOrTaken, OneInserter, Kinds,
   Request, Optional

\* max(version_number) over a gapless history is the current row's number.
LEMMA MaxIsCurrent ==
  ASSUME TypeOK, HistoryIsGapless, kind # "none"
  PROVE  Max({v.number : v \in versions} \cup {0}) = current.number
<1> DEFINE S == {v.number : v \in versions} \cup {0}
<1>1. current.number \in Nat /\ S = 0..current.number
  <2>1. current.number \in Nat BY DEF TypeOK, Row
  <2>2. {v.number : v \in versions} = 1..current.number BY DEF HistoryIsGapless
  <2> QED BY <2>1, <2>2
<1>2. current.number \in S /\ \A y \in S : current.number >= y
  BY <1>1
<1>3. \A x \in S : (\A y \in S : x >= y) => x = current.number
  BY <1>1, SMTT(60)
<1>4. Max(S) \in S /\ \A y \in S : Max(S) >= y
  BY <1>2 DEF Max
<1> QED BY <1>3, <1>4

-----------------------------------------------------------------------------
\* create_mapping establishes every part of the invariant at once.
LEMMA CreateStep ==
  ASSUME IInv, NEW k \in Kinds, NEW l \in Links, NEW c \in Optional, Create(k, l, c)
  PROVE  IInv'
<1> DEFINE first == [number |-> 1, links |-> l, config |-> c]
<1>1. first \in Row /\ first.number = 1 /\ first.config = c
  BY DEF Row
<1>2. versions' = {first} /\ current' = first /\ kind' = k /\ k # "none"
  BY DEF Create, Kinds
<1>3. \A h \in Handlers : phase'[h] = "idle"
  BY DEF IInv, NothingBeforeCreate, Create
<1>4. TypeOK'
  BY <1>1, <1>2 DEF IInv, TypeOK, Create
<1>5. HistoryIsGapless'
  <2>1. {v.number : v \in {first}} = 1..first.number
    BY <1>1
  <2> QED BY <1>2, <2>1 DEF HistoryIsGapless
<1>6. RetirementVersionsConfigured'
  BY <1>1, <1>2 DEF RetirementVersionsConfigured, Create, Acceptable
<1>7. NothingBeforeCreate' /\ InFlightIsAcceptable' /\ NumberIsNextOrTaken' /\ OneInserter'
  BY <1>2, <1>3 DEF NothingBeforeCreate, InFlightIsAcceptable, NumberIsNextOrTaken, OneInserter
<1> QED BY <1>4, <1>5, <1>6, <1>7 DEF IInv

\* Loading the definition only fills the handler's own session.
LEMMA LoadDefinitionStep ==
  ASSUME IInv, NEW h \in Handlers, NEW l \in Links, NEW c \in Optional,
         LoadDefinition(h, l, c)
  PROVE  IInv'
<1> USE DEF LoadDefinition
<1>1. TypeOK'
  BY DEF IInv, TypeOK, Request
<1>2. HistoryIsGapless' /\ RetirementVersionsConfigured'
  BY DEF IInv, HistoryIsGapless, RetirementVersionsConfigured
<1>3. NothingBeforeCreate'
  BY DEF NothingBeforeCreate
<1>4. InFlightIsAcceptable'
  BY DEF IInv, TypeOK, HistoryIsGapless, InFlightIsAcceptable
<1>5. NumberIsNextOrTaken' /\ OneInserter'
  BY DEF IInv, TypeOK, NumberIsNextOrTaken, OneInserter
<1> QED BY <1>1, <1>2, <1>3, <1>4, <1>5 DEF IInv

\* The number read is the current row's successor.
LEMMA ReadMaxStep ==
  ASSUME IInv, NEW h \in Handlers, ReadMax(h)
  PROVE  IInv'
<1>1. kind # "none" /\ current.number \in Nat
  BY DEF IInv, NothingBeforeCreate, TypeOK, Row, ReadMax
<1>2. number' = [number EXCEPT ![h] = current.number + 1]
  BY <1>1, MaxIsCurrent DEF IInv, ReadMax
<1>3. TypeOK'
  BY <1>1, <1>2 DEF IInv, TypeOK, ReadMax
<1>4. HistoryIsGapless' /\ RetirementVersionsConfigured' /\ NothingBeforeCreate'
  BY <1>1 DEF IInv, HistoryIsGapless, RetirementVersionsConfigured, NothingBeforeCreate, ReadMax
<1>5. InFlightIsAcceptable'
  BY DEF IInv, TypeOK, InFlightIsAcceptable, ReadMax
<1>6. phase' = [phase EXCEPT ![h] = "numbered"] /\ current' = current
  BY DEF ReadMax
<1>7. NumberIsNextOrTaken'
  <2> SUFFICES ASSUME NEW g \in Handlers, phase'[g] \in {"numbered", "inserted"}
               PROVE  /\ number'[g] \in 1..(current.number + 1)
                      /\ phase'[g] = "inserted" => number'[g] = current.number + 1
    BY <1>6 DEF NumberIsNextOrTaken
  <2>1. CASE g = h
    BY <1>1, <1>2, <1>6, <2>1 DEF IInv, TypeOK
  <2>2. CASE g # h
    BY <1>2, <1>6, <2>2 DEF IInv, TypeOK, NumberIsNextOrTaken
  <2> QED BY <2>1, <2>2
<1>8. OneInserter'
  BY <1>6 DEF IInv, TypeOK, OneInserter
<1> QED BY <1>7, <1>8, <1>3, <1>4, <1>5, <1>6 DEF IInv

\* A number that is not taken is the next one, and nobody else holds it.
LEMMA InsertVersionStep ==
  ASSUME IInv, NEW h \in Handlers, InsertVersion(h)
  PROVE  IInv'
<1>1. kind # "none" /\ current.number \in Nat
  BY DEF IInv, NothingBeforeCreate, TypeOK, Row, InsertVersion
<1>2. number[h] \in 1..(current.number + 1) /\ number[h] \notin 1..current.number
  BY <1>1 DEF IInv, NumberIsNextOrTaken, HistoryIsGapless, InsertVersion, KeyTaken
<1>3. number[h] = current.number + 1
  BY <1>1, <1>2
<1>4. \A g \in Handlers \ {h} : phase[g] # "inserted"
  BY <1>3 DEF IInv, NumberIsNextOrTaken, InsertVersion, KeyHeld
<1>5. TypeOK'
  BY DEF IInv, TypeOK, InsertVersion
<1>6. HistoryIsGapless' /\ RetirementVersionsConfigured' /\ NothingBeforeCreate'
  BY <1>1 DEF IInv, HistoryIsGapless, RetirementVersionsConfigured, NothingBeforeCreate,
              InsertVersion
<1>7. InFlightIsAcceptable'
  BY DEF IInv, TypeOK, InFlightIsAcceptable, InsertVersion
<1>8. NumberIsNextOrTaken' /\ OneInserter'
  BY <1>2, <1>3, <1>4 DEF IInv, TypeOK, NumberIsNextOrTaken, OneInserter, InsertVersion
<1> QED BY <1>5, <1>6, <1>7, <1>8 DEF IInv

\* Giving up, by a conflict or a lost connection, leaves the tables alone.
LEMMA GiveUpStep ==
  ASSUME IInv, NEW h \in Handlers, InsertConflict(h) \/ Rollback(h)
  PROVE  IInv'
<1>1. phase' = [phase EXCEPT ![h] = "idle"]
      /\ UNCHANGED <<kind, versions, current, request, seen, number>>
  BY DEF InsertConflict, Rollback
<1>2. TypeOK' /\ HistoryIsGapless' /\ RetirementVersionsConfigured'
  BY <1>1 DEF IInv, TypeOK, HistoryIsGapless, RetirementVersionsConfigured
<1>3. NothingBeforeCreate' /\ InFlightIsAcceptable'
  BY <1>1 DEF IInv, TypeOK, NothingBeforeCreate, InFlightIsAcceptable
<1>4. NumberIsNextOrTaken' /\ OneInserter'
  BY <1>1 DEF IInv, TypeOK, NumberIsNextOrTaken, OneInserter
<1> QED BY <1>2, <1>3, <1>4 DEF IInv

\* The row a handler holds has the type of a row and the next number.
LEMMA NewRowFacts ==
  ASSUME IInv, NEW h \in Handlers, phase[h] = "inserted"
  PROVE  /\ kind # "none"
         /\ current \in versions /\ current.number \in Nat
         /\ NewRow(h) \in Row
         /\ NewRow(h).number = current.number + 1
         /\ NewRow(h).links = request[h].links
         /\ NewRow(h).config = Effective(request[h].config, seen[h])
<1>1. kind # "none"
  BY DEF IInv, NothingBeforeCreate
<1>2. current \in versions /\ current.number \in Nat
  BY <1>1 DEF IInv, TypeOK, HistoryIsGapless, Row
<1>3. request[h] \in Request /\ seen[h] \in Row /\ number[h] \in Nat
  BY DEF IInv, TypeOK
<1>4. Effective(request[h].config, seen[h]) \in Optional
  BY <1>3 DEF Effective, Request, Row
<1>5. NewRow(h) \in Row
  BY <1>3, <1>4 DEF NewRow, Row, Request
<1>6. number[h] = current.number + 1
  BY DEF IInv, NumberIsNextOrTaken
<1> QED BY <1>1, <1>2, <1>5, <1>6 DEF NewRow

\* Publishing the row extends the history by exactly one entry.
LEMMA CommitStep ==
  ASSUME IInv, NEW h \in Handlers, Commit(h)
  PROVE  IInv'
<1> DEFINE new == NewRow(h)
<1>1. phase[h] = "inserted" /\ versions' = versions \cup {new} /\ current' = new
      /\ phase' = [phase EXCEPT ![h] = "idle"]
      /\ UNCHANGED <<kind, request, seen, number>>
  BY DEF Commit
<1>2. /\ kind # "none" /\ current \in versions /\ current.number \in Nat
      /\ new \in Row /\ new.number = current.number + 1
      /\ new.config = Effective(request[h].config, seen[h])
  BY <1>1, NewRowFacts
<1> HIDE DEF new
<1>3. TypeOK'
  BY <1>1, <1>2 DEF IInv, TypeOK
<1>4. HistoryIsGapless'
  <2>1. {v.number : v \in versions} = 1..current.number
    BY <1>2 DEF IInv, HistoryIsGapless
  <2>2. {v.number : v \in versions'} = {v.number : v \in versions} \cup {new.number}
    BY <1>1
  <2>3. {v.number : v \in versions'} = 1..new.number
    <3>1. 1..(current.number + 1) = (1..current.number) \cup {current.number + 1}
      BY <1>2
    <3> QED BY <1>2, <2>1, <2>2, <3>1, Zenon
  <2>4. \A v \in versions : v.number # new.number
    BY <1>2, <2>1
  <2>5. \A v, w \in versions' : v.number = w.number => v = w
    BY <1>1, <1>2, <2>4 DEF IInv, HistoryIsGapless
  <2> QED BY <1>1, <2>3, <2>5 DEF HistoryIsGapless
<1>5. RetirementVersionsConfigured'
  BY <1>1, <1>2 DEF IInv, RetirementVersionsConfigured, InFlightIsAcceptable, Acceptable
<1>6. NothingBeforeCreate'
  BY <1>1, <1>2 DEF NothingBeforeCreate
<1>7. InFlightIsAcceptable'
  BY <1>1 DEF IInv, TypeOK, InFlightIsAcceptable
<1>8. OneInserter' /\ \A g \in Handlers : phase'[g] # "inserted"
  BY <1>1 DEF IInv, TypeOK, OneInserter
<1>9. NumberIsNextOrTaken'
  BY <1>1, <1>2, <1>8 DEF IInv, TypeOK, NumberIsNextOrTaken
<1> QED BY <1>3, <1>4, <1>5, <1>6, <1>7, <1>8, <1>9 DEF IInv

\* IInv is inductive: one case per action.
LEMMA NextIInv == IInv /\ [Next]_vars => IInv'
<1> SUFFICES ASSUME IInv, [Next]_vars PROVE IInv'
  OBVIOUS
<1>1. CASE UNCHANGED vars
  BY <1>1 DEF vars, IInv, TypeOK, HistoryIsGapless, RetirementVersionsConfigured,
     NothingBeforeCreate, InFlightIsAcceptable, NumberIsNextOrTaken, OneInserter
<1>2. CASE \E k \in Kinds, l \in Links, c \in Optional : Create(k, l, c)
  BY <1>2, CreateStep
<1>3. CASE \E h \in Handlers, l \in Links, c \in Optional : LoadDefinition(h, l, c)
  BY <1>3, LoadDefinitionStep
<1>4. CASE \E h \in Handlers : Step(h)
  BY <1>4, ReadMaxStep, InsertVersionStep, GiveUpStep, CommitStep DEF Step
<1>5. CASE \E h \in Handlers : Rollback(h)
  BY <1>5, GiveUpStep
<1> QED BY <1>1, <1>2, <1>3, <1>4, <1>5 DEF Next

\* The inductive invariant holds of every reachable state.
LEMMA Invariance == Spec => []IInv
BY InitIInv, NextIInv, PTL DEF Spec

\* However many saves race, the committed versions of a mapping are numbered
\* 1..n without gap or duplicate and the current one is the n-th.
THEOREM GaplessHistory == Spec => []HistoryIsGapless
<1>1. IInv => HistoryIsGapless
  BY DEF IInv
<1> QED BY <1>1, Invariance, PTL

\* Every version of a retirement mapping has a config that passed validation.
THEOREM ConfiguredRetirements == Spec => []RetirementVersionsConfigured
<1>1. IInv => RetirementVersionsConfigured
  BY DEF IInv
<1> QED BY <1>1, Invariance, PTL

\* The variables keep their types.
THEOREM TypeCorrect == Spec => []TypeOK
<1>1. IInv => TypeOK
  BY DEF IInv
<1> QED BY <1>1, Invariance, PTL

-----------------------------------------------------------------------------
\* Entry n of the history is the one committed row numbered n.
LEMMA RowOfNumber ==
  ASSUME HistoryIsGapless, kind # "none", NEW r \in versions
  PROVE  RowNumbered(r.number) = r
<1>1. RowNumbered(r.number) \in versions /\ RowNumbered(r.number).number = r.number
  BY DEF RowNumbered
<1> QED BY <1>1 DEF HistoryIsGapless

\* The entry of the history a row amounts to.
EntryOf(r) == [links |-> r.links, config |-> r.config]

\* Creation makes the empty history a history of one entry.
LEMMA CreateRefines ==
  ASSUME IInv, NEW k \in Kinds, NEW l \in Links, NEW c \in Optional, Create(k, l, c)
  PROVE  History!Next
<1> DEFINE first == [number |-> 1, links |-> l, config |-> c]
<1>1. SavedHistory = <<>>
  <2>1. current.number = 0
    BY NoRowType DEF IInv, NothingBeforeCreate, Create
  <2> QED BY <2>1 DEF SavedHistory
<1>2. SavedHistory' = <<EntryOf(first)>>
  <2>1. IInv' /\ kind' # "none" /\ first \in versions' /\ current' = first
    BY CreateStep DEF Create, Kinds
  <2>2. RowNumbered(1)' = first
    BY <2>1 DEF IInv, HistoryIsGapless, RowNumbered, Create
  <2>3. SavedHistory' = [n \in 1..1 |-> EntryOf(first)]
    BY <2>1, <2>2 DEF SavedHistory, EntryOf
  <2> QED BY <2>3
<1>3. EntryOf(first) \in History!Entry
  BY DEF EntryOf, History!Entry, Optional
<1> QED BY <1>1, <1>2, <1>3 DEF History!Next, History!Create

\* A commit appends the handler's row to the history.
LEMMA CommitRefines ==
  ASSUME IInv, NEW h \in Handlers, Commit(h)
  PROVE  History!Next
<1> DEFINE new == NewRow(h)
<1>1. phase[h] = "inserted" /\ versions' = versions \cup {new} /\ current' = new
      /\ kind' = kind
  BY DEF Commit
<1>0. PICK N \in Nat : N = current.number
  BY DEF IInv, TypeOK, Row
<1>2. /\ kind # "none" /\ current \in versions /\ current.number = N
      /\ new \in Row /\ new.number = N + 1
      /\ new.links = request[h].links
      /\ new.config = Effective(request[h].config, seen[h])
  BY <1>0, <1>1, NewRowFacts
<1>3. IInv'
  BY CommitStep
<1> HIDE DEF new
<1>4. \A n \in 1..N : RowNumbered(n)' = RowNumbered(n)
  <2> SUFFICES ASSUME NEW n \in 1..N PROVE RowNumbered(n)' = RowNumbered(n)
    OBVIOUS
  <2>1. PICK r \in versions : r.number = n
    BY <1>2 DEF IInv, HistoryIsGapless
  <2>2. RowNumbered(n) = r
    BY <1>2, <2>1, RowOfNumber DEF IInv
  <2>3. r \in versions' /\ RowNumbered(n)' \in versions' /\ RowNumbered(n)'.number = n
    BY <1>1, <2>1 DEF RowNumbered
  <2>4. RowNumbered(n)' = r
    BY <1>1, <1>2, <1>3, <2>1, <2>3 DEF IInv, HistoryIsGapless
  <2> QED BY <2>2, <2>4
<1>5. RowNumbered(N + 1)' = new
  <2>1. new \in versions' /\ new.number = N + 1
    BY <1>1, <1>2
  <2>2. RowNumbered(N + 1)' \in versions' /\ RowNumbered(N + 1)'.number = N + 1
    BY <2>1 DEF RowNumbered
  <2> QED BY <1>1, <1>2, <1>3, <2>1, <2>2 DEF IInv, HistoryIsGapless
<1>6. SavedHistory' = [n \in 1..(N + 1) |-> EntryOf(RowNumbered(n)')]
  BY <1>1, <1>2 DEF SavedHistory, EntryOf
<1>7. SavedHistory = [n \in 1..N |-> EntryOf(RowNumbered(n))] /\ Len(SavedHistory) = N
  BY <1>2 DEF SavedHistory, EntryOf
<1>8. SavedHistory' = Append(SavedHistory, EntryOf(new))
  <2> DEFINE e == EntryOf(new)
             A == Append(SavedHistory, e)
  <2>1. SavedHistory \in Seq({EntryOf(r) : r \in versions \cup {new}})
    <3>1. \A n \in 1..N : RowNumbered(n) \in versions
      BY <1>2, RowOfNumber DEF IInv, HistoryIsGapless
    <3> QED BY <1>7, <3>1
  <2>2. Len(A) = N + 1 /\ A = [n \in 1..(N + 1) |-> IF n <= N THEN SavedHistory[n] ELSE e]
    BY <1>7, <2>1
  <2>3. \A n \in 1..(N + 1) :
          EntryOf(RowNumbered(n)') = IF n <= N THEN SavedHistory[n] ELSE e
    BY <1>4, <1>5, <1>7
  <2> QED BY <1>6, <2>2, <2>3
<1>9. N >= 1
  BY <1>2 DEF IInv, HistoryIsGapless
<1>10. \/ request[h].config # NoConfig /\ new.config = request[h].config
       \/ \E i \in 1..N : new.config = SavedHistory[i].config
  <2>1. seen[h] \in versions
    BY <1>1 DEF IInv, InFlightIsAcceptable
  <2>2. seen[h].number \in 1..N /\ RowNumbered(seen[h].number) = seen[h]
    BY <1>2, <2>1, RowOfNumber DEF IInv, HistoryIsGapless
  <2>3. SavedHistory[seen[h].number].config = seen[h].config
    BY <1>7, <2>2 DEF EntryOf
  <2> QED BY <1>2, <2>2, <2>3 DEF Effective
<1>11. request[h].links \in Links /\ request[h].config \in Optional
  BY DEF IInv, TypeOK, Request
<1>12. SavedHistory # <<>>
  BY <1>7, <1>9
<1>13. History!Save(request[h].links, request[h].config)
  BY <1>2, <1>7, <1>8, <1>10, <1>12 DEF History!Save, EntryOf
<1> QED BY <1>11, <1>13 DEF History!Next, Optional

\* The save protocol implements the append-only history: committed versions are
\* never rewritten, renumbered or lost, whatever the handlers interleave.
THEOREM ImplementsHistory == Spec => AppendOnlyHistory
<1>1. Init => History!Init
  <2>1. Init => current.number = 0
    BY NoRowType DEF Init
  <2> QED BY <2>1 DEF History!Init, SavedHistory
<1>2. IInv /\ [Next]_vars => [History!Next]_SavedHistory
  <2> SUFFICES ASSUME IInv, [Next]_vars PROVE History!Next \/ UNCHANGED SavedHistory
    OBVIOUS
  <2>1. CASE UNCHANGED <<versions, current>>
    BY <2>1 DEF SavedHistory, RowNumbered
  <2>2. CASE \E k \in Kinds, l \in Links, c \in Optional : Create(k, l, c)
    BY <2>2, CreateRefines
  <2>3. CASE \E h \in Handlers : Commit(h)
    BY <2>3, CommitRefines
  <2> QED BY <2>1, <2>2, <2>3 DEF Next, vars, Step, LoadDefinition, ReadMax, InsertVersion,
             InsertConflict, Rollback
<1> QED BY <1>1, <1>2, Invariance, PTL DEF Spec, AppendOnlyHistory, History!Spec
=============================================================================
