-------------------------- MODULE TranslationProofs --------------------------
(***************************************************************************)
(* For any table, mapping and view: what a saved mapping or view names     *)
(* exists, and what it translates to is settled when it is saved.          *)
(***************************************************************************)
EXTENDS Translation, WellFoundedInduction, TLAPS

\* Numbers that name a version go on doing so.
LEMMA InitTyped == Init => TypeOK
<1> SUFFICES ASSUME Init PROVE TypeOK
  OBVIOUS
<1>1. versions \in Seq(EntryLists) /\ Len(versions) = 1
  BY DEF Init
<1> QED BY <1>1, TranslationAssumption DEF Init, TypeOK, Pinned, NoLinks, NoLink, NoView

LEMMA NextTyped == TypeOK /\ [Next]_vars => TypeOK'
<1> SUFFICES ASSUME TypeOK, [Next]_vars PROVE TypeOK'
  OBVIOUS
<1>0. versions \in Seq(EntryLists) /\ Len(versions) \in Nat /\ Len(versions) <= MaxVersions
      /\ MaxVersions \in Nat
  BY TranslationAssumption DEF TypeOK
<1>1. ASSUME NEW entries \in EntryLists, SaveEntries(entries) PROVE TypeOK'
  <2>1. versions' \in Seq(EntryLists) /\ Len(versions') = Len(versions) + 1
    BY <1>0, <1>1 DEF SaveEntries
  <2>2. Pinned(page)' /\ Pinned(mapping)'
    BY <1>0, <1>1, <2>1 DEF TypeOK, SaveEntries, Pinned
  <2>3. \A i \in DOMAIN view'.mappings : view'.mappings[i].pin \in 0..Len(versions')
    BY <1>0, <1>1, <2>1 DEF TypeOK, SaveEntries
  <2> QED BY <1>0, <1>1, <2>1, <2>2, <2>3 DEF TypeOK, SaveEntries
<1>2. ASSUME NEW p \in BoundedSeqs(ColumnMapping, MaxMappings), SaveView(p) PROVE TypeOK'
  BY <1>2 DEF TypeOK, SaveView, Pinned, Exists
<1>3. ASSUME NEW edges, page' = Rebuilt(edges), UNCHANGED <<versions, mapping, answer, view>>
      PROVE  TypeOK'
  BY <1>0, <1>3 DEF TypeOK, Pinned, Rebuilt, NoLink
<1>4. ASSUME NEW c \in Edges, Connect(c) PROVE TypeOK'
  BY <1>3, <1>4 DEF Connect
<1>5. ASSUME NEW c \in Edges, NEW pin \in 0..Len(versions), Attach(c, pin) PROVE TypeOK'
  BY <1>0, <1>5 DEF Attach, TypeOK, Pinned
<1>9. ASSUME NEW edges \in SUBSET Linked, Disconnect(edges) PROVE TypeOK'
  BY <1>3, <1>9 DEF Disconnect
<1>6. CASE SaveMapping
  BY <1>6 DEF TypeOK, SaveMapping, Pinned
<1>7. CASE OpenEditor
  BY <1>0, <1>7 DEF TypeOK, OpenEditor, Pinned, NoLinks
<1>8. CASE UNCHANGED vars
  BY <1>8 DEF TypeOK, vars, Pinned
<1> QED BY <1>1, <1>2, <1>4, <1>5, <1>6, <1>7, <1>8, <1>9 DEF Next

\* A mapping or a view that is saved, and a link that is drawn, name versions
\* of the table that exist.
THEOREM TypeCorrect == Spec => []TypeOK
BY InitTyped, NextTyped, PTL DEF Spec

-----------------------------------------------------------------------------
\* No step changes the entries of a version that exists.
LEMMA EntriesStay ==
  ASSUME TypeOK, [Next]_vars, NEW n \in 1..Len(versions)
  PROVE  EntriesOf(n)' = EntriesOf(n)
<1>1. versions \in Seq(EntryLists)
  BY DEF TypeOK
<1>2. versions' = versions \/ \E entries \in EntryLists : versions' = Append(versions, entries)
  BY DEF Next, vars, SaveEntries, SaveView, Connect, Disconnect, Attach, SaveMapping,
         OpenEditor
<1>3. n \in DOMAIN versions' /\ versions'[n] = versions[n]
  BY <1>1, <1>2
<1> QED BY <1>1, <1>3 DEF EntriesOf

\* What a pinned link and a saved view translate to never changes.
THEOREM TranslationsNeverDriftAlways == Spec => TranslationsNeverDrift
<1>1. ASSUME TypeOK, [Next]_vars
      PROVE  [/\ \A n \in DOMAIN versions, v \in Cells : RunWrites(n, v)' = RunWrites(n, v)
              /\ view' = view => \A c \in Captured, v \in Cells :
                    Saved => ViewShows(c, v)' = ViewShows(c, v)]_vars
  <2>1. ASSUME NEW n \in DOMAIN versions, NEW v \in Cells
        PROVE  RunWrites(n, v)' = RunWrites(n, v)
    <3>1. n \in 1..Len(versions)
      BY <1>1 DEF TypeOK
    <3>2. EntriesOf(n)' = EntriesOf(n)
      BY <1>1, <3>1, EntriesStay
    <3> QED BY <3>2 DEF RunWrites
  <2>2. ASSUME view' = view, NEW c \in Captured, NEW v \in Cells
        PROVE  ViewShows(c, v)' = ViewShows(c, v)
    BY <2>2 DEF ViewShows
  <2> QED BY <2>1, <2>2
<1> QED BY <1>1, TypeCorrect, PTL DEF Spec, TranslationsNeverDrift

-----------------------------------------------------------------------------
\* A set of numbers that is bounded and not empty has a largest member.
LEMMA ExtremesExist ==
  ASSUME NEW n \in Nat, NEW I \in SUBSET (1..n), I # {}
  PROVE  /\ Max(I) \in I /\ \A i \in I : Max(I) >= i
         /\ Min(I) \in I /\ \A i \in I : Min(I) <= i
<1> DEFINE R == OpToRel(<, Nat)
           J == {n - i : i \in I}
<1>1. \A T \in SUBSET Nat : T # {} => \E x \in T : \A y \in T : x <= y
  <2> SUFFICES ASSUME NEW T \in SUBSET Nat, T # {} PROVE \E x \in T : \A y \in T : x <= y
    OBVIOUS
  <2>1. PICK x \in T : \A y \in T : ~ (<<y, x>> \in R)
    BY NatLessThanWellFounded, WFMin
  <2>2. \A y \in T : ~ (y < x)
    BY <2>1 DEF OpToRel
  <2>3. \A y \in T : x <= y
    BY <2>2
  <2> QED BY <2>3
<1>2. \E x \in I : \A y \in I : x <= y
  BY <1>1
<1>3. J \in SUBSET Nat /\ J # {}
  <2>1. \A i \in I : n - i \in Nat
    OBVIOUS
  <2> QED BY <2>1
<1>4. PICK x \in J : \A y \in J : x <= y
  BY <1>1, <1>3
<1>5. PICK k \in I : x = n - k
  OBVIOUS
<1>6. \A y \in I : k >= y
  <2>1. \A y \in I : n - k <= n - y
    BY <1>4, <1>5
  <2> QED BY <2>1
<1> QED BY <1>2, <1>6 DEF Max, Min

\* An entry is one of the entries.
LEMMA EntryAt ==
  ASSUME NEW T, NEW entries \in Seq(T), NEW k \in 1..Len(entries)
  PROVE  entries[k] \in T /\ entries[k] \in Range(entries)
BY DEF Range

\* What a run writes for a code is the value of an entry with that code.
LEMMA TranslateSound ==
  ASSUME NEW entries \in Seq([code : Codes, value : Translations]), NEW v, Translate(entries, v).translated
  PROVE  [code |-> Text(v), value |-> Translate(entries, v).value] \in Range(entries)
<1> DEFINE I == {i \in 1..Len(entries) : v # Null /\ entries[i].code = Text(v)}
           at == IF I # {} THEN Max(I) ELSE 0
<1>1. Translate(entries, v) = IF at = 0 THEN Flagged ELSE Written(entries[at].value)
  BY DEF Translate, SelectLastInSeq
<1>2. at # 0 /\ Translate(entries, v).value = entries[at].value
  BY <1>1 DEF Flagged, Written
<1>3. at \in I
  <2>1. Len(entries) \in Nat /\ I \in SUBSET (1..Len(entries))
    OBVIOUS
  <2>2. I # {} => Max(I) \in I
    BY <2>1, ExtremesExist
  <2> QED BY <1>2, <2>2
<1>4. PICK k \in 1..Len(entries) : k = at /\ entries[k].code = Text(v)
  BY <1>3
<1>5. entries[k] \in [code : Codes, value : Translations]
  BY <1>4, EntryAt
<1>6. entries[k] = [code |-> Text(v), value |-> Translate(entries, v).value]
  BY <1>2, <1>4, <1>5
<1> QED BY <1>6 DEF Range

\* What a view shows for a code is the value of an entry the database calls equal.
LEMMA CaseSound ==
  ASSUME NEW entries \in Seq([code : Codes, value : Translations]), NEW v, CaseShows(entries, v) # Null
  PROVE  \E e \in Range(entries) : Fold(e.code) = Fold(Cast(v)) /\ e.value = CaseShows(entries, v)
<1> DEFINE I == {i \in 1..Len(entries) : v # Null /\ Fold(entries[i].code) = Fold(Cast(v))}
           at == IF I # {} THEN Min(I) ELSE 0
<1>1. CaseShows(entries, v) = IF at = 0 THEN Null ELSE entries[at].value
  BY DEF CaseShows, SelectInSeq
<1>2. at \in I
  <2>1. Len(entries) \in Nat /\ I \in SUBSET (1..Len(entries))
    OBVIOUS
  <2>2. I # {} => Min(I) \in I
    BY <2>1, ExtremesExist
  <2> QED BY <1>1, <2>2
<1>3. PICK k \in 1..Len(entries) : k = at /\ Fold(entries[k].code) = Fold(Cast(v))
  BY <1>2
<1>4. CaseShows(entries, v) = entries[k].value
  BY <1>1, <1>3
<1>5. entries[k] \in Range(entries)
  BY <1>3, EntryAt
<1> QED BY <1>3, <1>4, <1>5

-----------------------------------------------------------------------------
\* Every captured column of a saved view is mapped, and its SQL is that of its
\* mapping and of the entries that version has.
ViewIsRendered ==
    Saved => \A c \in Captured :
        /\ MappingOf(view.mappings, c).pin \in 0..Len(versions)
        /\ view.sql[c] = Expression(MappingOf(view.mappings, c))
IInv == TypeOK /\ ViewIsRendered

\* The entry of a column that Covers counts is one of the payload, and maps it.
LEMMA MappingExists ==
  ASSUME NEW p \in Seq(ColumnMapping), NEW c \in Captured, Covers(p)
  PROVE  \E i \in DOMAIN p : MappingOf(p, c) = p[i] /\ p[i].column = c
<1> DEFINE I == {i \in 1..Len(p) : p[i].column = c}
<1>1. MappingOf(p, c) = p[IF I # {} THEN Max(I) ELSE 0]
  BY DEF MappingOf, SelectLastInSeq
<1>2. I # {} /\ Len(p) \in Nat /\ I \in SUBSET (1..Len(p)) /\ DOMAIN p = 1..Len(p)
  BY DEF Covers
<1>3. Max(I) \in I
  BY <1>2, ExtremesExist
<1> QED BY <1>1, <1>2, <1>3

LEMMA InitIInv == Init => IInv
BY InitTyped DEF Init, IInv, ViewIsRendered, Saved

LEMMA NextIInv == IInv /\ [Next]_vars => IInv'
<1> SUFFICES ASSUME IInv, [Next]_vars PROVE IInv'
  OBVIOUS
<1>1. TypeOK'
  BY NextTyped DEF IInv
<1>2. ASSUME view' = view PROVE ViewIsRendered'
  <2> SUFFICES ASSUME Saved, NEW c \in Captured
               PROVE  /\ MappingOf(view.mappings, c).pin \in 0..Len(versions')
                      /\ view.sql[c] = Expression(MappingOf(view.mappings, c))'
    BY <1>2 DEF ViewIsRendered, Saved
  <2> DEFINE m == MappingOf(view.mappings, c)
  <2>1. m.pin \in 0..Len(versions) /\ view.sql[c] = Expression(m)
    BY DEF IInv, ViewIsRendered
  <2>2. m' = m
    BY <1>2
  <2>3. Len(versions) \in Nat /\ Len(versions') \in Nat /\ Len(versions) <= Len(versions')
    <3>1. versions \in Seq(EntryLists)
      BY DEF IInv, TypeOK
    <3>2. versions' = versions \/ \E entries \in EntryLists : versions' = Append(versions, entries)
      BY DEF Next, vars, SaveEntries, SaveView, Connect, Disconnect, Attach, SaveMapping,
         OpenEditor
    <3> QED BY <3>1, <3>2
  <2>4. m.pin # 0 => EntriesOf(m.pin)' = EntriesOf(m.pin)
    BY <2>1, <2>2, <2>3, EntriesStay DEF IInv, EntriesOf
  <2>5. Expression(m)' = Expression(m)
    BY <2>2, <2>4 DEF Expression
  <2> HIDE DEF m
  <2> QED BY <2>1, <2>2, <2>3, <2>5 DEF m
<1>3. ASSUME NEW p \in BoundedSeqs(ColumnMapping, MaxMappings), SaveView(p)
      PROVE  ViewIsRendered'
  <2>1. p \in Seq(ColumnMapping)
    BY TranslationAssumption DEF BoundedSeqs
  <2> SUFFICES ASSUME NEW c \in Captured
               PROVE  /\ MappingOf(p, c).pin \in 0..Len(versions)
                      /\ view'.sql[c] = Expression(MappingOf(p, c))'
    BY <1>3 DEF ViewIsRendered, SaveView, Saved
  <2>2. PICK i \in DOMAIN p : MappingOf(p, c) = p[i]
    BY <1>3, <2>1, MappingExists DEF SaveView
  <2>3. MappingOf(p, c).pin \in 0..Len(versions)
    BY <1>3, <2>2 DEF SaveView, Exists
  <2>4. view'.sql[c] = Expression(MappingOf(p, c)) /\ versions' = versions
    BY <1>3 DEF SaveView
  <2>5. Expression(MappingOf(p, c))' = Expression(MappingOf(p, c))
    BY <2>4 DEF Expression, EntriesOf
  <2> QED BY <2>3, <2>4, <2>5
<1>4. ViewIsRendered'
  <2>1. view' = view \/ \E p \in BoundedSeqs(ColumnMapping, MaxMappings) : SaveView(p)
    BY DEF Next, vars, SaveEntries, Connect, Disconnect, Attach, SaveMapping, OpenEditor
  <2> QED BY <1>2, <1>3, <2>1
<1> QED BY <1>1, <1>4 DEF IInv

\* No code is copied, guessed or defaulted.
THEOREM NoCodeIsGuessedAlways == Spec => []NoCodeIsGuessed
<1>1. ASSUME IInv PROVE NoCodeIsGuessed
  <2>0. \A n \in 1..Len(versions) :
            /\ versions[n] \in Seq([code : Codes, value : Translations])
            /\ EntriesOf(n) = versions[n]
    <3> SUFFICES ASSUME NEW n \in 1..Len(versions)
                 PROVE  /\ versions[n] \in Seq([code : Codes, value : Translations])
                        /\ EntriesOf(n) = versions[n]
      OBVIOUS
    <3>1. versions \in Seq(EntryLists)
      BY <1>1 DEF IInv, TypeOK
    <3>2. versions[n] \in EntryLists /\ n \in DOMAIN versions
      BY <3>1
    <3> QED BY <3>2, TranslationAssumption DEF EntriesOf
  <2>1. ASSUME NEW n \in DOMAIN versions, NEW v \in Cells, RunWrites(n, v).translated
        PROVE  [code |-> Text(v), value |-> RunWrites(n, v).value] \in Range(versions[n])
    <3>1. n \in 1..Len(versions)
      BY <1>1 DEF IInv, TypeOK
    <3>2. RunWrites(n, v) = Translate(versions[n], v)
      BY <2>0, <3>1 DEF RunWrites
    <3> QED BY <2>0, <2>1, <3>1, <3>2, TranslateSound
  <2>2. ASSUME Saved, NEW c \in Captured, NEW v \in Cells,
               MappingOf(view.mappings, c).pin > 0, ViewShows(c, v) # Null
        PROVE  \E e \in Range(versions[MappingOf(view.mappings, c).pin]) :
                    Fold(e.code) = Fold(Cast(v)) /\ ViewShows(c, v) = CastTo(c, e.value)
    <3> DEFINE m == MappingOf(view.mappings, c)
    <3>1. m.pin \in 1..Len(versions) /\ view.sql[c] = Expression(m)
      BY <1>1, <2>2 DEF IInv, ViewIsRendered
    <3>2. view.sql[c] # Blank
      BY <2>2 DEF ViewShows, CastTo, Blank
    <3>3. view.sql[c] = Case(versions[m.pin])
      BY <2>0, <3>1, <3>2 DEF Expression
    <3>4. ViewShows(c, v) = CastTo(c, CaseShows(versions[m.pin], v))
      BY <3>3 DEF ViewShows, Case
    <3>5. CaseShows(versions[m.pin], v) # Null
      BY <2>2, <3>4 DEF CastTo
    <3>6. PICK e \in Range(versions[m.pin]) :
                Fold(e.code) = Fold(Cast(v)) /\ e.value = CaseShows(versions[m.pin], v)
      BY <2>0, <3>1, <3>5, CaseSound
    <3> QED BY <3>4, <3>6
  <2> QED BY <2>1, <2>2 DEF NoCodeIsGuessed
<1> QED BY <1>1, InitIInv, NextIInv, PTL DEF Spec

-----------------------------------------------------------------------------
\* Where the codes the database calls equal to v's are those Python does, the
\* first entry with one is the last, as no code occurs twice.
LEMMA CaseTranslates ==
  ASSUME NEW entries \in Seq([code : Codes, value : Translations]), Valid(entries), NEW v,
         v # Null => /\ Text(v) = Cast(v)
                     /\ \A e \in Range(entries) : Fold(e.code) = Fold(Cast(v)) => e.code = Text(v)
  PROVE  CaseShows(entries, v) = IF Translate(entries, v).translated
                                 THEN Translate(entries, v).value ELSE Null
<1> DEFINE I == {i \in 1..Len(entries) : v # Null /\ entries[i].code = Text(v)}
           J == {i \in 1..Len(entries) : v # Null /\ Fold(entries[i].code) = Fold(Cast(v))}
           last == IF I # {} THEN Max(I) ELSE 0
           first == IF J # {} THEN Min(J) ELSE 0
<1>1. Translate(entries, v) = IF last = 0 THEN Flagged ELSE Written(entries[last].value)
  BY DEF Translate, SelectLastInSeq
<1>2. CaseShows(entries, v) = IF first = 0 THEN Null ELSE entries[first].value
  BY DEF CaseShows, SelectInSeq
<1>3. I = J
  <2>1. \A i \in 1..Len(entries) : entries[i] \in Range(entries)
    BY EntryAt
  <2> QED BY <2>1
<1>4. CASE I = {}
  BY <1>1, <1>2, <1>3, <1>4 DEF Flagged
<1>5. CASE I # {}
  <2>1. Len(entries) \in Nat /\ I \in SUBSET (1..Len(entries)) /\ DOMAIN entries = 1..Len(entries)
    OBVIOUS
  <2>2. last \in I /\ first \in I
    BY <1>3, <1>5, <2>1, ExtremesExist
  <2>3. entries[last].code = entries[first].code /\ last \in DOMAIN entries /\ first \in DOMAIN entries
    BY <2>1, <2>2
  <2>4. last = first /\ last # 0
    BY <2>2, <2>3 DEF Valid
  <2> HIDE DEF last, first
  <2> QED BY <1>1, <1>2, <2>4 DEF Written
<1> QED BY <1>4, <1>5

\* The rules of a saved view are those of its mappings, which map every column,
\* and no version has a code twice.
EntriesAreValid == \A n \in DOMAIN versions : Valid(versions[n])
RulesFit ==
    Saved => /\ view.mappings \in Seq(ColumnMapping)
             /\ Covers(view.mappings)
             /\ view.rules = RulesOf(view.mappings)

LEMMA InitFits == Init => EntriesAreValid /\ RulesFit
BY DEF Init, EntriesAreValid, RulesFit, Saved

LEMMA NextFits == IInv /\ EntriesAreValid /\ RulesFit /\ [Next]_vars => EntriesAreValid' /\ RulesFit'
<1> SUFFICES ASSUME IInv, EntriesAreValid, RulesFit, [Next]_vars
             PROVE  EntriesAreValid' /\ RulesFit'
  OBVIOUS
<1>1. EntriesAreValid'
  <2>1. versions \in Seq(EntryLists)
    BY DEF IInv, TypeOK
  <2>2. \/ versions' = versions
        \/ \E entries \in EntryLists : Valid(entries) /\ versions' = Append(versions, entries)
    BY DEF Next, vars, SaveEntries, SaveView, Connect, Disconnect, Attach, SaveMapping,
         OpenEditor
  <2> QED BY <2>1, <2>2 DEF EntriesAreValid
<1>2. RulesFit'
  <2>1. ASSUME NEW p \in BoundedSeqs(ColumnMapping, MaxMappings), SaveView(p) PROVE RulesFit'
    <3>1. p \in Seq(ColumnMapping)
      BY TranslationAssumption DEF BoundedSeqs
    <3> QED BY <2>1, <3>1 DEF SaveView, RulesFit
  <2>2. CASE view' = view
    BY <2>2 DEF RulesFit, Saved
  <2>3. view' = view \/ \E p \in BoundedSeqs(ColumnMapping, MaxMappings) : SaveView(p)
    BY DEF Next, vars, SaveEntries, Connect, Disconnect, Attach, SaveMapping, OpenEditor
  <2> QED BY <2>1, <2>2, <2>3
<1> QED BY <1>1, <1>2

\* Whatever the database's collation and casts are, a view shows what a run writes,
\* cast to its column's type, but for values whose text or equality the two have a
\* different idea of.
THEOREM RunAndViewAgreeAlways == Spec => []RunAndViewAgree
<1>1. ASSUME IInv, EntriesAreValid PROVE RunAndViewAgree
  <2> SUFFICES ASSUME Saved, NEW c \in Captured, NEW v \in Cells,
                      ~MappingOf(view.mappings, c).retired,
                      v # Null => /\ Text(v) = Cast(v)
                                  /\ \A e \in {e \in Range(EntriesOf(MappingOf(view.mappings, c).pin)) :
                                                    v # Null /\ Fold(e.code) = Fold(Cast(v))} :
                                        e.code = Text(v)
               PROVE  ViewShows(c, v) = CastTo(c,
                        IF RunWrites(MappingOf(view.mappings, c).pin, v).translated
                        THEN RunWrites(MappingOf(view.mappings, c).pin, v).value ELSE Null)
    BY DEF RunAndViewAgree
  <2> DEFINE m == MappingOf(view.mappings, c)
  <2>1. m.pin \in 0..Len(versions) /\ view.sql[c] = Expression(m) /\ ~m.retired
    BY <1>1 DEF IInv, ViewIsRendered
  <2>2. CASE m.pin = 0
    BY <2>1, <2>2 DEF ViewShows, Expression, RunWrites, Raw, Written
  <2>3. CASE m.pin # 0
    <3>1. m.pin \in DOMAIN versions /\ EntriesOf(m.pin) = versions[m.pin]
      BY <1>1, <2>1, <2>3 DEF IInv, TypeOK, EntriesOf
    <3>2. /\ EntriesOf(m.pin) \in Seq([code : Codes, value : Translations])
          /\ Valid(EntriesOf(m.pin))
      <4>1. versions \in Seq(EntryLists)
        BY <1>1 DEF IInv, TypeOK
      <4>2. versions[m.pin] \in EntryLists
        BY <3>1, <4>1
      <4>3. Valid(versions[m.pin])
        BY <1>1, <3>1 DEF EntriesAreValid
      <4> QED BY <3>1, <4>2, <4>3, TranslationAssumption
    <3>3. RunWrites(m.pin, v) = Translate(EntriesOf(m.pin), v)
      BY <2>3 DEF RunWrites
    <3>4. CaseShows(EntriesOf(m.pin), v) = IF Translate(EntriesOf(m.pin), v).translated
                                           THEN Translate(EntriesOf(m.pin), v).value ELSE Null
      BY <3>2, CaseTranslates
    <3>5. CASE EntriesOf(m.pin) = <<>>
      <4>1. ViewShows(c, v) = CastTo(c, Null)
        BY <2>1, <2>3, <3>5 DEF ViewShows, Expression, Blank
      <4>2. CaseShows(EntriesOf(m.pin), v) = Null
        BY <3>5 DEF CaseShows, SelectInSeq
      <4> QED BY <3>3, <3>4, <4>1, <4>2
    <3>6. CASE EntriesOf(m.pin) # <<>>
      <4>1. ViewShows(c, v) = CastTo(c, CaseShows(EntriesOf(m.pin), v))
        BY <2>1, <2>3, <3>6 DEF ViewShows, Expression, Case
      <4> QED BY <3>3, <3>4, <4>1
    <3> QED BY <3>5, <3>6
  <2> QED BY <2>2, <2>3
<1> QED BY <1>1, InitIInv, NextIInv, InitFits, NextFits, PTL DEF Spec

-----------------------------------------------------------------------------
\* A retired column is forgiven its NULLs, and where no column is mapped twice
\* one that is forgiven shows nothing else.
THEOREM RulesForgiveNullsAlways == Spec => []RulesForgiveNulls
<1>1. ASSUME IInv, RulesFit PROVE RulesForgiveNulls
  <2> SUFFICES ASSUME Saved, NEW c \in Captured
               PROVE  LET forgiven == \E r \in view.rules : r.column = c /\ r.retired
                          repeated == \E i, j \in DOMAIN view.mappings : i # j /\
                            {view.mappings[i].column, view.mappings[j].column} = {c}
                      IN  /\ MappingOf(view.mappings, c).retired => forgiven
                          /\ forgiven /\ ~repeated => \A v \in Cells : ViewShows(c, v) = Null
    BY DEF RulesForgiveNulls
  <2> DEFINE p == view.mappings
  <2>1. PICK i \in DOMAIN p : MappingOf(p, c) = p[i] /\ p[i].column = c
    BY <1>1, MappingExists DEF RulesFit
  <2>2. \A r : r \in view.rules <=>
            \E k \in DOMAIN p : r = [entry |-> k, column |-> p[k].column, retired |-> p[k].retired]
    BY <1>1 DEF RulesFit, RulesOf
  <2>3. p[i].retired => \E r \in view.rules : r.column = c /\ r.retired
    <3> DEFINE rule == [entry |-> i, column |-> p[i].column, retired |-> p[i].retired]
    <3>1. rule \in view.rules
      BY <2>2
    <3>2. rule.column = c /\ rule.retired = p[i].retired
      BY <2>1
    <3> QED BY <3>1, <3>2
  <2>4. ASSUME NEW r \in view.rules, r.column = c, r.retired,
               ~\E k, j \in DOMAIN p : k # j /\ {p[k].column, p[j].column} = {c}
        PROVE  \A v \in Cells : ViewShows(c, v) = Null
    <3>1. PICK k \in DOMAIN p : p[k].column = c /\ p[k].retired
      BY <2>2, <2>4
    <3>2. k = i
      BY <2>1, <2>4, <3>1
    <3>3. view.sql[c] = Blank
      BY <1>1, <2>1, <3>1, <3>2 DEF IInv, ViewIsRendered, Expression
    <3> QED BY <3>3 DEF ViewShows, CastTo, Blank
  <2> QED BY <2>1, <2>3, <2>4
<1> QED BY <1>1, InitIInv, NextIInv, InitFits, NextFits, PTL DEF Spec

\* Only its own selection, or a canvas that is drawn on and leaves no translation at
\* all, takes a translation off a link.
THEOREM OnlyRedrawingUnpinsAlways == Spec => OnlyRedrawingUnpins
<1>1. ASSUME TypeOK, [Next]_vars, NEW c \in Edges, page[c] > 0, page'[c] = 0
      PROVE  \/ \A d \in Edges : page'[d] <= 0
             \/ \A d \in Edges \ {c} : page'[d] = page[d]
  <2>1. page \in [Edges -> {NoLink} \cup 0..Len(versions)]
    BY <1>1 DEF TypeOK, Pinned
  <2>2. ASSUME NEW edges, page' = Rebuilt(edges) PROVE \A d \in Edges : page'[d] <= 0
    BY <2>2 DEF Rebuilt, NoLink
  <2>3. ASSUME NEW b \in Edges, NEW pin \in 0..Len(versions), Attach(b, pin)
        PROVE  \A d \in Edges \ {c} : page'[d] = page[d]
    <3>1. \A d \in Edges \ {b} : page'[d] = page[d]
      BY <2>1, <2>3 DEF Attach
    <3>2. page'[c] # page[c]
      BY <1>1
    <3> QED BY <3>1, <3>2
  <2>4. ~OpenEditor
    BY <1>1 DEF OpenEditor, NoLinks, NoLink
  <2>5. page' # page
    BY <1>1
  <2>6. CASE \E b \in Edges : Connect(b)
    BY <2>2, <2>6 DEF Connect
  <2>7. CASE \E edges \in SUBSET Linked : Disconnect(edges)
    BY <2>2, <2>7 DEF Disconnect
  <2>8. \/ \E b \in Edges : Connect(b) \/ \E pin \in 0..Len(versions) : Attach(b, pin)
        \/ \E edges \in SUBSET Linked : Disconnect(edges)
    BY <1>1, <2>4, <2>5 DEF Next, vars, SaveEntries, SaveView, SaveMapping
  <2> QED BY <2>3, <2>6, <2>7, <2>8
<1>2. TypeOK /\ [Next]_vars => [\A c \in Edges : page[c] > 0 /\ page'[c] = 0 =>
        \/ \A d \in Edges : page'[d] <= 0
        \/ \A d \in Edges \ {c} : page'[d] = page[d]]_vars
  BY <1>1
<1> QED BY <1>2, TypeCorrect, PTL DEF Spec, OnlyRedrawingUnpins

\* A stored mapping is the page that was saved, on which no translation was attached;
\* an attached one keeps the whole page from being stored.
THEOREM SavesStoreWhatIsShownAlways == Spec => SavesStoreWhatIsShown
<1>1. ASSUME TypeOK, Next
      PROVE  /\ mapping' # mapping => mapping' = page /\ \A c \in Edges : page[c] <= 0
             /\ answer # answer' /\ answer' = "failed" =>
                    mapping' = mapping /\ \E c \in Edges : page[c] > 0
  <2>1. \A c \in Edges : page[c] \in Int
    BY <1>1, TranslationAssumption DEF TypeOK, Pinned, NoLink
  <2>2. CASE SaveMapping
    BY <2>1, <2>2 DEF SaveMapping, Linked, NoLink
  <2>3. CASE OpenEditor
    BY <2>3 DEF OpenEditor
  <2>4. CASE UNCHANGED <<mapping, answer>>
    BY <2>4
  <2> QED BY <1>1, <2>2, <2>3, <2>4 DEF Next, SaveEntries, SaveView, Connect, Attach, Disconnect
<1>2. TypeOK /\ [Next]_vars =>
        [/\ mapping' # mapping => mapping' = page /\ \A c \in Edges : page[c] <= 0
         /\ answer # answer' /\ answer' = "failed" =>
                mapping' = mapping /\ \E c \in Edges : page[c] > 0]_vars
  BY <1>1
<1> QED BY <1>2, TypeCorrect, PTL DEF Spec, SavesStoreWhatIsShown
=============================================================================
