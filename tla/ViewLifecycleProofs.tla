------------------------ MODULE ViewLifecycleProofs -------------------------
(***************************************************************************)
(* For any number of requests about one view, however they interleave,     *)
(* fail and are interfered with: what is live was authorised, and a result *)
(* follows a confirmed deploy and its version's own rules.  Where requests *)
(* of some kinds do not overlap (Apart): what a reconciliation compares    *)
(* and forgives, and what a logged diff is relative to.                    *)
(***************************************************************************)
EXTENDS ViewLifecycle, FiniteSetTheorems, WellFoundedInduction, TLAPS

\* A request of these phases is a deploy that has passed the drift check and,
\* on production, has its confirmation.
Deploying == {"ddl", "verify", "verified"}
\* A request of these phases changes neither what it asked for nor what it saw.
Settled == {"verify", "verified", "done", "verification_failed", "failed"}

\* The version a request in progress is about exists.
HasVersion(r) == phase[r] # "idle" => version[r] \in 1..Len(history)

Cleared(r) == /\ Production => request[r].confirmed
              /\ ~request[r].foreign => Elements(shape[r]) = Elements(Captured)
DeployIsCleared(r) ==
    /\ phase[r] \in Deploying => request[r].kind = "deploy"
    /\ phase[r] \in Deploying \cup {"checked"} /\ request[r].kind = "deploy" => Cleared(r)

\* Who put the live version there is beyond changing its request.
LiveHasDeploy ==
    live # 0 => \E r \in Requests :
        /\ request[r].kind = "deploy" /\ version[r] = live /\ Cleared(r)
        /\ phase[r] \in Settled

\* The rules of a version are all there or none are, and they say what its
\* payload says, whatever other saves committed between its two commits.
RulesDescribeTheirVersion ==
    /\ \A x \in rules : x.version \in 1..Len(history)
    /\ \A n \in 1..Len(history) : {x \in rules : x.version = n} \in {{}, RulesOf(n)}

IInv == /\ TypeOK
        /\ \A r \in Requests : HasVersion(r) /\ DeployIsCleared(r)
        /\ LiveHasDeploy
        /\ RulesDescribeTheirVersion

-----------------------------------------------------------------------------
LEMMA InitIInv == Init => IInv
<1> SUFFICES ASSUME Init PROVE IInv
  OBVIOUS
<1>1. Cardinality(Requests) \in Nat
  BY ViewAssumption, FS_CardinalityType
<1>2. TypeOK
  BY <1>1, ViewAssumption DEF Init, TypeOK, Phases, Ended, Request, Kinds
<1> QED BY <1>2 DEF Init, IInv, HasVersion, DeployIsCleared, Deploying, LiveHasDeploy,
        RulesDescribeTheirVersion

\* Nothing happens to a request.
SameRequest(s) ==
    /\ phase'[s] = phase[s] /\ request'[s] = request[s] /\ version'[s] = version[s]
    /\ shape'[s] = shape[s]

\* A request that is left alone keeps its part of the invariant.
LEMMA Frame ==
  ASSUME NEW s \in Requests, HasVersion(s), DeployIsCleared(s), SameRequest(s),
         Len(history) \in Nat, Len(history') \in Nat, Len(history) <= Len(history')
  PROVE  HasVersion(s)' /\ DeployIsCleared(s)'
<1>1. HasVersion(s)'
  BY DEF HasVersion, SameRequest
<1>2. DeployIsCleared(s)'
  BY DEF DeployIsCleared, SameRequest, Cleared
<1> QED BY <1>1, <1>2

\* The live version keeps its deploy while no settled request changes.
LEMMA LiveFrame ==
  ASSUME LiveHasDeploy, live' \in {live, 0},
         \A s \in Requests : phase[s] \in Settled =>
            /\ phase'[s] \in Settled /\ request'[s] = request[s] /\ version'[s] = version[s]
            /\ shape'[s] = shape[s]
  PROVE  LiveHasDeploy'
BY DEF LiveHasDeploy, Cleared

\* A step of one request that saves nothing and leaves the view alone.
LEMMA RequestStep ==
  ASSUME IInv, NEW r \in Requests, \A s \in Requests \ {r} : SameRequest(s),
         UNCHANGED <<history, rules, live>>, TypeOK',
         phase[r] \in Settled =>
            phase'[r] \in Settled /\ UNCHANGED <<request, version, shape>>,
         HasVersion(r)', DeployIsCleared(r)'
  PROVE  IInv'
<1>1. Len(history) \in Nat
  BY DEF IInv, TypeOK
<1>2. \A s \in Requests : HasVersion(s)' /\ DeployIsCleared(s)'
  BY <1>1, Frame DEF IInv
<1>3. LiveHasDeploy'
  BY LiveFrame DEF IInv, SameRequest
<1>4. RulesDescribeTheirVersion'
  BY DEF IInv, RulesDescribeTheirVersion, RulesOf, PayloadOf
<1> QED BY <1>2, <1>3, <1>4 DEF IInv

\* As many transactions have begun as there are requests under way.
LEMMA BeginTyped ==
  ASSUME TypeOK, NEW r \in Requests, NEW kind \in Kinds, NEW ok \in BOOLEAN, NEW other \in BOOLEAN,
         Begin(r, kind, ok, other)
  PROVE  /\ started' \in [Requests -> 0..Cardinality(Requests)]
         /\ request' \in [Requests -> Request]
         /\ request'[r] = [kind |-> kind, confirmed |-> ok, foreign |-> other]
         /\ \A s \in Requests \ {r} : request'[s] = request[s]
<1> DEFINE busy == {s \in Requests : phase[s] # "idle"}
<1>1. IsFiniteSet(busy) /\ IsFiniteSet(busy \cup {r}) /\ busy \cup {r} \subseteq Requests
  BY ViewAssumption, FS_Subset, FS_AddElement
<1>2. r \notin busy
  BY DEF Begin
<1>3. Cardinality(busy \cup {r}) = Cardinality(busy) + 1 /\ Cardinality(busy) \in Nat
  BY <1>1, <1>2, FS_AddElement, FS_CardinalityType
<1>4. Cardinality(busy \cup {r}) <= Cardinality(Requests) /\ Cardinality(Requests) \in Nat
  BY <1>1, ViewAssumption, FS_Subset, FS_CardinalityType
<1>5. Cardinality(busy) + 1 \in 0..Cardinality(Requests)
  BY <1>3, <1>4
<1>6. started' = [started EXCEPT ![r] = Cardinality(busy) + 1]
  BY DEF Begin
<1> HIDE DEF busy
<1> QED BY <1>5, <1>6 DEF TypeOK, Begin, Request

LEMMA LoadStep ==
  ASSUME IInv, NEW r \in Requests, NEW kind \in Kinds \ {"save"}, NEW ok \in BOOLEAN,
         NEW other \in BOOLEAN, NEW n \in 1..Len(history), Load(r, kind, ok, other, n)
  PROVE  IInv'
<1>1. TypeOK /\ phase[r] = "idle"
  BY DEF IInv, Load, Begin
<1>2. /\ started' \in [Requests -> 0..Cardinality(Requests)]
      /\ request' \in [Requests -> Request]
      /\ \A s \in Requests \ {r} : request'[s] = request[s]
  BY <1>1, BeginTyped DEF Load
<1>3. TypeOK'
  BY <1>1, <1>2, SMTT(60) DEF TypeOK, Load, Phases, Ended, ghosts, LogEntry
<1>4. HasVersion(r)' /\ DeployIsCleared(r)'
  BY <1>1 DEF TypeOK, Load, HasVersion, DeployIsCleared, Deploying
<1>5. \A s \in Requests \ {r} : SameRequest(s)
  BY <1>1, <1>2 DEF TypeOK, Load, SameRequest, ghosts
<1> QED BY <1>1, <1>3, <1>4, <1>5, RequestStep DEF Load, Settled

\* The gates: who passes as a deploy has seen the captured columns and, on
\* production, has its confirmation.
LEMMA CheckDriftStep ==
  ASSUME IInv, NEW r \in Requests, CheckDrift(r)
  PROVE  IInv'
<1>1. TypeOK /\ phase[r] = "loaded" /\ HasVersion(r) /\ DeployIsCleared(r)
  BY DEF IInv, CheckDrift
<1>2. PICK drifted \in Drifts(r) :
        phase' = [phase EXCEPT ![r] =
           IF drifted THEN "schema_mismatch"
           ELSE IF request[r].kind = "deploy" /\ Production /\ ~request[r].confirmed
                THEN "needs_confirmation"
           ELSE "checked"]
  BY DEF CheckDrift
<1>3. shape' \in [Requests -> Seq(Columns)] /\ \A s \in Requests \ {r} : shape'[s] = shape[s]
  BY <1>1 DEF TypeOK, CheckDrift, Seen
<1>4. phase'[r] = "checked" /\ ~request[r].foreign => Elements(shape'[r]) = Elements(Captured)
  BY <1>1, <1>2 DEF TypeOK, CheckDrift, Seen, Drifts
<1>5. phase' \in [Requests -> Phases]
  BY <1>1, <1>2 DEF TypeOK, Phases, Ended
<1>6. TypeOK'
  BY <1>1, <1>3, <1>5 DEF TypeOK, CheckDrift, locals, LogEntry
<1>7. HasVersion(r)'
  BY <1>1 DEF HasVersion, CheckDrift
<1>8. DeployIsCleared(r)'
  BY <1>1, <1>2, <1>4 DEF TypeOK, DeployIsCleared, Deploying, Cleared, CheckDrift, locals
<1>9. \A s \in Requests \ {r} : SameRequest(s)
  BY <1>1, <1>2, <1>3 DEF TypeOK, CheckDrift, SameRequest, locals
<1> QED BY <1>1, <1>6, <1>7, <1>8, <1>9, RequestStep DEF CheckDrift, Settled

\* A step that moves one request on and touches nothing it asked for or saw.
LEMMA PhaseStep ==
  ASSUME IInv, NEW r \in Requests, NEW next \in Phases,
         phase' = [phase EXCEPT ![r] = next], phase[r] # "idle",
         UNCHANGED <<history, rules, live, request, version, shape>>, TypeOK',
         phase[r] \in Settled => next \in Settled,
         next \in Deploying =>
            phase[r] \in Deploying \cup {"checked"} /\ request[r].kind = "deploy",
         next # "checked"
  PROVE  IInv'
<1>1. TypeOK /\ HasVersion(r) /\ DeployIsCleared(r)
  BY DEF IInv
<1>2. phase'[r] = next
  BY <1>1 DEF TypeOK
<1>3. HasVersion(r)'
  BY <1>1 DEF HasVersion
<1>4. DeployIsCleared(r)'
  BY <1>1, <1>2 DEF DeployIsCleared, Cleared
<1>5. \A s \in Requests \ {r} : SameRequest(s)
  BY <1>1 DEF TypeOK, SameRequest
<1> QED BY <1>2, <1>3, <1>4, <1>5, RequestStep

LEMMA PreviewStep ==
  ASSUME IInv, NEW r \in Requests, Preview(r)
  PROVE  IInv'
<1>1. TypeOK /\ version[r] \in 1..Len(history)
  BY DEF IInv, Preview, HasVersion
<1>2. \A e \in log' : LogEntry(e)'
  <2> SUFFICES ASSUME NEW e \in log' PROVE LogEntry(e)'
    OBVIOUS
  <2>1. e \in log \/ (e.request = r /\ e.version = version[r] /\ e.mode = "preview"
                      /\ e.diff = None /\ e.confirmed = FALSE)
    BY DEF Preview
  <2> QED BY <1>1, <2>1 DEF TypeOK, Preview, LogEntry
<1>3. TypeOK'
  BY <1>1, <1>2 DEF TypeOK, Preview, Phases, Ended, locals, ghosts
<1> QED BY <1>3, PhaseStep DEF Preview, Phases, Ended, Settled, Deploying, locals, ghosts

\* Of a set of numbers that is bounded and not empty one is the largest.
LEMMA LargestExists ==
  ASSUME NEW n \in Nat, NEW I \in SUBSET (0..n), I # {}
  PROVE  \E k \in I : \A i \in I : i <= k
<1> DEFINE R == OpToRel(<, Nat)
           J == {n - i : i \in I}
<1>1. J \subseteq Nat /\ J # {}
  <2>1. \A i \in I : n - i \in Nat
    OBVIOUS
  <2> QED BY <2>1
<1>2. PICK x \in J : \A y \in J : ~ (<<y, x>> \in R)
  BY <1>1, NatLessThanWellFounded, WFMin
<1>3. \A y \in J : ~ (y < x)
  BY <1>1, <1>2 DEF OpToRel
<1>4. PICK k \in I : x = n - k
  BY <1>2
<1>5. \A i \in I : ~ (n - i < n - k)
  BY <1>3, <1>4
<1>6. \A i \in I : i <= k
  <2> SUFFICES ASSUME NEW i \in I PROVE i <= k
    OBVIOUS
  <2>1. i \in 0..n /\ k \in 0..n
    BY <1>4
  <2>2. ~ (n - i < n - k)
    BY <1>5
  <2> QED BY <2>1, <2>2
<1> QED BY <1>6

\* There is a latest deploy once there is one.
LEMMA LatestExists ==
  ASSUME TypeOK, Deploys # {}
  PROVE  Latest \in Deploys /\ \A d \in Deploys : started[d.request] <= started[Latest.request]
<1> DEFINE I == {started[d.request] : d \in Deploys}
<1>1. \A d \in Deploys : started[d.request] \in 0..Cardinality(Requests)
  BY DEF TypeOK, Deploys, LogEntry
<1>2. Cardinality(Requests) \in Nat
  BY ViewAssumption, FS_CardinalityType
<1>3. I # {} /\ I \in SUBSET (0..Cardinality(Requests))
  BY <1>1
<1>4. PICK k \in I : \A i \in I : i <= k
  BY <1>2, <1>3, LargestExists
<1>5. PICK e \in Deploys : started[e.request] = k
  BY <1>4
<1>6. \A d \in Deploys : started[d.request] <= started[e.request]
  BY <1>4, <1>5
<1> QED BY <1>6 DEF Latest

LEMMA FindPreviousStep ==
  ASSUME IInv, NEW r \in Requests, FindPrevious(r)
  PROVE  IInv'
<1>1. TypeOK
  BY DEF IInv
<1>2. Deploys # {} => Latest.version \in 0..Len(history)
  <2>1. Deploys # {} => Latest \in log
    BY <1>1, LatestExists DEF Deploys
  <2> QED BY <1>1, <2>1 DEF TypeOK, LogEntry
<1>3. previous' \in [Requests -> 0..Len(history)]
  BY <1>1, <1>2 DEF TypeOK, FindPrevious
<1>4. TypeOK'
  BY <1>1, <1>3 DEF TypeOK, FindPrevious, Phases, Ended, locals, ghosts, LogEntry
<1> QED BY <1>4, PhaseStep DEF FindPrevious, Phases, Ended, Settled, Deploying, locals, ghosts

LEMMA VerifyStep ==
  ASSUME IInv, NEW r \in Requests, Verify(r)
  PROVE  IInv'
<1>1. PICK outcome \in {"failed", "verification_failed", "verified"} :
        phase' = [phase EXCEPT ![r] = outcome]
  BY DEF Verify
<1>2. TypeOK'
  BY <1>1 DEF IInv, TypeOK, Verify, Phases, Ended, locals, ghosts, LogEntry
<1>3. request[r].kind = "deploy"
  BY DEF IInv, DeployIsCleared, Verify, Deploying
<1> QED BY <1>1, <1>2, <1>3, PhaseStep DEF Verify, Phases, Ended, Settled, Deploying, locals, ghosts

LEMMA LogDeployStep ==
  ASSUME IInv, NEW r \in Requests, LogDeploy(r)
  PROVE  IInv'
<1>1. TypeOK /\ version[r] \in 1..Len(history)
  BY DEF IInv, LogDeploy, HasVersion
<1>2. \A e \in log' : LogEntry(e)'
  <2> SUFFICES ASSUME NEW e \in log' PROVE LogEntry(e)'
    OBVIOUS
  <2>1. (Production /\ request[r].confirmed) \in BOOLEAN
    OBVIOUS
  <2>2. e \in log \/ (e.request = r /\ e.version = version[r] /\ e.mode = "deploy"
                      /\ e.confirmed = (Production /\ request[r].confirmed))
    BY DEF LogDeploy
  <2> QED BY <1>1, <2>1, <2>2 DEF TypeOK, LogDeploy, LogEntry
<1>3. TypeOK'
  BY <1>1, <1>2 DEF TypeOK, LogDeploy, Phases, Ended, locals, ghosts
<1> QED BY <1>3, PhaseStep DEF LogDeploy, Phases, Ended, Settled, Deploying, locals, ghosts

LEMMA ReconcileStep ==
  ASSUME IInv, NEW r \in Requests, CheckDeployed(r) \/ ReadRows(r) \/ SaveResult(r)
  PROVE  IInv'
<1>1. CASE CheckDeployed(r)
  <2>1. TypeOK'
    BY <1>1 DEF IInv, TypeOK, CheckDeployed, Phases, Ended, locals, ghosts, LogEntry
  <2> QED BY <1>1, <2>1, PhaseStep DEF CheckDeployed, Phases, Ended, Settled, Deploying, locals, ghosts
<1>2. CASE ReadRows(r)
  <2>1. PICK next \in {"failed", "compare"} : phase' = [phase EXCEPT ![r] = next]
    BY <1>2 DEF ReadRows
  <2>2. TypeOK'
    BY <1>2, <2>1 DEF IInv, TypeOK, ReadRows, Phases, Ended, locals, ghosts, LogEntry
  <2> QED BY <1>2, <2>1, <2>2, PhaseStep DEF ReadRows, Phases, Ended, Settled, Deploying, locals, ghosts
<1>3. CASE SaveResult(r)
  <2>1. {x.column : x \in {y \in rules : y.version = version[r] /\ y.retired}} \subseteq Columns
    BY DEF IInv, TypeOK, Rule
  <2>2. version[r] \in Nat
    BY DEF IInv, TypeOK
  <2>3. results' \subseteq Result
    BY <1>3, <2>1, <2>2 DEF IInv, TypeOK, SaveResult, Result
  <2>4. TypeOK'
    BY <1>3, <2>3 DEF IInv, TypeOK, SaveResult, Phases, Ended, locals, ghosts, LogEntry
  <2> QED BY <1>3, <2>4, PhaseStep DEF SaveResult, Phases, Ended, Settled, Deploying, locals, ghosts
<1> QED BY <1>1, <1>2, <1>3

LEMMA FailStep ==
  ASSUME IInv, NEW r \in Requests, Fail(r)
  PROVE  IInv'
<1>1. TypeOK'
  BY DEF IInv, TypeOK, Fail, Phases, Ended, locals, ghosts, LogEntry
<1> QED BY <1>1, PhaseStep DEF Fail, Busy, Phases, Ended, Settled, Deploying, locals, ghosts

\* The deploy whose DDL runs is the one that authorises what is live.
LEMMA AlterViewStep ==
  ASSUME IInv, NEW r \in Requests, AlterView(r)
  PROVE  IInv'
<1>1. TypeOK /\ HasVersion(r) /\ DeployIsCleared(r) /\ phase[r] = "ddl"
  BY DEF IInv, AlterView
<1>2. version[r] \in 1..Len(history)
  BY <1>1 DEF HasVersion
<1>3. TypeOK'
  BY <1>1, <1>2 DEF TypeOK, AlterView, Phases, Ended, locals, LogEntry
<1>4. \A s \in Requests : HasVersion(s)' /\ DeployIsCleared(s)'
  BY <1>1 DEF IInv, TypeOK, AlterView, HasVersion, DeployIsCleared, Deploying, Cleared, locals
<1>5. LiveHasDeploy'
  <2>1. request'[r].kind = "deploy" /\ version'[r] = live' /\ phase'[r] \in Settled
    BY <1>1 DEF TypeOK, AlterView, DeployIsCleared, Deploying, Settled, locals
  <2>2. Cleared(r)'
    BY <1>1 DEF AlterView, DeployIsCleared, Deploying, Cleared, locals
  <2> QED BY <2>1, <2>2 DEF LiveHasDeploy
<1>6. RulesDescribeTheirVersion'
  BY DEF IInv, AlterView, RulesDescribeTheirVersion, RulesOf, PayloadOf
<1> QED BY <1>3, <1>4, <1>5, <1>6 DEF IInv

\* Both ways of saving append the payload to the history.
LEMMA Appends ==
  ASSUME TypeOK, NEW r \in Requests, NEW p \in Payloads, SaveVersion(r, p)
  PROVE  history' = Append(history, [links |-> p, config |-> None])
<1>1. \A i \in 1..Len(history) : history[i].config = None
  <2> SUFFICES ASSUME NEW i \in 1..Len(history) PROVE history[i].config = None
    OBVIOUS
  <2>1. history[i] \in Saved!Entry
    BY DEF TypeOK
  <2> QED BY <2>1 DEF Saved!Entry
<1>2. history = <<>> => Append(history, [links |-> p, config |-> None])
                          = <<[links |-> p, config |-> None]>>
  OBVIOUS
<1> QED BY <1>1, <1>2 DEF TypeOK, SaveVersion, Saved!Create, Saved!Save

\* A new version has no rules, and the payloads of the others stay.
LEMMA SaveVersionStep ==
  ASSUME IInv, NEW r \in Requests, NEW p \in Payloads, SaveVersion(r, p)
  PROVE  IInv'
<1>1. TypeOK /\ history \in Seq(Saved!Entry) /\ Len(history) \in Nat /\ phase[r] = "idle"
  BY DEF IInv, TypeOK, SaveVersion, Begin
<1>2. history' = Append(history, [links |-> p, config |-> None])
  BY <1>1, Appends
<1>3. [links |-> p, config |-> None] \in Saved!Entry
  BY DEF Saved!Entry
<1>4. /\ history' \in Seq(Saved!Entry) /\ Len(history') = Len(history) + 1
      /\ \A n \in 1..Len(history) : history'[n] = history[n]
  BY <1>1, <1>2, <1>3
<1>5. /\ started' \in [Requests -> 0..Cardinality(Requests)]
      /\ request' \in [Requests -> Request]
      /\ \A s \in Requests \ {r} : request'[s] = request[s]
  <2>1. "save" \in Kinds
    BY DEF Kinds
  <2> QED BY <1>1, <2>1, BeginTyped DEF SaveVersion
<1>6. \A e \in log' : LogEntry(e)'
  BY <1>1, <1>4 DEF TypeOK, SaveVersion, LogEntry
<1>7. TypeOK'
  <2>1. 0..Len(history) \subseteq 0..Len(history')
    BY <1>1, <1>4
  <2>2. /\ live' \in 0..Len(history')
        /\ previous' \in [Requests -> 0..Len(history')]
        /\ compared' \in [Requests -> 0..Len(history')]
        /\ replaced' \in [Requests -> 0..Len(history')]
    BY <1>1, <2>1 DEF TypeOK, SaveVersion, ghosts
  <2>3. version' \in [Requests -> 0..Len(history')]
    <3>1. version' = [version EXCEPT ![r] = Len(history) + 1] /\ Len(history) + 1 \in 0..Len(history')
      BY <1>1, <1>4 DEF SaveVersion
    <3>2. version \in [Requests -> 0..Len(history')]
      BY <1>1, <2>1 DEF TypeOK
    <3> QED BY <3>1, <3>2
  <2>4. phase' \in [Requests -> Phases]
    BY <1>1 DEF TypeOK, SaveVersion, Phases
  <2>5. UNCHANGED <<rules, legacy, log, results, shape>>
    BY DEF SaveVersion, ghosts
  <2> QED BY <1>1, <1>4, <1>5, <1>6, <2>2, <2>3, <2>4, <2>5 DEF TypeOK
<1>8. \A s \in Requests \ {r} : SameRequest(s)
  BY <1>1, <1>5 DEF TypeOK, SaveVersion, SameRequest, ghosts
<1>9. \A s \in Requests : HasVersion(s)' /\ DeployIsCleared(s)'
  <2>1. HasVersion(r)' /\ DeployIsCleared(r)'
    BY <1>1, <1>4 DEF TypeOK, SaveVersion, HasVersion, DeployIsCleared, Deploying
  <2>2. ASSUME NEW s \in Requests, s # r PROVE HasVersion(s)' /\ DeployIsCleared(s)'
    BY <1>1, <1>4, <1>8, <2>2, Frame DEF IInv
  <2> QED BY <2>1, <2>2
<1>10. LiveHasDeploy'
  <2>1. phase[r] \notin Settled /\ live' = live
    BY <1>1 DEF Settled, SaveVersion
  <2> QED BY <1>8, <2>1, LiveFrame DEF IInv, SameRequest
<1>11. RulesDescribeTheirVersion'
  <2>1. rules' = rules /\ \A x \in rules : x.version \in 1..Len(history)
    BY DEF IInv, RulesDescribeTheirVersion, SaveVersion
  <2>2. ASSUME NEW n \in 1..Len(history')
        PROVE  {x \in rules : x.version = n} \in {{}, RulesOf(n)'}
    <3>1. CASE n \in 1..Len(history)
      <4>1. RulesOf(n)' = RulesOf(n)
        BY <1>4, <3>1 DEF RulesOf, PayloadOf
      <4> QED BY <3>1, <4>1 DEF IInv, RulesDescribeTheirVersion
    <3>2. CASE n = Len(history) + 1
      BY <1>1, <2>1, <3>2
    <3> QED BY <1>1, <1>4, <2>2, <3>1, <3>2
  <2> QED BY <1>1, <1>4, <2>1, <2>2 DEF RulesDescribeTheirVersion
<1> QED BY <1>7, <1>9, <1>10, <1>11 DEF IInv

\* All the rules of a version come in one commit.
LEMMA WriteRulesStep ==
  ASSUME IInv, NEW r \in Requests, WriteRules(r)
  PROVE  IInv'
<1>1. TypeOK /\ version[r] \in 1..Len(history) /\ phase[r] = "saved"
  BY DEF IInv, WriteRules, HasVersion
<1>2. RulesOf(version[r]) \subseteq Rule
  <2>1. history[version[r]] \in Saved!Entry
    BY <1>1 DEF TypeOK
  <2>2. PayloadOf(version[r]) \in Seq(Mapping)
    BY <2>1, ViewAssumption DEF Saved!Entry, PayloadOf
  <2>3. \A i \in DOMAIN PayloadOf(version[r]) : i \in Nat /\ PayloadOf(version[r])[i] \in Mapping
    BY <2>2
  <2> QED BY <1>1, <2>3 DEF RulesOf, Rule, Mapping
<1>3. TypeOK'
  BY <1>1, <1>2 DEF TypeOK, WriteRules, Phases, Ended, locals, ghosts, LogEntry
<1>4. \A s \in Requests : HasVersion(s)' /\ DeployIsCleared(s)'
  BY <1>1 DEF IInv, TypeOK, WriteRules, HasVersion, DeployIsCleared, Deploying, Cleared, locals, ghosts
<1>5. LiveHasDeploy'
  BY <1>1, LiveFrame DEF IInv, TypeOK, WriteRules, Settled, locals, ghosts
<1>6. \A x \in RulesOf(version[r]) : x.version = version[r]
  BY DEF RulesOf
<1>7. \A n \in 1..Len(history) : RulesOf(n)' = RulesOf(n)
  BY DEF WriteRules, RulesOf, PayloadOf
<1>8. RulesDescribeTheirVersion'
  <2>1. \A x \in rules' : x.version \in 1..Len(history)
    BY <1>1, <1>6 DEF IInv, RulesDescribeTheirVersion, WriteRules
  <2>2. ASSUME NEW n \in 1..Len(history)
        PROVE  {x \in rules' : x.version = n} \in {{}, RulesOf(n)}
    <3>1. {x \in rules : x.version = n} \in {{}, RulesOf(n)}
      BY DEF IInv, RulesDescribeTheirVersion
    <3>2. {x \in rules' : x.version = n}
            = {x \in rules : x.version = n} \cup (IF n = version[r] THEN RulesOf(n) ELSE {})
      BY <1>6 DEF WriteRules
    <3> QED BY <3>1, <3>2
  <2> QED BY <1>7, <2>1, <2>2 DEF RulesDescribeTheirVersion, WriteRules
<1> QED BY <1>3, <1>4, <1>5, <1>8 DEF IInv

\* The owners of the databases change no request and save nothing.
LEMMA OwnersStep ==
  ASSUME IInv, TypeOK', live' \in {live, 0},
         UNCHANGED <<history, rules, phase, request, version, shape>>
  PROVE  IInv'
<1>1. \A s \in Requests : HasVersion(s)' /\ DeployIsCleared(s)'
  BY DEF IInv, HasVersion, DeployIsCleared, Cleared
<1>2. LiveHasDeploy'
  BY LiveFrame DEF IInv
<1>3. RulesDescribeTheirVersion'
  BY DEF IInv, RulesDescribeTheirVersion, RulesOf, PayloadOf
<1> QED BY <1>1, <1>2, <1>3 DEF IInv

LEMMA AlterLegacyStep == IInv /\ AlterLegacy => IInv'
<1> SUFFICES ASSUME IInv, AlterLegacy PROVE IInv'
  OBVIOUS
<1>1. legacy \in Seq(Columns)
  BY DEF IInv, TypeOK
<1>2. legacy' \in Seq(Columns)
  <2>1. CASE \E i \in DOMAIN legacy :
               legacy' = SubSeq(legacy, 1, i - 1) \o SubSeq(legacy, i + 1, Len(legacy))
    BY <1>1, <2>1
  <2>2. CASE \E c \in Columns \ Elements(legacy) : legacy' = Append(legacy, c)
    BY <1>1, <2>2
  <2>3. CASE \E i \in DOMAIN legacy, c \in Columns \ Elements(legacy) :
               legacy' = [legacy EXCEPT ![i] = c]
    BY <1>1, <2>3
  <2> QED BY <2>1, <2>2, <2>3 DEF AlterLegacy
<1>3. TypeOK'
  BY <1>2 DEF IInv, TypeOK, AlterLegacy, locals, ghosts, LogEntry
<1> QED BY <1>3, OwnersStep DEF AlterLegacy, locals, ghosts

LEMMA DropViewStep == IInv /\ DropView => IInv'
<1> SUFFICES ASSUME IInv, DropView PROVE IInv'
  OBVIOUS
<1>1. TypeOK'
  BY DEF IInv, TypeOK, DropView, locals, ghosts, LogEntry
<1> QED BY <1>1, OwnersStep DEF DropView, locals, ghosts

LEMMA NextStep == IInv /\ [Next]_vars => IInv'
<1> SUFFICES ASSUME IInv, [Next]_vars PROVE IInv'
  OBVIOUS
<1>1. ASSUME NEW r \in Requests, NEW p \in Payloads, SaveVersion(r, p) PROVE IInv'
  BY <1>1, SaveVersionStep
<1>2. ASSUME NEW r \in Requests, NEW kind \in Kinds \ {"save"}, NEW other \in BOOLEAN,
             NEW n \in 1..Len(history),
             Load(r, kind, FALSE, other, n) \/ Load(r, kind, TRUE, other, n)
      PROVE  IInv'
  <2>1. TRUE \in BOOLEAN /\ FALSE \in BOOLEAN
    OBVIOUS
  <2> QED BY <1>2, <2>1, LoadStep
<1>3. ASSUME NEW r \in Requests, WriteRules(r) \/ CheckDrift(r) \/ Preview(r) PROVE IInv'
  BY <1>3, WriteRulesStep, CheckDriftStep, PreviewStep
<1>4. ASSUME NEW r \in Requests,
             FindPrevious(r) \/ AlterView(r) \/ Verify(r) \/ LogDeploy(r) PROVE IInv'
  BY <1>4, FindPreviousStep, AlterViewStep, VerifyStep, LogDeployStep
<1>5. ASSUME NEW r \in Requests, CheckDeployed(r) \/ ReadRows(r) \/ SaveResult(r) \/ Fail(r)
      PROVE  IInv'
  BY <1>5, ReconcileStep, FailStep
<1>6. CASE UNCHANGED vars
  <2>1. TypeOK'
    BY <1>6 DEF IInv, TypeOK, vars, locals, ghosts, LogEntry
  <2> QED BY <1>6, <2>1, OwnersStep DEF vars, locals, ghosts
<1> QED BY <1>1, <1>2, <1>3, <1>4, <1>5, <1>6, AlterLegacyStep, DropViewStep DEF Next

-----------------------------------------------------------------------------
THEOREM Invariance == Spec => []IInv
BY InitIInv, NextStep, PTL DEF Spec

\* Versions, log entries and results name what exists.
THEOREM TypeCorrect == Spec => []TypeOK
BY Invariance, PTL DEF IInv

\* Nobody's view is live without the drift check and the confirmation.
THEOREM LiveIsAuthorisedAlways == Spec => []LiveIsAuthorised
<1>1. IInv => LiveIsAuthorised
  BY DEF IInv, LiveHasDeploy, LiveIsAuthorised, Authorised, Cleared
<1> QED BY <1>1, Invariance, PTL

-----------------------------------------------------------------------------
(***************************************************************************)
(* Requests of which some kinds do not overlap.                            *)
(***************************************************************************)
Begun == {s \in Requests : phase[s] # "idle"}
IsDeploy(r) == phase[r] # "idle" /\ request[r].kind = "deploy"

\* Only saves write rules and only reconciliations read rows.
PhaseKind(r) ==
    /\ phase[r] = "saved" => request[r].kind = "save"
    /\ phase[r] \in {"gate", "read", "compare"} => request[r].kind = "reconcile"

\* What Begin keeps apart stays apart; transactions are numbered as they begin.
KeptApart ==
    /\ \A r \in Requests : PhaseKind(r)
    /\ \A r, s \in Requests : r # s /\ Busy(r) /\ Busy(s) =>
         {request[r].kind, request[s].kind} \notin Apart
    /\ \A r \in Begun : started[r] <= Cardinality(Begun)

\* A deploy in progress is the only one, and the last that began.
DeploysInTurn ==
    \A r \in Requests : IsDeploy(r) /\ Busy(r) =>
        \A s \in Requests \ {r} : IsDeploy(s) => ~Busy(s) /\ started[s] < started[r]

\* Requests that name no version are about their own definition.
NoneForeign == \A r \in Requests : ~request[r].foreign

\* What the first step of a request does.
Starts(r) ==
    /\ phase[r] = "idle" /\ \E next \in {"saved", "loaded", "gate"} : phase' = [phase EXCEPT ![r] = next]
    /\ \A s \in Requests : Busy(s) => {request'[r].kind, request[s].kind} \notin Apart
    /\ phase'[r] = "gate" => request'[r].kind = "reconcile"
    /\ started' = [started EXCEPT ![r] = Cardinality(Begun) + 1]
    /\ \A s \in Requests \ {r} : request'[s] = request[s] /\ version'[s] = version[s]
    /\ NamesVersions \/ (version'[r] = Len(history') /\ ~request'[r].foreign)
    /\ Len(history) <= Len(history') /\ \A n \in 1..Len(history) : history'[n] = history[n]
    /\ Len(history') # Len(history) => request'[r].kind = "save"
    /\ phase'[r] = "saved" => version'[r] = Len(history) + 1 /\ request'[r].kind = "save"
    /\ UNCHANGED <<rules, live, log, results, previous, compared, shape, replaced>>
\* Its later steps, and what all of them leave alone.
Later(r) ==
    \/ WriteRules(r) \/ CheckDrift(r) \/ Preview(r)
    \/ FindPrevious(r) \/ AlterView(r) \/ Verify(r) \/ LogDeploy(r)
    \/ CheckDeployed(r) \/ ReadRows(r) \/ SaveResult(r) \/ Fail(r)
Moves(r) ==
    /\ Busy(r) /\ \E next \in Phases \ {"idle", "saved", "gate"} : phase' = [phase EXCEPT ![r] = next]
    /\ phase'[r] \in {"read", "compare"} => phase[r] \in {"gate", "read"}
    /\ UNCHANGED <<history, request, version, started>>
\* What happens without a request.
Outside ==
    /\ live' \in {live, 0} /\ (Interference \/ live' = live)
    /\ UNCHANGED <<history, rules, log, results, phase, request, version, shape, started,
                   previous, compared, replaced>>

\* A save begins and appends.
LEMMA SaveStarts ==
  ASSUME IInv, NEW r \in Requests, NEW p \in Payloads, SaveVersion(r, p)
  PROVE  Starts(r)
<1>1. TypeOK /\ phase[r] = "idle" /\ Len(history) \in Nat
  BY DEF IInv, TypeOK, SaveVersion, Begin
<1>2. history' = Append(history, [links |-> p, config |-> None])
  BY <1>1, Appends
<1>3. Len(history') = Len(history) + 1 /\ \A n \in 1..Len(history) : history'[n] = history[n]
  BY <1>1, <1>2 DEF TypeOK
<1>4. \A s \in Requests : Busy(s) => {"save", request[s].kind} \notin Apart
  BY DEF SaveVersion, Begin
<1>5. started' = [started EXCEPT ![r] = Cardinality(Begun) + 1]
  BY DEF SaveVersion, Begin, Begun
<1>6. /\ request' = [request EXCEPT ![r] = [kind |-> "save", confirmed |-> FALSE, foreign |-> FALSE]]
      /\ version' = [version EXCEPT ![r] = Len(history) + 1]
      /\ phase' = [phase EXCEPT ![r] = "saved"]
  BY DEF SaveVersion, Begin
<1>7. UNCHANGED <<rules, live, log, results, previous, compared, shape, replaced>>
  BY DEF SaveVersion, ghosts
<1>8. /\ \A s \in Requests \ {r} : request'[s] = request[s] /\ version'[s] = version[s]
      /\ version'[r] = Len(history') /\ ~request'[r].foreign
      /\ request'[r].kind = "save" /\ version'[r] = Len(history) + 1 /\ phase'[r] = "saved"
  BY <1>1, <1>3, <1>6 DEF TypeOK
<1> QED BY <1>1, <1>3, <1>4, <1>5, <1>6, <1>7, <1>8 DEF Starts

\* The others begin and find the version they are about.
LEMMA LoadStarts ==
  ASSUME IInv, NEW r \in Requests, NEW kind \in Kinds \ {"save"}, NEW ok \in BOOLEAN,
         NEW other \in BOOLEAN, NEW n \in 1..Len(history), Load(r, kind, ok, other, n)
  PROVE  Starts(r)
<1>1. TypeOK /\ phase[r] = "idle" /\ Len(history) \in Nat
  BY DEF IInv, TypeOK, Load, Begin
<1>2. \A s \in Requests : Busy(s) => {kind, request[s].kind} \notin Apart
  BY DEF Load, Begin
<1>3. started' = [started EXCEPT ![r] = Cardinality(Begun) + 1]
  BY DEF Load, Begin, Begun
<1>4. /\ request' = [request EXCEPT ![r] = [kind |-> kind, confirmed |-> ok, foreign |-> other]]
      /\ version' = [version EXCEPT ![r] = n]
      /\ phase' = [phase EXCEPT ![r] = IF kind = "reconcile" THEN "gate" ELSE "loaded"]
  BY DEF Load, Begin
<1>5. UNCHANGED <<history, rules, live, log, results, previous, compared, shape, replaced>>
  BY DEF Load, ghosts
<1>6. \A s \in Requests \ {r} : request'[s] = request[s] /\ version'[s] = version[s]
  BY <1>1, <1>4 DEF TypeOK
<1>7. NamesVersions \/ (version'[r] = Len(history') /\ ~request'[r].foreign)
  BY <1>1, <1>4, <1>5 DEF TypeOK, Load
<1>8. PICK next \in {"loaded", "gate"} : phase' = [phase EXCEPT ![r] = next] /\ phase'[r] = next
  BY <1>1, <1>4 DEF TypeOK
<1>9. /\ Len(history) <= Len(history') /\ \A i \in 1..Len(history) : history'[i] = history[i]
      /\ Len(history') = Len(history)
  BY <1>1, <1>5
<1>10. request'[r].kind = kind /\ (phase'[r] = "gate" => kind = "reconcile")
  BY <1>1, <1>4 DEF TypeOK
<1> QED BY <1>9, <1>1, <1>2, <1>3, <1>5, <1>6, <1>7, <1>8, <1>10 DEF Starts

\* What a request is about is settled when it begins.
LEMMA LaterMoves ==
  ASSUME IInv, NEW r \in Requests, Later(r)
  PROVE  Moves(r)
<1>1. Busy(r)
  <2>1. phase[r] \in Phases
    BY DEF IInv, TypeOK
  <2> QED BY <2>1 DEF Busy, Phases, Ended, Later, WriteRules, CheckDrift, Preview, FindPrevious,
          AlterView, Verify, LogDeploy, CheckDeployed, ReadRows, SaveResult, Fail
<1>0. TypeOK
  BY DEF IInv
<1>2. UNCHANGED <<history, request, version, started>>
  BY DEF Later, WriteRules, CheckDrift, Preview, FindPrevious,
         AlterView, Verify, LogDeploy, CheckDeployed, ReadRows, SaveResult, Fail, locals
<1>3. CASE WriteRules(r) \/ Preview(r) \/ FindPrevious(r) \/ AlterView(r) \/ LogDeploy(r)
  BY <1>0, <1>1, <1>2, <1>3 DEF Moves, TypeOK, Phases, Ended, WriteRules, Preview, FindPrevious, AlterView, LogDeploy
<1>4. CASE CheckDrift(r)
  BY <1>0, <1>1, <1>2, <1>4 DEF Moves, TypeOK, Phases, Ended, CheckDrift
<1>5. CASE Verify(r)
  BY <1>0, <1>1, <1>2, <1>5 DEF Moves, TypeOK, Phases, Ended, Verify
<1>6. CASE CheckDeployed(r) \/ ReadRows(r) \/ SaveResult(r) \/ Fail(r)
  BY <1>0, <1>1, <1>2, <1>6 DEF Moves, TypeOK, Phases, Ended, CheckDeployed, ReadRows, SaveResult, Fail
<1> QED BY <1>3, <1>4, <1>5, <1>6 DEF Later

\* Every step begins a request, moves one on, or is nobody's.
LEMMA StepKinds ==
  ASSUME IInv, [Next]_vars
  PROVE  (\E r \in Requests : Starts(r) \/ Later(r)) \/ Outside
<1>1. ASSUME NEW r \in Requests, NEW kind \in Kinds \ {"save"}, NEW other \in BOOLEAN,
             NEW n \in 1..Len(history),
             Load(r, kind, FALSE, other, n) \/ Load(r, kind, TRUE, other, n)
      PROVE  Starts(r)
  <2>1. TRUE \in BOOLEAN /\ FALSE \in BOOLEAN
    OBVIOUS
  <2> QED BY <1>1, <2>1, LoadStarts
<1>2. ASSUME NEW r \in Requests, NEW p \in Payloads, SaveVersion(r, p) PROVE Starts(r)
  BY <1>2, SaveStarts
<1>3. CASE AlterLegacy \/ DropView \/ UNCHANGED vars
  BY <1>3 DEF Outside, AlterLegacy, DropView, vars, locals, ghosts
<1> QED BY <1>1, <1>2, <1>3 DEF Next, Later
\* A request that begins is let in by Begin, and is numbered last.
LEMMA KeptApartStep == IInv /\ KeptApart /\ [Next]_vars => KeptApart'
<1> SUFFICES ASSUME IInv, KeptApart, [Next]_vars PROVE KeptApart'
  OBVIOUS
<1>1. TypeOK
  BY DEF IInv
<1>2. ASSUME NEW r \in Requests, Starts(r) PROVE KeptApart'
  <2>1. /\ IsFiniteSet(Begun) /\ r \notin Begun /\ Cardinality(Begun) \in Nat
        /\ Cardinality(Begun \cup {r}) = Cardinality(Begun) + 1
    <3>1. IsFiniteSet(Begun)
      BY ViewAssumption, FS_Subset DEF Begun
    <3>2. r \notin Begun
      BY <1>2 DEF Starts, Begun
    <3> QED BY <3>1, <3>2, FS_AddElement, FS_CardinalityType
  <2>2. PICK next \in {"saved", "loaded", "gate"} : phase' = [phase EXCEPT ![r] = next]
    BY <1>2 DEF Starts
  <2>3. phase'[r] = next /\ \A s \in Requests \ {r} : phase'[s] = phase[s] /\ request'[s] = request[s]
    BY <1>1, <1>2, <2>2 DEF TypeOK, Starts
  <2>4. Begun' = Begun \cup {r}
    BY <2>2, <2>3 DEF Begun
  <2>5. \A s \in Begun : started[s] \in Nat /\ started[s] <= Cardinality(Begun)
    BY <1>1 DEF KeptApart, TypeOK, Begun
  <2>6. /\ started'[r] = Cardinality(Begun) + 1
        /\ \A s \in Requests \ {r} : started'[s] = started[s]
    BY <1>1, <1>2 DEF TypeOK, Starts
  <2>7. \A s \in Begun' : started'[s] <= Cardinality(Begun')
    <3>1. \A s \in Begun : s \in Requests \ {r}
      BY <2>1 DEF Begun
    <3> QED BY <2>1, <2>4, <2>5, <2>6, <3>1
  <2>8. \A s \in Requests : PhaseKind(s)'
    <3>1. PhaseKind(r)'
      BY <1>2, <2>2, <2>3 DEF PhaseKind, Starts
    <3>2. \A s \in Requests \ {r} : PhaseKind(s)'
      BY <2>3 DEF KeptApart, PhaseKind
    <3> QED BY <3>1, <3>2
  <2>9. ASSUME NEW s \in Requests, NEW q \in Requests, s # q, Busy(s)', Busy(q)'
        PROVE  {request'[s].kind, request'[q].kind} \notin Apart
    <3>1. CASE s # r /\ q # r
      BY <2>3, <2>9, <3>1 DEF KeptApart, Busy
    <3>2. CASE s = r
      <4>1. Busy(q) /\ request'[q] = request[q]
        BY <2>3, <2>9, <3>2 DEF Busy
      <4> QED BY <1>2, <3>2, <4>1 DEF Starts
    <3>3. CASE q = r
      <4>1. Busy(s) /\ request'[s] = request[s]
        BY <2>3, <2>9, <3>3 DEF Busy
      <4>2. {request'[r].kind, request[s].kind} \notin Apart
        BY <1>2, <4>1 DEF Starts
      <4>3. {request'[r].kind, request[s].kind} = {request[s].kind, request'[r].kind}
        OBVIOUS
      <4> QED BY <3>3, <4>1, <4>2, <4>3
    <3> QED BY <3>1, <3>2, <3>3
  <2> QED BY <2>7, <2>8, <2>9 DEF KeptApart
<1>3. ASSUME NEW r \in Requests, Moves(r) PROVE KeptApart'
  <2>1. PICK next \in Phases \ {"idle", "saved", "gate"} : phase' = [phase EXCEPT ![r] = next]
    BY <1>3 DEF Moves
  <2>2. Begun' = Begun
    BY <1>1, <1>3, <2>1 DEF TypeOK, Begun, Moves, Busy
  <2>3. phase'[r] = next /\ \A s \in Requests \ {r} : phase'[s] = phase[s]
    BY <1>1, <2>1 DEF TypeOK
  <2>4. \A s \in Requests : Busy(s)' => Busy(s)
    BY <1>3, <2>3 DEF Busy, Moves
  <2>5. \A s \in Requests : PhaseKind(s)'
    BY <1>3, <2>3 DEF KeptApart, PhaseKind, Moves
  <2> QED BY <1>3, <2>2, <2>4, <2>5 DEF KeptApart, Moves
<1>4. CASE Outside
  BY <1>4 DEF Outside, KeptApart, Busy, Begun, PhaseKind
<1> QED BY <1>2, <1>3, <1>4, StepKinds, LaterMoves

\* A deploy that begins finds the others ended, and begins after them.
LEMMA DeploysInTurnStep ==
  ASSUME {"deploy"} \in Apart, IInv, KeptApart, DeploysInTurn, [Next]_vars
  PROVE  DeploysInTurn'
<1>1. TypeOK
  BY DEF IInv
<1>2. ASSUME NEW r \in Requests, Starts(r) PROVE DeploysInTurn'
  <2>1. PICK next \in {"saved", "loaded", "gate"} : phase' = [phase EXCEPT ![r] = next]
    BY <1>2 DEF Starts
  <2>2. /\ phase[r] = "idle" /\ phase'[r] = next
        /\ \A s \in Requests \ {r} : /\ phase'[s] = phase[s] /\ request'[s] = request[s]
                                     /\ started'[s] = started[s]
        /\ started'[r] = Cardinality(Begun) + 1
    BY <1>1, <1>2, <2>1 DEF TypeOK, Starts
  <2>3. \A s \in Requests \ {r} : /\ IsDeploy(s)' <=> IsDeploy(s)
                                  /\ Busy(s)' <=> Busy(s)
    BY <2>2 DEF IsDeploy, Busy
  <2>4. ASSUME NEW s \in Requests \ {r}, IsDeploy(s), IsDeploy(r)'
        PROVE  ~Busy(s) /\ started'[s] < started'[r]
    <3>1. request'[r].kind = "deploy" /\ request[s].kind = "deploy" /\ phase[s] # "idle"
      BY <2>4 DEF IsDeploy
    <3>2. {request'[r].kind, request[s].kind} = {"deploy"}
      BY <3>1
    <3>3. ~Busy(s)
      BY <1>2, <3>2 DEF Starts
    <3>4. Cardinality(Begun) \in Nat
      BY ViewAssumption, FS_Subset, FS_CardinalityType DEF Begun
    <3>5. started[s] \in Nat /\ started[s] <= Cardinality(Begun)
      BY <1>1, <3>1 DEF KeptApart, Begun, TypeOK
    <3> QED BY <2>2, <3>3, <3>4, <3>5
  <2>5. ASSUME NEW q \in Requests, IsDeploy(q)', Busy(q)', NEW s \in Requests \ {q}, IsDeploy(s)'
        PROVE  ~Busy(s)' /\ started'[s] < started'[q]
    <3>1. CASE q = r
      BY <2>3, <2>4, <2>5, <3>1
    <3>2. CASE q # r /\ s = r
      BY <2>3, <2>4, <2>5, <3>2
    <3>3. CASE q # r /\ s # r
      BY <2>2, <2>3, <2>5, <3>3 DEF DeploysInTurn
    <3> QED BY <3>1, <3>2, <3>3
  <2> QED BY <2>5 DEF DeploysInTurn
<1>3. ASSUME NEW r \in Requests, Moves(r) PROVE DeploysInTurn'
  <2>1. \A s \in Requests : (Busy(s)' => Busy(s)) /\ (IsDeploy(s)' => IsDeploy(s))
    BY <1>1, <1>3 DEF Busy, IsDeploy, Moves, TypeOK
  <2> QED BY <1>3, <2>1 DEF DeploysInTurn, Moves
<1>4. CASE Outside
  BY <1>4 DEF Outside, DeploysInTurn, Busy, IsDeploy
<1> QED BY <1>2, <1>3, <1>4, StepKinds, LaterMoves

LEMMA NoneForeignStep ==
  ASSUME ~NamesVersions, IInv, NoneForeign, [Next]_vars
  PROVE  NoneForeign'
<1>1. ASSUME NEW r \in Requests, Starts(r) PROVE NoneForeign'
  BY <1>1 DEF Starts, NoneForeign
<1>2. ASSUME NEW r \in Requests, Moves(r) PROVE NoneForeign'
  BY <1>2 DEF Moves, NoneForeign
<1>3. CASE Outside
  BY <1>3 DEF Outside, NoneForeign
<1> QED BY <1>1, <1>2, <1>3, StepKinds, LaterMoves

LEMMA InitApart == Init => KeptApart /\ DeploysInTurn /\ NoneForeign
BY DEF Init, KeptApart, PhaseKind, DeploysInTurn, NoneForeign, IsDeploy, Busy, Begun
-----------------------------------------------------------------------------
\* No deploy is of a newer version than the live one, unless the view is gone.
LiveIsNewest == \A e \in Deploys : live = 0 \/ e.version <= live

\* What a deploy or a reconciliation is about is no older than what is live.
UpToDate(r) ==
    Busy(r) /\ request[r].kind \in {"deploy", "reconcile"} =>
        /\ live <= version[r]
        /\ \A e \in Deploys : e.version <= version[r]
        /\ request[r].kind = "reconcile" /\ {"save", "reconcile"} \in Apart =>
             version[r] = Len(history)

\* How far a request has come with the version it is about.
OnTheWay(r) ==
    /\ phase[r] \in {"verify", "verified"} => live \in {0, version[r]}
    /\ phase[r] = "read" => \E e \in Deploys : e.version = version[r]
    /\ phase[r] = "compare" => compared[r] = version[r]
ResultsCompared ==
    \A e \in results : phase[e.request] = "done" /\ compared[e.request] = e.version
CompareInv == /\ LiveIsNewest
              /\ \A r \in Requests : UpToDate(r) /\ OnTheWay(r)
              /\ ResultsCompared

\* A preview is no deploy.
LEMMA PreviewKeepsDeploys ==
  ASSUME NEW r \in Requests, Preview(r)
  PROVE  Deploys' = Deploys
<1> DEFINE e == [request |-> r, version |-> version[r], mode |-> "preview",
                 diff |-> None, confirmed |-> FALSE]
<1>1. log' = log \cup {e} /\ e.mode = "preview"
  BY DEF Preview
<1> HIDE DEF e
<1> QED BY <1>1 DEF Deploys

\* A deploy is logged with its version.
LEMMA LogDeployAdds ==
  ASSUME NEW r \in Requests, LogDeploy(r)
  PROVE  \E d : Deploys' = Deploys \cup {d} /\ d.request = r /\ d.version = version[r]
<1> DEFINE d == [request |-> r, version |-> version[r], mode |-> "deploy",
                 diff |-> IF previous[r] = 0 THEN None
                          ELSE ColumnDiff(Names(PayloadOf(previous[r])), Names(PayloadOf(version[r]))),
                 confirmed |-> Production /\ request[r].confirmed]
<1>1. log' = log \cup {d} /\ d.mode = "deploy" /\ d.request = r /\ d.version = version[r]
  BY DEF LogDeploy
<1> HIDE DEF d
<1> QED BY <1>1 DEF Deploys

\* A result names its request and its version.
LEMMA SaveResultAdds ==
  ASSUME NEW r \in Requests, SaveResult(r)
  PROVE  \E e : /\ results' = results \cup {e} /\ e.request = r /\ e.version = version[r]
                /\ e.retired = {x.column : x \in {y \in rules : y.version = version[r] /\ y.retired}}
<1> DEFINE e == [request |-> r, version |-> version[r],
                 retired |-> {x.column : x \in {y \in rules : y.version = version[r] /\ y.retired}}]
<1>1. /\ results' = results \cup {e} /\ e.request = r /\ e.version = version[r]
      /\ e.retired = {x.column : x \in {y \in rules : y.version = version[r] /\ y.retired}}
  BY DEF SaveResult
<1> HIDE DEF e
<1> QED BY <1>1

\* A step of a request leaves the phases of the others.
LEMMA OneMoves ==
  ASSUME IInv, NEW r \in Requests, Moves(r)
  PROVE  /\ \A s \in Requests \ {r} : phase'[s] = phase[s] /\ (Busy(s)' <=> Busy(s))
         /\ \A s \in Requests : Busy(s)' => Busy(s)
<1>1. \A s \in Requests \ {r} : phase'[s] = phase[s]
  BY DEF IInv, TypeOK, Moves
<1> QED BY <1>1 DEF Busy, Moves

\* The versions of what is live and of what was logged exist.
LEMMA VersionsExist ==
  ASSUME TypeOK
  PROVE  /\ Len(history) \in Nat /\ live \in Nat /\ live <= Len(history)
         /\ \A e \in Deploys : e.version \in Nat /\ e.version <= Len(history)
         /\ \A r \in Requests : version[r] \in Nat /\ version[r] <= Len(history)
<1>1. Len(history) \in Nat
  BY DEF TypeOK
<1>2. \A e \in Deploys : e.version \in 1..Len(history)
  BY DEF TypeOK, Deploys, LogEntry
<1> QED BY <1>1, <1>2 DEF TypeOK

\* The hypothesis: deploys are apart, and reconciliations from deploys or saves.
ComparesApart ==
    /\ {"deploy"} \in Apart
    /\ {"deploy", "reconcile"} \in Apart \/ {"save", "reconcile"} \in Apart

\* When a deploy goes ahead with its version, no other deploy is in progress,
\* and no reconciliation that is about an older version.
LEMMA OthersUpToDate ==
  ASSUME ComparesApart, IInv, KeptApart, DeploysInTurn, CompareInv,
         NEW r \in Requests, Busy(r), request[r].kind = "deploy",
         NEW s \in Requests \ {r}, Busy(s), request[s].kind \in {"deploy", "reconcile"}
  PROVE  request[s].kind = "reconcile" /\ version[r] <= version[s]
<1>1. IsDeploy(r)
  BY DEF IsDeploy, Busy
<1>2. request[s].kind = "reconcile"
  BY <1>1 DEF DeploysInTurn, IsDeploy, Busy
<1>3. {request[r].kind, request[s].kind} \notin Apart
  BY DEF KeptApart
<1>4. {"save", "reconcile"} \in Apart
  BY <1>2, <1>3 DEF ComparesApart
<1>5. version[s] = Len(history)
  BY <1>2, <1>4 DEF CompareInv, UpToDate
<1>6. version[r] <= Len(history)
  BY VersionsExist DEF IInv
<1> QED BY <1>2, <1>5, <1>6

\* The DDL and the log entry of a deploy, and the gate, the reading and the result
\* of a reconciliation, each keep what the next of them relies on.
LEMMA CompareMoves ==
  ASSUME ComparesApart, IInv, KeptApart, DeploysInTurn, NoneForeign, CompareInv,
         NEW r \in Requests, Later(r)
  PROVE  CompareInv'
<1>1. /\ TypeOK /\ Len(history) \in Nat /\ live \in Nat /\ version[r] \in Nat
      /\ \A e \in Deploys : e.version \in Nat
  BY VersionsExist DEF IInv
<1>2. Moves(r)
  BY LaterMoves
<1>3. /\ ~request[r].foreign /\ Busy(r) /\ UNCHANGED <<history, version, request>>
      /\ \A s \in Requests \ {r} : phase'[s] = phase[s] /\ (Busy(s)' <=> Busy(s))
      /\ \A s \in Requests : Busy(s)' => Busy(s)
  BY <1>2, OneMoves DEF NoneForeign, Moves
<1>4. /\ UpToDate(r) /\ OnTheWay(r) /\ LiveIsNewest /\ ResultsCompared /\ PhaseKind(r)
      /\ \A s \in Requests : UpToDate(s) /\ OnTheWay(s)
  BY DEF CompareInv, KeptApart
<1>5. \A e \in results : e.request \in Requests \ {r} /\ phase'[e.request] = "done"
  BY <1>1, <1>3, <1>4 DEF ResultsCompared, Busy, Ended, TypeOK, Result
<1>6. ASSUME UNCHANGED <<live, results>>, Deploys' = Deploys,
             \A s \in Requests \ {r} : compared'[s] = compared[s], OnTheWay(r)'
      PROVE  CompareInv'
  <2>1. LiveIsNewest'
    BY <1>4, <1>6 DEF LiveIsNewest
  <2>2. ResultsCompared'
    BY <1>4, <1>5, <1>6 DEF ResultsCompared
  <2>3. \A s \in Requests : UpToDate(s)'
    BY <1>3, <1>4, <1>6 DEF UpToDate
  <2>4. \A s \in Requests \ {r} : OnTheWay(s)'
    BY <1>3, <1>4, <1>6 DEF OnTheWay
  <2> QED BY <1>6, <2>1, <2>2, <2>3, <2>4 DEF CompareInv
<1>7. CASE WriteRules(r) \/ FindPrevious(r) \/ Fail(r) \/ CheckDrift(r)
  <2>1. phase'[r] \notin {"verify", "verified", "read", "compare"}
    BY <1>1, <1>7 DEF WriteRules, FindPrevious, Fail, CheckDrift, TypeOK
  <2>2. UNCHANGED <<live, results, log, compared>>
    BY <1>7 DEF WriteRules, FindPrevious, Fail, CheckDrift
  <2> QED BY <1>6, <2>1, <2>2 DEF OnTheWay, Deploys
<1>8. CASE Preview(r)
  BY <1>1, <1>6, <1>8, PreviewKeepsDeploys DEF Preview, TypeOK, OnTheWay
<1>9. CASE Verify(r)
  <2>1. PICK outcome \in {"failed", "verification_failed", "verified"} :
          phase' = [phase EXCEPT ![r] = outcome]
    BY <1>9 DEF Verify
  <2>2. phase'[r] \notin {"read", "compare"} /\ UNCHANGED <<live, results, log, compared>>
    BY <1>1, <1>9, <2>1 DEF Verify, TypeOK
  <2>3. live \in {0, version[r]}
    BY <1>4, <1>9 DEF Verify, OnTheWay
  <2> QED BY <1>3, <1>6, <2>2, <2>3 DEF OnTheWay, Deploys
<1>10. CASE AlterView(r)
  <2>1. live' = version[r] /\ phase'[r] = "verify" /\ UNCHANGED <<log, results, compared>>
    BY <1>1, <1>10 DEF AlterView, TypeOK
  <2>2. Deploys' = Deploys /\ request[r].kind = "deploy"
    BY <1>10, <2>1 DEF Deploys, AlterView, IInv, DeployIsCleared, Deploying
  <2>3. LiveIsNewest'
    BY <1>3, <1>4, <2>1, <2>2 DEF LiveIsNewest, UpToDate
  <2>4. UpToDate(r)' /\ OnTheWay(r)'
    BY <1>1, <1>3, <1>4, <2>1, <2>2 DEF UpToDate, OnTheWay
  <2>5. ASSUME NEW s \in Requests \ {r} PROVE UpToDate(s)' /\ OnTheWay(s)'
    <3>1. UpToDate(s)'
      BY <1>1, <1>3, <1>4, <2>1, <2>2, OthersUpToDate DEF UpToDate
    <3>2. phase[s] \notin {"verify", "verified"}
      <4> SUFFICES ASSUME phase[s] \in {"verify", "verified"} PROVE FALSE
        OBVIOUS
      <4>1. request[s].kind = "deploy" /\ Busy(s)
        BY DEF IInv, DeployIsCleared, Deploying, Busy, Ended
      <4> QED BY <1>3, <2>2, <4>1, OthersUpToDate
    <3>3. OnTheWay(s)'
      BY <1>3, <1>4, <2>1, <2>2, <3>2 DEF OnTheWay
    <3> QED BY <3>1, <3>3
  <2>6. ResultsCompared'
    BY <1>4, <1>5, <2>1 DEF ResultsCompared
  <2> QED BY <2>3, <2>4, <2>5, <2>6 DEF CompareInv
<1>11. CASE LogDeploy(r)
  <2>1. PICK d : Deploys' = Deploys \cup {d} /\ d.version = version[r]
    BY <1>11, LogDeployAdds
  <2>2. live \in {0, version[r]} /\ phase'[r] = "done" /\ UNCHANGED <<live, results, compared>>
    BY <1>1, <1>4, <1>11 DEF LogDeploy, TypeOK, OnTheWay
  <2>3. request[r].kind = "deploy"
    BY <1>11 DEF LogDeploy, IInv, DeployIsCleared, Deploying
  <2>4. LiveIsNewest'
    BY <1>1, <1>4, <2>1, <2>2 DEF LiveIsNewest
  <2>5. UpToDate(r)' /\ OnTheWay(r)'
    BY <2>2 DEF UpToDate, OnTheWay, Busy, Ended
  <2>6. ASSUME NEW s \in Requests \ {r} PROVE UpToDate(s)' /\ OnTheWay(s)'
    <3>1. UpToDate(s)'
      BY <1>1, <1>3, <1>4, <2>1, <2>2, <2>3, OthersUpToDate DEF UpToDate
    <3>2. OnTheWay(s)'
      BY <1>3, <1>4, <2>1, <2>2 DEF OnTheWay
    <3> QED BY <3>1, <3>2
  <2>7. ResultsCompared'
    BY <1>4, <1>5, <2>2 DEF ResultsCompared
  <2> QED BY <2>4, <2>5, <2>6, <2>7 DEF CompareInv
<1>12. CASE CheckDeployed(r)
  <2>1. phase'[r] \notin {"verify", "verified", "compare"} /\ UNCHANGED <<live, results, log, compared>>
    BY <1>1, <1>12 DEF CheckDeployed, TypeOK
  <2>2. phase'[r] = "read" => \E e \in Deploys : e.version = version[r]
    BY <1>1, <1>12 DEF CheckDeployed, TypeOK
  <2> QED BY <1>3, <1>6, <2>1, <2>2 DEF OnTheWay, Deploys
\* What is read is of no older version than the deploy the gate found, and of no
\* newer one than the reconciliation is about.
<1>13. CASE ReadRows(r)
  <2>1. /\ phase' = [phase EXCEPT ![r] = IF live = 0 THEN "failed" ELSE "compare"]
        /\ compared' = [compared EXCEPT ![r] = live]
        /\ UNCHANGED <<live, results, log>>
    BY <1>3, <1>13 DEF ReadRows
  <2>2. PICK e \in Deploys : e.version = version[r]
    BY <1>4, <1>13 DEF ReadRows, OnTheWay
  <2>3. live <= version[r]
    BY <1>3, <1>4, <1>13 DEF ReadRows, PhaseKind, UpToDate
  <2>4. live = 0 \/ live = version[r]
    BY <1>1, <1>4, <2>2, <2>3 DEF LiveIsNewest
  <2>5. OnTheWay(r)'
    BY <1>1, <1>3, <2>1, <2>4 DEF OnTheWay, TypeOK
  <2>6. \A s \in Requests \ {r} : compared'[s] = compared[s]
    BY <1>1, <2>1 DEF TypeOK
  <2> QED BY <1>6, <2>1, <2>5, <2>6 DEF Deploys
<1>14. CASE SaveResult(r)
  <2>1. \E e : results' = results \cup {e} /\ e.request = r /\ e.version = version[r]
    BY <1>14, SaveResultAdds
  <2>2. compared[r] = version[r] /\ phase'[r] = "done" /\ UNCHANGED <<live, log, compared>>
    BY <1>1, <1>4, <1>14 DEF SaveResult, TypeOK, OnTheWay
  <2>3. Deploys' = Deploys
    BY <2>2 DEF Deploys
  <2>4. ResultsCompared'
    BY <1>4, <1>5, <2>1, <2>2 DEF ResultsCompared
  <2>5. LiveIsNewest' /\ \A s \in Requests : UpToDate(s)'
    BY <1>3, <1>4, <2>2, <2>3 DEF LiveIsNewest, UpToDate
  <2>6. \A s \in Requests : OnTheWay(s)'
    BY <1>3, <1>4, <2>2, <2>3 DEF OnTheWay
  <2> QED BY <2>4, <2>5, <2>6 DEF CompareInv
<1> QED BY <1>7, <1>8, <1>9, <1>10, <1>11, <1>12, <1>13, <1>14 DEF Later

\* What a request begins with is the newest version, and a save that makes a
\* newer one begins beside no reconciliation that saves keep apart from.
LEMMA CompareStep ==
  ASSUME ComparesApart, ~NamesVersions, IInv, KeptApart, DeploysInTurn, NoneForeign,
         CompareInv, [Next]_vars
  PROVE  CompareInv'
<1>1. /\ TypeOK /\ Len(history) \in Nat /\ live \in Nat /\ live <= Len(history)
      /\ \A e \in Deploys : e.version \in Nat /\ e.version <= Len(history)
      /\ \A r \in Requests : version[r] \in Nat
  BY VersionsExist DEF IInv
<1>2. ASSUME NEW r \in Requests, Starts(r) PROVE CompareInv'
  <2>1. PICK next \in {"saved", "loaded", "gate"} : phase' = [phase EXCEPT ![r] = next]
    BY <1>2 DEF Starts
  <2>2. /\ phase[r] = "idle" /\ phase'[r] = next
        /\ \A s \in Requests \ {r} : /\ phase'[s] = phase[s] /\ version'[s] = version[s]
                                     /\ request'[s] = request[s]
    BY <1>1, <1>2, <2>1 DEF Starts, TypeOK
  <2>3. UNCHANGED <<live, log, results, compared>> /\ Deploys' = Deploys
    BY <1>2 DEF Starts, Deploys
  <2>4. \A s \in Requests : OnTheWay(s)'
    <3>1. OnTheWay(r)'
      BY <2>2 DEF OnTheWay
    <3>2. \A s \in Requests \ {r} : OnTheWay(s)'
      BY <2>2, <2>3 DEF CompareInv, OnTheWay
    <3> QED BY <3>1, <3>2
  <2>5. UpToDate(r)'
    <3>1. version'[r] = Len(history') /\ Len(history) <= Len(history')
      BY <1>2 DEF Starts
    <3>2. Len(history') \in Nat
      <4>1. TypeOK'
        BY NextStep DEF IInv
      <4> QED BY <4>1 DEF TypeOK
    <3> QED BY <1>1, <2>3, <3>1, <3>2 DEF UpToDate
  <2>6. ASSUME NEW s \in Requests \ {r} PROVE UpToDate(s)'
    <3>1. Busy(s)' <=> Busy(s)
      BY <2>2 DEF Busy
    <3>2. Busy(s) /\ request[s].kind = "reconcile" /\ {"save", "reconcile"} \in Apart
            => Len(history') = Len(history)
      BY <1>2 DEF Starts
    <3> QED BY <2>2, <2>3, <3>1, <3>2 DEF CompareInv, UpToDate
  <2>7. \A e \in results : e.request \in Requests \ {r}
    BY <1>1, <1>2 DEF TypeOK, Result, Starts, CompareInv, ResultsCompared
  <2>8. LiveIsNewest' /\ ResultsCompared'
    BY <2>2, <2>3, <2>7 DEF CompareInv, LiveIsNewest, ResultsCompared
  <2> QED BY <2>4, <2>5, <2>6, <2>8 DEF CompareInv
<1>3. CASE Outside
  <2>1. /\ live' \in {live, 0} /\ Deploys' = Deploys
        /\ UNCHANGED <<results, phase, request, version, history, compared>>
    BY <1>3 DEF Outside, Deploys
  <2>2. LiveIsNewest' /\ ResultsCompared'
    BY <2>1 DEF CompareInv, LiveIsNewest, ResultsCompared
  <2>3. \A s \in Requests : OnTheWay(s)'
    BY <2>1 DEF CompareInv, OnTheWay
  <2>4. \A s \in Requests : UpToDate(s)'
    BY <1>1, <2>1 DEF CompareInv, UpToDate, Busy
  <2> QED BY <2>2, <2>3, <2>4 DEF CompareInv
<1> QED BY <1>2, <1>3, CompareMoves, StepKinds

-----------------------------------------------------------------------------
\* No payload lists a column twice and retires it once: validate_column_mappings
\* would let it, and the view and the reconciliation would disagree about it.
NoContradiction ==
    \A p \in Payloads : \A i, j \in DOMAIN p :
        p[i].column = p[j].column => p[i].retired = p[j].retired

Agrees(e) ==
    /\ e.version \in 1..Len(history)
    /\ \/ e.retired = RetiredIn(e.version)
       \/ e.retired = {} /\ \A x \in rules : x.version # e.version
\* A version that has yet to get its rules was not reconciled.
RetiredInv ==
    /\ \A e \in results : Agrees(e)
    /\ \A r \in Requests : phase[r] = "saved" => \A e \in results : e.version # version[r]

\* What the rules of a version call Retired is what its payload retires.
LEMMA ForgivenRules ==
  ASSUME NEW n
  PROVE  {x.column : x \in {y \in RulesOf(n) : y.retired}} = ForgivenBy(PayloadOf(n))
<1> DEFINE p == PayloadOf(n)
           Bad == {i \in DOMAIN p : p[i].retired}
<1>1. ForgivenBy(p) = {p[i].column : i \in Bad}
  BY DEF ForgivenBy
<1> HIDE DEF p
<1>2. ASSUME NEW x \in {y \in RulesOf(n) : y.retired} PROVE x.column \in {p[i].column : i \in Bad}
  <2>1. PICK i \in DOMAIN p : x.column = p[i].column /\ x.retired = p[i].retired
    BY DEF RulesOf, p
  <2> QED BY <2>1
<1>3. ASSUME NEW i \in Bad PROVE p[i].column \in {x.column : x \in {y \in RulesOf(n) : y.retired}}
  <2> DEFINE x == [version |-> n, entry |-> i, column |-> p[i].column, retired |-> p[i].retired]
  <2>1. x \in RulesOf(n)
    BY DEF RulesOf, p
  <2>2. x.retired /\ x.column = p[i].column
    OBVIOUS
  <2> HIDE DEF x
  <2> QED BY <2>1, <2>2
<1>4. {x.column : x \in {y \in RulesOf(n) : y.retired}} = ForgivenBy(p)
  BY <1>1, <1>2, <1>3
<1> QED BY <1>4 DEF p

\* What the view casts to NULL and what the rules call Retired are the same.
LEMMA RetiredRules ==
  ASSUME NoContradiction, TypeOK, NEW n \in 1..Len(history)
  PROVE  {x.column : x \in {y \in RulesOf(n) : y.retired}} = RetiredIn(n)
<1> DEFINE p == PayloadOf(n)
           Bad == {i \in DOMAIN p : p[i].retired}
<1>1. p \in Payloads /\ p \in Seq(Mapping)
  <2>1. history[n] \in Saved!Entry
    BY DEF TypeOK
  <2> QED BY <2>1, ViewAssumption DEF Saved!Entry, PayloadOf
<1>2. {x.column : x \in {y \in RulesOf(n) : y.retired}} = {p[i].column : i \in Bad}
  BY ForgivenRules DEF ForgivenBy
<1>3. ASSUME NEW i \in Bad PROVE p[i].column \in RetiredIn(n)
  <2> DEFINE Same == {j \in DOMAIN p : p[j].column = p[i].column}
  <2>1. Len(p) \in Nat /\ DOMAIN p = 1..Len(p)
    BY <1>1
  <2>2. Same \in SUBSET (0..Len(p)) /\ Same # {}
    BY <2>1
  <2>3. PICK k \in Same : \A j \in Same : j <= k
    BY <2>1, <2>2, LargestExists
  <2>4. p[k].retired /\ p[k].column = p[i].column
    BY <1>1, <2>3 DEF NoContradiction
  <2>5. \A j \in DOMAIN p : j > k => p[j].column # p[i].column
    <3> SUFFICES ASSUME NEW j \in DOMAIN p, j > k, p[j].column = p[i].column PROVE FALSE
      OBVIOUS
    <3>1. j <= k /\ j \in Nat /\ k \in Nat
      BY <2>1, <2>3
    <3> QED BY <3>1
  <2>6. p[i].column \in Columns
    <3>1. p[i] \in Mapping
      BY <1>1
    <3> QED BY <3>1 DEF Mapping
  <2>7. k \in DOMAIN p
    BY <2>3
  <2> HIDE DEF p
  <2> QED BY <2>4, <2>5, <2>6, <2>7 DEF RetiredIn, p
<1>4. RetiredIn(n) \subseteq {p[i].column : i \in Bad}
  BY DEF RetiredIn
<1> QED BY <1>2, <1>3, <1>4

\* A save leaves what was reconciled, and its own version was not.
LEMMA RetiredStarts ==
  ASSUME IInv, IInv', RetiredInv, NEW r \in Requests, Starts(r)
  PROVE  RetiredInv'
<1>1. TypeOK /\ Len(history) \in Nat /\ Len(history') \in Nat
  <2>1. TypeOK /\ TypeOK'
    BY DEF IInv
  <2>2. history \in Seq(Saved!Entry) /\ history' \in Seq(Saved!Entry)
    BY <2>1 DEF TypeOK
  <2> QED BY <2>1, <2>2
<1>2. PICK next \in {"saved", "loaded", "gate"} : phase' = [phase EXCEPT ![r] = next]
  BY DEF Starts
<1>3. /\ UNCHANGED <<rules, results>> /\ Len(history) <= Len(history')
      /\ \A n \in 1..Len(history) : history'[n] = history[n]
  BY DEF Starts
<1>4. ASSUME NEW e \in results PROVE Agrees(e)'
  <2>1. e.version \in 1..Len(history) /\ Agrees(e)
    BY DEF RetiredInv, Agrees
  <2>2. RetiredIn(e.version)' = RetiredIn(e.version)
    BY <1>3, <2>1 DEF RetiredIn, PayloadOf
  <2> QED BY <1>1, <1>3, <2>1, <2>2 DEF Agrees
<1>5. ASSUME NEW s \in Requests, phase'[s] = "saved", NEW e \in results
      PROVE  e.version # version'[s]
  <2>1. CASE s = r
    <3>1. version'[r] = Len(history) + 1
      BY <1>5, <2>1 DEF Starts
    <3>2. e.version \in 1..Len(history)
      BY DEF RetiredInv, Agrees
    <3> QED BY <1>1, <2>1, <3>1, <3>2
  <2>2. CASE s # r
    <3>1. phase[s] = "saved" /\ version'[s] = version[s]
      BY <1>1, <1>2, <1>5, <2>2 DEF Starts, TypeOK
    <3> QED BY <3>1 DEF RetiredInv
  <2> QED BY <2>1, <2>2
<1> QED BY <1>3, <1>4, <1>5 DEF RetiredInv

\* Rules come before the version can be reconciled, or not at all.
LEMMA RetiredMoves ==
  ASSUME {"save", "reconcile"} \in Apart, NoContradiction, IInv, KeptApart, RetiredInv,
         NEW r \in Requests, Later(r)
  PROVE  RetiredInv'
<1>1. TypeOK /\ version[r] \in 1..Len(history) /\ Moves(r)
  BY LaterMoves DEF IInv, HasVersion, Moves, Busy
<1>2. UNCHANGED version /\ \A s \in Requests : phase'[s] = "saved" => phase[s] = "saved"
  BY <1>1 DEF Moves, TypeOK
<1>3. history' = history
  BY <1>1 DEF Moves
<1>4. CASE UNCHANGED <<rules, results>>
  <2>1. \A e \in results : Agrees(e)'
    BY <1>3, <1>4 DEF RetiredInv, Agrees, RetiredIn, PayloadOf
  <2> QED BY <1>2, <1>4, <2>1 DEF RetiredInv
<1>5. CASE WriteRules(r)
  <2>1. phase[r] = "saved" /\ rules' = rules \cup RulesOf(version[r]) /\ results' = results
    BY <1>5 DEF WriteRules
  <2>2. \A x \in RulesOf(version[r]) : x.version = version[r]
    BY DEF RulesOf
  <2>3. ASSUME NEW e \in results PROVE Agrees(e)'
    <3>1. Agrees(e) /\ e.version # version[r]
      BY <2>1 DEF RetiredInv
    <3>2. RetiredIn(e.version)' = RetiredIn(e.version)
      BY <1>3 DEF RetiredIn, PayloadOf
    <3> QED BY <1>3, <2>1, <2>2, <3>1, <3>2 DEF Agrees
  <2> QED BY <1>2, <2>1, <2>3 DEF RetiredInv
<1>6. CASE SaveResult(r)
  <2>1. PICK e : /\ results' = results \cup {e} /\ e.version = version[r]
                 /\ e.retired = {x.column : x \in {y \in rules : y.version = version[r] /\ y.retired}}
    BY <1>6, SaveResultAdds
  <2>2. rules' = rules
    BY <1>6 DEF SaveResult
  <2>3. {x \in rules : x.version = version[r]} \in {{}, RulesOf(version[r])}
    BY <1>1 DEF IInv, RulesDescribeTheirVersion
  <2>4. e.retired = {x.column : x \in {y \in {z \in rules : z.version = version[r]} : y.retired}}
    BY <2>1
  <2>5. Agrees(e)
    <3>1. CASE {x \in rules : x.version = version[r]} = {}
      BY <1>1, <2>1, <2>4, <3>1 DEF Agrees
    <3>2. CASE {x \in rules : x.version = version[r]} = RulesOf(version[r])
      BY <1>1, <2>1, <2>4, <3>2, RetiredRules DEF Agrees
    <3> QED BY <2>3, <3>1, <3>2
  <2>6. \A d \in results' : Agrees(d)'
    <3>1. \A d \in results' : Agrees(d)
      BY <2>1, <2>5 DEF RetiredInv
    <3>2. \A n : RetiredIn(n)' = RetiredIn(n)
      BY <1>3 DEF RetiredIn, PayloadOf
    <3> QED BY <1>3, <2>2, <3>1, <3>2 DEF Agrees
  <2>7. \A s \in Requests : phase[s] # "saved"
    <3> SUFFICES ASSUME NEW s \in Requests, phase[s] = "saved" PROVE FALSE
      OBVIOUS
    <3>1. /\ Busy(s) /\ request[s].kind = "save"
          /\ Busy(r) /\ request[r].kind = "reconcile"
      BY <1>6 DEF KeptApart, PhaseKind, SaveResult, Busy, Ended
    <3> QED BY <3>1 DEF KeptApart
  <2> QED BY <1>2, <2>6, <2>7 DEF RetiredInv
<1>7. WriteRules(r) \/ SaveResult(r) \/ UNCHANGED <<rules, results>>
  BY DEF Later, CheckDrift, Preview, FindPrevious, AlterView, Verify, LogDeploy, CheckDeployed,
         ReadRows, Fail
<1> QED BY <1>4, <1>5, <1>6, <1>7

LEMMA RetiredStep ==
  ASSUME {"save", "reconcile"} \in Apart, NoContradiction, IInv, KeptApart, RetiredInv,
         [Next]_vars
  PROVE  RetiredInv'
<1>1. IInv'
  BY NextStep
<1>2. CASE Outside
  BY <1>2 DEF Outside, RetiredInv, Agrees, RetiredIn, PayloadOf
<1> QED BY <1>1, <1>2, RetiredStarts, RetiredMoves, StepKinds

-----------------------------------------------------------------------------
\* The request whose DDL made the view what it is; it is newer than every deploy
\* but its own.
Put(r) ==
    /\ request[r].kind = "deploy" /\ version[r] = live
    /\ phase[r] \in {"verify", "verified", "failed", "done"}
    /\ phase[r] = "done" => \E d \in Deploys : d.request = r
    /\ \A d \in Deploys : d.request = r \/ started[d.request] < started[r]

\* A diff is relative to the version that was live, or a deploy that failed after
\* its DDL, newer than every deploy that was logged by then, put that one there.
NotMisled(r) ==
    previous[r] # replaced[r] =>
        \E q \in Requests :
            /\ request[q].kind = "deploy" /\ phase[q] = "failed" /\ version[q] = replaced[r]
            /\ started[q] < started[r]
            /\ \A d \in Deploys : started[d.request] < started[r] => started[d.request] < started[q]

FoundLatest(r) ==
    IF Deploys = {} THEN previous[r] = 0
    ELSE \E l \in Deploys : /\ previous[r] = l.version
                            /\ \A d \in Deploys : started[d.request] <= started[l.request]

DeploysDone == \A d \in Deploys : /\ phase[d.request] = "done" /\ d.version = version[d.request]
                                  /\ request[d.request].kind = "deploy"
                                  /\ NotMisled(d.request)
SomebodyPutIt == (live = 0 /\ Deploys = {}) \/ \E r \in Requests : Put(r)
DeployInv(r) ==
    /\ phase[r] = "ddl" => FoundLatest(r)
    /\ phase[r] \in {"verify", "verified"} => live = version[r] /\ NotMisled(r)
DiffInv == DeploysDone /\ SomebodyPutIt /\ \A r \in Requests : DeployInv(r)

LEMMA DeployRequests == TypeOK => \A d \in Deploys : d.request \in Requests
BY DEF TypeOK, Deploys, LogEntry

\* What explains a diff stays, and only a newer deploy is logged.
LEMMA NotMisledStays ==
  ASSUME NEW s \in Requests, NotMisled(s),
         previous'[s] = previous[s], replaced'[s] = replaced[s], started'[s] = started[s],
         \A q \in Requests : phase[q] = "failed" =>
            /\ phase'[q] = "failed" /\ request'[q] = request[q] /\ version'[q] = version[q]
            /\ started'[q] = started[q],
         \A d \in Deploys' : started'[d.request] < started'[s] =>
            d \in Deploys /\ started'[d.request] = started[d.request]
  PROVE  NotMisled(s)'
BY DEF NotMisled

\* A request that begins explains no diff and has none.
LEMMA DiffStarts ==
  ASSUME IInv, DiffInv, NEW r \in Requests, Starts(r)
  PROVE  DiffInv'
<1>1. TypeOK /\ \A d \in Deploys : d.request \in Requests
  BY DeployRequests DEF IInv
<1>2. PICK next \in {"saved", "loaded", "gate"} : phase' = [phase EXCEPT ![r] = next]
  BY DEF Starts
<1>3. /\ phase[r] = "idle" /\ phase'[r] = next
      /\ \A s \in Requests \ {r} : /\ phase'[s] = phase[s] /\ version'[s] = version[s]
                                   /\ request'[s] = request[s] /\ started'[s] = started[s]
  BY <1>1, <1>2 DEF Starts, TypeOK
<1>4. UNCHANGED <<live, log, previous, replaced>> /\ Deploys' = Deploys
  BY DEF Starts, Deploys
<1>5. \A d \in Deploys : d.request \in Requests \ {r}
  BY <1>1, <1>3 DEF DiffInv, DeploysDone
<1>6. ASSUME NEW s \in Requests \ {r}, NotMisled(s) PROVE NotMisled(s)'
  BY <1>3, <1>4, <1>5, <1>6, NotMisledStays
<1>7. DeploysDone'
  BY <1>3, <1>4, <1>5, <1>6 DEF DiffInv, DeploysDone
<1>8. SomebodyPutIt'
  <2>1. CASE live = 0 /\ Deploys = {}
    BY <1>4, <2>1 DEF SomebodyPutIt
  <2>2. ASSUME NEW s \in Requests, Put(s) PROVE Put(s)'
    BY <1>3, <1>4, <1>5, <2>2 DEF Put
  <2> QED BY <2>1, <2>2 DEF DiffInv, SomebodyPutIt
<1>9. ASSUME NEW s \in Requests PROVE DeployInv(s)'
  <2>1. CASE s = r
    BY <1>3, <2>1 DEF DeployInv
  <2>2. CASE s # r
    BY <1>3, <1>4, <1>5, <1>6, <2>2 DEF DiffInv, DeployInv, FoundLatest
  <2> QED BY <2>1, <2>2
<1> QED BY <1>7, <1>8, <1>9 DEF DiffInv

\* A step that neither deploys nor looks for deploys.
LEMMA DiffQuiet ==
  ASSUME IInv, DiffInv, NEW r \in Requests, Moves(r),
         Deploys' = Deploys, UNCHANGED <<live, replaced>>,
         \A s \in Requests \ {r} : previous'[s] = previous[s],
         phase[r] \in {"verify", "verified"} => phase'[r] \in {"verified", "failed"},
         phase'[r] = "ddl" => FoundLatest(r)',
         phase'[r] # "verify",
         phase'[r] = "verified" => phase[r] = "verify" /\ previous'[r] = previous[r]
  PROVE  DiffInv'
<1>1. TypeOK /\ \A d \in Deploys : d.request \in Requests
  BY DeployRequests DEF IInv
<1>2. /\ \A s \in Requests \ {r} : phase'[s] = phase[s]
      /\ UNCHANGED <<request, version, started>> /\ Busy(r)
  BY OneMoves DEF Moves
<1>3. \A s \in Requests : phase[s] \in {"done", "failed"} => s # r
  BY <1>2 DEF Busy, Ended
<1>4. \A d \in Deploys : d.request \in Requests \ {r}
  BY <1>1, <1>3 DEF DiffInv, DeploysDone
<1>5. ASSUME NEW s \in Requests, NotMisled(s), previous'[s] = previous[s] PROVE NotMisled(s)'
  BY <1>2, <1>3, <1>5, NotMisledStays
<1>6. DeploysDone'
  BY <1>2, <1>4, <1>5 DEF DiffInv, DeploysDone
<1>7. SomebodyPutIt'
  <2>1. CASE live = 0 /\ Deploys = {}
    BY <2>1 DEF SomebodyPutIt
  <2>2. ASSUME NEW s \in Requests, Put(s) PROVE Put(s)'
    <3>1. phase'[s] = phase[s] \/ (s = r /\ phase'[s] \in {"verified", "failed"})
      BY <1>2, <1>3, <2>2 DEF Put
    <3> QED BY <1>2, <2>2, <3>1 DEF Put
  <2> QED BY <2>1, <2>2 DEF DiffInv, SomebodyPutIt
<1>8. ASSUME NEW s \in Requests PROVE DeployInv(s)'
  <2>1. CASE s = r
    <3>1. phase'[r] = "verified" => live = version[r] /\ NotMisled(r)'
      BY <1>5 DEF DiffInv, DeployInv
    <3> QED BY <1>2, <2>1, <3>1 DEF DeployInv
  <2>2. CASE s # r
    BY <1>2, <1>5, <2>2 DEF DiffInv, DeployInv, FoundLatest
  <2> QED BY <2>1, <2>2
<1> QED BY <1>6, <1>7, <1>8 DEF DiffInv

\* While a deploy changes the view or logs, no other deploy is in progress.
LEMMA AlterOrLogAlone ==
  ASSUME IInv, DeploysInTurn, NEW r \in Requests, AlterView(r) \/ LogDeploy(r)
  PROVE  /\ Busy(r) /\ IsDeploy(r)
         /\ \A s \in Requests \ {r} : /\ phase'[s] = phase[s]
                                      /\ IsDeploy(s) => ~Busy(s) /\ started[s] < started[r]
<1>1. Moves(r)
  BY LaterMoves DEF Later
<1>2. IsDeploy(r)
  BY DEF IInv, DeployIsCleared, Deploying, IsDeploy, AlterView, LogDeploy
<1> QED BY <1>1, <1>2, OneMoves DEF Moves, DeploysInTurn

\* The newest logged deploy is the one that put the live version there, or the
\* one that did failed after it.
LEMMA AlterNotMisled ==
  ASSUME IInv, DeploysInTurn, DiffInv, NEW r \in Requests, AlterView(r)
  PROVE  NotMisled(r)'
<1>1. TypeOK /\ \A d \in Deploys : d.request \in Requests
  BY DeployRequests DEF IInv
<1>2. /\ phase[r] = "ddl" /\ FoundLatest(r) /\ replaced'[r] = live
      /\ UNCHANGED <<log, version, request, started, previous>> /\ Deploys' = Deploys
  BY <1>1 DEF TypeOK, AlterView, DiffInv, DeployInv, Deploys, locals
<1>3. /\ Busy(r)
      /\ \A s \in Requests \ {r} : /\ phase'[s] = phase[s]
                                   /\ IsDeploy(s) => ~Busy(s) /\ started[s] < started[r]
  BY AlterOrLogAlone
<1>4. CASE live = 0 /\ Deploys = {}
  BY <1>2, <1>4 DEF FoundLatest, NotMisled
<1>5. ASSUME NEW q \in Requests, Put(q) PROVE NotMisled(r)'
  <2>1. q # r /\ phase[q] \in {"failed", "done"} /\ started[q] < started[r]
    <3>1. q # r
      BY <1>2, <1>5 DEF Put
    <3>2. IsDeploy(q)
      BY <1>5 DEF Put, IsDeploy
    <3>3. ~Busy(q) /\ started[q] < started[r]
      BY <1>3, <3>1, <3>2
    <3> QED BY <1>5, <3>1, <3>3 DEF Put, Busy, Ended
  <2>2. CASE phase[q] = "done"
    <3>1. PICK d \in Deploys : d.request = q
      BY <1>5, <2>2 DEF Put
    <3>2. PICK l \in Deploys : previous[r] = l.version /\ started[d.request] <= started[l.request]
      BY <1>2, <3>1 DEF FoundLatest
    <3>3. started[q] \in Int /\ started[l.request] \in Int
      BY <1>1 DEF TypeOK
    <3>4. l.request = q
      BY <1>5, <3>1, <3>2, <3>3 DEF Put
    <3>5. previous[r] = live
      BY <1>5, <3>2, <3>4 DEF DiffInv, DeploysDone, Put
    <3> QED BY <1>2, <3>5 DEF NotMisled
  <2>3. CASE phase[q] = "failed"
    <3>1. \A d \in Deploys : started[d.request] < started[q]
      BY <1>5, <2>3 DEF DiffInv, DeploysDone, Put
    <3>2. phase'[q] = "failed"
      BY <1>3, <2>1, <2>3
    <3> QED BY <1>2, <1>5, <2>1, <3>1, <3>2 DEF NotMisled, Put
  <2> QED BY <2>1, <2>2, <2>3
<1> QED BY <1>4, <1>5 DEF DiffInv, SomebodyPutIt

\* The DDL of a deploy makes it the one that put the live version there.
LEMMA DiffAlters ==
  ASSUME IInv, DeploysInTurn, DiffInv, NEW r \in Requests, AlterView(r)
  PROVE  DiffInv'
<1>1. TypeOK /\ \A d \in Deploys : d.request \in Requests
  BY DeployRequests DEF IInv
<1>2. /\ phase'[r] = "verify" /\ live' = version[r] /\ request[r].kind = "deploy"
      /\ \A s \in Requests \ {r} : replaced'[s] = replaced[s]
      /\ UNCHANGED <<log, version, request, started, previous>> /\ Deploys' = Deploys
  BY <1>1 DEF IInv, TypeOK, AlterView, Deploys, locals, DeployIsCleared, Deploying
<1>3. /\ Busy(r)
      /\ \A s \in Requests \ {r} : /\ phase'[s] = phase[s]
                                   /\ IsDeploy(s) => ~Busy(s) /\ started[s] < started[r]
  BY AlterOrLogAlone
<1>4. \A s \in Requests : phase[s] \in {"done", "failed"} => s # r
  BY <1>3 DEF Busy, Ended
<1>5. \A d \in Deploys : d.request \in Requests \ {r} /\ started[d.request] < started[r]
  BY <1>1, <1>3, <1>4 DEF DiffInv, DeploysDone, IsDeploy
<1>6. ASSUME NEW s \in Requests \ {r}, NotMisled(s) PROVE NotMisled(s)'
  BY <1>2, <1>3, <1>4, <1>6, NotMisledStays
<1>7. DeploysDone'
  BY <1>2, <1>3, <1>5, <1>6 DEF DiffInv, DeploysDone
<1>8. Put(r)'
  BY <1>2, <1>5 DEF Put
<1>9. ASSUME NEW s \in Requests PROVE DeployInv(s)'
  <2>1. CASE s = r
    BY <1>2, <2>1, AlterNotMisled DEF DeployInv
  <2>2. CASE s # r
    <3>1. phase[s] \notin Deploying
      <4>1. phase[s] \in Deploying => IsDeploy(s) /\ Busy(s)
        BY DEF IInv, DeployIsCleared, IsDeploy, Deploying, Busy, Ended
      <4> QED BY <1>3, <2>2, <4>1
    <3> QED BY <1>3, <2>2, <3>1 DEF DeployInv, Deploying
  <2> QED BY <2>1, <2>2
<1> QED BY <1>7, <1>8, <1>9 DEF DiffInv, SomebodyPutIt

\* An entry makes its deploy the latest one, and misleads no earlier entry.
LEMMA DiffLogs ==
  ASSUME IInv, DeploysInTurn, DiffInv, NEW r \in Requests, LogDeploy(r)
  PROVE  DiffInv'
<1>1. TypeOK /\ \A d \in Deploys : d.request \in Requests
  BY DeployRequests DEF IInv
<1>2. PICK new : Deploys' = Deploys \cup {new} /\ new.request = r /\ new.version = version[r]
  BY LogDeployAdds
<1>3. /\ phase[r] = "verified" /\ phase'[r] = "done" /\ request[r].kind = "deploy"
      /\ live = version[r] /\ NotMisled(r)
      /\ UNCHANGED <<live, version, request, started, previous, replaced>>
  BY <1>1 DEF IInv, TypeOK, LogDeploy, locals, ghosts, DeployIsCleared, Deploying, DiffInv, DeployInv
<1>4. /\ Busy(r)
      /\ \A s \in Requests \ {r} : /\ phase'[s] = phase[s]
                                   /\ IsDeploy(s) => ~Busy(s) /\ started[s] < started[r]
  BY AlterOrLogAlone
<1>5. \A s \in Requests : phase[s] \in {"done", "failed"} => s # r
  BY <1>4 DEF Busy, Ended
<1>6. \A d \in Deploys : d.request \in Requests \ {r} /\ started[d.request] < started[r]
  BY <1>1, <1>4, <1>5 DEF DiffInv, DeploysDone, IsDeploy
<1>7. ASSUME NEW s \in Requests, NotMisled(s), s = r \/ started[s] < started[r] PROVE NotMisled(s)'
  <2>1. started[s] \in Int /\ started[r] \in Int
    BY <1>1 DEF TypeOK
  <2>2. ~ (started[r] < started[s])
    BY <1>7, <2>1
  <2> QED BY <1>2, <1>3, <1>4, <1>5, <1>7, <2>2, NotMisledStays
<1>8. DeploysDone'
  BY <1>2, <1>3, <1>4, <1>6, <1>7 DEF DiffInv, DeploysDone
<1>9. Put(r)'
  BY <1>2, <1>3, <1>6 DEF Put
<1>10. ASSUME NEW s \in Requests PROVE DeployInv(s)'
  <2>1. CASE s = r
    BY <1>3, <2>1 DEF DeployInv
  <2>2. CASE s # r
    <3>1. phase[s] \notin Deploying
      <4>1. phase[s] \in Deploying => IsDeploy(s) /\ Busy(s)
        BY DEF IInv, DeployIsCleared, IsDeploy, Deploying, Busy, Ended
      <4> QED BY <1>4, <2>2, <4>1
    <3> QED BY <1>4, <2>2, <3>1 DEF DeployInv, Deploying
  <2> QED BY <2>1, <2>2
<1> QED BY <1>8, <1>9, <1>10 DEF DiffInv, SomebodyPutIt

\* Deploys are searched for the latest by what the store stamped on them.
LEMMA DiffFinds ==
  ASSUME NoneForeign, IInv, NEW r \in Requests, FindPrevious(r)
  PROVE  FoundLatest(r)'
<1>1. TypeOK /\ ~request[r].foreign
  BY DEF IInv, NoneForeign
<1>2. /\ previous'[r] = IF Deploys = {} THEN 0 ELSE Latest.version
      /\ UNCHANGED <<log, started>> /\ Deploys' = Deploys
  BY <1>1 DEF TypeOK, FindPrevious, Deploys, locals
<1>3. Deploys # {} => Latest \in Deploys /\ \A d \in Deploys : started[d.request] <= started[Latest.request]
  BY <1>1, LatestExists
<1> QED BY <1>2, <1>3 DEF FoundLatest

LEMMA DiffStep ==
  ASSUME ~Interference, IInv, DeploysInTurn, NoneForeign, DiffInv, [Next]_vars
  PROVE  DiffInv'
<1>1. CASE Outside
  BY <1>1 DEF Outside, DiffInv, DeploysDone, SomebodyPutIt, Put, DeployInv, FoundLatest, NotMisled,
     Deploys
<1>2. ASSUME NEW r \in Requests, Later(r) PROVE DiffInv'
  <2>1. TypeOK /\ Moves(r) /\ Busy(r)
    BY <1>2, LaterMoves DEF IInv, Moves
  <2>2. CASE Preview(r)
    BY <2>1, <2>2, PreviewKeepsDeploys, DiffQuiet DEF Preview, ghosts, TypeOK
  <2>3. CASE FindPrevious(r)
    BY <2>1, <2>3, DiffFinds, DiffQuiet DEF FindPrevious, ghosts, TypeOK, Deploys
  <2>4. CASE Verify(r)
    <3>1. ~request[r].foreign /\ live = version[r] /\ version[r] # 0
      BY <2>1, <2>4 DEF NoneForeign, DiffInv, DeployInv, Verify, IInv, HasVersion
    <3>2. PICK outcome \in {"failed", "verified"} : phase' = [phase EXCEPT ![r] = outcome]
      BY <2>4, <3>1 DEF Verify, Output
    <3>3. Deploys' = Deploys /\ UNCHANGED <<live, replaced, previous>> /\ phase[r] = "verify"
      BY <2>4 DEF Verify, ghosts, Deploys
    <3> QED BY <2>1, <3>2, <3>3, DiffQuiet DEF TypeOK
  <2>5. CASE WriteRules(r) \/ CheckDrift(r) \/ Fail(r)
    <3>1. Deploys' = Deploys /\ UNCHANGED <<live, replaced, previous>>
      BY <2>5 DEF WriteRules, CheckDrift, Fail, ghosts, Deploys
    <3>2. /\ phase'[r] \in {"done", "schema_mismatch", "needs_confirmation", "checked", "failed"}
          /\ phase[r] \in {"verify", "verified"} => phase'[r] = "failed"
      BY <2>1, <2>5 DEF WriteRules, CheckDrift, Fail, TypeOK
    <3> QED BY <2>1, <3>1, <3>2, DiffQuiet
  <2>6. CASE CheckDeployed(r) \/ ReadRows(r) \/ SaveResult(r)
    <3>1. Deploys' = Deploys /\ UNCHANGED <<live, replaced, previous>>
      BY <2>6 DEF CheckDeployed, ReadRows, SaveResult, ghosts, Deploys
    <3>2. /\ phase'[r] \in {"read", "not_deployed", "failed", "compare", "done"}
          /\ phase[r] \notin {"verify", "verified"}
      BY <2>1, <2>6 DEF CheckDeployed, ReadRows, SaveResult, TypeOK
    <3> QED BY <2>1, <3>1, <3>2, DiffQuiet
  <2> QED BY <1>2, <2>2, <2>3, <2>4, <2>5, <2>6, DiffAlters, DiffLogs DEF Later
<1> QED BY <1>1, <1>2, DiffStarts, StepKinds

-----------------------------------------------------------------------------
\* When deploys do not overlap each other, nor reconciliations deploys or else
\* saves, and no request names a version, a reconciliation compares the version
\* it is recorded under, though requests fail between any two of their steps and
\* the owners of the databases interfere.
THEOREM ReconciledVersionIsLiveApart ==
  ASSUME ComparesApart, ~NamesVersions
  PROVE  Spec => []ReconciledVersionIsLive
<1> DEFINE I == IInv /\ KeptApart /\ DeploysInTurn /\ NoneForeign /\ CompareInv
<1>1. Init => I
  BY InitIInv, InitApart DEF Init, CompareInv, LiveIsNewest, UpToDate, OnTheWay,
     ResultsCompared, Deploys, Busy
<1>2. I /\ [Next]_vars => I'
  BY NextStep, KeptApartStep, DeploysInTurnStep, NoneForeignStep, CompareStep DEF ComparesApart
<1>3. I => ReconciledVersionIsLive
  BY DEF CompareInv, ResultsCompared, ReconciledVersionIsLive
<1> QED BY <1>1, <1>2, <1>3, PTL DEF Spec

\* When no save overlaps a reconciliation, whatever versions are named and
\* whatever else overlaps, a reconciliation forgives what the view casts to NULL,
\* of every payload that says of each column one thing.
THEOREM RetiredColumnsAgreeApart ==
  ASSUME {"save", "reconcile"} \in Apart, NoContradiction
  PROVE  Spec => []RetiredColumnsAgree
<1> DEFINE I == IInv /\ KeptApart /\ RetiredInv
<1>1. Init => I
  BY InitIInv, InitApart DEF Init, RetiredInv
<1>2. I /\ [Next]_vars => I'
  BY NextStep, KeptApartStep, RetiredStep
<1>3. I => RetiredColumnsAgree
  BY DEF RetiredInv, Agrees, RetiredColumnsAgree
<1> QED BY <1>1, <1>2, <1>3, PTL DEF Spec

\* When deploys do not overlap each other and no request names a version, and the
\* view is nobody else's, a diff is relative to what was live unless a deploy
\* failed between its DDL and its log entry, whatever is saved and reconciled
\* meanwhile.
THEOREM OnlyUnloggedDeploysMisleadApart ==
  ASSUME {"deploy"} \in Apart, ~NamesVersions, ~Interference
  PROVE  Spec => []OnlyUnloggedDeploysMislead
<1> DEFINE I == IInv /\ KeptApart /\ DeploysInTurn /\ NoneForeign /\ DiffInv
<1>1. Init => I
  BY InitIInv, InitApart DEF Init, DiffInv, DeploysDone, SomebodyPutIt, DeployInv, Deploys
<1>2. I /\ [Next]_vars => I'
  BY NextStep, KeptApartStep, DeploysInTurnStep, NoneForeignStep, DiffStep
<1>3. I => OnlyUnloggedDeploysMislead
  BY DEF DiffInv, DeploysDone, NotMisled, OnlyUnloggedDeploysMislead
<1> QED BY <1>1, <1>2, <1>3, PTL DEF Spec

-----------------------------------------------------------------------------
(***************************************************************************)
(* What a result rests on, whatever overlaps.                              *)
(***************************************************************************)
\* Somebody who was entitled to put version n there did or is about to.
PutThere(n) ==
    \E q \in Requests : /\ request[q].kind = "deploy" /\ version[q] = n /\ Cleared(q)
                        /\ phase[q] \in Settled
WasDeployed(n) == \E d \in Deploys : d.version = n
Founded(r) == WasDeployed(version[r]) /\ (~request[r].foreign => PutThere(compared[r]))

RequestFounded(r) ==
    /\ phase[r] = "read" => WasDeployed(version[r])
    /\ phase[r] = "compare" => Founded(r)
DeploysConfirmed == \A d \in Deploys : Production => d.confirmed

ResultsInv ==
    /\ DeploysConfirmed
    /\ \A r \in Requests : RequestFounded(r)

\* Whoever changed the view is beyond changing the request.
LEMMA PutStays ==
  ASSUME IInv, [Next]_vars, NEW n, PutThere(n)
  PROVE  PutThere(n)'
<1>1. TypeOK
  BY DEF IInv
<1>2. PICK q \in Requests : /\ request[q].kind = "deploy" /\ version[q] = n /\ Cleared(q)
                            /\ phase[q] \in Settled
  BY DEF PutThere
<1> SUFFICES /\ phase'[q] \in Settled /\ request'[q] = request[q] /\ version'[q] = version[q]
             /\ shape'[q] = shape[q]
  BY <1>2 DEF PutThere, Cleared
<1>3. ASSUME NEW r \in Requests, Starts(r)
      PROVE  SameRequest(q)
  BY <1>1, <1>2, <1>3 DEF Starts, SameRequest, TypeOK, Settled
<1>4. ASSUME NEW r \in Requests, Later(r), r # q
      PROVE  SameRequest(q)
  <2>1. shape'[q] = shape[q]
    BY <1>1, <1>4 DEF TypeOK, Later, Seen, ghosts, WriteRules, CheckDrift, Preview, FindPrevious,
       AlterView, Verify, LogDeploy, CheckDeployed, ReadRows, SaveResult, Fail
  <2> QED BY <1>4, <2>1, LaterMoves, OneMoves DEF SameRequest, Moves
<1>5. CASE Later(q)
  <2>1. Verify(q) \/ LogDeploy(q) \/ Fail(q)
    <3>1. Busy(q)
      BY <1>5, LaterMoves DEF Moves
    <3>2. phase[q] \in {"verify", "verified"}
      BY <1>2, <3>1 DEF Settled, Busy, Ended
    <3> QED BY <1>5, <3>2 DEF Later, WriteRules, CheckDrift, Preview, FindPrevious, AlterView,
               CheckDeployed, ReadRows, SaveResult
  <2>2. phase'[q] \in Settled
    <3>1. CASE Verify(q)
      BY <1>1, <3>1 DEF Verify, Settled, TypeOK
    <3>2. CASE LogDeploy(q) \/ Fail(q)
      BY <1>1, <3>2 DEF LogDeploy, Fail, Settled, TypeOK
    <3> QED BY <2>1, <3>1, <3>2
  <2>3. shape' = shape
    BY <2>1 DEF Verify, LogDeploy, Fail, ghosts
  <2> QED BY <1>5, <2>2, <2>3, LaterMoves DEF Moves
<1>6. CASE Outside
  BY <1>2, <1>6 DEF Outside
<1> QED BY <1>2, <1>3, <1>4, <1>5, <1>6, StepKinds DEF SameRequest

\* Log entries stay, and a deploy that is logged was confirmed.
LEMMA DeploysStay ==
  ASSUME IInv, [Next]_vars, ResultsInv
  PROVE  /\ Deploys \subseteq Deploys'
         /\ \A d \in Deploys' : Production => d.confirmed
         /\ \A n : WasDeployed(n) => WasDeployed(n)'
<1>1. ASSUME NEW r \in Requests, Later(r), log' # log
      PROVE  Preview(r) \/ LogDeploy(r)
  BY <1>1 DEF Later, WriteRules, CheckDrift, FindPrevious, AlterView, Verify, CheckDeployed,
     ReadRows, SaveResult, Fail
<1>2. ASSUME NEW r \in Requests, LogDeploy(r)
      PROVE  Deploys \subseteq Deploys' /\ \A d \in Deploys' : Production => d.confirmed
  <2> DEFINE d == [request |-> r, version |-> version[r], mode |-> "deploy",
                   diff |-> IF previous[r] = 0 THEN None
                            ELSE ColumnDiff(Names(PayloadOf(previous[r])), Names(PayloadOf(version[r]))),
                   confirmed |-> Production /\ request[r].confirmed]
  <2>1. log' = log \cup {d} /\ d.confirmed = (Production /\ request[r].confirmed)
    BY <1>2 DEF LogDeploy
  <2>2. Production => request[r].confirmed
    BY <1>2 DEF IInv, DeployIsCleared, Deploying, Cleared, LogDeploy
  <2> HIDE DEF d
  <2> QED BY <2>1, <2>2 DEF ResultsInv, DeploysConfirmed, Deploys
<1>3. ASSUME log' = log PROVE Deploys' = Deploys
  BY <1>3 DEF Deploys
<1>4. Deploys \subseteq Deploys' /\ \A d \in Deploys' : Production => d.confirmed
  <2>1. CASE log' = log
    BY <1>3, <2>1 DEF ResultsInv, DeploysConfirmed
  <2>2. CASE log' # log
    <3>1. \E r \in Requests : Later(r)
      BY <2>2, StepKinds DEF Starts, Outside
    <3> QED BY <1>1, <1>2, <2>2, <3>1, PreviewKeepsDeploys DEF ResultsInv, DeploysConfirmed
  <2> QED BY <2>1, <2>2
<1> QED BY <1>4 DEF WasDeployed

\* What a request rests on stays as long as it neither begins nor reads.
LEMMA FoundedStays ==
  ASSUME IInv, [Next]_vars, ResultsInv, NEW r \in Requests, Founded(r),
         request'[r] = request[r], version'[r] = version[r], compared'[r] = compared[r]
  PROVE  Founded(r)'
BY PutStays, DeploysStay DEF Founded

LEMMA RequestFoundedStays ==
  ASSUME IInv, [Next]_vars, ResultsInv, NEW r \in Requests, phase'[r] = phase[r],
         request'[r] = request[r], version'[r] = version[r], compared'[r] = compared[r]
  PROVE  RequestFounded(r)'
<1>1. RequestFounded(r)
  BY DEF ResultsInv
<1>2. CASE phase[r] = "read"
  <2>1. WasDeployed(version[r])'
    BY <1>1, <1>2, DeploysStay DEF RequestFounded, WasDeployed
  <2> QED BY <1>2, <2>1 DEF RequestFounded
<1>3. CASE phase[r] = "compare"
  <2>1. Founded(r)'
    BY <1>1, <1>3, FoundedStays DEF RequestFounded
  <2> QED BY <1>3, <2>1 DEF RequestFounded
<1>4. CASE phase[r] \notin {"read", "compare"}
  BY <1>4 DEF RequestFounded
<1> QED BY <1>2, <1>3, <1>4

LEMMA ResultsStep == IInv /\ ResultsInv /\ [Next]_vars => ResultsInv'
<1> SUFFICES ASSUME IInv, ResultsInv, [Next]_vars PROVE ResultsInv'
  OBVIOUS
<1>1. TypeOK
  BY DEF IInv
<1>2. DeploysConfirmed'
  BY DeploysStay DEF DeploysConfirmed
<1>3. ASSUME NEW r \in Requests, Starts(r) PROVE ResultsInv'
  <2>1. PICK next \in {"saved", "loaded", "gate"} : phase' = [phase EXCEPT ![r] = next]
    BY <1>3 DEF Starts
  <2>2. /\ phase'[r] = next /\ UNCHANGED compared
        /\ \A s \in Requests \ {r} : /\ phase'[s] = phase[s] /\ version'[s] = version[s]
                                     /\ request'[s] = request[s]
    BY <1>1, <1>3, <2>1 DEF Starts, TypeOK
  <2>3. RequestFounded(r)'
    BY <2>2 DEF RequestFounded
  <2>4. \A s \in Requests \ {r} : RequestFounded(s)'
    BY <2>2, RequestFoundedStays
  <2> QED BY <1>2, <2>3, <2>4 DEF ResultsInv
<1>4. CASE Outside
  <2>1. UNCHANGED <<phase, request, version, compared>>
    BY <1>4 DEF Outside
  <2>2. \A s \in Requests : RequestFounded(s)'
    BY <2>1, RequestFoundedStays
  <2> QED BY <1>2, <2>2 DEF ResultsInv
<1>5. ASSUME NEW r \in Requests, Later(r) PROVE ResultsInv'
  <2>1. /\ UNCHANGED <<history, request, version>>
        /\ \A s \in Requests \ {r} : phase'[s] = phase[s]
    BY <1>5, LaterMoves, OneMoves DEF Moves
  <2>2. \A s \in Requests \ {r} : compared'[s] = compared[s]
    BY <1>1, <1>5 DEF Later, WriteRules, CheckDrift, Preview, FindPrevious, AlterView, Verify,
       LogDeploy, CheckDeployed, ReadRows, SaveResult, Fail, TypeOK
  <2>3. \A s \in Requests \ {r} : RequestFounded(s)'
    BY <2>1, <2>2, RequestFoundedStays
  <2> SUFFICES RequestFounded(r)'
    BY <1>2, <2>3 DEF ResultsInv
  <2>4. CASE CheckDeployed(r)
    <3>1. /\ phase'[r] \in {"read", "not_deployed"}
          /\ phase'[r] = "read" => WasDeployed(version[r])
      BY <1>1, <2>4 DEF CheckDeployed, TypeOK, WasDeployed
    <3>2. phase'[r] = "read" => WasDeployed(version[r])'
      BY <2>1, <3>1, DeploysStay DEF WasDeployed
    <3> QED BY <3>1, <3>2 DEF RequestFounded
\* The view that is read is live, so somebody was entitled to put it there.
  <2>5. CASE ReadRows(r)
    <3>1. phase[r] = "read" /\ phase'[r] \in {"failed", "compare"}
      BY <1>1, <2>5 DEF ReadRows, TypeOK
    <3>2. CASE phase'[r] = "failed"
      BY <3>2 DEF RequestFounded
    <3>3. CASE phase'[r] = "compare"
      <4>1. WasDeployed(version[r])'
        <5>1. WasDeployed(version[r])
          BY <3>1 DEF ResultsInv, RequestFounded
        <5> QED BY <2>1, <5>1, DeploysStay DEF WasDeployed
      <4>2. ~request[r].foreign => live # 0 /\ compared'[r] = live
        BY <1>1, <2>5, <3>3 DEF ReadRows, TypeOK
      <4>3. ~request[r].foreign => live # 0 /\ PutThere(live)
        BY <4>2 DEF IInv, LiveHasDeploy, PutThere
      <4>4. (~request[r].foreign => PutThere(compared[r]))'
        <5>1. UNCHANGED <<request, version, live, shape>>
          BY <2>1, <2>5 DEF ReadRows, ghosts
        <5>2. \A q \in Requests : phase[q] \in Settled => phase'[q] \in Settled
          BY <2>1, <3>1 DEF Settled
        <5> QED BY <4>2, <4>3, <5>1, <5>2 DEF PutThere, Cleared
      <4> QED BY <3>3, <4>1, <4>4 DEF RequestFounded, Founded
    <3> QED BY <3>1, <3>2, <3>3
  <2>6. CASE ~ (CheckDeployed(r) \/ ReadRows(r))
    <3>1. phase'[r] \notin {"read", "compare"}
      BY <1>1, <1>5, <2>6 DEF Later, WriteRules, CheckDrift, Preview, FindPrevious, AlterView, Verify,
         LogDeploy, SaveResult, Fail, TypeOK
    <3> QED BY <3>1 DEF RequestFounded
  <2> QED BY <2>4, <2>5, <2>6
<1> QED BY <1>3, <1>4, <1>5, StepKinds

\* A version has its rules, unless its save has not come to write them or failed.
RulesUnlessUnfinished ==
    \A n \in 1..Len(history) : WithoutRules(n) \/ {x \in rules : x.version = n} = RulesOf(n)

LEMMA RulesStep == IInv /\ RulesUnlessUnfinished /\ [Next]_vars => RulesUnlessUnfinished'
<1> SUFFICES ASSUME IInv, RulesUnlessUnfinished, [Next]_vars,
                    NEW n \in 1..Len(history'), ~WithoutRules(n)'
             PROVE  {x \in rules' : x.version = n} = RulesOf(n)'
  BY DEF RulesUnlessUnfinished
<1>1. TypeOK /\ Len(history) \in Nat
  BY DEF IInv, TypeOK
\* What only concerns other requests leaves a save where it is.
<1>2. ASSUME n \in 1..Len(history), history'[n] = history[n], rules' = rules, ~WithoutRules(n)
      PROVE  {x \in rules' : x.version = n} = RulesOf(n)'
  BY <1>2 DEF RulesUnlessUnfinished, RulesOf, PayloadOf
<1>3. ASSUME NEW r \in Requests, NEW p \in Payloads, SaveVersion(r, p)
      PROVE  {x \in rules' : x.version = n} = RulesOf(n)'
  <2>1. /\ Len(history') = Len(history) + 1
        /\ \A i \in 1..Len(history) : history'[i] = history[i]
    <3>1. history' = Append(history, [links |-> p, config |-> None])
      BY <1>1, <1>3, Appends
    <3> QED BY <1>1, <3>1 DEF TypeOK
  <2>2. /\ request'[r].kind = "save" /\ version'[r] = Len(history) + 1 /\ phase'[r] = "saved"
        /\ phase[r] = "idle" /\ rules' = rules
        /\ \A s \in Requests \ {r} : /\ phase'[s] = phase[s] /\ version'[s] = version[s]
                                     /\ request'[s] = request[s]
    BY <1>1, <1>3 DEF SaveVersion, Begin, TypeOK
  <2>3. n # Len(history) + 1
    BY <2>2 DEF WithoutRules
  <2>4. n \in 1..Len(history)
    BY <1>1, <2>1, <2>3
  <2>5. ~WithoutRules(n)
    BY <2>2 DEF WithoutRules
  <2> QED BY <1>2, <2>1, <2>2, <2>4, <2>5
<1>4. ASSUME NEW r \in Requests, Starts(r), history' = history
      PROVE  {x \in rules' : x.version = n} = RulesOf(n)'
  <2>1. /\ phase[r] = "idle" /\ rules' = rules
        /\ \A s \in Requests \ {r} : /\ phase'[s] = phase[s] /\ version'[s] = version[s]
                                     /\ request'[s] = request[s]
    BY <1>1, <1>4 DEF Starts, TypeOK
  <2>2. ~WithoutRules(n)
    BY <2>1 DEF WithoutRules
  <2> QED BY <1>2, <1>4, <2>1, <2>2
<1>5. CASE Outside
  BY <1>2, <1>5 DEF Outside, WithoutRules
<1>6. ASSUME NEW r \in Requests, WriteRules(r)
      PROVE  {x \in rules' : x.version = n} = RulesOf(n)'
  <2>1. /\ history' = history /\ request' = request /\ version' = version
        /\ rules' = rules \cup RulesOf(version[r])
        /\ \A s \in Requests \ {r} : phase'[s] = phase[s]
    BY <1>1, <1>6 DEF WriteRules, locals, TypeOK
  <2>2. \A x \in RulesOf(version[r]) : x.version = version[r]
    BY DEF RulesOf
  <2>3. {x \in rules : x.version = n} \in {{}, RulesOf(n)} /\ RulesOf(n)' = RulesOf(n)
    BY <2>1 DEF IInv, RulesDescribeTheirVersion, RulesOf, PayloadOf
  <2>4. CASE n = version[r]
    BY <2>1, <2>2, <2>3, <2>4
  <2>5. CASE n # version[r]
    <3>1. ~WithoutRules(n)
      BY <2>1, <2>5 DEF WithoutRules
    <3>2. {x \in rules : x.version = n} = RulesOf(n)
      BY <2>1, <3>1 DEF RulesUnlessUnfinished
    <3> QED BY <2>1, <2>2, <2>3, <2>5, <3>2
  <2> QED BY <2>4, <2>5
<1>7. ASSUME NEW r \in Requests, Later(r), ~WriteRules(r)
      PROVE  {x \in rules' : x.version = n} = RulesOf(n)'
  <2>1. /\ Busy(r) /\ UNCHANGED <<history, request, version>>
        /\ \A s \in Requests \ {r} : phase'[s] = phase[s]
    BY <1>7, LaterMoves, OneMoves DEF Moves
  <2>2. rules' = rules
    BY <1>7 DEF Later, CheckDrift, Preview, FindPrevious, AlterView, Verify,
       LogDeploy, CheckDeployed, ReadRows, SaveResult, Fail
  <2>3. phase[r] \in {"saved", "failed"} => phase'[r] = "failed"
    BY <1>1, <1>7, <2>1 DEF Busy, Ended, Later, CheckDrift, Preview, FindPrevious, AlterView,
       Verify, LogDeploy, CheckDeployed, ReadRows, SaveResult, Fail, TypeOK
  <2>4. ~WithoutRules(n)
    BY <2>1, <2>3 DEF WithoutRules
  <2> QED BY <1>2, <2>1, <2>2, <2>4
<1>8. ASSUME NEW r \in Requests, NEW kind \in Kinds \ {"save"}, NEW other \in BOOLEAN,
             NEW m \in 1..Len(history),
             Load(r, kind, FALSE, other, m) \/ Load(r, kind, TRUE, other, m)
      PROVE  {x \in rules' : x.version = n} = RulesOf(n)'
  <2>1. TRUE \in BOOLEAN /\ FALSE \in BOOLEAN
    OBVIOUS
  <2>2. Starts(r) /\ history' = history
    BY <1>8, <2>1, LoadStarts DEF Load
  <2> QED BY <1>4, <2>2
<1>9. CASE AlterLegacy \/ DropView \/ UNCHANGED vars
  BY <1>5, <1>9 DEF Outside, AlterLegacy, DropView, vars, locals, ghosts
<1> QED BY <1>3, <1>6, <1>7, <1>8, <1>9 DEF Next, Later

\* Whatever overlaps, fails and interferes: a reconciliation is recorded under a
\* version that a confirmed deploy logged, it read what an authorised deploy had
\* put there, and forgave what its version's payload retires, or nothing while that
\* version was without rules.
THEOREM ResultsFollowDeploysAlways == Spec => ResultsFollowDeploys
<1>1. Init => ResultsInv /\ RulesUnlessUnfinished
  BY DEF Init, ResultsInv, RequestFounded, DeploysConfirmed, Deploys, RulesUnlessUnfinished
<1>2. ASSUME IInv, ResultsInv, RulesUnlessUnfinished, [Next]_vars, NEW e \in results' \ results
      PROVE  /\ \E d \in Deploys : d.version = e.version /\ (Production => d.confirmed)
             /\ ~request[e.request].foreign => Authorised(compared[e.request])
             /\ \/ e.retired = ForgivenBy(PayloadOf(e.version))
                \/ e.retired = {} /\ WithoutRules(e.version)
  <2>1. PICK r \in Requests : SaveResult(r)
    <3>1. ASSUME NEW s \in Requests, Later(s), ~SaveResult(s) PROVE results' = results
      BY <3>1 DEF Later, WriteRules, CheckDrift, Preview, FindPrevious, AlterView, Verify,
         LogDeploy, CheckDeployed, ReadRows, Fail
    <3> QED BY <1>2, <3>1, StepKinds DEF Starts, Outside
  <2>2. /\ e.request = r /\ e.version = version[r]
        /\ e.retired = {x.column : x \in {y \in rules : y.version = version[r] /\ y.retired}}
    BY <1>2, <2>1, SaveResultAdds
  <2>3. Founded(r) /\ version[r] \in 1..Len(history)
    BY <1>2, <2>1 DEF SaveResult, ResultsInv, RequestFounded, IInv, HasVersion
  <2>4. PutThere(compared[r]) => Authorised(compared[r])
    BY DEF PutThere, Authorised, Cleared
  <2>5. \/ e.retired = ForgivenBy(PayloadOf(e.version))
        \/ e.retired = {} /\ WithoutRules(e.version)
    <3> DEFINE own == {x \in rules : x.version = version[r]}
    <3>1. e.retired = {x.column : x \in {y \in own : y.retired}}
      BY <2>2
    <3>2. own = RulesOf(version[r]) \/ (own = {} /\ WithoutRules(version[r]))
      BY <1>2, <2>3 DEF RulesUnlessUnfinished, IInv, RulesDescribeTheirVersion
    <3>3. own = RulesOf(version[r]) => e.retired = ForgivenBy(PayloadOf(version[r]))
      BY <3>1, ForgivenRules
    <3>4. own = {} => e.retired = {}
      BY <3>1
    <3> QED BY <2>2, <3>2, <3>3, <3>4
  <2> QED BY <1>2, <2>2, <2>3, <2>4, <2>5 DEF ResultsInv, DeploysConfirmed, Founded, WasDeployed
<1>3. IInv /\ ResultsInv /\ RulesUnlessUnfinished /\ [Next]_vars =>
        [\A e \in results' \ results :
            /\ \E d \in Deploys : d.version = e.version /\ (Production => d.confirmed)
            /\ ~request[e.request].foreign => Authorised(compared[e.request])
            /\ \/ e.retired = ForgivenBy(PayloadOf(e.version))
               \/ e.retired = {} /\ WithoutRules(e.version)]_vars
  BY <1>2
<1> QED BY <1>1, <1>3, InitIInv, NextStep, ResultsStep, RulesStep, PTL DEF Spec, ResultsFollowDeploys
=============================================================================
