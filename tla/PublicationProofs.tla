------------------------- MODULE PublicationProofs -------------------------
(***************************************************************************)
(* Theorems about the publisher, for any row counts, keys, products and    *)
(* number of runs, changes and faults.  The atomic path: readers are never *)
(* given a mix of publications, the last-known-good version is never lost, *)
(* and the path implements ServedSnapshot.  The replace path: no half-     *)
(* loaded table is served, and what is called restored is what was before. *)
(* The modes that write into the served table: what completes is whole.    *)
(* The metadata tables of all products: what completes is what is read.    *)
(***************************************************************************)
EXTENDS MCPublication, Sequences, FiniteSetTheorems, WellFoundedInduction, TLAPS

USE NoneAssumption, PolicyAssumption, BoundAssumption

-----------------------------------------------------------------------------
(* What the D1 requests return. *)

LEMMA CaptureType ==
  ASSUME NEW d \in D1State
  PROVE  CaptureState(d) \in PublicationState
BY DEF D1State, PublicationState, CaptureState

LEMMA TableTypes ==
  ASSUME NEW d \in D1State
  PROVE  Finalized(d) \in D1State /\ \A t \in Table : Staged(d, t) \in D1State
BY DEF D1State, Staged, Finalized, Table

LEMMA BatchTypes ==
  ASSUME NEW d \in D1State, NEW s \in PublicationState
  PROVE  /\ Applied(ActivateRequest(s), d) \in D1State
         /\ Applied(CompensateRequest(s), d) \in D1State
<1> USE DEF D1State, PublicationState
<1>1. Promote(d, s.had) \in D1State /\ Demote(d, s.had) \in D1State
  BY DEF Promote, Demote, Table
<1>2. ASSUME NEW e \in D1State PROVE ReplaceEvidence(e, s) \in D1State
  BY DEF ReplaceEvidence
<1>3. /\ Applied(ActivateRequest(s), d) = ReplaceEvidence(Promote(d, s.had), s)
      /\ Applied(CompensateRequest(s), d) = ReplaceEvidence(Demote(d, s.had), s)
  BY DEF Applied, ActivateRequest, CompensateRequest
<1>4. QED
  BY <1>1, <1>2, <1>3

LEMMA ActivateEffect ==
  ASSUME NEW d \in D1State, NEW s \in PublicationState,
         Accepted(ActivateRequest(s), d)
  PROVE  LET e == Applied(ActivateRequest(s), d) IN
         /\ e.active = d.staging /\ d.staging # None
         /\ e.previous = IF s.had THEN d.active ELSE d.previous
         /\ IF s.had THEN d.active # None /\ d.previous = None ELSE d.active = None
         /\ e.catalog = s.catalog /\ e.meta = s.meta /\ e.quality = s.quality
BY DEF D1State, PublicationState, Applied, Accepted, ActivateRequest, ReplaceEvidence,
     Promote, CanPromote

LEMMA CompensateEffect ==
  ASSUME NEW d \in D1State, NEW s \in PublicationState
  PROVE  LET e == Applied(CompensateRequest(s), d) IN
         /\ e.active = IF s.had THEN d.previous ELSE None
         /\ e.previous = IF s.had THEN None ELSE d.previous
         /\ e.catalog = s.catalog /\ e.meta = s.meta /\ e.quality = s.quality
BY DEF D1State, PublicationState, Applied, CompensateRequest, ReplaceEvidence, Demote

\* A request is an activation or a compensation of a captured state, or one of
\* the two requests of the other path.
LEMMA RequestForms ==
  ASSUME NEW r \in Requests
  PROVE  \/ r.op = "activate" /\ r.state \in PublicationState /\ r = ActivateRequest(r.state)
         \/ r.op = "compensate" /\ r.state \in PublicationState /\ r = CompensateRequest(r.state)
         \/ r.op \in {"swap", "restore"}
BY DEF Requests, ActivateRequest, CompensateRequest

LEMMA OtherRequestTypes ==
  ASSUME NEW d \in D1State, NEW r \in Requests, r.op \in {"swap", "restore"}
  PROVE  Applied(r, d) \in D1State
<1>1. Promote(d, TRUE) \in D1State /\ Promote(d, FALSE) \in D1State
  BY DEF Promote, D1State, Table
<1>2. Demote(d, TRUE) \in D1State /\ Demote(d, FALSE) \in D1State
  BY DEF Demote, D1State, Table
<1>3. \E had \in BOOLEAN : Applied(r, d) = Promote(d, had) \/ Applied(r, d) = Demote(d, had)
  BY DEF Applied
<1>4. QED
  BY <1>1, <1>2, <1>3

LEMMA RequestTypes ==
  ASSUME NEW s \in PublicationState
  PROVE  /\ ActivateRequest(s) \in Requests /\ ActivateRequest(s).op = "activate"
         /\ ActivateRequest(s).state = s
         /\ CompensateRequest(s) \in Requests /\ CompensateRequest(s).op = "compensate"
         /\ CompensateRequest(s).state = s
BY DEF Requests, ActivateRequest, CompensateRequest

-----------------------------------------------------------------------------
(* Types. *)

LEMMA RunTypes ==
  ASSUME TypeOK, run.pub > 0
  PROVE  /\ Candidate \in Version /\ Candidate.pub = run.pub
         /\ Candidate \in Table /\ Candidate \in Row /\ Candidate # None /\ Candidate # Torn
         /\ run.prev \in PublicationState
         /\ CandidateState(Candidate, run.prev) \in PublicationState
BY DEF TypeOK, RunRecord, Candidate, Version, Table, Row, PublicationState, CandidateState

LEMMA RunUpdates ==
  ASSUME TypeOK,
         NEW o \in {"published", "skipped_retained", "failed"}, NEW g \in Stages,
         NEW k \in {"none", "restored", "restore_failed", "not_attempted_active_valid"},
         NEW n \in Nat, NEW c \in Row, NEW s \in PublicationState
  PROVE  /\ [run EXCEPT !.result = [outcome |-> o, stage |-> g, rollback |-> k]] \in RunRecord
         /\ [run EXCEPT !.result.stage = g] \in RunRecord
         /\ [run EXCEPT !.rows = n] \in RunRecord
         /\ [run EXCEPT !.lastGood = c] \in RunRecord
         /\ [run EXCEPT !.prev = s] \in RunRecord
         /\ run.result.stage \in Stages /\ run.result \in Result
BY DEF TypeOK, RunRecord, Result

\* The run in progress, if any, is the last one handed an identifier.
RunInv == pc # "idle" => run.pub = attempts /\ run.pub > 0

LEMMA InitType == Init => TypeOK /\ RunInv
<1> SUFFICES ASSUME Init PROVE TypeOK /\ RunInv
  OBVIOUS
<1>1. EmptyD1 \in D1State
  BY DEF EmptyD1, D1State, Table, Row
<1>2. NewRun(0) \in RunRecord
  BY <1>1, CaptureType DEF Init, NewRun, RunRecord, NoResult, Result, Stages, Row, EmptyD1,
       CaptureState, PublicationState
<1>3. QED
  BY <1>1, <1>2 DEF Init, TypeOK, PCs, Row, RunInv

LEMMA NextType == TypeOK /\ RunInv /\ [Next]_vars => TypeOK' /\ RunInv'
<1> SUFFICES ASSUME TypeOK, RunInv, [Next]_vars PROVE TypeOK' /\ RunInv'
  OBVIOUS
<1>1. /\ d1 \in D1State /\ pending \in Requests \cup {None} /\ pc \in PCs
      /\ run \in RunRecord /\ ledger \in [1..MaxRuns -> Result \cup {None}]
      /\ attempts \in 0..MaxRuns /\ faults \in 0..MaxFaults /\ good \in Row
      /\ before \in D1State
  BY DEF TypeOK
<1>2. CASE UNCHANGED vars
  BY <1>2 DEF vars, TypeOK, RunInv
<1>3. CASE Begin
  <2>1. EmptyD1 \in D1State
    BY DEF EmptyD1, D1State, Table, Row
  <2>2. NewRun(attempts + 1) \in RunRecord /\ NewRun(attempts + 1).pub = attempts + 1
    BY <1>1, <2>1, CaptureType DEF NewRun, RunRecord, NoResult, Result, Stages, Row
  <2>3. QED
    BY <1>1, <1>3, <2>2 DEF Begin, TypeOK, PCs, RunInv
<1>4. CASE ReadCatalog
  <2>1. d1.catalog \in Row /\ None \in Row
    BY <1>1 DEF D1State, Row
  <2>2. run' \in RunRecord /\ run'.pub = run.pub
    BY <1>1, <1>4, <2>1 DEF ReadCatalog, RunRecord
  <2>3. QED
    BY <1>1, <1>4, <2>2 DEF ReadCatalog, Fault, TypeOK, PCs, RunInv
<1>5. CASE ReadSource
  <2>1. run' \in RunRecord /\ run'.pub = run.pub
    BY <1>1, <1>5 DEF ReadSource, Conclude, ApplyReliability, RunRecord, Result, Stages,
         PreWriteStages
  <2>2. pc' \in {"record", "write"}
    BY <1>5 DEF ReadSource, Conclude
  <2>3. QED
    BY <1>1, <1>5, <2>1, <2>2 DEF ReadSource, TypeOK, PCs, RunInv
<1>6. CASE AppendLedger
  BY <1>1, <1>6 DEF AppendLedger, Fault, TypeOK, PCs, RunInv, RunRecord
<1>7. CASE CutShort
  BY <1>1, <1>7 DEF CutShort, Fault, TypeOK, PCs, RunInv
<1>8. CASE Settle
  <2>1. ASSUME NEW r \in Requests PROVE Applied(r, d1) \in D1State
    BY <1>1, RequestForms, BatchTypes, OtherRequestTypes
  <2>2. QED
    BY <1>1, <1>8, <2>1 DEF Settle, TypeOK, RunInv
<1>9. ASSUME pc # "idle" PROVE run.pub > 0 /\ Candidate \in Table /\ None \in Table /\ Torn \in Table
  BY <1>9, RunTypes DEF RunInv, Table
<1>10. CASE StageCandidate
  <2>1. d1' \in D1State
    BY <1>1, <1>9, <1>10, TableTypes DEF StageCandidate
  <2>2. run' \in RunRecord /\ run'.pub = run.pub
    BY <1>1, <1>10 DEF StageCandidate, Conclude, Goto, RunRecord, Result, Stages
  <2>3. QED
    BY <1>1, <1>10, <2>1, <2>2 DEF StageCandidate, Conclude, Goto, Fault, TypeOK, PCs, RunInv
<1>11. CASE CaptureAndPreflight
  <2>1. CaptureState(d1) \in PublicationState
    BY <1>1, CaptureType
  <2>2. run' \in RunRecord /\ run'.pub = run.pub
    BY <1>1, <1>11, <2>1 DEF CaptureAndPreflight, Conclude, RunRecord, Result, Stages
  <2>3. QED
    BY <1>1, <1>11, <2>2 DEF CaptureAndPreflight, Conclude, Fault, TypeOK, PCs, RunInv
<1>12. CASE ActivateStagedSnapshot
  <2> DEFINE r == ActivateRequest(CandidateState(Candidate, run.prev))
  <2>1. r \in Requests /\ Applied(r, d1) \in D1State
    BY <1>1, <1>9, <1>12, RunTypes, RequestTypes, BatchTypes DEF ActivateStagedSnapshot
  <2> HIDE DEF r
  <2>2. SendOnce(r, Goto("readback"), Goto("reconcile"))
    BY <1>12 DEF ActivateStagedSnapshot, r
  <2>3. d1' \in D1State /\ pending' \in Requests \cup {None} /\ run' = run
        /\ pc' \in {"readback", "reconcile"} /\ faults' \in 0..MaxFaults
    BY <1>1, <2>1, <2>2 DEF SendOnce, Goto, Fault
  <2>4. QED
    BY <1>1, <1>12, <2>3 DEF ActivateStagedSnapshot, TypeOK, PCs, RunInv
<1>13. CASE Reconcile
  <2>1. run' \in RunRecord /\ run'.pub = run.pub
    BY <1>1, <1>13 DEF Reconcile, Conclude, Goto, RunRecord, Result, Stages
  <2>2. QED
    BY <1>1, <1>13, <2>1 DEF Reconcile, Conclude, Goto, Fault, TypeOK, PCs, RunInv
<1>14. CASE ReadBack \/ ApiSmoke
  <2>1. run' \in RunRecord /\ run'.pub = run.pub
    BY <1>1, <1>14 DEF ReadBack, ApiSmoke, Accept, FailAfterWrite, Goto, RunRecord, Result, Stages
  <2>2. good' \in Row
    BY <1>1, <1>9, <1>14, RunTypes DEF ReadBack, ApiSmoke, Accept
  <2>3. pc' \in {"smoke", "finalize", "compensate"} /\ faults' \in 0..MaxFaults
    BY <1>1, <1>14 DEF ReadBack, ApiSmoke, Accept, FailAfterWrite, Goto, Fault
  <2>4. QED
    BY <1>1, <1>14, <2>1, <2>2, <2>3 DEF ReadBack, ApiSmoke, TypeOK, PCs, RunInv
<1>15. CASE Compensate
  <2> DEFINE r == CompensateRequest(run.prev)
  <2>1. r \in Requests /\ Applied(r, d1) \in D1State
    BY <1>1, <1>9, <1>15, RunTypes, RequestTypes, BatchTypes DEF Compensate
  <2> HIDE DEF r
  <2>2. SendOnce(r, Conclude("failed", run.result.stage, "restored"),
                 Conclude("failed", run.result.stage, "restore_failed"))
    BY <1>15 DEF Compensate, r
  <2>3. run' \in RunRecord /\ run'.pub = run.pub
    BY <1>1, <2>2 DEF SendOnce, Conclude, RunRecord, Result
  <2>4. /\ d1' \in D1State /\ pending' \in Requests \cup {None}
        /\ pc' = "record" /\ faults' \in 0..MaxFaults
    BY <1>1, <2>1, <2>2 DEF SendOnce, Conclude, Fault
  <2>5. QED
    BY <1>1, <1>15, <2>3, <2>4 DEF Compensate, TypeOK, PCs, RunInv
<1>16. CASE FinalizeReplacedTable
  <2>1. Finalized(d1) \in D1State
    BY <1>1, TableTypes
  <2>2. run' \in RunRecord /\ run'.pub = run.pub
    BY <1>1, <1>16 DEF FinalizeReplacedTable, SendRetried, Conclude, RunRecord, Result, Stages
  <2>3. QED
    BY <1>1, <1>16, <2>1, <2>2 DEF FinalizeReplacedTable, SendRetried, Conclude, Fault, TypeOK,
         PCs, RunInv
<1>17. QED
  BY <1>2, <1>3, <1>4, <1>5, <1>6, <1>7, <1>8, <1>10, <1>11, <1>12, <1>13, <1>14, <1>15, <1>16
     DEF Next, CommonNext

\* D1, the run and the ledger keep their types.
THEOREM TypeCorrect == Spec => []TypeOK
<1>1. Spec => [](TypeOK /\ RunInv)
  BY InitType, NextType, PTL DEF Spec
<1>2. QED
  BY <1>1, PTL

-----------------------------------------------------------------------------
(* The inductive invariant. *)

\* A captured state is that of one whole publication, or of none.
OneState(s) == s.catalog = s.meta /\ s.catalog = s.quality /\ (s.had <=> s.catalog # None)

\* The tables after an activation that replaced the state s: the candidate is
\* active and what it replaced is kept.
Replaced(s, v) == d1.active = v /\ d1.previous = s.catalog /\ OneState(s)

\* The tables before an activation of v: v is staged and not active.
Ready(v) == d1.staging = v /\ d1.active # v

BeforeActivation == {"lastgood", "source", "write", "capture", "activate"}
AfterActivation == {"readback", "smoke", "compensate", "finalize"}

\* What each step of a run can rely on.
StepInv ==
  /\ pc \in BeforeActivation \cup AfterActivation => pending = None
  /\ pc \in BeforeActivation => (d1.active # None => d1.active.pub < run.pub)
  /\ pc \in BeforeActivation \cup {"reconcile", "readback", "smoke", "compensate"} =>
       (good # None => good.pub < run.pub)
  /\ pc \in {"capture", "activate"} => Ready(Candidate)
  /\ pc \in {"activate", "reconcile"} => OneState(run.prev)
  /\ pc = "activate" => run.prev = CaptureState(d1)
  /\ pc \in AfterActivation => Replaced(run.prev, Candidate)
  /\ pc = "finalize" => good = Candidate
  /\ pc = "reconcile" =>
       \/ pending = None /\ d1.active # Candidate
       \/ pending = None /\ Replaced(run.prev, Candidate)
       \/ /\ pending = ActivateRequest(CandidateState(Candidate, run.prev))
          /\ Ready(Candidate)
          /\ run.prev = CaptureState(d1)

\* What a request that D1 may still apply will find.
PendingInv ==
  pending # None =>
    \/ /\ pending.op = "activate"
       /\ pending.state.catalog \in Version
       /\ pending.state.catalog.pub <= attempts
       /\ pending.state.meta = pending.state.catalog
       /\ pending.state.quality = pending.state.catalog
       /\ Ready(pending.state.catalog)
    \/ /\ pending.op = "compensate"
       /\ OneState(pending.state)
       /\ d1.previous = pending.state.catalog
       /\ d1.active # None
       /\ good # None => good # d1.active

\* Publication identifiers are never used twice.
FreshInv ==
  /\ d1.active # None => d1.active.pub <= attempts
  /\ d1.previous # None => d1.previous.pub <= attempts
  /\ good # None => good.pub <= attempts

\* Nothing is kept behind an absent table, and what is kept is a version.
KeptInv ==
  /\ d1.active = None => d1.previous = None
  /\ d1.previous # Torn

\* What holds of the served tables whatever the run is doing.
TablesInv == OnePublicationVisible /\ LastGoodNeverLost /\ FreshInv /\ KeptInv

PublicationInv == TablesInv /\ StepInv /\ PendingInv

-----------------------------------------------------------------------------
(* The two requests that change what readers are given. *)

LEMMA ActivationStep ==
  ASSUME TypeOK, TypeOK', TablesInv, UNCHANGED <<good, attempts>>,
         NEW s \in PublicationState, NEW v \in Version, v.pub <= attempts,
         s.catalog = v, s.meta = v, s.quality = v, Ready(v),
         Accepted(ActivateRequest(s), d1), d1' = Applied(ActivateRequest(s), d1)
  PROVE  /\ TablesInv'
         /\ d1'.active = v /\ d1'.previous = d1.active /\ d1.previous = None
         /\ good # None => good = d1.active
<1>1. /\ d1'.active = d1.staging
      /\ d1'.previous = IF s.had THEN d1.active ELSE d1.previous
      /\ IF s.had THEN d1.active # None /\ d1.previous = None ELSE d1.active = None
      /\ d1'.catalog = s.catalog /\ d1'.meta = s.meta /\ d1'.quality = s.quality
  BY ActivateEffect DEF TypeOK
<1>2. d1.previous = None /\ d1'.previous = d1.active /\ d1'.active = v
  BY <1>1 DEF TablesInv, KeptInv, Ready
<1>3. OnePublicationVisible'
  BY <1>1, <1>2 DEF OnePublicationVisible
<1>4. good # None => good = d1.active
  BY <1>2 DEF TablesInv, LastGoodNeverLost
<1>5. LastGoodNeverLost'
  BY <1>2, <1>4 DEF LastGoodNeverLost
<1>6. FreshInv'
  BY <1>2 DEF TablesInv, FreshInv
<1>7. d1.active # Torn /\ v # None
  BY DEF TablesInv, OnePublicationVisible, TypeOK, D1State, Row
<1>8. KeptInv'
  BY <1>2, <1>7 DEF KeptInv
<1>9. QED
  BY <1>2, <1>3, <1>4, <1>5, <1>6, <1>8 DEF TablesInv

LEMMA CompensationStep ==
  ASSUME TypeOK, TypeOK', TablesInv, UNCHANGED <<good, attempts>>,
         NEW s \in PublicationState, OneState(s), d1.previous = s.catalog,
         good # None => good # d1.active,
         d1' = Applied(CompensateRequest(s), d1)
  PROVE  TablesInv' /\ d1'.active = d1.previous /\ d1'.previous = None
<1>1. /\ d1'.active = IF s.had THEN d1.previous ELSE None
      /\ d1'.previous = IF s.had THEN None ELSE d1.previous
      /\ d1'.catalog = s.catalog /\ d1'.meta = s.meta /\ d1'.quality = s.quality
  BY CompensateEffect DEF TypeOK
<1>2. d1'.active = d1.previous /\ d1'.previous = None
  BY <1>1 DEF OneState
<1>3. OnePublicationVisible'
  BY <1>1, <1>2 DEF OnePublicationVisible, OneState
<1>4. LastGoodNeverLost'
  BY <1>2 DEF TablesInv, LastGoodNeverLost
<1>5. FreshInv'
  BY <1>2 DEF TablesInv, FreshInv
<1>6. KeptInv'
  BY <1>2 DEF KeptInv
<1>7. QED
  BY <1>2, <1>3, <1>4, <1>5, <1>6 DEF TablesInv

\* Every other step leaves what readers are given alone.
LEMMA QuietTables ==
  ASSUME TablesInv, UNCHANGED <<good, attempts>>,
         d1'.active = d1.active, d1'.previous = d1.previous, d1'.catalog = d1.catalog,
         d1'.meta = d1.meta, d1'.quality = d1.quality
  PROVE  TablesInv'
BY DEF TablesInv, OnePublicationVisible, LastGoodNeverLost, FreshInv, KeptInv

LEMMA InitPublication == Init => PublicationInv
BY DEF Init, EmptyD1, PublicationInv, TablesInv, OnePublicationVisible, LastGoodNeverLost,
     FreshInv, KeptInv, StepInv, PendingInv, BeforeActivation, AfterActivation

LEMMA PublicationNext ==
  TypeOK /\ TypeOK' /\ RunInv /\ PublicationInv /\ [Next]_vars => PublicationInv'
<1> SUFFICES ASSUME TypeOK, TypeOK', RunInv, PublicationInv, [Next]_vars PROVE PublicationInv'
  OBVIOUS
<1> USE DEF BeforeActivation, AfterActivation
<1>1. TablesInv /\ StepInv /\ PendingInv
  BY DEF PublicationInv
<1>2. attempts \in Nat /\ run.pub \in Nat /\ run.rows \in Nat
  BY DEF TypeOK, RunRecord
<1>3. CASE UNCHANGED vars
  BY <1>3 DEF vars, PublicationInv, TablesInv, OnePublicationVisible, LastGoodNeverLost,
       FreshInv, KeptInv, StepInv, PendingInv, Candidate, Ready, Replaced
<1>4. CASE Begin
  <2>1. /\ d1' = d1 /\ good' = good /\ pending' = None /\ pc' = "lastgood"
        /\ attempts' = attempts + 1 /\ run'.pub = attempts + 1
    BY <1>4 DEF Begin, NewRun
  <2>2. \A v \in Version : v.pub \in Nat
    BY DEF Version
  <2>3. d1.active \in Row /\ d1.previous \in Row /\ good \in Row
    BY <1>1 DEF TablesInv, OnePublicationVisible, KeptInv, TypeOK, D1State, Table, Row
  <2>4. TablesInv'
    <3>1. \A v \in Row : v # None => v.pub \in Nat
      BY <2>2 DEF Row
    <3>2. FreshInv'
      BY <1>1, <1>2, <2>1, <2>3, <3>1 DEF TablesInv, FreshInv
    <3>3. OnePublicationVisible' /\ LastGoodNeverLost' /\ KeptInv'
      BY <1>1, <2>1 DEF TablesInv, OnePublicationVisible, LastGoodNeverLost, KeptInv
    <3>4. QED
      BY <3>2, <3>3 DEF TablesInv
  <2>5. StepInv'
    BY <1>1, <1>2, <2>1, <2>2, <2>3 DEF StepInv, TablesInv, FreshInv, Row
  <2>6. PendingInv'
    BY <2>1 DEF PendingInv
  <2>7. QED
    BY <2>4, <2>5, <2>6 DEF PublicationInv
<1>5. CASE ReadCatalog \/ ReadSource
  <2>1. /\ UNCHANGED <<d1, pending, attempts, good>>
        /\ pc \in {"lastgood", "source"} /\ pc' \in {"source", "record", "write"}
        /\ run'.pub = run.pub
    BY <1>5 DEF ReadCatalog, ReadSource, Conclude, TypeOK, RunRecord
  <2>2. TablesInv'
    BY <1>1, <2>1, QuietTables
  <2>3. StepInv'
    BY <1>1, <2>1 DEF StepInv
  <2>4. PendingInv'
    BY <1>1, <2>1 DEF PendingInv, Ready
  <2>5. QED
    BY <2>2, <2>3, <2>4 DEF PublicationInv
<1>6. CASE AppendLedger \/ CutShort
  <2>1. UNCHANGED <<d1, pending, attempts, good>> /\ pc' = "idle"
    BY <1>6 DEF AppendLedger, CutShort
  <2>2. TablesInv'
    BY <1>1, <2>1, QuietTables
  <2>3. StepInv'
    BY <2>1 DEF StepInv
  <2>4. PendingInv'
    BY <1>1, <2>1 DEF PendingInv, Ready
  <2>5. QED
    BY <2>2, <2>3, <2>4 DEF PublicationInv
<1>7. CASE Settle
  <2>1. /\ pending # None /\ pending' = None
        /\ UNCHANGED <<pc, run, attempts, good>>
        /\ \/ Accepted(pending, d1) /\ d1' = Applied(pending, d1)
           \/ d1' = d1
    BY <1>7 DEF Settle
  <2>2. PendingInv'
    BY <2>1 DEF PendingInv
  <2>3. pc \notin BeforeActivation \cup AfterActivation
    BY <1>1, <2>1 DEF StepInv
  <2>4. Candidate' = Candidate
    BY <2>1 DEF Candidate
  <2>5. CASE d1' = d1
    <3>1. TablesInv'
      BY <1>1, <2>1, <2>5, QuietTables
    <3>2. StepInv'
      BY <1>1, <2>1, <2>3, <2>4, <2>5 DEF StepInv, Ready
    <3>3. QED
      BY <2>2, <3>1, <3>2 DEF PublicationInv
  <2>6. CASE pending.op = "activate" /\ Accepted(pending, d1) /\ d1' = Applied(pending, d1)
    <3> DEFINE s == pending.state
    <3>1. s \in PublicationState /\ pending = ActivateRequest(s)
      BY <2>1, <2>6, RequestForms DEF TypeOK
    <3>2. /\ s.catalog \in Version /\ s.catalog.pub <= attempts
          /\ s.meta = s.catalog /\ s.quality = s.catalog /\ Ready(s.catalog)
      BY <1>1, <2>1, <2>6 DEF PendingInv
    <3>3. /\ TablesInv'
          /\ d1'.active = s.catalog /\ d1'.previous = d1.active
      BY <1>1, <2>1, <2>6, <3>1, <3>2, ActivationStep
    <3>4. StepInv'
      <4>1. CASE pc # "reconcile"
        BY <2>1, <2>3, <4>1 DEF StepInv, TypeOK, PCs
      <4>2. CASE pc = "reconcile"
        <5>1. /\ pending = ActivateRequest(CandidateState(Candidate, run.prev))
              /\ run.prev = CaptureState(d1)
              /\ OneState(run.prev)
              /\ good # None => good.pub < run.pub
          BY <1>1, <2>1, <4>2 DEF StepInv
        <5>2. s.catalog = Candidate
          BY <5>1 DEF ActivateRequest, CandidateState
        <5>3. run.prev.catalog = d1.active
          BY <1>1, <5>1 DEF CaptureState, TablesInv, OnePublicationVisible
        <5>4. Replaced(run.prev, Candidate)'
          BY <2>1, <2>4, <3>3, <5>1, <5>2, <5>3 DEF Replaced, OneState
        <5>5. QED
          BY <2>1, <4>2, <5>1, <5>4 DEF StepInv, OneState
      <4>3. QED
        BY <4>1, <4>2
    <3>5. QED
      BY <2>2, <3>3, <3>4 DEF PublicationInv
  <2>7. CASE pending.op = "compensate" /\ d1' = Applied(pending, d1)
    <3> DEFINE s == pending.state
    <3>1. s \in PublicationState /\ pending = CompensateRequest(s)
      BY <2>1, <2>7, RequestForms DEF TypeOK
    <3>2. /\ OneState(s) /\ d1.previous = s.catalog
          /\ good # None => good # d1.active
      BY <1>1, <2>1, <2>7 DEF PendingInv
    <3>3. TablesInv'
      BY <1>1, <2>1, <2>7, <3>1, <3>2, CompensationStep
    <3>4. pc # "reconcile"
      BY <1>1, <2>1, <2>7 DEF StepInv, ActivateRequest
    <3>5. StepInv'
      BY <2>1, <2>3, <3>4 DEF StepInv, TypeOK, PCs
    <3>6. QED
      BY <2>2, <3>3, <3>5 DEF PublicationInv
  <2>8. QED
    BY <1>1, <2>1, <2>5, <2>6, <2>7 DEF PendingInv
<1>8. ASSUME pc # "idle"
      PROVE  /\ Candidate \in Version /\ Candidate.pub = run.pub
             /\ Candidate # None /\ Candidate # Torn
             /\ run.prev \in PublicationState
             /\ CandidateState(Candidate, run.prev) \in PublicationState
             /\ run.pub = attempts
  BY <1>8, RunTypes DEF RunInv
<1>9. CASE StageCandidate
  <2>1. \E t : d1' = Staged(d1, t)
    BY <1>9 DEF StageCandidate
  <2>2. /\ d1'.active = d1.active /\ d1'.previous = d1.previous /\ d1'.catalog = d1.catalog
        /\ d1'.meta = d1.meta /\ d1'.quality = d1.quality
    BY <2>1 DEF Staged, TypeOK, D1State
  <2>3. TablesInv'
    BY <1>1, <1>9, <2>2, QuietTables DEF StageCandidate
  <2>4. pending = None /\ pending' = None /\ pc = "write" /\ run'.pub = run.pub
    BY <1>1, <1>9 DEF StepInv, StageCandidate, Goto, Conclude, TypeOK, RunRecord
  <2>5. d1.active # Candidate /\ (d1.active # None => d1.active.pub < run.pub)
    BY <1>1, <1>2, <1>8, <2>4 DEF StepInv
  <2>6. CASE d1' = Staged(d1, Candidate) /\ Goto("capture")
    <3>1. d1'.staging = Candidate /\ Candidate' = Candidate
      BY <2>6 DEF Staged, TypeOK, D1State, Goto, Candidate
    <3>2. QED
      BY <1>1, <1>9, <2>2, <2>3, <2>4, <2>5, <2>6, <3>1
         DEF PublicationInv, StepInv, PendingInv, StageCandidate, Goto, Ready
  <2>7. CASE pc' = "record"
    BY <2>3, <2>4, <2>7 DEF PublicationInv, StepInv, PendingInv
  <2>8. QED
    BY <1>9, <2>6, <2>7 DEF StageCandidate, Conclude
<1>10. CASE CaptureAndPreflight
  <2>1. UNCHANGED <<d1, pending, attempts, good>> /\ pc = "capture" /\ pending = None
    BY <1>1, <1>10 DEF CaptureAndPreflight, StepInv
  <2>2. TablesInv' /\ PendingInv'
    BY <1>1, <2>1, QuietTables DEF PendingInv
  <2>3. CASE run' = [run EXCEPT !.prev = CaptureState(d1)] /\ pc' = "activate"
    <3>1. run'.prev = CaptureState(d1) /\ Candidate' = Candidate /\ run'.pub = run.pub
      BY <2>3 DEF TypeOK, RunRecord, Candidate
    <3>2. OneState(CaptureState(d1))
      BY <1>1 DEF OneState, CaptureState, TablesInv, OnePublicationVisible
    <3>3. StepInv'
      BY <1>1, <2>1, <2>3, <3>1, <3>2 DEF StepInv, Ready, OneState, CaptureState
    <3>4. QED
      BY <2>2, <3>3 DEF PublicationInv
  <2>4. CASE pc' = "record"
    BY <2>2, <2>4 DEF PublicationInv, StepInv
  <2>5. QED
    BY <1>10, <2>3, <2>4 DEF CaptureAndPreflight, Conclude
<1>11. CASE ActivateStagedSnapshot
  <2> DEFINE s == CandidateState(Candidate, run.prev)
             r == ActivateRequest(s)
  <2>1. /\ pc = "activate" /\ pending = None /\ UNCHANGED <<attempts, good, run>>
        /\ pc' \in {"readback", "reconcile"}
    BY <1>1, <1>11 DEF StepInv, ActivateStagedSnapshot, SendOnce, Goto
  <2>2. /\ s \in PublicationState /\ s.catalog = Candidate /\ s.meta = Candidate
        /\ s.quality = Candidate /\ Candidate \in Version
        /\ Candidate.pub <= attempts /\ Candidate.pub = run.pub
    BY <1>2, <1>8, <2>1 DEF CandidateState
  <2>3. /\ Ready(Candidate) /\ OneState(run.prev) /\ run.prev = CaptureState(d1)
        /\ run.prev.catalog = d1.active
        /\ good # None => good.pub < run.pub
    BY <1>1, <2>1 DEF StepInv, CaptureState, TablesInv, OnePublicationVisible
  <2>4. Candidate' = Candidate
    BY <2>1 DEF Candidate
  <2> HIDE DEF s
  <2>5. CASE Accepted(r, d1) /\ d1' = Applied(r, d1) /\ pending' = None
    <3>1. TablesInv' /\ d1'.active = Candidate /\ d1'.previous = d1.active
      BY <1>1, <2>1, <2>2, <2>3, <2>5, ActivationStep
    <3>2. Replaced(run.prev, Candidate)'
      BY <2>1, <2>3, <2>4, <3>1 DEF Replaced, OneState
    <3>3. StepInv'
      BY <2>1, <2>3, <2>5, <3>2 DEF StepInv, OneState
    <3>4. QED
      BY <2>5, <3>1, <3>3 DEF PublicationInv, PendingInv
  <2>6. CASE d1' = d1 /\ pending' = None /\ pc' = "reconcile"
    <3>1. TablesInv'
      BY <1>1, <2>1, <2>6, QuietTables
    <3>2. StepInv'
      BY <2>1, <2>3, <2>4, <2>6 DEF StepInv, OneState, Ready
    <3>3. QED
      BY <2>6, <3>1, <3>2 DEF PublicationInv, PendingInv
  <2>7. CASE d1' = d1 /\ pending' = r /\ pc' = "reconcile"
    <3>1. TablesInv'
      BY <1>1, <2>1, <2>7, QuietTables
    <3>2. StepInv'
      BY <2>1, <2>3, <2>4, <2>7 DEF StepInv, OneState, Ready, CaptureState, CandidateState, s
    <3>3. pending'.op = "activate" /\ pending'.state = s
      BY <2>2, <2>7, RequestTypes
    <3>4. PendingInv'
      BY <2>1, <2>2, <2>3, <2>7, <3>3 DEF PendingInv, Ready
    <3>5. QED
      BY <3>1, <3>2, <3>4 DEF PublicationInv
  <2>8. QED
    BY <1>11, <2>1, <2>5, <2>6, <2>7 DEF ActivateStagedSnapshot, SendOnce, Goto, s
<1>12. CASE Reconcile
  <2>1. UNCHANGED <<d1, pending, attempts, good>> /\ pc = "reconcile"
    BY <1>12 DEF Reconcile
  <2>2. TablesInv'
    BY <1>1, <2>1, QuietTables
  <2>3. PendingInv'
    BY <1>1, <2>1 DEF PendingInv, Ready
  <2>4. CASE pc' = "record"
    BY <2>2, <2>3, <2>4 DEF PublicationInv, StepInv
  <2>5. CASE d1.catalog = Candidate /\ Goto("readback")
    <3>1. d1.active = Candidate
      BY <1>1, <2>5 DEF TablesInv, OnePublicationVisible
    <3>2. pending = None /\ Replaced(run.prev, Candidate)
      BY <1>1, <2>1, <3>1 DEF StepInv, Ready
    <3>3. StepInv'
      BY <1>1, <2>1, <2>5, <3>2 DEF StepInv, Goto, Replaced, OneState, Candidate
    <3>4. QED
      BY <2>2, <2>3, <3>3 DEF PublicationInv
  <2>6. QED
    BY <1>12, <2>4, <2>5 DEF Reconcile, Conclude
<1>13. CASE ReadBack \/ ApiSmoke
  <2>1. /\ UNCHANGED <<d1, pending, attempts>> /\ pending = None
        /\ pc \in {"readback", "smoke"} /\ Replaced(run.prev, Candidate)
        /\ good # None => good.pub < run.pub
    BY <1>1, <1>13 DEF ReadBack, ApiSmoke, StepInv
  <2>2. PendingInv'
    BY <2>1 DEF PendingInv
  <2>3. /\ Candidate' = Candidate /\ run'.prev = run.prev /\ run'.pub = run.pub
    BY <1>13 DEF ReadBack, ApiSmoke, Accept, Goto, FailAfterWrite, TypeOK, RunRecord, Candidate
  <2>4. CASE good' = good /\ pc' \in {"smoke", "compensate"}
    <3>1. TablesInv'
      BY <1>1, <2>1, <2>4, QuietTables
    <3>2. StepInv'
      BY <2>1, <2>3, <2>4 DEF StepInv, Replaced, OneState
    <3>3. QED
      BY <2>2, <3>1, <3>2 DEF PublicationInv
  <2>5. CASE good' = Candidate /\ pc' = "finalize"
    <3>1. d1.active = Candidate /\ Candidate.pub = attempts
      BY <1>8, <2>1 DEF Replaced
    <3>2. TablesInv'
      BY <1>1, <1>2, <2>1, <2>5, <3>1 DEF TablesInv, OnePublicationVisible, LastGoodNeverLost,
           FreshInv, KeptInv
    <3>3. StepInv'
      BY <2>1, <2>3, <2>5 DEF StepInv, Replaced, OneState
    <3>4. QED
      BY <2>2, <3>2, <3>3 DEF PublicationInv
  <2>6. QED
    BY <1>13, <2>4, <2>5 DEF ReadBack, ApiSmoke, Accept, Goto, FailAfterWrite
<1>14. CASE Compensate
  <2> DEFINE s == run.prev
             r == CompensateRequest(s)
  <2>1. /\ pc = "compensate" /\ pending = None /\ pc' = "record"
        /\ UNCHANGED <<attempts, good>>
        /\ Replaced(s, Candidate)
        /\ good # None => good.pub < run.pub
    BY <1>1, <1>14 DEF StepInv, Compensate, SendOnce, Conclude
  <2>2. /\ s \in PublicationState /\ OneState(s) /\ d1.previous = s.catalog
        /\ d1.active # None /\ (good # None => good # d1.active)
    BY <1>2, <1>8, <2>1 DEF Replaced
  <2>3. StepInv'
    BY <2>1 DEF StepInv
  <2>4. CASE d1' = Applied(r, d1) /\ pending' = None
    BY <1>1, <2>1, <2>2, <2>3, <2>4, CompensationStep DEF PublicationInv, PendingInv
  <2>5. CASE d1' = d1 /\ pending' = None
    BY <1>1, <2>1, <2>3, <2>5, QuietTables DEF PublicationInv, PendingInv
  <2>6. CASE d1' = d1 /\ pending' = r
    <3>1. pending'.op = "compensate" /\ pending'.state = s
      BY <2>2, <2>6, RequestTypes
    <3>2. PendingInv'
      BY <2>1, <2>2, <2>6, <3>1 DEF PendingInv, OneState
    <3>3. QED
      BY <1>1, <2>1, <2>3, <2>6, <3>2, QuietTables DEF PublicationInv
  <2>7. QED
    BY <1>14, <2>1, <2>4, <2>5, <2>6 DEF Compensate, SendOnce
<1>15. CASE FinalizeReplacedTable
  <2>1. /\ pc = "finalize" /\ pc' = "record" /\ UNCHANGED <<pending, attempts, good>>
        /\ pending = None /\ good = Candidate /\ Replaced(run.prev, Candidate)
    BY <1>1, <1>15 DEF FinalizeReplacedTable, SendRetried, Conclude, StepInv
  <2>2. StepInv' /\ PendingInv'
    BY <2>1 DEF StepInv, PendingInv
  <2>3. CASE d1' = d1
    BY <1>1, <2>1, <2>2, <2>3, QuietTables DEF PublicationInv
  <2>4. CASE d1' = Finalized(d1)
    <3>1. /\ d1'.active = d1.active /\ d1'.previous = None /\ d1'.catalog = d1.catalog
          /\ d1'.meta = d1.meta /\ d1'.quality = d1.quality
      BY <2>4 DEF Finalized, TypeOK, D1State
    <3>2. TablesInv'
      BY <1>1, <2>1, <3>1 DEF TablesInv, OnePublicationVisible, LastGoodNeverLost, FreshInv,
           KeptInv, Replaced
    <3>3. QED
      BY <2>2, <3>2 DEF PublicationInv
  <2>5. QED
    BY <1>15, <2>3, <2>4 DEF FinalizeReplacedTable, SendRetried
<1>16. QED
  BY <1>3, <1>4, <1>5, <1>6, <1>7, <1>9, <1>10, <1>11, <1>12, <1>13, <1>14, <1>15
     DEF Next, CommonNext

LEMMA PublicationInvariant == Spec => [](TypeOK /\ RunInv /\ PublicationInv)
BY InitType, NextType, InitPublication, PublicationNext, PTL DEF Spec

\* Readers of an atomically published product never see a mix of two
\* publications, whatever faults, interruptions and late requests occur.
THEOREM NoMixedPublication == Spec => []OnePublicationVisible
<1>1. PublicationInv => OnePublicationVisible
  BY DEF PublicationInv, TablesInv
<1>2. QED
  BY <1>1, PublicationInvariant, PTL

\* The last version that passed its checks is never lost.
THEOREM LastGoodIsKept == Spec => []LastGoodNeverLost
<1>1. PublicationInv => LastGoodNeverLost
  BY DEF PublicationInv, TablesInv
<1>2. QED
  BY <1>1, PublicationInvariant, PTL

-----------------------------------------------------------------------------
(* The publication path implements ServedSnapshot. *)

LEMMA RefinedInit == Init => Promise!Init
BY DEF Init, EmptyD1, Promise!Init, Served, OnePublicationVisible

LEMMA RefinedNext ==
  ASSUME TypeOK, TypeOK', RunInv, PublicationInv, PublicationInv', [Next]_vars
  PROVE  [Promise!Next]_(Promise!vars)
<1>1. TablesInv /\ StepInv /\ PendingInv /\ TablesInv'
  BY DEF PublicationInv
<1>2. Served = d1.active /\ Served' = d1'.active
  BY <1>1 DEF Served, TablesInv, OnePublicationVisible
<1>3. attempts \in Nat /\ run.pub \in Nat
  BY DEF TypeOK, RunRecord
<1>4. ASSUME d1'.active = d1.active, d1'.previous = d1.previous, good' = good
      PROVE  UNCHANGED Promise!vars
  BY <1>2, <1>4 DEF Promise!vars
<1>5. ASSUME NEW s \in PublicationState, NEW v \in Version, v.pub <= attempts,
             s.catalog = v, s.meta = v, s.quality = v, Ready(v),
             Accepted(ActivateRequest(s), d1), d1' = Applied(ActivateRequest(s), d1),
             UNCHANGED <<good, attempts>>
      PROVE  Promise!Expose
  <2>1. /\ d1'.active = v /\ d1'.previous = d1.active /\ d1.previous = None
        /\ good # None => good = d1.active
    BY <1>1, <1>5, ActivationStep
  <2>2. QED
    BY <1>2, <1>5, <2>1 DEF Promise!Expose, Ready
<1>6. ASSUME NEW s \in PublicationState, OneState(s), d1.previous = s.catalog,
             good # None => good # d1.active,
             d1' = Applied(CompensateRequest(s), d1), UNCHANGED <<good, attempts>>
      PROVE  Promise!Revert
  <2>1. d1'.active = d1.previous /\ d1'.previous = None
    BY <1>1, <1>6, CompensationStep
  <2>2. QED
    BY <1>2, <1>6, <2>1 DEF Promise!Revert
<1>7. CASE UNCHANGED vars \/ Begin \/ ReadCatalog \/ ReadSource \/ AppendLedger \/ CutShort
           \/ CaptureAndPreflight \/ Reconcile
  BY <1>4, <1>7 DEF vars, Begin, ReadCatalog, ReadSource, AppendLedger, CutShort,
       CaptureAndPreflight, Reconcile
<1>8. CASE Settle
  <2>1. /\ pending # None /\ UNCHANGED <<attempts, good>>
        /\ \/ Accepted(pending, d1) /\ d1' = Applied(pending, d1)
           \/ d1' = d1
    BY <1>8 DEF Settle
  <2>2. CASE d1' = d1
    BY <1>4, <2>1, <2>2
  <2>3. CASE pending.op = "activate" /\ Accepted(pending, d1) /\ d1' = Applied(pending, d1)
    <3>1. pending.state \in PublicationState /\ pending = ActivateRequest(pending.state)
      BY <2>1, <2>3, RequestForms DEF TypeOK
    <3>2. Promise!Expose
      BY <1>1, <1>5, <2>1, <2>3, <3>1 DEF PendingInv
    <3>3. QED
      BY <3>2 DEF Promise!Next
  <2>4. CASE pending.op = "compensate" /\ d1' = Applied(pending, d1)
    <3>1. pending.state \in PublicationState /\ pending = CompensateRequest(pending.state)
      BY <2>1, <2>4, RequestForms DEF TypeOK
    <3>2. Promise!Revert
      BY <1>1, <1>6, <2>1, <2>4, <3>1 DEF PendingInv
    <3>3. QED
      BY <3>2 DEF Promise!Next
  <2>5. QED
    BY <1>1, <2>1, <2>2, <2>3, <2>4 DEF PendingInv
<1>9. CASE StageCandidate
  <2>1. (\E t : d1' = Staged(d1, t)) /\ good' = good
    BY <1>9 DEF StageCandidate
  <2>2. d1'.active = d1.active /\ d1'.previous = d1.previous
    BY <2>1 DEF Staged, TypeOK, D1State
  <2>3. QED
    BY <1>4, <2>1, <2>2
<1>10. ASSUME pc # "idle"
       PROVE  /\ Candidate \in Version /\ Candidate.pub = run.pub /\ run.pub = attempts
              /\ run.prev \in PublicationState
              /\ CandidateState(Candidate, run.prev) \in PublicationState
  BY <1>10, RunTypes DEF RunInv
<1>11. CASE ActivateStagedSnapshot
  <2> DEFINE s == CandidateState(Candidate, run.prev)
  <2>1. pc = "activate" /\ UNCHANGED <<attempts, good>> /\ Ready(Candidate)
    BY <1>1, <1>11 DEF StepInv, ActivateStagedSnapshot
  <2>2. /\ s \in PublicationState /\ s.catalog = Candidate /\ s.meta = Candidate
        /\ s.quality = Candidate /\ Candidate \in Version /\ Candidate.pub <= attempts
    BY <1>3, <1>10, <2>1 DEF CandidateState
  <2> HIDE DEF s
  <2>3. \/ Accepted(ActivateRequest(s), d1) /\ d1' = Applied(ActivateRequest(s), d1)
        \/ d1' = d1
    BY <1>11 DEF ActivateStagedSnapshot, SendOnce, s
  <2>4. Promise!Expose \/ d1' = d1
    BY <1>5, <2>1, <2>2, <2>3
  <2>5. QED
    BY <1>4, <2>1, <2>4 DEF Promise!Next
<1>12. CASE ReadBack \/ ApiSmoke
  <2>1. d1' = d1 /\ (good' = good \/ good' = Candidate) /\ d1.active = Candidate
    BY <1>1, <1>12 DEF ReadBack, ApiSmoke, Accept, StepInv, AfterActivation, Replaced
  <2>2. CASE good' = good
    BY <1>4, <2>1, <2>2
  <2>3. CASE good' = Candidate
    <3>1. Promise!Accept
      BY <1>2, <2>1, <2>3 DEF Promise!Accept
    <3>2. QED
      BY <3>1 DEF Promise!Next
  <2>4. QED
    BY <2>1, <2>2, <2>3
<1>13. CASE Compensate
  <2>1. /\ pc = "compensate" /\ UNCHANGED <<attempts, good>>
        /\ Replaced(run.prev, Candidate) /\ (good # None => good.pub < run.pub)
        /\ d1' = Applied(CompensateRequest(run.prev), d1) \/ d1' = d1
    BY <1>1, <1>13 DEF StepInv, AfterActivation, Compensate, SendOnce
  <2>2. Promise!Revert \/ d1' = d1
    BY <1>3, <1>6, <1>10, <2>1 DEF Replaced
  <2>3. QED
    BY <1>4, <2>1, <2>2 DEF Promise!Next
<1>14. CASE FinalizeReplacedTable
  <2>1. /\ d1' = d1 \/ d1' = Finalized(d1)
        /\ good' = good /\ good = Candidate /\ d1.active = Candidate
    BY <1>1, <1>14 DEF FinalizeReplacedTable, SendRetried, StepInv, AfterActivation, Replaced
  <2>2. CASE d1' = d1
    BY <1>4, <2>1, <2>2
  <2>3. CASE d1' = Finalized(d1)
    <3>1. d1'.active = d1.active /\ d1'.previous = None
      BY <2>3 DEF Finalized, TypeOK, D1State
    <3>2. Promise!Forget
      BY <1>2, <2>1, <3>1 DEF Promise!Forget
    <3>3. QED
      BY <3>2 DEF Promise!Next
  <2>4. QED
    BY <2>1, <2>2, <2>3
<1>15. QED
  BY <1>7, <1>8, <1>9, <1>11, <1>12, <1>13, <1>14 DEF Next, CommonNext

\* The atomic path keeps the promise made to readers: one whole publication or
\* none at every moment, replaced in one step, its predecessor kept until the
\* replacement has been accepted.
THEOREM KeepsPromise == Spec => ImplementsServedSnapshot
<1>1. PublicationInv /\ TypeOK /\ RunInv /\ TypeOK' /\ PublicationInv' /\ [Next]_vars
        => [Promise!Next]_(Promise!vars)
  BY RefinedNext
<1>2. QED
  BY <1>1, RefinedInit, PublicationInvariant, PTL
     DEF Spec, ImplementsServedSnapshot, Promise!Spec

-----------------------------------------------------------------------------
(***************************************************************************)
(* The replace path, for any row counts, gate and number of runs and       *)
(* faults.  A run finds its way back because, from the swap to the end of  *)
(* its checks, __previous is the table that the run found.                 *)
(***************************************************************************)
Shaped(d) ==
  d = [active |-> d.active, previous |-> d.previous, staging |-> d.staging,
       catalog |-> d.catalog, meta |-> d.meta, quality |-> d.quality]

SameTables(d, e) == d.active = e.active /\ d.previous = e.previous /\ d.staging = e.staging

LocalsShaped(r) ==
  /\ r = [pub |-> r.pub, rows |-> r.rows, lastGood |-> r.lastGood, prev |-> r.prev,
          committed |-> r.committed, result |-> r.result, faults0 |-> r.faults0]
  /\ r.result = [outcome |-> r.result.outcome, stage |-> r.result.stage, rollback |-> r.result.rollback]
  /\ r.rows \in Nat

\* The run in progress has the last publication_id, of which nothing is in the
\* ledger yet.
Numbered ==
  /\ attempts_l \in Nat
  /\ ledger_l = [p \in 1..MaxRuns |-> ledger_l[p]]
  /\ LocalsShaped(run_l)
  /\ pc_l # "idle" => attempts_l > 0 /\ attempts_l <= MaxRuns /\ run_l.pub = attempts_l
  /\ \A p \in 1..MaxRuns : p > attempts_l \/ (p = attempts_l /\ pc_l # "idle") => ledger_l[p] = None

\* A request that was given up on ends its run, whose table is loaded.
LateRequest ==
  /\ pending_l \in {None, Replace!SwapRequest, Replace!RestoreRequest}
  /\ pending_l # None => pc_l \in {"record", "idle"} /\ d1_l.staging # Torn

Unswapped == pc_l \in {"lastgood", "source", "write", "swap"}
Swapped == pc_l \in {"readback", "smoke", "catalog", "meta", "evidence", "restore"}

\* The last attempt says, or will say, that it put the old table back.
SaysRestored ==
  \/ pc_l = "uncatalog"
  \/ pc_l = "record" /\ run_l.result.rollback = "restored"
  \/ pc_l = "idle" /\ attempts_l > 0 /\ ledger_l[attempts_l] # None /\ ledger_l[attempts_l].rollback = "restored"

OldTable ==
  /\ Unswapped => d1_l.active = before_l.active
  /\ pc_l = "swap" => d1_l.previous = None /\ d1_l.staging = Replace!Candidate
  /\ Swapped => d1_l.previous = before_l.active /\ d1_l.staging # Torn
  /\ SaysRestored => pending_l = None /\ d1_l.active = before_l.active /\ d1_l.previous = None

ReplaceInv ==
  /\ Shaped(d1_l) /\ d1_l.active # Torn /\ d1_l.previous # Torn
  /\ Numbered /\ LateRequest /\ OldTable
  /\ attempts_l <= MaxRuns
  /\ pc_l \in Replace!PCs \ {"capture", "activate", "reconcile", "compensate"}

\* What the requests of the path do to the tables.
LEMMA ReplaceRequests ==
  ASSUME NEW d, Shaped(d)
  PROVE  /\ \A t : /\ Shaped(Replace!Staged(d, t)) /\ Replace!Staged(d, t).staging = t
                   /\ Replace!Staged(d, t).active = d.active /\ Replace!Staged(d, t).previous = d.previous
         /\ Shaped(Replace!Finalized(d)) /\ Replace!Finalized(d).previous = None
         /\ Replace!Finalized(d).active = d.active /\ Replace!Finalized(d).staging = d.staging
<1> DEFINE a == d.active
           b == d.previous
           c == d.staging
           e == d.catalog
           f == d.meta
           g == d.quality
<1>1. d = [active |-> a, previous |-> b, staging |-> c, catalog |-> e, meta |-> f, quality |-> g]
  BY DEF Shaped
<1> HIDE DEF a, b, c, e, f, g
<1>2. QED
  BY <1>1 DEF Shaped, SameTables, Replace!Staged, Replace!Finalized

\* A row written beside the tables.
RowWritten(d, e) ==
  \E row : e \in {[d EXCEPT !.catalog = row], [d EXCEPT !.meta = row], [d EXCEPT !.quality = row]}

LEMMA RowEffect ==
  ASSUME NEW d, NEW e, Shaped(d), e = d \/ RowWritten(d, e)
  PROVE  Shaped(e) /\ SameTables(e, d)
<1>1. CASE e = d
  BY <1>1 DEF SameTables
<1>2. CASE RowWritten(d, e)
  <2>1. PICK row : e \in {[d EXCEPT !.catalog = row], [d EXCEPT !.meta = row], [d EXCEPT !.quality = row]}
    BY <1>2 DEF RowWritten
  <2>2. QED
    BY <2>1 DEF Shaped, SameTables
<1>3. QED
  BY <1>1, <1>2

LEMMA SwapEffect ==
  ASSUME NEW d, Shaped(d)
  PROVE  /\ Replace!Accepted(Replace!SwapRequest, d) =>
              d.staging # None /\ (d.active # None => d.previous = None)
         /\ Shaped(Replace!Applied(Replace!SwapRequest, d))
         /\ Replace!Applied(Replace!SwapRequest, d).active = d.staging
         /\ Replace!Applied(Replace!SwapRequest, d).staging = None
         /\ Replace!Applied(Replace!SwapRequest, d).previous = IF d.active # None THEN d.active ELSE d.previous
<1>1. Replace!SwapRequest.op = "swap"
  BY DEF Replace!SwapRequest
<1>2. /\ Replace!Accepted(Replace!SwapRequest, d) = Replace!CanPromote(d, d.active # None)
      /\ Replace!Applied(Replace!SwapRequest, d) = Replace!Promote(d, d.active # None)
  BY <1>1 DEF Replace!Accepted, Replace!Applied
<1>3. QED
  BY <1>2 DEF Replace!CanPromote, Replace!Promote, Shaped

LEMMA RestoreEffect ==
  ASSUME NEW d, Shaped(d)
  PROVE  /\ Replace!Accepted(Replace!RestoreRequest, d)
         /\ Shaped(Replace!Applied(Replace!RestoreRequest, d))
         /\ Replace!Applied(Replace!RestoreRequest, d).active = d.previous
         /\ Replace!Applied(Replace!RestoreRequest, d).previous = None
         /\ Replace!Applied(Replace!RestoreRequest, d).staging = d.staging
<1>1. Replace!RestoreRequest.op = "restore"
  BY DEF Replace!RestoreRequest
<1>2. /\ Replace!Accepted(Replace!RestoreRequest, d)
      /\ Replace!Applied(Replace!RestoreRequest, d) = Replace!Demote(d, d.previous # None)
  BY <1>1 DEF Replace!Accepted, Replace!Applied
<1>3. QED
  BY <1>2 DEF Replace!Demote, Shaped

\* How a run's locals move.
LEMMA LocalSteps ==
  ASSUME LocalsShaped(run_l)
  PROVE  /\ \A o, s, b : Replace!Conclude(o, s, b) =>
              /\ pc_l' = "record" /\ LocalsShaped(run_l)' /\ run_l'.pub = run_l.pub
              /\ run_l'.result.rollback = b
         /\ \A p, s : Replace!FailAfterWrite(p, s) =>
              pc_l' = p /\ LocalsShaped(run_l)' /\ run_l'.pub = run_l.pub
BY DEF LocalsShaped, Replace!Conclude, Replace!FailAfterWrite

\* The published version is not mistaken for a torn table.
LEMMA CandidateWhole ==
  ASSUME Numbered, pc_l # "idle"
  PROVE  Replace!Candidate # Torn /\ Replace!Candidate # None
<1>1. Replace!Candidate \in Version
  BY DEF Numbered, LocalsShaped, Replace!Candidate, Version
<1>2. QED
  BY <1>1, NoneAssumption

\* A step of the run in progress leaves its number alone.
LEMMA StaysNumbered ==
  ASSUME Numbered, pc_l # "idle", UNCHANGED <<ledger_l, attempts_l>>,
         LocalsShaped(run_l)', run_l'.pub = run_l.pub
  PROVE  Numbered'
BY DEF Numbered

LEMMA BeginKeeps ==
  ASSUME ReplaceInv, Replace!Begin
  PROVE  ReplaceInv'
<1>1. /\ UNCHANGED <<d1_l, pending_l, ledger_l>> /\ before_l' = d1_l /\ pc_l = "idle" /\ pc_l' = "lastgood"
      /\ attempts_l' = attempts_l + 1 /\ attempts_l < MaxRuns /\ pending_l = None
  BY DEF Replace!Begin
<1>2. LocalsShaped(run_l)' /\ run_l'.pub = attempts_l'
  <2> DEFINE nothing == Replace!CaptureState(Replace!EmptyD1)
  <2>1. run_l' = [pub |-> attempts_l + 1, rows |-> 0, lastGood |-> None, prev |-> nothing,
                  committed |-> FALSE, result |-> Replace!NoResult, faults0 |-> faults_l]
    BY DEF Replace!Begin, Replace!NewRun
  <2>2. Replace!NoResult = [outcome |-> "failed", stage |-> "write", rollback |-> "none"]
    BY DEF Replace!NoResult
  <2> HIDE DEF nothing
  <2>3. /\ run_l' = [pub |-> run_l'.pub, rows |-> run_l'.rows, lastGood |-> run_l'.lastGood,
                     prev |-> run_l'.prev, committed |-> run_l'.committed, result |-> run_l'.result,
                     faults0 |-> run_l'.faults0]
        /\ run_l'.rows = 0 /\ run_l'.result = Replace!NoResult /\ run_l'.pub = attempts_l + 1
    BY <2>1
  <2>4. QED
    BY <1>1, <2>2, <2>3 DEF LocalsShaped
<1>3. Numbered' /\ attempts_l' <= MaxRuns
  BY <1>1, <1>2 DEF ReplaceInv, Numbered
<1>4. QED
  BY <1>1, <1>3 DEF ReplaceInv, LateRequest, OldTable, Unswapped, Swapped, SaysRestored, Replace!PCs

\* Until the swap nothing but the staging table is touched.
LEMMA ReadingKeeps ==
  ASSUME ReplaceInv, Replace!ReadCatalog \/ Replace!ReadSource
  PROVE  ReplaceInv'
<1>1. /\ UNCHANGED <<d1_l, pending_l, ledger_l, attempts_l, before_l>>
      /\ pc_l \in {"lastgood", "source"} /\ pc_l' \in {"source", "write", "record"}
      /\ pc_l' = "record" => run_l'.result.rollback = "none"
      /\ LocalsShaped(run_l)' /\ run_l'.pub = run_l.pub
  <2>1. LocalsShaped(run_l)
    BY DEF ReplaceInv, Numbered
  <2>2. CASE Replace!ReadCatalog
    BY <2>1, <2>2 DEF Replace!ReadCatalog, LocalsShaped
  <2>3. CASE Replace!ReadSource
    <3>1. PICK thisCount \in 0..ReplaceRows :
            \/ \E o, s : Replace!Conclude(o, s, "none")
            \/ /\ \E rows_l \in Replace!ApplyReliability(thisCount) : run_l' = [run_l EXCEPT !.rows = rows_l]
               /\ pc_l' = "write"
      BY <2>3 DEF Replace!ReadSource
    <3>2. Replace!ApplyReliability(thisCount) \subseteq Nat
      BY ReplaceAssumption DEF Replace!ApplyReliability
    <3>3. pc_l = "source" /\ UNCHANGED <<d1_l, pending_l, ledger_l, attempts_l, before_l>>
      BY <2>3 DEF Replace!ReadSource
    <3>4. CASE \E o, s : Replace!Conclude(o, s, "none")
      BY <2>1, <3>3, <3>4, LocalSteps
    <3>5. CASE /\ \E rows_l \in Replace!ApplyReliability(thisCount) : run_l' = [run_l EXCEPT !.rows = rows_l]
               /\ pc_l' = "write"
      BY <2>1, <3>2, <3>3, <3>5 DEF LocalsShaped
    <3>6. QED
      BY <3>1, <3>4, <3>5
  <2>4. QED
    BY <2>2, <2>3
<1>2. Numbered'
  BY <1>1, StaysNumbered DEF ReplaceInv
<1>3. QED
  BY <1>1, <1>2 DEF ReplaceInv, LateRequest, OldTable, Unswapped, Swapped, SaysRestored, Replace!PCs

LEMMA AppendKeeps ==
  ASSUME ReplaceInv, Replace!AppendLedger
  PROVE  ReplaceInv'
<1>1. /\ UNCHANGED <<d1_l, pending_l, run_l, attempts_l, before_l>> /\ pc_l = "record" /\ pc_l' = "idle"
      /\ ledger_l' = ledger_l \/ ledger_l' = [ledger_l EXCEPT ![run_l.pub] = run_l.result]
  BY DEF Replace!AppendLedger
<1>2. Numbered'
  BY <1>1 DEF ReplaceInv, Numbered
<1>3. \/ ledger_l'[attempts_l] = None
      \/ ledger_l'[attempts_l] = run_l.result
  BY <1>1 DEF ReplaceInv, Numbered
<1>4. SaysRestored' => SaysRestored
  BY <1>1, <1>3 DEF SaysRestored
<1>5. QED
  BY <1>1, <1>2, <1>4 DEF ReplaceInv, LateRequest, OldTable, Unswapped, Swapped, Replace!PCs

LEMMA CutShortKeeps ==
  ASSUME ReplaceInv, Replace!CutShort
  PROVE  ReplaceInv'
<1>1. /\ UNCHANGED <<d1_l, pending_l, run_l, attempts_l, before_l, ledger_l>> /\ pc_l # "idle" /\ pc_l' = "idle"
  BY DEF Replace!CutShort
<1>2. Numbered' /\ ledger_l'[attempts_l] = None
  BY <1>1 DEF ReplaceInv, Numbered
<1>3. ~SaysRestored'
  BY <1>1, <1>2 DEF SaysRestored
<1>4. QED
  BY <1>1, <1>2, <1>3 DEF ReplaceInv, LateRequest, OldTable, Unswapped, Swapped, Replace!PCs

LEMMA SettleKeeps ==
  ASSUME ReplaceInv, Replace!Settle
  PROVE  ReplaceInv'
<1>1. /\ UNCHANGED <<pc_l, run_l, ledger_l, attempts_l, before_l>> /\ pending_l # None /\ pending_l' = None
      /\ d1_l' = d1_l \/ d1_l' = Replace!Applied(pending_l, d1_l)
  BY DEF Replace!Settle
<1>2. /\ pc_l \in {"record", "idle"} /\ d1_l.staging # Torn /\ ~SaysRestored
      /\ pending_l \in {Replace!SwapRequest, Replace!RestoreRequest}
  BY <1>1 DEF ReplaceInv, LateRequest, OldTable
<1>3. Shaped(d1_l') /\ d1_l'.active # Torn /\ d1_l'.previous # Torn
  <2>1. Shaped(d1_l) /\ d1_l.active # Torn /\ d1_l.previous # Torn
    BY DEF ReplaceInv
  <2>2. QED
    BY <1>1, <1>2, <2>1, SwapEffect, RestoreEffect, NoneAssumption
<1>4. Numbered' /\ ~SaysRestored'
  BY <1>1, <1>2 DEF ReplaceInv, Numbered, SaysRestored
<1>5. QED
  BY <1>1, <1>2, <1>3, <1>4 DEF ReplaceInv, LateRequest, OldTable, Unswapped, Swapped, Replace!PCs

LEMMA LoadStagingKeeps ==
  ASSUME ReplaceInv, Replace!LoadStaging
  PROVE  ReplaceInv'
<1>1. pc_l = "write" /\ UNCHANGED <<pending_l, ledger_l, attempts_l, before_l>> /\ pending_l = None
  BY DEF Replace!LoadStaging, ReplaceInv, LateRequest
<1>2. \/ /\ d1_l' = Replace!Staged(d1_l, Replace!Candidate) /\ d1_l.previous = None
         /\ pc_l' = "swap" /\ run_l' = run_l
      \/ /\ \E t : d1_l' = Replace!Staged(d1_l, t)
         /\ Replace!Conclude("failed", "write", "none")
  BY DEF Replace!LoadStaging, Replace!Goto
<1>3. Shaped(d1_l) /\ LocalsShaped(run_l)
  BY DEF ReplaceInv, Numbered
<1>4. /\ Shaped(d1_l') /\ d1_l'.active = d1_l.active /\ d1_l'.previous = d1_l.previous
      /\ LocalsShaped(run_l)' /\ run_l'.pub = run_l.pub
      /\ \/ /\ d1_l.previous = None /\ pc_l' = "swap" /\ run_l' = run_l
            /\ d1_l'.staging = Replace!Candidate
         \/ pc_l' = "record" /\ run_l'.result.rollback = "none"
  <2>1. CASE /\ d1_l' = Replace!Staged(d1_l, Replace!Candidate) /\ d1_l.previous = None
             /\ pc_l' = "swap" /\ run_l' = run_l
    <3>1. LocalsShaped(run_l)'
      BY <1>3, <2>1 DEF LocalsShaped
    <3>2. QED
      BY <1>3, <2>1, <3>1, ReplaceRequests
  <2>2. CASE /\ \E t : d1_l' = Replace!Staged(d1_l, t)
             /\ Replace!Conclude("failed", "write", "none")
    BY <1>3, <2>2, ReplaceRequests, LocalSteps
  <2>3. QED
    BY <1>2, <2>1, <2>2
<1>5. Numbered'
  BY <1>1, <1>4, StaysNumbered DEF ReplaceInv
<1>6. run_l' = run_l => Replace!Candidate' = Replace!Candidate
  BY DEF Replace!Candidate
<1>7. QED
  BY <1>1, <1>4, <1>5, <1>6 DEF ReplaceInv, LateRequest, OldTable, Unswapped, Swapped, SaysRestored, Replace!PCs

LEMMA SwapKeeps ==
  ASSUME ReplaceInv, Replace!SwapTables
  PROVE  ReplaceInv'
<1> DEFINE after == Replace!Applied(Replace!SwapRequest, d1_l)
<1>1. /\ pc_l = "swap" /\ pending_l = None
      /\ UNCHANGED <<ledger_l, attempts_l, before_l>>
  BY DEF Replace!SwapTables, ReplaceInv, LateRequest
<1>2. \/ /\ Replace!Accepted(Replace!SwapRequest, d1_l) /\ d1_l' = after
         /\ pc_l' = "readback" /\ run_l' = run_l /\ pending_l' = pending_l
      \/ /\ d1_l' \in {d1_l, after} /\ pending_l' \in {pending_l, Replace!SwapRequest}
         /\ pending_l' = Replace!SwapRequest => d1_l' = d1_l \/ pending_l' = pending_l
         /\ Replace!Conclude("failed", "write", "none")
  BY DEF Replace!SwapTables, Replace!SendOnce, Replace!Goto
<1>3. /\ Shaped(d1_l) /\ LocalsShaped(run_l) /\ d1_l.active = before_l.active /\ d1_l.previous = None
      /\ d1_l.staging = Replace!Candidate /\ d1_l.staging # Torn
      /\ d1_l.active # Torn
  BY <1>1, CandidateWhole DEF ReplaceInv, Numbered, OldTable, Unswapped
<1>4. /\ Shaped(after) /\ after.active = d1_l.staging /\ after.staging = None
      /\ after.previous = before_l.active
  BY <1>3, SwapEffect
<1> HIDE DEF after
<1>5. /\ LocalsShaped(run_l)' /\ run_l'.pub = run_l.pub
      /\ \/ pc_l' = "readback" /\ d1_l' = after /\ pending_l' = None
         \/ pc_l' = "record" /\ run_l'.result.rollback = "none"
  <2>1. CASE run_l' = run_l
    <3>1. LocalsShaped(run_l)'
      BY <1>3, <2>1 DEF LocalsShaped
    <3>2. CASE Replace!Conclude("failed", "write", "none")
      BY <1>3, <3>2, LocalSteps
    <3>3. QED
      BY <1>1, <1>2, <2>1, <3>1, <3>2
  <2>2. CASE Replace!Conclude("failed", "write", "none")
    BY <1>3, <2>2, LocalSteps
  <2>3. QED
    BY <1>2, <2>1, <2>2
<1>6. /\ d1_l' \in {d1_l, after} /\ pending_l' \in {None, Replace!SwapRequest}
  BY <1>1, <1>2
<1>7. Numbered'
  BY <1>1, <1>5, StaysNumbered DEF ReplaceInv
<1>8. Shaped(d1_l') /\ d1_l'.active # Torn /\ d1_l'.previous # Torn /\ d1_l'.staging # Torn
  BY <1>3, <1>4, <1>6, NoneAssumption
<1>9. OldTable' /\ LateRequest'
  BY <1>1, <1>4, <1>5, <1>6, <1>8 DEF OldTable, LateRequest, Unswapped, Swapped, SaysRestored
<1>10. QED
  BY <1>1, <1>5, <1>7, <1>8, <1>9 DEF ReplaceInv, Replace!PCs

\* From the swap to the end, the tables stay as they are.
LEMMA CheckingKeeps ==
  ASSUME ReplaceInv, Swapped, UNCHANGED <<pending_l, ledger_l, attempts_l, before_l>>,
         Shaped(d1_l'), SameTables(d1_l', d1_l), LocalsShaped(run_l)', run_l'.pub = run_l.pub,
         pc_l' \in {"readback", "smoke", "catalog", "meta", "evidence", "restore", "finalize"}
  PROVE  ReplaceInv'
<1>1. Numbered'
  BY StaysNumbered DEF ReplaceInv, Swapped
<1>2. pending_l = None
  BY DEF ReplaceInv, LateRequest, Swapped
<1>3. QED
  BY <1>1, <1>2 DEF ReplaceInv, SameTables, LateRequest, OldTable, Unswapped, Swapped, SaysRestored, Replace!PCs

LEMMA ChecksKeep ==
  ASSUME ReplaceInv,
         \/ Replace!ReadBack \/ Replace!ApiSmoke \/ Replace!UpsertCatalog
         \/ Replace!PublishProductMeta \/ Replace!PublishProductEvidence
  PROVE  ReplaceInv'
<1>1. Shaped(d1_l) /\ LocalsShaped(run_l)
  BY DEF ReplaceInv, Numbered
<1>2. run_l' = run_l => LocalsShaped(run_l)' /\ run_l'.pub = run_l.pub
  BY <1>1 DEF LocalsShaped
<1>3. d1_l' = d1_l => Shaped(d1_l') /\ SameTables(d1_l', d1_l)
  BY <1>1 DEF SameTables
<1>4. CASE Replace!ReadBack \/ Replace!ApiSmoke
  <2>1. /\ UNCHANGED <<d1_l, pending_l, ledger_l, attempts_l, before_l>> /\ pc_l \in {"readback", "smoke"}
        /\ \/ pc_l' \in {"smoke", "catalog"} /\ run_l' = run_l
           \/ \E s : Replace!FailAfterWrite("restore", s)
    BY <1>4 DEF Replace!ReadBack, Replace!ApiSmoke, Replace!Goto
  <2>2. LocalsShaped(run_l)' /\ run_l'.pub = run_l.pub /\ pc_l' \in {"smoke", "catalog", "restore"}
    BY <1>1, <1>2, <2>1, LocalSteps
  <2>3. QED
    BY <1>3, <2>1, <2>2, CheckingKeeps DEF Swapped
<1>5. CASE Replace!UpsertCatalog
  <2>1. /\ UNCHANGED <<pending_l, ledger_l, attempts_l, before_l>> /\ pc_l = "catalog"
        /\ d1_l' = d1_l \/ RowWritten(d1_l, d1_l')
        /\ \/ pc_l' = "meta" /\ run_l' = [run_l EXCEPT !.committed = TRUE]
           \/ \E s : Replace!FailAfterWrite("restore", s)
           \/ pc_l' = "restore" /\ run_l' = [run_l EXCEPT !.committed = TRUE, !.result.stage = "catalog"]
    BY <1>5 DEF Replace!UpsertCatalog, Replace!SendRetried, RowWritten
  <2>2. LocalsShaped(run_l)' /\ run_l'.pub = run_l.pub /\ pc_l' \in {"meta", "restore"}
    <3>1. CASE pc_l' = "meta" /\ run_l' = [run_l EXCEPT !.committed = TRUE]
      BY <1>1, <3>1 DEF LocalsShaped
    <3>2. CASE \E s : Replace!FailAfterWrite("restore", s)
      BY <1>1, <3>2, LocalSteps
    <3>3. CASE pc_l' = "restore" /\ run_l' = [run_l EXCEPT !.committed = TRUE, !.result.stage = "catalog"]
      BY <1>1, <3>3 DEF LocalsShaped
    <3>4. QED
      BY <2>1, <3>1, <3>2, <3>3
  <2>3. Shaped(d1_l') /\ SameTables(d1_l', d1_l)
    BY <1>1, <2>1, RowEffect
  <2>4. QED
    BY <2>1, <2>2, <2>3, CheckingKeeps DEF Swapped
<1>6. CASE Replace!PublishProductMeta \/ Replace!PublishProductEvidence
  <2>1. /\ UNCHANGED <<pending_l, ledger_l, attempts_l, before_l>> /\ pc_l \in {"meta", "evidence"}
        /\ d1_l' = d1_l \/ RowWritten(d1_l, d1_l')
        /\ \/ pc_l' \in {"evidence", "finalize"} /\ run_l' = run_l
           \/ \E s : Replace!FailAfterWrite("restore", s)
    BY <1>6 DEF Replace!PublishProductMeta, Replace!PublishProductEvidence, Replace!SendRetried, Replace!Goto,
       RowWritten
  <2>2. LocalsShaped(run_l)' /\ run_l'.pub = run_l.pub /\ pc_l' \in {"evidence", "finalize", "restore"}
    BY <1>1, <1>2, <2>1, LocalSteps
  <2>3. Shaped(d1_l') /\ SameTables(d1_l', d1_l)
    BY <1>1, <2>1, RowEffect
  <2>4. QED
    BY <2>1, <2>2, <2>3, CheckingKeeps DEF Swapped
<1>7. QED
  BY <1>4, <1>5, <1>6

LEMMA RestoreKeeps ==
  ASSUME ReplaceInv, Replace!RestoreReplacedTable
  PROVE  ReplaceInv'
<1> DEFINE after == Replace!Applied(Replace!RestoreRequest, d1_l)
<1>1. /\ pc_l = "restore" /\ pending_l = None /\ UNCHANGED <<ledger_l, attempts_l, before_l>>
  BY DEF Replace!RestoreReplacedTable, ReplaceInv, LateRequest
<1>2. /\ Shaped(d1_l) /\ LocalsShaped(run_l) /\ d1_l.previous = before_l.active /\ d1_l.staging # Torn
      /\ d1_l.active # Torn /\ d1_l.previous # Torn
  BY <1>1 DEF ReplaceInv, Numbered, OldTable, Swapped
<1>3. /\ Replace!Accepted(Replace!RestoreRequest, d1_l)
      /\ Shaped(after) /\ after.active = before_l.active /\ after.previous = None /\ after.staging # Torn
  BY <1>2, RestoreEffect
<1>4. \/ /\ d1_l' = after /\ pending_l' = pending_l
         /\ \/ pc_l' = "uncatalog" /\ run_l' = run_l
            \/ \E s : Replace!Conclude("failed", s, "restored")
      \/ /\ d1_l' \in {d1_l, after} /\ pending_l' \in {pending_l, Replace!RestoreRequest}
         /\ \E s : Replace!Conclude("failed", s, "restore_failed")
  BY <1>3 DEF Replace!RestoreReplacedTable, Replace!SendOnce, Replace!Goto
<1> HIDE DEF after
<1>5. /\ LocalsShaped(run_l)' /\ run_l'.pub = run_l.pub
      /\ \/ pc_l' \in {"uncatalog", "record"} /\ d1_l' = after /\ pending_l' = None
         \/ pc_l' = "record" /\ run_l'.result.rollback = "restore_failed"
  <2>1. run_l' = run_l => LocalsShaped(run_l)' /\ run_l'.pub = run_l.pub
    BY <1>2 DEF LocalsShaped
  <2>2. \A s, b : Replace!Conclude("failed", s, b) =>
          /\ pc_l' = "record" /\ LocalsShaped(run_l)' /\ run_l'.pub = run_l.pub /\ run_l'.result.rollback = b
    BY <1>2, LocalSteps
  <2>3. QED
    BY <1>1, <1>4, <2>1, <2>2
<1>6. d1_l' \in {d1_l, after} /\ pending_l' \in {None, Replace!RestoreRequest}
  BY <1>1, <1>4
<1>7. Numbered'
  BY <1>1, <1>5, StaysNumbered DEF ReplaceInv
<1>8. Shaped(d1_l') /\ d1_l'.active # Torn /\ d1_l'.previous # Torn /\ d1_l'.staging # Torn
  BY <1>2, <1>3, <1>6, NoneAssumption
<1>9. OldTable' /\ LateRequest'
  BY <1>1, <1>3, <1>5, <1>6, <1>8 DEF OldTable, LateRequest, Unswapped, Swapped, SaysRestored
<1>10. QED
  BY <1>1, <1>5, <1>7, <1>8, <1>9 DEF ReplaceInv, Replace!PCs

LEMMA RestoreCatalogKeeps ==
  ASSUME ReplaceInv, Replace!RestoreCatalog
  PROVE  ReplaceInv'
<1>1. /\ pc_l = "uncatalog" /\ UNCHANGED <<pending_l, ledger_l, attempts_l, before_l>>
      /\ d1_l' = d1_l \/ RowWritten(d1_l, d1_l')
      /\ \E s, b : Replace!Conclude("failed", s, b)
  BY DEF Replace!RestoreCatalog, Replace!SendRetried, RowWritten
<1>2. /\ pending_l = None /\ Shaped(d1_l) /\ LocalsShaped(run_l)
      /\ d1_l.active = before_l.active /\ d1_l.previous = None
  BY <1>1 DEF ReplaceInv, OldTable, SaysRestored, Numbered
<1>3. LocalsShaped(run_l)' /\ run_l'.pub = run_l.pub /\ pc_l' = "record"
  BY <1>1, <1>2, LocalSteps
<1>4. Shaped(d1_l') /\ SameTables(d1_l', d1_l)
  BY <1>1, <1>2, RowEffect
<1>5. Numbered'
  BY <1>1, <1>3, StaysNumbered DEF ReplaceInv
<1>6. QED
  BY <1>1, <1>2, <1>3, <1>4, <1>5
  DEF ReplaceInv, SameTables, LateRequest, OldTable, Unswapped, Swapped, SaysRestored, Replace!PCs

LEMMA FinalizeKeeps ==
  ASSUME ReplaceInv, Replace!FinalizeReplacedTable
  PROVE  ReplaceInv'
<1>1. /\ pc_l = "finalize" /\ UNCHANGED <<pending_l, ledger_l, attempts_l, before_l>>
      /\ d1_l' \in {d1_l, Replace!Finalized(d1_l)}
      /\ \/ Replace!Conclude("published", "completed", "none")
         \/ pc_l' = "idle" /\ run_l' = run_l
  BY DEF Replace!FinalizeReplacedTable, Replace!SendRetried, Replace!Goto
<1>2. /\ pending_l = None /\ Shaped(d1_l) /\ LocalsShaped(run_l)
      /\ d1_l.active # Torn /\ d1_l.previous # Torn
  BY <1>1 DEF ReplaceInv, LateRequest, Numbered
<1>3. LocalsShaped(run_l)' /\ run_l'.pub = run_l.pub
  <2>1. run_l' = run_l => LocalsShaped(run_l)' /\ run_l'.pub = run_l.pub
    BY <1>2 DEF LocalsShaped
  <2>2. QED
    BY <1>1, <1>2, <2>1, LocalSteps
<1>4. Numbered' /\ ledger_l'[attempts_l] = None
  BY <1>1, <1>3, StaysNumbered DEF ReplaceInv, Numbered
<1>5. /\ pc_l' = "idle" \/ (pc_l' = "record" /\ run_l'.result.rollback = "none")
      /\ ~SaysRestored'
  BY <1>1, <1>2, <1>4, LocalSteps DEF SaysRestored
<1>6. Shaped(d1_l') /\ d1_l'.active # Torn /\ d1_l'.previous # Torn
  BY <1>1, <1>2, ReplaceRequests, NoneAssumption
<1>7. QED
  BY <1>1, <1>2, <1>4, <1>5, <1>6 DEF ReplaceInv, LateRequest, OldTable, Unswapped, Swapped, Replace!PCs

LEMMA ReplaceInvariant == Replace!Spec => []ReplaceInv
<1>1. Replace!Init => ReplaceInv
  <2> SUFFICES ASSUME Replace!Init PROVE ReplaceInv
    OBVIOUS
  <2>1. /\ d1_l = Replace!EmptyD1 /\ pending_l = None /\ pc_l = "idle" /\ attempts_l = 0
        /\ run_l = Replace!NewRun(0) /\ ledger_l = [p \in 1..MaxRuns |-> None]
    BY DEF Replace!Init
  <2> DEFINE nothing == Replace!CaptureState(Replace!EmptyD1)
  <2>2. run_l = [pub |-> 0, rows |-> 0, lastGood |-> None, prev |-> nothing,
                 committed |-> FALSE, result |-> Replace!NoResult, faults0 |-> faults_l]
    BY <2>1 DEF Replace!NewRun
  <2>3. Replace!NoResult = [outcome |-> "failed", stage |-> "write", rollback |-> "none"]
    BY DEF Replace!NoResult
  <2> HIDE DEF nothing
  <2>4. /\ run_l = [pub |-> run_l.pub, rows |-> run_l.rows, lastGood |-> run_l.lastGood,
                    prev |-> run_l.prev, committed |-> run_l.committed, result |-> run_l.result,
                    faults0 |-> run_l.faults0]
        /\ run_l.rows = 0 /\ run_l.result = Replace!NoResult
    BY <2>2
  <2>5. LocalsShaped(run_l)
    BY <2>3, <2>4 DEF LocalsShaped
  <2>6. Shaped(d1_l) /\ d1_l.active = None /\ d1_l.previous = None
    BY <2>1 DEF Shaped, Replace!EmptyD1
  <2>7. QED
    BY <2>1, <2>5, <2>6, NoneAssumption, BoundAssumption
    DEF ReplaceInv, Numbered, LateRequest, OldTable, Unswapped, Swapped, SaysRestored, Replace!PCs
<1>2. ReplaceInv /\ [Replace!Next]_Replace!vars => ReplaceInv'
  <2>1. ASSUME ReplaceInv, UNCHANGED Replace!vars PROVE ReplaceInv'
    <3>1. Replace!Candidate' = Replace!Candidate
      BY <2>1 DEF Replace!vars, Replace!Candidate
    <3>2. QED
      BY <2>1, <3>1 DEF Replace!vars, ReplaceInv, Shaped, Numbered, LocalsShaped, LateRequest, OldTable,
            Unswapped, Swapped, SaysRestored
  <2>2. QED
    BY <2>1, BeginKeeps, ReadingKeeps, AppendKeeps, CutShortKeeps, SettleKeeps, LoadStagingKeeps, SwapKeeps,
       ChecksKeep, RestoreKeeps, RestoreCatalogKeeps, FinalizeKeeps
    DEF Replace!Next, Replace!CommonNext
<1>3. QED
  BY <1>1, <1>2, PTL DEF Replace!Spec

(***************************************************************************)
(* No half-loaded table is given to readers on the replace path either     *)
(* (replace_table, publisher.py), although a swap may be applied late.      *)
(***************************************************************************)
THEOREM ReplaceServesWhole == Replace!Spec => []ReplaceNeverServesTornTable
<1>1. ReplaceInv => ReplaceNeverServesTornTable
  BY DEF ReplaceInv, ReplaceNeverServesTornTable, Replace!NeverServesTornTable
<1>2. QED
  BY <1>1, ReplaceInvariant, PTL

(***************************************************************************)
(* An attempt that the ledger calls "restored" (_restore_snapshot) has put *)
(* the table of before back, and left no __previous in the way of the next *)
(* one.                                                                    *)
(***************************************************************************)
THEOREM RestoresExactly == Replace!Spec => []RestoredTableIsExact
<1>1. ReplaceInv => RestoredTableIsExact
  BY DEF ReplaceInv, OldTable, SaysRestored, RestoredTableIsExact, Replace!RestoredTableIsExact
<1>2. QED
  BY <1>1, ReplaceInvariant, PTL

-----------------------------------------------------------------------------
(***************************************************************************)
(* The modes that write into the served table, for any keys, lookback,     *)
(* batch size, clock and number of changes and faults.  Behind the lookback *)
(* of its newest row the table is settled: what the source has there, the  *)
(* table has too, so that a window that starts there is enough.            *)
(***************************************************************************)
Lag == IF mode = "append" THEN Lookback ELSE 0

Dated(rows_i) == IsFiniteSet(rows_i) /\ \A r \in rows_i : r.at \in Nat /\ r.at <= now
OneEach(rows_i) == \A r, s \in rows_i : Window!Pk(r) = Window!Pk(s) => r = s
KeysOf(rows_i, others) == \A r \in rows_i : \E s \in others : Window!Pk(r) = Window!Pk(s)
Settled(rows_i, others) == \A m \in rows_i, r \in others : r.at + Lag < m.at => r \in rows_i

InWindow == {r \in read : Window!InWindow(r)}

Relations ==
  /\ now \in Nat
  /\ Dated(source) /\ OneEach(source)
  /\ Dated(table) /\ OneEach(table) /\ KeysOf(table, source)
  /\ Dated(read) /\ OneEach(read) /\ KeysOf(read, source) /\ Settled(read, source)

\* What a run that ends now would leave is settled.
Resumable ==
  ~split /\ (pc_i \in {"idle", "source", "delete", "failed"} \/ (pc_i = "insert" /\ ~Window!Several)) =>
    Settled(table, source)

Watermark ==
  /\ pc_i \in {"source", "delete"} /\ mark # None => \E m \in table : mark = m.at
  /\ pc_i \in {"delete", "insert"} /\ mark # None => mark \in Nat
  /\ pc_i = "delete" => mode = "append" /\ mark # None

\* What is still to be written, and that the rest is there.
Writes ==
  /\ pc_i \in {"delete", "insert"} => todo \subseteq InWindow /\ KeysOf(table, read)
  /\ pc_i = "delete" \/ (pc_i = "insert" /\ ~Window!Several) => todo = InWindow
  /\ pc_i = "delete" /\ ~split => read \ InWindow \subseteq table
  /\ pc_i = "insert" /\ ~split => read \ todo \subseteq table
  /\ pc_i \in {"readback", "completed"} /\ ~split => table = read

WindowInv ==
  /\ Relations /\ Resumable /\ Watermark /\ Writes
  /\ pc_i \in {"idle", "source", "delete", "insert", "readback", "completed", "failed"}

\* The instance's own copies of the library's operators.
LEMMA SameFinite ==
  /\ \A set : Window!IsFiniteSet(set) = IsFiniteSet(set)
  /\ \A set : Window!Cardinality(set) = Cardinality(set)
BY DEF Window!IsFiniteSet, IsFiniteSet, Window!Cardinality, Cardinality

LEMMA LagIsNat == Lag \in Nat
BY WindowAssumption DEF Window!WindowAssumption, Lag

\* The watermark of a table is the time of one of its rows.
LEMMA NewestRow ==
  ASSUME now \in Nat, NEW S, Dated(S), S # {}
  PROVE  \E m \in S : Window!MaxAt(S) = m.at
<1> DEFINE times == {r.at : r \in S}
           After(t) == {u \in times : u > t}
           Sets == {After(t) : t \in times}
<1>1. IsFiniteSet(times) /\ times \subseteq Nat /\ times # {}
  <2>1. times \subseteq Nat /\ \A t \in times : t <= now
    BY DEF Dated
  <2>2. QED
    BY <2>1, FS_BoundedSetOfNaturals
<1> HIDE DEF times
<1>2. IsWellFoundedOn(StrictSubsetOrdering(times), SUBSET times)
  BY <1>1, FS_StrictSubsetOrderingWellFounded, FS_FiniteSubsetsOfFinite
<1>3. Sets \subseteq SUBSET times /\ Sets # {}
  BY <1>1
<1>4. PICK least \in Sets : \A other \in Sets : ~ (<<other, least>> \in StrictSubsetOrdering(times))
  <2> HIDE DEF Sets
  <2>1. QED
    BY <1>2, <1>3, WFMin
<1>5. PICK t \in times : least = After(t)
  BY <1>4
<1>6. ASSUME NEW u \in times, ~(t >= u) PROVE FALSE
  <2>1. t \in Nat /\ u \in Nat /\ u > t /\ \A v \in times : v \in Nat
    BY <1>1, <1>6
  <2>2. After(u) \subseteq After(t) /\ u \in After(t) /\ u \notin After(u)
    <3>1. \A v \in times : v > u => v > t
      BY <2>1
    <3>2. ~(u > u)
      BY <2>1
    <3>3. QED
      BY <2>1, <3>1, <3>2
  <2>3. <<After(u), least>> \in StrictSubsetOrdering(times)
    BY <1>5, <2>2 DEF StrictSubsetOrdering
  <2>4. QED
    BY <1>4, <2>3
<1>7. Window!MaxAt(S) = Window!Max(times)
  BY DEF Window!MaxAt, times
<1>8. Window!Max(times) \in times
  BY <1>6 DEF Window!Max
<1>9. QED
  BY <1>7, <1>8 DEF times

\* The watermark bounds what the window leaves out.
LEMMA CutoffIs ==
  ASSUME Dated(read), now \in Nat, mark = None \/ mark \in Nat
  PROVE  \A r \in read : r \notin InWindow => mark # None /\ mark \in Nat /\ r.at + Lag < mark
<1>1. ASSUME NEW r \in read, r \notin InWindow PROVE mark # None /\ r.at < Window!Cutoff /\ r.at \in Nat
  <2>1. r.at \in Nat /\ mark # None /\ ~(r.at >= Window!Cutoff)
    BY <1>1 DEF InWindow, Window!InWindow, Dated
  <2>2. Window!Cutoff \in Int
    BY <2>1, WindowAssumption DEF Window!Cutoff, Window!WindowAssumption
  <2>3. QED
    BY <2>1, <2>2
<1>2. Window!Cutoff = mark - Lag \/ mark = None
  BY DEF Window!Cutoff, Lag
<1>3. QED
  BY <1>1, <1>2, LagIsNat

\* What a merge of rows of the source that was read makes of the table.
LEMMA MergeEffect ==
  ASSUME Relations, NEW batch, batch \subseteq read, KeysOf(table, read)
  PROVE  LET merged == Window!Merge(table, batch) IN
         /\ Dated(merged) /\ OneEach(merged) /\ KeysOf(merged, read) /\ KeysOf(merged, source)
         /\ batch \subseteq merged
         /\ \A r \in read \cap table : r \in merged
<1> DEFINE merged == Window!Merge(table, batch)
<1>1. merged = {r \in table : \A s \in batch : Window!Pk(s) # Window!Pk(r)} \cup batch
  BY DEF Window!Merge
<1>2. IsFiniteSet(table) /\ IsFiniteSet(read)
  BY DEF Relations, Dated
<1>3. IsFiniteSet(merged)
  <2> DEFINE others == {r \in table : \A s \in batch : Window!Pk(s) # Window!Pk(r)}
  <2>1. others \subseteq table /\ merged = others \cup batch
    BY <1>1
  <2> HIDE DEF others, merged
  <2>2. IsFiniteSet(others)
    BY <1>2, <2>1, FS_Subset
  <2>3. IsFiniteSet(batch)
    BY <1>2, FS_Subset
  <2>4. QED
    BY <2>1, <2>2, <2>3, FS_Union
<1> HIDE DEF merged
<1>4. Dated(merged)
  BY <1>1, <1>3 DEF Relations, Dated
<1>5. OneEach(merged)
  BY <1>1 DEF Relations, OneEach
<1>6. KeysOf(merged, read)
  BY <1>1 DEF KeysOf
<1>7. KeysOf(merged, source)
  BY <1>6 DEF Relations, KeysOf
<1>8. batch \subseteq merged /\ \A r \in read \cap table : r \in merged
  BY <1>1 DEF Relations, OneEach
<1>9. QED
  BY <1>4, <1>5, <1>6, <1>7, <1>8 DEF merged

\* Two tables with the same keys, of which one has all rows of the other.
LEMMA WholeIs ==
  ASSUME NEW S, OneEach(S), KeysOf(S, read), read \subseteq S
  PROVE  S = read
BY DEF OneEach, KeysOf

\* What is written in one batch is all of the window.
LEMMA OneBatch ==
  ASSUME Dated(read), todo \subseteq InWindow, NEW batch,
         batch \in Window!kSubset(IF Window!Cardinality(todo) < BatchRows THEN Window!Cardinality(todo) ELSE BatchRows,
                                  todo)
  PROVE  /\ batch \subseteq todo
         /\ ~Window!Several /\ todo = InWindow => batch = todo
<1>1. IsFiniteSet(read) /\ IsFiniteSet(todo) /\ IsFiniteSet(InWindow)
  <2>1. IsFiniteSet(read) /\ InWindow \subseteq read
    BY DEF Dated, InWindow
  <2>2. QED
    BY <2>1, FS_Subset
<1>2. batch \subseteq todo
      /\ Cardinality(batch) = IF Cardinality(todo) < BatchRows THEN Cardinality(todo) ELSE BatchRows
  BY SameFinite DEF Window!kSubset
<1>3. Window!Several <=> Cardinality(InWindow) > BatchRows
  BY SameFinite DEF Window!Several, InWindow
<1>4. Cardinality(todo) \in Nat /\ BatchRows \in Nat
  BY <1>1, FS_CardinalityType, WindowAssumption DEF Window!WindowAssumption
<1>5. ASSUME ~Window!Several, todo = InWindow PROVE batch = todo
  <2>1. Cardinality(batch) = Cardinality(todo)
    BY <1>2, <1>3, <1>4, <1>5
  <2>2. QED
    BY <1>1, <1>2, <2>1, FS_Subset
<1>6. QED
  BY <1>2, <1>5

\* A row that changes is not older than the lookback.
LEMMA ChangeKeeps ==
  ASSUME WindowInv, Window!Change
  PROVE  WindowInv'
<1>1. /\ UNCHANGED <<mode, now, table, catalog_i, pc_i, mark, lastGood, todo, read, split, faults_i>>
      /\ \E r : r.at \in Nat /\ r.at <= now /\ now <= r.at + Lag /\ source' = Window!Merge(source, {r})
  <2>1. PICK k \in Key, t \in (IF mode = "append" THEN (now - Lookback)..now ELSE {now}) :
          t > 0 /\ source' = Window!Merge(source, {[key |-> k, at |-> t, ver |-> changes']})
    BY DEF Window!Change
  <2>2. t \in Nat /\ t <= now /\ now <= t + Lag
    BY <2>1, WindowAssumption DEF Window!WindowAssumption, Lag, WindowInv, Relations
  <2>3. [key |-> k, at |-> t, ver |-> changes'].at = t
    OBVIOUS
  <2>4. UNCHANGED <<mode, now, table, catalog_i, pc_i, mark, lastGood, todo, read, split, faults_i>>
    BY DEF Window!Change, Window!locals
  <2>5. QED
    BY <2>1, <2>2, <2>3, <2>4
<1>2. PICK row : row.at \in Nat /\ row.at <= now /\ now <= row.at + Lag /\ source' = Window!Merge(source, {row})
  BY <1>1
<1>3. source' = {r \in source : Window!Pk(row) # Window!Pk(r)} \cup {row}
  BY <1>2 DEF Window!Merge
<1>4. \A r : Window!Pk(r)' = Window!Pk(r)
  BY <1>1 DEF Window!Pk
<1>5. Lag' = Lag /\ InWindow' = InWindow /\ Window!Several' = Window!Several
  BY <1>1 DEF Lag, InWindow, Window!InWindow, Window!Cutoff, Window!Several
<1>6. Dated(source)' /\ OneEach(source)'
  <2>1. IsFiniteSet(source')
    <3>1. IsFiniteSet({r \in source : Window!Pk(row) # Window!Pk(r)})
      BY FS_Subset DEF WindowInv, Relations, Dated
    <3>2. QED
      BY <1>3, <3>1, FS_AddElement
  <2>2. Dated(source)'
    BY <1>1, <1>2, <1>3, <2>1 DEF WindowInv, Relations, Dated
  <2>3. OneEach(source)'
    BY <1>3, <1>4 DEF WindowInv, Relations, OneEach
  <2>4. QED
    BY <2>2, <2>3
<1>7. ASSUME NEW S, Dated(S), OneEach(S), KeysOf(S, source)
      PROVE  KeysOf(S, source') /\ (Settled(S, source) => Settled(S, source'))
  <2>1. KeysOf(S, source')
    BY <1>3, <1>7 DEF KeysOf
  <2>2. ASSUME Settled(S, source) PROVE Settled(S, source')
    <3>1. \A m \in S : m.at \in Nat /\ m.at <= now /\ ~(row.at + Lag < m.at)
      BY <1>2, <1>7, LagIsNat DEF Dated, WindowInv, Relations
    <3>2. QED
      BY <1>3, <2>2, <3>1 DEF Settled
  <2>3. QED
    BY <2>1, <2>2
<1>8. /\ OneEach(table)' /\ OneEach(read)' /\ Dated(table)' /\ Dated(read)'
      /\ KeysOf(table, source)' /\ KeysOf(read, source)'
      /\ Settled(read, source)' /\ (Settled(table, source) => Settled(table, source)')
      /\ KeysOf(table, read) => KeysOf(table, read)'
  <2>1. /\ KeysOf(table, source') /\ KeysOf(read, source') /\ Settled(read, source')
        /\ Settled(table, source) => Settled(table, source')
    BY <1>7 DEF WindowInv, Relations
  <2>2. OneEach(table)' /\ OneEach(read)' /\ Dated(table)' /\ Dated(read)'
    BY <1>1, <1>4 DEF WindowInv, Relations, OneEach, Dated
  <2>3. KeysOf(table, source)' /\ KeysOf(read, source)' /\ (KeysOf(table, read) => KeysOf(table, read)')
    BY <1>1, <1>4, <2>1 DEF KeysOf
  <2>4. Settled(read, source)' /\ (Settled(table, source) => Settled(table, source)')
    BY <1>1, <1>5, <2>1 DEF Settled
  <2>5. QED
    BY <2>2, <2>3, <2>4
<1>9. Relations'
  BY <1>1, <1>6, <1>8 DEF WindowInv, Relations
<1>10. Resumable' /\ Watermark' /\ Writes'
  BY <1>1, <1>5, <1>8 DEF WindowInv, Resumable, Watermark, Writes
<1>11. QED
  BY <1>1, <1>9, <1>10 DEF WindowInv

\* A step that leaves the contract, the clock and the source alone.
Still == UNCHANGED <<mode, now, source, changes>>

LEMMA StillMeans ==
  ASSUME Still
  PROVE  /\ Lag' = Lag /\ \A r : Window!Pk(r)' = Window!Pk(r)
         /\ UNCHANGED <<read, mark>> => InWindow' = InWindow /\ Window!Several' = Window!Several
BY DEF Still, Lag, Window!Pk, InWindow, Window!InWindow, Window!Cutoff, Window!Several

\* Of a run, only the table has changed.
LEMMA TableStep ==
  ASSUME WindowInv, Still, UNCHANGED <<read, mark>>,
         Dated(table'), OneEach(table'), KeysOf(table', source)
  PROVE  /\ Relations'
         /\ Settled(table', source) => Settled(table, source)'
         /\ KeysOf(table', read) => KeysOf(table, read)'
<1>1. Lag' = Lag /\ \A r : Window!Pk(r)' = Window!Pk(r)
  BY StillMeans
<1>2. Dated(source)' /\ OneEach(source)' /\ Dated(read)' /\ OneEach(read)' /\ KeysOf(read, source)'
      /\ Settled(read, source)'
  BY <1>1 DEF Still, WindowInv, Relations, Dated, OneEach, KeysOf, Settled
<1>3. Dated(table)' /\ OneEach(table)' /\ KeysOf(table, source)'
  BY <1>1 DEF Still, Dated, OneEach, KeysOf
<1>4. /\ Settled(table', source) => Settled(table, source)'
      /\ KeysOf(table', read) => KeysOf(table, read)'
  BY <1>1 DEF Still, Settled, KeysOf
<1>5. QED
  BY <1>2, <1>3, <1>4 DEF Still, WindowInv, Relations

\* Nothing but the run's own position has changed.
LEMMA QuietStep ==
  ASSUME WindowInv, Still, UNCHANGED <<read, mark, table>>
  PROVE  /\ Relations' /\ InWindow' = InWindow /\ Window!Several' = Window!Several
         /\ Settled(table, source) => Settled(table, source)'
         /\ KeysOf(table, read) => KeysOf(table, read)'
BY StillMeans, TableStep DEF WindowInv, Relations, Dated, OneEach, KeysOf, Settled

LEMMA TickKeeps ==
  ASSUME WindowInv, Window!Tick \/ UNCHANGED Window!vars
  PROVE  WindowInv'
<1>1. UNCHANGED <<mode, source, changes, table, catalog_i, pc_i, mark, lastGood, todo, read, split, faults_i>>
      /\ now' \in Nat /\ now <= now'
  BY DEF WindowInv, Relations, Window!Tick, Window!vars, Window!locals
<1>2. /\ Lag' = Lag /\ \A r : Window!Pk(r)' = Window!Pk(r)
      /\ InWindow' = InWindow /\ Window!Several' = Window!Several
  BY <1>1 DEF Lag, Window!Pk, InWindow, Window!InWindow, Window!Cutoff, Window!Several
<1>3. Dated(source)' /\ Dated(table)' /\ Dated(read)'
  BY <1>1 DEF WindowInv, Relations, Dated
<1>4. /\ OneEach(source)' /\ OneEach(table)' /\ OneEach(read)'
      /\ KeysOf(table, source)' /\ KeysOf(read, source)' /\ Settled(read, source)'
      /\ Settled(table, source) => Settled(table, source)'
      /\ KeysOf(table, read) => KeysOf(table, read)'
  BY <1>1, <1>2 DEF WindowInv, Relations, OneEach, KeysOf, Settled
<1>5. Relations'
  BY <1>1, <1>3, <1>4 DEF WindowInv, Relations
<1>6. QED
  BY <1>1, <1>2, <1>4, <1>5 DEF WindowInv, Resumable, Watermark, Writes

LEMMA StartKeeps ==
  ASSUME WindowInv, Window!Start
  PROVE  WindowInv'
<1>1. /\ UNCHANGED <<table, todo, read, split>> /\ Still /\ pc_i = "idle" /\ pc_i' = "source"
      /\ mark' = None \/ mark' = Window!MaxAt(table)
  BY DEF Window!Start, Window!Goto, Window!env, Still
<1>2. mark' # None => \E m \in table' : mark' = m.at
  <2>1. table = {} => Window!MaxAt(table) = None
    BY DEF Window!MaxAt
  <2>2. QED
    BY <1>1, <2>1, NewestRow DEF WindowInv, Relations
<1>3. Relations' /\ (Settled(table, source) => Settled(table, source)')
  BY <1>1, StillMeans DEF Still, WindowInv, Relations, Dated, OneEach, KeysOf, Settled
<1>4. QED
  BY <1>1, <1>2, <1>3 DEF WindowInv, Resumable, Watermark, Writes

LEMMA ReadSourceKeeps ==
  ASSUME WindowInv, Window!ReadSource
  PROVE  WindowInv'
<1>1. /\ UNCHANGED <<table, mark, split>> /\ Still /\ pc_i = "source"
      /\ \/ pc_i' = "idle" /\ UNCHANGED <<todo, read>>
         \/ /\ todo' = {r \in source : Window!InWindow(r)} /\ read' = source
            /\ pc_i' = IF mode = "append" /\ mark # None THEN "delete" ELSE "insert"
  BY DEF Window!ReadSource, Window!Goto, Window!env, Still
<1>2. CASE pc_i' = "idle" /\ UNCHANGED <<todo, read>>
  BY <1>1, <1>2, QuietStep DEF WindowInv, Resumable, Watermark, Writes
<1>3. CASE /\ todo' = {r \in source : Window!InWindow(r)} /\ read' = source
           /\ pc_i' = IF mode = "append" /\ mark # None THEN "delete" ELSE "insert"
  <2>1. Lag' = Lag /\ (\A r : Window!Pk(r)' = Window!Pk(r)) /\ Window!Cutoff' = Window!Cutoff
    BY <1>1, StillMeans DEF Still, Window!Cutoff
  <2>2. todo' = InWindow'
    BY <1>1, <1>3, <2>1 DEF InWindow, Window!InWindow
  <2>3. /\ Relations' /\ KeysOf(table, read)'
        /\ Settled(table, source) => Settled(table, source)'
    BY <1>1, <1>3, <2>1 DEF Still, WindowInv, Relations, Dated, OneEach, KeysOf, Settled
  <2>4. mark # None => mark \in Nat
    BY <1>1 DEF WindowInv, Watermark, Relations, Dated
  <2>5. ASSUME ~split PROVE read' \ InWindow' \subseteq table
    <3>1. \A r \in read' : r \notin InWindow' => mark' # None /\ r.at + Lag < mark'
      <4>1. \A r \in read' : r \notin InWindow' => mark # None /\ ~(r.at >= Window!Cutoff) /\ r.at \in Nat
        <5>1. \A r \in read' : r \notin InWindow' => r \in source /\ ~Window!InWindow(r)
          BY <1>3, <2>2
        <5>2. QED
          BY <5>1 DEF Window!InWindow, WindowInv, Relations, Dated
      <4>2. mark # None => Window!Cutoff = mark - Lag
        BY <2>4 DEF Window!Cutoff, Lag
      <4>3. ASSUME NEW r \in read', r \notin InWindow' PROVE mark # None /\ r.at + Lag < mark
        <5>1. mark # None /\ r.at \in Nat /\ ~(r.at >= Window!Cutoff)
          BY <4>1, <4>3
        <5>2. mark \in Nat /\ Window!Cutoff = mark - Lag
          BY <2>4, <4>2, <5>1
        <5>3. QED
          BY <5>1, <5>2, LagIsNat
      <4>4. QED
        BY <1>1, <4>3
    <3>2. Settled(table, source)
      BY <1>1, <2>5 DEF WindowInv, Resumable
    <3>3. QED
      BY <1>1, <1>3, <3>1, <3>2 DEF WindowInv, Watermark, Settled
  <2>6. Resumable' /\ Watermark' /\ Writes'
    BY <1>1, <1>3, <2>2, <2>3, <2>4, <2>5 DEF WindowInv, Resumable, Watermark, Writes, Still
  <2>7. QED
    BY <1>3, <2>3, <2>6 DEF WindowInv
<1>4. QED
  BY <1>1, <1>2, <1>3

LEMMA DeleteKeeps ==
  ASSUME WindowInv, Window!DeleteWindow
  PROVE  WindowInv'
<1> DEFINE older == {r \in table : r.at < Window!Cutoff}
<1>1. /\ UNCHANGED <<todo, read, mark, split>> /\ Still /\ pc_i = "delete"
      /\ \/ table' = older /\ pc_i' = "insert"
         \/ table' \in {table, older} /\ pc_i' = "failed"
  BY DEF Window!DeleteWindow, Window!Send, Window!Goto, Window!env, Window!locals, Still
<1>2. mark \in Nat /\ mark # None /\ todo = InWindow /\ KeysOf(table, read) /\ mode = "append"
  BY <1>1 DEF WindowInv, Watermark, Writes
<1>3. Window!Cutoff = mark - Lag /\ Window!Cutoff \in Int
  BY <1>2, LagIsNat DEF Window!Cutoff, Lag
<1>4. Dated(older) /\ OneEach(older) /\ KeysOf(older, source) /\ KeysOf(older, read)
  <2>1. IsFiniteSet(older) /\ older \subseteq table
    BY FS_Subset DEF WindowInv, Relations, Dated
  <2>2. QED
    BY <1>2, <2>1 DEF WindowInv, Relations, Dated, OneEach, KeysOf
<1>5. Settled(table, source) => Settled(older, source)
  <2>1. ASSUME Settled(table, source), NEW m \in older, NEW r \in source, r.at + Lag < m.at
        PROVE  r \in older
    <3>1. r \in table
      BY <2>1 DEF Settled
    <3>2. r.at \in Nat /\ m.at \in Nat /\ m.at < Window!Cutoff
      BY <2>1 DEF WindowInv, Relations, Dated
    <3>3. QED
      BY <1>3, <2>1, <3>1, <3>2, LagIsNat
  <2>2. QED
    BY <2>1 DEF Settled
<1>6. ASSUME ~split PROVE read \ InWindow \subseteq older
  <2>1. read \ InWindow \subseteq table
    BY <1>1, <1>6 DEF WindowInv, Writes
  <2>2. \A r \in read \ InWindow : r.at + Lag < mark /\ r.at \in Nat
    BY <1>2, CutoffIs DEF WindowInv, Relations, Dated
  <2>3. QED
    BY <1>2, <1>3, <2>1, <2>2, LagIsNat
<1> HIDE DEF older
<1>7. /\ Relations'
      /\ Settled(table, source) => Settled(table, source)'
      /\ table' = older => KeysOf(table, read)'
  BY <1>1, <1>4, <1>5, TableStep DEF WindowInv, Relations
<1>8. InWindow' = InWindow /\ Window!Several' = Window!Several
  BY <1>1, StillMeans
<1>9. Resumable' /\ Watermark' /\ Writes'
  BY <1>1, <1>2, <1>6, <1>7, <1>8 DEF WindowInv, Resumable, Watermark, Writes
<1>10. QED
  BY <1>1, <1>7, <1>9 DEF WindowInv

LEMMA InsertKeeps ==
  ASSUME WindowInv, Window!InsertBatch
  PROVE  WindowInv'
<1>1. /\ UNCHANGED <<read, mark>> /\ Still /\ pc_i = "insert"
  BY DEF Window!InsertBatch, Window!env, Still
<1>2. PICK batch \in Window!kSubset(IF Window!Cardinality(todo) < BatchRows THEN Window!Cardinality(todo)
                                    ELSE BatchRows, todo) :
        /\ todo' = todo \ batch
        /\ \/ pc_i' = "failed" /\ table' = table
           \/ table' = Window!Merge(table, batch) /\ pc_i' = IF todo' = {} THEN "readback" ELSE "insert"
           \/ table' \in {table, Window!Merge(table, batch)} /\ pc_i' = "failed"
        /\ split' = (split \/ (pc_i' = "failed" /\ Window!Several))
  BY DEF Window!InsertBatch, Window!Goto, Window!Send
<1>3. todo \subseteq InWindow /\ KeysOf(table, read) /\ (~Window!Several => todo = InWindow) /\ InWindow \subseteq read
  BY <1>1 DEF WindowInv, Writes, InWindow
<1>4. batch \subseteq todo /\ (~Window!Several => batch = todo)
  BY <1>3, OneBatch DEF WindowInv, Relations
<1> DEFINE merged == Window!Merge(table, batch)
<1>5. /\ Dated(merged) /\ OneEach(merged) /\ KeysOf(merged, read) /\ KeysOf(merged, source)
      /\ batch \subseteq merged /\ \A r \in read \cap table : r \in merged
  BY <1>3, <1>4, MergeEffect DEF WindowInv
<1> HIDE DEF merged
<1>6. ~split => read \ todo' \subseteq merged
  <2>1. ~split => read \ todo \subseteq table
    BY <1>1 DEF WindowInv, Writes
  <2>2. QED
    BY <1>2, <1>5, <2>1
<1>7. ~split /\ todo' = {} => merged = read
  BY <1>5, <1>6, WholeIs
<1>8. ~Window!Several => todo' = {}
  BY <1>2, <1>4
<1>9. /\ Relations'
      /\ Settled(table', source) => Settled(table, source)'
      /\ KeysOf(table, read)'
  <2>1. table' = table \/ table' = merged
    BY <1>2 DEF merged
  <2>2. Dated(table') /\ OneEach(table') /\ KeysOf(table', source) /\ KeysOf(table', read)
    BY <1>3, <1>5, <2>1 DEF WindowInv, Relations
  <2>3. QED
    BY <1>1, <2>2, TableStep
<1>10. InWindow' = InWindow /\ Window!Several' = Window!Several
  BY <1>1, StillMeans
<1>11. Settled(read, source) /\ (~split /\ ~Window!Several => Settled(table, source))
  BY <1>1 DEF WindowInv, Relations, Resumable
<1>12. CASE pc_i' = "failed"
  <2>1. ~split' => ~split /\ ~Window!Several
    BY <1>2, <1>12
  <2>2. ~split' => Settled(table', source)
    <3>1. ~split' => merged = read
      BY <1>7, <1>8, <2>1
    <3>2. table' = table \/ table' = merged
      BY <1>2 DEF merged
    <3>3. QED
      BY <1>11, <2>1, <3>1, <3>2
  <2>3. Resumable' /\ Watermark' /\ Writes'
    BY <1>9, <1>12, <2>2 DEF Resumable, Watermark, Writes
  <2>4. QED
    BY <1>9, <1>12, <2>3 DEF WindowInv
<1>13. CASE table' = merged /\ pc_i' = (IF todo' = {} THEN "readback" ELSE "insert") /\ pc_i' # "failed"
  <2>1. split' <=> split
    BY <1>2, <1>13
  <2>2. CASE todo' = {}
    <3>1. Resumable' /\ Watermark' /\ Writes'
      BY <1>1, <1>7, <1>13, <2>1, <2>2 DEF Resumable, Watermark, Writes
    <3>2. QED
      BY <1>9, <1>13, <2>2, <3>1 DEF WindowInv
  <2>3. CASE todo' # {}
    <3>1. Window!Several' /\ pc_i' = "insert" /\ todo' \subseteq InWindow'
      BY <1>2, <1>3, <1>8, <1>10, <1>13, <2>3
    <3>2. Watermark'
      BY <1>1, <3>1 DEF WindowInv, Watermark
    <3>3. Resumable' /\ Writes'
      BY <1>1, <1>6, <1>9, <1>13, <2>1, <3>1 DEF Resumable, Writes
    <3>4. QED
      BY <1>9, <3>1, <3>2, <3>3 DEF WindowInv
  <2>4. QED
    BY <2>2, <2>3
<1>14. QED
  BY <1>2, <1>12, <1>13 DEF merged

LEMMA EndsKeep ==
  ASSUME WindowInv, Window!Register \/ Window!Die \/ Window!End
  PROVE  WindowInv'
<1>1. CASE Window!Register
  <2>1. /\ UNCHANGED <<table, todo, read, mark, split>> /\ Still /\ pc_i = "readback"
        /\ pc_i' \in {"completed", "failed"}
    BY <1>1 DEF Window!Register, Window!Goto, Window!env, Window!locals, Still
  <2>2. Relations' /\ (Settled(table, source) => Settled(table, source)')
    BY <2>1, QuietStep
  <2>3. ~split => table = read /\ Settled(table, source)
    BY <2>1 DEF WindowInv, Writes, Relations
  <2>4. Resumable' /\ Watermark' /\ Writes'
    BY <2>1, <2>2, <2>3 DEF Resumable, Watermark, Writes
  <2>5. QED
    BY <2>1, <2>2, <2>4 DEF WindowInv
<1>2. CASE Window!Die
  <2>1. /\ UNCHANGED <<table, todo, read, mark>> /\ Still /\ pc_i \in {"source", "delete", "insert", "readback"}
        /\ pc_i' = "failed" /\ split' = (split \/ (pc_i = "insert" /\ Window!Several))
    BY <1>2 DEF Window!Die, Window!Goto, Window!env, Window!locals, Still
  <2>2. Relations' /\ (Settled(table, source) => Settled(table, source)')
    BY <2>1, QuietStep
  <2>3. ~split' => Settled(table, source)
    <3>1. CASE pc_i = "readback"
      BY <2>1, <3>1 DEF WindowInv, Writes, Relations
    <3>2. CASE pc_i # "readback"
      BY <2>1, <3>2 DEF WindowInv, Resumable
    <3>3. QED
      BY <3>1, <3>2
  <2>4. Resumable' /\ Watermark' /\ Writes'
    BY <2>1, <2>2, <2>3 DEF Resumable, Watermark, Writes
  <2>5. QED
    BY <2>1, <2>2, <2>4 DEF WindowInv
<1>3. CASE Window!End
  <2>1. /\ UNCHANGED <<table, split>> /\ Still /\ pc_i \in {"failed", "completed"} /\ pc_i' = "idle" /\ read' = {}
    BY <1>3 DEF Window!End, Window!Goto, Window!env, Still
  <2>2. ~split => Settled(table, source)
    BY <2>1 DEF WindowInv, Writes, Relations, Resumable
  <2>3. Lag' = Lag /\ \A r : Window!Pk(r)' = Window!Pk(r)
    BY <2>1, StillMeans
  <2>4. Dated(read)' /\ OneEach(read)' /\ KeysOf(read, source)' /\ Settled(read, source)'
    BY <2>1, FS_EmptySet DEF Dated, OneEach, KeysOf, Settled
  <2>5. Dated(source)' /\ OneEach(source)' /\ Dated(table)' /\ OneEach(table)' /\ KeysOf(table, source)'
        /\ (Settled(table, source) => Settled(table, source)')
    BY <2>1, <2>3 DEF Still, WindowInv, Relations, Dated, OneEach, KeysOf, Settled
  <2>6. Relations'
    BY <2>1, <2>4, <2>5 DEF Still, WindowInv, Relations
  <2>7. Resumable' /\ Watermark' /\ Writes'
    BY <2>1, <2>2, <2>5 DEF Resumable, Watermark, Writes
  <2>8. QED
    BY <2>1, <2>6, <2>7 DEF WindowInv
<1>4. QED
  BY <1>1, <1>2, <1>3

(***************************************************************************)
(* A publication that completes has made the table what the source was     *)
(* when it was read, although it wrote only the window behind its          *)
(* watermark (TrinoSourceReader.read, runtime.py), whatever was lost before *)
(* it, unless a run ended between two of its batches.                      *)
(***************************************************************************)
THEOREM CompletedWhole == Window!Spec => []CompletedIsWhole
<1>1. Window!Init => WindowInv
  <2> SUFFICES ASSUME Window!Init PROVE WindowInv
    OBVIOUS
  <2>1. /\ now = 1 /\ source = {} /\ table = {} /\ read = {} /\ pc_i = "idle" /\ mark = None
    BY DEF Window!Init
  <2>2. Dated({}) /\ OneEach({}) /\ KeysOf({}, {}) /\ Settled({}, {})
    BY FS_EmptySet DEF Dated, OneEach, KeysOf, Settled
  <2>3. QED
    BY <2>1, <2>2 DEF WindowInv, Relations, Resumable, Watermark, Writes
<1>2. WindowInv /\ [Window!Next]_Window!vars => WindowInv'
  BY TickKeeps, ChangeKeeps, StartKeeps, ReadSourceKeeps, DeleteKeeps, InsertKeeps, EndsKeep DEF Window!Next
<1>3. WindowInv => CompletedIsWhole
  BY DEF WindowInv, Writes, CompletedIsWhole, Window!CompletedIsWhole
<1>4. QED
  BY <1>1, <1>2, <1>3, PTL DEF Window!Spec

-----------------------------------------------------------------------------
(***************************************************************************)
(* The metadata tables that the publishers of several products share, for  *)
(* any products, keys and number of publications and faults.  What the     *)
(* statements of a publication that have been sent have established stays  *)
(* true whatever the other publishers send, and a migration only blanks    *)
(* stamps.                                                                 *)
(***************************************************************************)
SharedRow == [product : Product, key : Key, pub : Nat]

DbShaped(db) ==
  /\ db = [rows |-> db.rows, display |-> db.display, sources |-> db.sources, quality |-> db.quality]
  /\ db.rows \subseteq SharedRow /\ db.sources \subseteq SharedRow
  /\ db.display = [y \in Product |-> db.display[y]]
  /\ db.quality = [y \in Product |-> db.quality[y]]
  /\ \A y \in Product : db.display[y] = None \/ (db.display[y] \in Nat /\ db.display[y] <= pubs)

Db == [rows |-> rows, display |-> display, sources |-> sources, quality |-> quality]

\* What the first n statements about the metadata have established ...
MetaSent(x, n, db) ==
  /\ n >= 1 => \A k \in job[x].keys : \E r \in db.rows : r.product = x /\ r.key = k
  /\ n >= 1 => \A r \in db.rows :
       r.product = x /\ r.key \in job[x].keys => r.pub \in {job[x].pub, Handoff!Blank}
  /\ n < 2 => db.display[x] # job[x].pub
  /\ n >= 2 => IF job[x].shown THEN db.display[x] = job[x].pub ELSE db.display[x] # job[x].pub
  /\ n >= 3 /\ ~job[x].shown => db.display[x] = None
  /\ n >= 4 => \A r \in db.rows : r.product = x => r.key \in job[x].keys

\* ... and those about the evidence.
EvidenceSent(x, n, db) ==
  /\ n >= 1 => \A k \in job[x].keys : \E r \in db.sources : r.product = x /\ r.key = k
  /\ n >= 1 => \A r \in db.sources :
       r.product = x /\ r.key \in job[x].keys => r.pub = job[x].pub
  /\ n >= 2 => \A r \in db.sources : r.product = x => r.key \in job[x].keys
  /\ n >= 3 => db.quality[x] = job[x].pub

JobShaped(j) ==
  /\ j = [at |-> j.at, pub |-> j.pub, keys |-> j.keys, shown |-> j.shown, before |-> j.before, sent |-> j.sent]
  /\ j.at \in {"idle", "catalog", "schema", "migrate", "meta", "evidence", "restore"}
  /\ j.at # "idle" => j.pub \in Nat /\ j.pub > 0 /\ j.pub <= pubs /\ j.keys \subseteq Key /\ j.shown \in BOOLEAN

JobInv(x) ==
  /\ JobShaped(job[x])
  /\ job[x].at \in {"schema", "migrate", "meta", "evidence"} => catalog_h[x] = job[x].pub
  /\ job[x].at \in {"catalog", "schema", "migrate"} => job[x].sent = 0 /\ MetaSent(x, 0, Db)
  /\ job[x].at = "meta" => job[x].sent \in 0..4 /\ MetaSent(x, job[x].sent, Db)
  /\ job[x].at = "evidence" => job[x].sent \in 0..3 /\ MetaSent(x, 4, Db) /\ EvidenceSent(x, job[x].sent, Db)

CompletedInv(x) ==
  good_h[x] # None =>
    /\ job[x].at = "idle"
    /\ good_h[x].pub \in Nat /\ catalog_h[x] = good_h[x].pub /\ quality[x] = good_h[x].pub
    /\ {r.key : r \in Handoff!Of(rows, x)} = good_h[x].keys
    /\ {r.pub : r \in Handoff!Of(rows, x)} \subseteq {good_h[x].pub, Handoff!Blank}
    /\ Handoff!Of(sources, x) = [product : {x}, key : good_h[x].keys, pub : {good_h[x].pub}]
    /\ display[x] = IF good_h[x].shown THEN good_h[x].pub ELSE None

HandoffInv ==
  /\ pubs \in Nat /\ DbShaped(Db)
  /\ catalog_h = [y \in Product |-> catalog_h[y]]
  /\ good_h = [y \in Product |-> good_h[y]]
  /\ job = [y \in Product |-> job[y]]
  /\ \A y \in Product : JobInv(y) /\ CompletedInv(y)

\* The tables of the other products, which no statement about x reaches.
Elsewhere(x, d, e) ==
  \A y \in Product : y # x =>
    /\ Handoff!Of(e.rows, y) = Handoff!Of(d.rows, y) /\ e.display[y] = d.display[y]
    /\ Handoff!Of(e.sources, y) = Handoff!Of(d.sources, y) /\ e.quality[y] = d.quality[y]

LEMMA ElsewhereKeeps ==
  ASSUME NEW x \in Product, NEW d, NEW e, Elsewhere(x, d, e), NEW y \in Product, y # x
  PROVE  /\ \A n \in 0..4 : MetaSent(y, n, d) => MetaSent(y, n, e)
         /\ \A n \in 0..3 : EvidenceSent(y, n, d) => EvidenceSent(y, n, e)
<1>1. /\ \A r : r \in e.rows /\ r.product = y <=> r \in d.rows /\ r.product = y
      /\ \A r : r \in e.sources /\ r.product = y <=> r \in d.sources /\ r.product = y
      /\ e.display[y] = d.display[y] /\ e.quality[y] = d.quality[y]
  BY DEF Elsewhere, Handoff!Of
<1>2. ASSUME NEW n \in 0..4, MetaSent(y, n, d) PROVE MetaSent(y, n, e)
  BY <1>1, <1>2 DEF MetaSent
<1>3. ASSUME NEW n \in 0..3, EvidenceSent(y, n, d) PROVE EvidenceSent(y, n, e)
  BY <1>1, <1>3 DEF EvidenceSent
<1>4. QED
  BY <1>2, <1>3

LEMMA ElsewhereChains ==
  ASSUME NEW x, NEW d, NEW e, NEW f, Elsewhere(x, d, e), Elsewhere(x, e, f)
  PROVE  Elsewhere(x, d, f)
BY DEF Elsewhere

\* What one statement does to a table of shared rows.
LEMMA Upserting ==
  ASSUME NEW x \in Product, NEW set \in SUBSET SharedRow, JobShaped(job[x]), job[x].at # "idle"
  PROVE  LET to == Handoff!Upserted(set, x) IN
         /\ to \subseteq SharedRow
         /\ \A y \in Product : y # x => Handoff!Of(to, y) = Handoff!Of(set, y)
         /\ \A k \in job[x].keys : \E r \in to : r.product = x /\ r.key = k
         /\ \A r \in to : r.product = x /\ r.key \in job[x].keys => r.pub = job[x].pub
<1> DEFINE to == Handoff!Upserted(set, x)
<1>1. job[x].keys \subseteq Key /\ job[x].pub \in Nat
  BY DEF JobShaped
<1>2. ASSUME NEW r \in to
      PROVE  \/ r \in set /\ (r.product # x \/ r.key \notin job[x].keys)
             \/ r.product = x /\ r.key \in job[x].keys /\ r.pub = job[x].pub /\ r \in SharedRow
  BY <1>1, <1>2 DEF Handoff!Upserted, Handoff!Declared, SharedRow
<1>3. ASSUME NEW k \in job[x].keys PROVE \E r \in to : r.product = x /\ r.key = k
  <2> DEFINE r == [product |-> x, key |-> k, pub |-> job[x].pub]
  <2>1. r \in to
    BY <1>1 DEF Handoff!Upserted, Handoff!Declared
  <2>2. QED
    BY <2>1
<1>4. \A r \in set : r.product # x => r \in to
  BY DEF Handoff!Upserted
<1>5. QED
  BY <1>2, <1>3, <1>4 DEF Handoff!Of

LEMMA Pruning ==
  ASSUME NEW x \in Product, NEW set \in SUBSET SharedRow
  PROVE  LET to == {r \in set : r.product = x => r.key \in job[x].keys} IN
         /\ to \subseteq SharedRow
         /\ \A y \in Product : y # x => Handoff!Of(to, y) = Handoff!Of(set, y)
         /\ \A r \in set : r.product = x /\ r.key \in job[x].keys => r \in to
         /\ \A r \in to : r.product = x => r.key \in job[x].keys
BY DEF Handoff!Of

\* One more statement about the metadata.
LEMMA MetaStatement ==
  ASSUME NEW x \in Product, JobShaped(job[x]), job[x].at = "meta", pubs \in Nat,
         NEW n \in 1..4, NEW db, DbShaped(db), MetaSent(x, n - 1, db)
  PROVE  LET e == Handoff!Statement(Handoff!Statements(x)[n], x, db) IN
         DbShaped(e) /\ MetaSent(x, n, e) /\ Elsewhere(x, db, e)
<1> DEFINE e == Handoff!Statement(Handoff!Statements(x)[n], x, db)
<1>1. Handoff!Statements(x) = <<"upsert_rows", "upsert_display", "stale_display", "prune_rows">>
  BY DEF Handoff!Statements, Handoff!MetaStatements
<1>2. db = [rows |-> db.rows, display |-> db.display, sources |-> db.sources, quality |-> db.quality]
  BY DEF DbShaped
<1>3. job[x].pub \in Nat /\ job[x].pub <= pubs /\ job[x].shown \in BOOLEAN
  BY DEF JobShaped
<1>4. CASE n = 1
  <2> DEFINE to == Handoff!Upserted(db.rows, x)
  <2>1. e = [rows |-> to, display |-> db.display, sources |-> db.sources, quality |-> db.quality]
    BY <1>1, <1>2, <1>4 DEF Handoff!Statement
  <2>2. /\ to \subseteq SharedRow
        /\ \A y \in Product : y # x => Handoff!Of(to, y) = Handoff!Of(db.rows, y)
        /\ \A k \in job[x].keys : \E r \in to : r.product = x /\ r.key = k
        /\ \A r \in to : r.product = x /\ r.key \in job[x].keys => r.pub = job[x].pub
    BY Upserting DEF DbShaped
  <2> HIDE DEF to, e
  <2>3. /\ e.rows = to /\ e.display = db.display /\ e.sources = db.sources /\ e.quality = db.quality
        /\ e = [rows |-> e.rows, display |-> e.display, sources |-> e.sources, quality |-> e.quality]
    BY <2>1
  <2>4. DbShaped(e)
    BY <2>2, <2>3 DEF DbShaped
  <2>5. MetaSent(x, 1, e)
    BY <1>4, <2>2, <2>3 DEF MetaSent
  <2>6. Elsewhere(x, db, e)
    BY <2>2, <2>3 DEF Elsewhere
  <2>7. QED
    BY <1>4, <2>4, <2>5, <2>6 DEF e
<1>5. CASE n = 2
  <2> DEFINE to == IF job[x].shown THEN job[x].pub ELSE db.display[x]
  <2>1. e = [rows |-> db.rows, display |-> [db.display EXCEPT ![x] = to], sources |-> db.sources, quality |-> db.quality]
    BY <1>1, <1>2, <1>5 DEF Handoff!Statement
  <2>2. QED
    BY <1>3, <1>5, <2>1 DEF DbShaped, MetaSent, Elsewhere
<1>6. CASE n = 3
  <2> DEFINE to == IF db.display[x] = job[x].pub THEN db.display[x] ELSE None
  <2>1. e = [rows |-> db.rows, display |-> [db.display EXCEPT ![x] = to], sources |-> db.sources, quality |-> db.quality]
    BY <1>1, <1>2, <1>6 DEF Handoff!Statement
  <2>2. QED
    BY <1>3, <1>6, <2>1, HandoffAssumption DEF DbShaped, MetaSent, Handoff!HandoffAssumption, Elsewhere
<1>7. CASE n = 4
  <2> DEFINE to == {r \in db.rows : r.product = x => r.key \in job[x].keys}
  <2>0. e = [db EXCEPT !.rows = to]
    BY <1>1, <1>7 DEF Handoff!Statement
  <2>1. e = [rows |-> to, display |-> db.display, sources |-> db.sources, quality |-> db.quality]
    BY <1>2, <2>0
  <2>2. /\ to \subseteq SharedRow
        /\ \A y \in Product : y # x => Handoff!Of(to, y) = Handoff!Of(db.rows, y)
        /\ \A r \in db.rows : r.product = x /\ r.key \in job[x].keys => r \in to
        /\ \A r \in to : r.product = x => r.key \in job[x].keys
    BY Pruning DEF DbShaped
  <2>3. to \subseteq db.rows
    OBVIOUS
  <2> HIDE DEF to, e
  <2>4. MetaSent(x, 4, e)
    BY <1>7, <2>1, <2>2, <2>3 DEF MetaSent
  <2>5. /\ e.rows = to /\ e.display = db.display /\ e.sources = db.sources /\ e.quality = db.quality
        /\ e = [rows |-> e.rows, display |-> e.display, sources |-> e.sources, quality |-> e.quality]
    BY <2>1
  <2>6. DbShaped(e)
    BY <2>2, <2>5 DEF DbShaped
  <2>7. Elsewhere(x, db, e)
    BY <2>2, <2>5 DEF Elsewhere
  <2>8. QED
    BY <1>7, <2>4, <2>6, <2>7 DEF e
<1>8. QED
  BY <1>4, <1>5, <1>6, <1>7

\* One more statement about the evidence, which leaves the metadata alone.
LEMMA EvidenceStatement ==
  ASSUME NEW x \in Product, JobShaped(job[x]), job[x].at = "evidence", pubs \in Nat,
         NEW n \in 1..3, NEW db, DbShaped(db), EvidenceSent(x, n - 1, db)
  PROVE  LET e == Handoff!Statement(Handoff!Statements(x)[n], x, db) IN
         DbShaped(e) /\ EvidenceSent(x, n, e) /\ Elsewhere(x, db, e) /\ e.rows = db.rows /\ e.display = db.display
<1> DEFINE e == Handoff!Statement(Handoff!Statements(x)[n], x, db)
<1>1. Handoff!Statements(x) = <<"upsert_sources", "prune_sources", "upsert_quality">>
  BY DEF Handoff!Statements, Handoff!EvidenceStatements
<1>2. db = [rows |-> db.rows, display |-> db.display, sources |-> db.sources, quality |-> db.quality]
  BY DEF DbShaped
<1>3. job[x].pub \in Nat
  BY DEF JobShaped
<1>4. CASE n = 1
  <2> DEFINE to == Handoff!Upserted(db.sources, x)
  <2>1. e = [rows |-> db.rows, display |-> db.display, sources |-> to, quality |-> db.quality]
    BY <1>1, <1>2, <1>4 DEF Handoff!Statement
  <2>2. /\ to \subseteq SharedRow
        /\ \A y \in Product : y # x => Handoff!Of(to, y) = Handoff!Of(db.sources, y)
        /\ \A k \in job[x].keys : \E r \in to : r.product = x /\ r.key = k
        /\ \A r \in to : r.product = x /\ r.key \in job[x].keys => r.pub = job[x].pub
    BY Upserting DEF DbShaped
  <2> HIDE DEF to, e
  <2>3. /\ e.rows = db.rows /\ e.display = db.display /\ e.sources = to /\ e.quality = db.quality
        /\ e = [rows |-> e.rows, display |-> e.display, sources |-> e.sources, quality |-> e.quality]
    BY <2>1
  <2>4. DbShaped(e)
    BY <2>2, <2>3 DEF DbShaped
  <2>5. EvidenceSent(x, 1, e)
    BY <1>4, <2>2, <2>3 DEF EvidenceSent
  <2>6. Elsewhere(x, db, e)
    BY <2>2, <2>3 DEF Elsewhere
  <2>7. QED
    BY <1>4, <2>3, <2>4, <2>5, <2>6 DEF e
<1>5. CASE n = 2
  <2> DEFINE to == {r \in db.sources : r.product = x => r.key \in job[x].keys}
  <2>1. e = [rows |-> db.rows, display |-> db.display, sources |-> to, quality |-> db.quality]
    BY <1>1, <1>2, <1>5 DEF Handoff!Statement
  <2>2. /\ to \subseteq SharedRow
        /\ \A y \in Product : y # x => Handoff!Of(to, y) = Handoff!Of(db.sources, y)
        /\ \A r \in db.sources : r.product = x /\ r.key \in job[x].keys => r \in to
        /\ \A r \in to : r.product = x => r.key \in job[x].keys
    BY Pruning DEF DbShaped
  <2>3. to \subseteq db.sources
    OBVIOUS
  <2> HIDE DEF to, e
  <2>4. EvidenceSent(x, 2, e)
    BY <1>5, <2>1, <2>2, <2>3 DEF EvidenceSent
  <2>5. /\ e.rows = db.rows /\ e.display = db.display /\ e.sources = to /\ e.quality = db.quality
        /\ e = [rows |-> e.rows, display |-> e.display, sources |-> e.sources, quality |-> e.quality]
    BY <2>1
  <2>6. DbShaped(e)
    BY <2>2, <2>5 DEF DbShaped
  <2>7. Elsewhere(x, db, e)
    BY <2>2, <2>5 DEF Elsewhere
  <2>8. QED
    BY <1>5, <2>4, <2>5, <2>6, <2>7 DEF e
<1>6. CASE n = 3
  <2>1. e = [rows |-> db.rows, display |-> db.display, sources |-> db.sources,
             quality |-> [db.quality EXCEPT ![x] = job[x].pub]]
    BY <1>1, <1>2, <1>6 DEF Handoff!Statement
  <2>2. QED
    BY <1>6, <2>1 DEF DbShaped, EvidenceSent, Elsewhere
<1>7. QED
  BY <1>4, <1>5, <1>6

\* How far the n-th statement has got a batch that ends at the k-th.
Reached(n, k, from) == IF n <= from THEN from ELSE IF n <= k THEN n ELSE k

LEMMA OneMore ==
  ASSUME NEW x \in Product, JobShaped(job[x]), job[x].at \in {"meta", "evidence"}, pubs \in Nat,
         job[x].sent \in 0..4, NEW k \in 1..4, k > job[x].sent, job[x].at = "evidence" => k <= 3,
         NEW n \in 1..4, NEW d, DbShaped(d), Elsewhere(x, Db, d),
         job[x].at = "meta" => MetaSent(x, Reached(n - 1, k, job[x].sent), d),
         job[x].at = "evidence" =>
           EvidenceSent(x, Reached(n - 1, k, job[x].sent), d) /\ d.rows = rows /\ d.display = display
  PROVE  LET e == Handoff!Sends(n, k, x, d) IN
         /\ DbShaped(e) /\ Elsewhere(x, Db, e)
         /\ job[x].at = "meta" => MetaSent(x, Reached(n, k, job[x].sent), e)
         /\ job[x].at = "evidence" =>
              EvidenceSent(x, Reached(n, k, job[x].sent), e) /\ e.rows = rows /\ e.display = display
<1> DEFINE e == Handoff!Sends(n, k, x, d)
<1>1. CASE ~(job[x].sent < n /\ n <= k)
  <2>1. e = d /\ Reached(n, k, job[x].sent) = Reached(n - 1, k, job[x].sent)
    BY <1>1 DEF Handoff!Sends, Reached
  <2>2. QED
    BY <2>1
<1>2. CASE job[x].sent < n /\ n <= k
  <2> DEFINE f == Handoff!Statement(Handoff!Statements(x)[n], x, d)
  <2>1. e = f /\ Reached(n, k, job[x].sent) = n /\ Reached(n - 1, k, job[x].sent) = n - 1
    BY <1>2 DEF Handoff!Sends, Reached
  <2>2. CASE job[x].at = "meta"
    <3>1. DbShaped(f) /\ MetaSent(x, n, f) /\ Elsewhere(x, d, f)
      BY <2>1, <2>2, MetaStatement
    <3> HIDE DEF f
    <3>2. QED
      BY <2>1, <2>2, <3>1, ElsewhereChains
  <2>3. CASE job[x].at = "evidence"
    <3>1. DbShaped(f) /\ EvidenceSent(x, n, f) /\ Elsewhere(x, d, f) /\ f.rows = d.rows /\ f.display = d.display
      BY <1>2, <2>1, <2>3, EvidenceStatement
    <3> HIDE DEF f
    <3>2. QED
      BY <2>1, <2>3, <3>1, ElsewhereChains
  <2>4. QED
    BY <2>2, <2>3
<1>3. QED
  BY <1>1, <1>2

LEMMA BatchEffect ==
  ASSUME NEW x \in Product, JobShaped(job[x]), job[x].at \in {"meta", "evidence"}, pubs \in Nat,
         job[x].sent \in 0..4, NEW k \in 1..4, k > job[x].sent, job[x].at = "evidence" => k <= 3, DbShaped(Db),
         job[x].at = "meta" => MetaSent(x, job[x].sent, Db),
         job[x].at = "evidence" => EvidenceSent(x, job[x].sent, Db)
  PROVE  LET e == Handoff!Batch(k, x, Db) IN
         /\ DbShaped(e) /\ Elsewhere(x, Db, e)
         /\ job[x].at = "meta" => MetaSent(x, k, e)
         /\ job[x].at = "evidence" => EvidenceSent(x, k, e) /\ e.rows = rows /\ e.display = display
<1> DEFINE a == Handoff!Sends(1, k, x, Db)
           b == Handoff!Sends(2, k, x, a)
           c == Handoff!Sends(3, k, x, b)
           e == Handoff!Sends(4, k, x, c)
           Holds(d, n) == /\ DbShaped(d) /\ Elsewhere(x, Db, d)
                          /\ job[x].at = "meta" => MetaSent(x, Reached(n, k, job[x].sent), d)
                          /\ job[x].at = "evidence" => /\ EvidenceSent(x, Reached(n, k, job[x].sent), d)
                                                       /\ d.rows = rows /\ d.display = display
<1>1. Holds(Db, 0)
  BY DEF Reached, Elsewhere, Db
<1>2. Holds(a, 1)
  BY <1>1, OneMore
<1> HIDE DEF a
<1>3. Holds(b, 2)
  BY <1>2, OneMore
<1> HIDE DEF b
<1>4. Holds(c, 3)
  BY <1>3, OneMore
<1> HIDE DEF c
<1>5. Holds(e, 4)
  BY <1>4, OneMore
<1>6. Reached(4, k, job[x].sent) = k
  BY DEF Reached
<1>7. Handoff!Batch(k, x, Db) = e
  BY DEF Handoff!Batch, a, b, c
<1> HIDE DEF e
<1>8. QED
  BY <1>5, <1>6, <1>7

\* A migration keeps every key and blanks the stamps.
LEMMA MigratedRows ==
  ASSUME rows \subseteq SharedRow
  PROVE  /\ Handoff!Migrated \subseteq SharedRow
         /\ \A r \in Handoff!Migrated : r.pub = Handoff!Blank /\ \E s \in rows : s.product = r.product /\ s.key = r.key
         /\ \A s \in rows : \E r \in Handoff!Migrated : r.product = s.product /\ r.key = s.key
<1> DEFINE to(s) == [s EXCEPT !.pub = Handoff!Blank]
<1>1. ASSUME NEW s \in rows
      PROVE  to(s) \in SharedRow /\ to(s).pub = Handoff!Blank /\ to(s).product = s.product /\ to(s).key = s.key
  BY <1>1 DEF SharedRow, Handoff!Blank
<1>2. Handoff!Migrated = {to(s) : s \in rows}
  BY DEF Handoff!Migrated
<1> HIDE DEF to
<1>3. QED
  BY <1>1, <1>2

\* What a step of another publisher may do to the tables of product y.
SameOf(y) ==
  /\ job'[y] = job[y] /\ good_h'[y] = good_h[y] /\ catalog_h'[y] = catalog_h[y]
  /\ display'[y] = display[y] /\ quality'[y] = quality[y]
  /\ Handoff!Of(sources', y) = Handoff!Of(sources, y)
  /\ Handoff!Of(rows', y) = Handoff!Of(rows, y) \/ rows' = Handoff!Migrated

LEMMA OthersStay ==
  ASSUME HandoffInv, NEW y \in Product, pubs' \in Nat, pubs' >= pubs, SameOf(y)
  PROVE  JobInv(y)' /\ CompletedInv(y)'
<1>1. JobInv(y) /\ CompletedInv(y) /\ rows \subseteq SharedRow /\ pubs \in Nat
  BY DEF HandoffInv, DbShaped, Db
<1>2. /\ \A r \in rows' : r.product = y =>
           \E s \in rows : s.product = y /\ s.key = r.key /\ r.pub \in {s.pub, Handoff!Blank}
      /\ \A s \in rows : s.product = y => \E r \in rows' : r.product = y /\ r.key = s.key
  <2>1. CASE rows' = Handoff!Migrated
    BY <1>1, <2>1, MigratedRows
  <2>2. CASE Handoff!Of(rows', y) = Handoff!Of(rows, y)
    <3>1. \A r : r \in rows' /\ r.product = y <=> r \in rows /\ r.product = y
      BY <2>2 DEF Handoff!Of
    <3>2. QED
      BY <3>1
  <2>3. QED
    BY <2>1, <2>2 DEF SameOf
<1>3. /\ \A r : r \in sources' /\ r.product = y <=> r \in sources /\ r.product = y
      /\ display'[y] = display[y] /\ quality'[y] = quality[y] /\ job'[y] = job[y]
  BY DEF SameOf, Handoff!Of
<1>4. ASSUME NEW n \in 0..4, MetaSent(y, n, Db) PROVE MetaSent(y, n, Db)'
  BY <1>2, <1>3, <1>4 DEF MetaSent, Db
<1>5. ASSUME NEW n \in 0..3, EvidenceSent(y, n, Db) PROVE EvidenceSent(y, n, Db)'
  BY <1>3, <1>5 DEF EvidenceSent, Db
<1>6. JobShaped(job[y])'
  <2>1. JobShaped(job[y])
    BY <1>1 DEF JobInv
  <2>2. QED
    BY <1>1, <1>3, <2>1 DEF JobShaped
<1>7. JobInv(y)'
  <2>1. catalog_h'[y] = catalog_h[y]
    BY DEF SameOf
  <2>2. QED
    BY <1>1, <1>3, <1>4, <1>5, <1>6, <2>1 DEF JobInv
<1>8. CompletedInv(y)'
  <2>1. ASSUME good_h[y] # None
        PROVE  /\ {r.key : r \in Handoff!Of(rows', y)} = {r.key : r \in Handoff!Of(rows, y)}
               /\ {r.pub : r \in Handoff!Of(rows', y)} \subseteq {r.pub : r \in Handoff!Of(rows, y)} \cup {Handoff!Blank}
    BY <1>2 DEF Handoff!Of
  <2>2. QED
    BY <1>1, <2>1 DEF CompletedInv, SameOf
<1>9. QED
  BY <1>7, <1>8

LEMMA OneMoves ==
  ASSUME HandoffInv, NEW x \in Product, pubs' \in Nat, pubs' >= pubs, DbShaped(Db)',
         catalog_h' = [y \in Product |-> catalog_h'[y]],
         good_h' = [y \in Product |-> good_h'[y]],
         job' = [y \in Product |-> job'[y]],
         \A y \in Product : y # x => SameOf(y),
         JobInv(x)', CompletedInv(x)'
  PROVE  HandoffInv'
<1>1. ASSUME NEW y \in Product PROVE JobInv(y)' /\ CompletedInv(y)'
  <2>1. CASE y = x
    BY <2>1
  <2>2. CASE y # x
    BY <2>2, OthersStay
  <2>3. QED
    BY <2>1, <2>2
<1>2. QED
  BY <1>1 DEF HandoffInv

\* A step that leaves the shared tables alone.
LEMMA QuietShared ==
  ASSUME HandoffInv, NEW x \in Product, UNCHANGED <<rows, display, sources, quality>>,
         pubs' \in Nat, pubs' >= pubs
  PROVE  /\ DbShaped(Db)'
         /\ \A y \in Product : job'[y] = job[y] /\ good_h'[y] = good_h[y] /\ catalog_h'[y] = catalog_h[y] => SameOf(y)
<1>1. DbShaped(Db) /\ pubs \in Nat
  BY DEF HandoffInv
<1>2. \A y \in Product : Db.display[y] = None \/ (Db.display[y] \in Nat /\ Db.display[y] <= pubs')
  BY <1>1 DEF DbShaped
<1>3. Db' = Db
  BY DEF Db
<1>4. DbShaped(Db)'
  BY <1>1, <1>2, <1>3 DEF DbShaped
<1>5. \A y \in Product : Handoff!Of(sources', y) = Handoff!Of(sources, y) /\ Handoff!Of(rows', y) = Handoff!Of(rows, y)
  BY DEF Handoff!Of
<1>6. display' = display /\ quality' = quality
  OBVIOUS
<1>7. QED
  BY <1>4, <1>5, <1>6 DEF SameOf

\* A publisher at work has nothing completed yet.
LEMMA NothingCompleted ==
  ASSUME HandoffInv, NEW x \in Product, job[x].at # "idle", good_h' = good_h
  PROVE  CompletedInv(x)'
BY DEF HandoffInv, CompletedInv

\* A publisher that is done, or has given up, for whatever reason.
LEMMA GivesUp ==
  ASSUME NEW x \in Product, job'[x].at \in {"idle", "restore"}, JobShaped(job[x])'
  PROVE  JobInv(x)'
BY DEF JobInv

LEMMA NoJobShaped ==
  ASSUME NEW x \in Product, job'[x] = Handoff!NoJob
  PROVE  JobInv(x)' /\ job'[x].at = "idle"
BY DEF JobInv, JobShaped, Handoff!NoJob

\* One publisher moves on to another place.
At(j, at, n) ==
  [at |-> at, pub |-> j.pub, keys |-> j.keys, shown |-> j.shown, before |-> j.before, sent |-> n]

LEMMA JobUpdates ==
  ASSUME NEW j, JobShaped(j), NEW at, NEW n
  PROVE  /\ [j EXCEPT !.at = at] = At(j, at, j.sent)
         /\ [j EXCEPT !.sent = n] = At(j, j.at, n)
<1>1. j = [at |-> j.at, pub |-> j.pub, keys |-> j.keys, shown |-> j.shown, before |-> j.before, sent |-> j.sent]
  BY DEF JobShaped
<1>2. [j EXCEPT !.at = at] = At(j, at, j.sent)
  BY <1>1 DEF At
<1>3. [j EXCEPT !.sent = n] = At(j, j.at, n)
  BY <1>1 DEF At
<1>4. QED
  BY <1>2, <1>3

LEMMA MovesTo ==
  ASSUME HandoffInv, NEW x \in Product, NEW at \in {"schema", "migrate", "meta", "evidence", "restore"}, NEW n,
         job' = [job EXCEPT ![x] = At(job[x], at, n)], job[x].at # "idle", pubs' = pubs
  PROVE  /\ JobShaped(job[x])' /\ job' = [y \in Product |-> job'[y]]
         /\ job'[x].at = at /\ job'[x].sent = n /\ job'[x].pub = job[x].pub /\ job'[x].keys = job[x].keys
         /\ job'[x].shown = job[x].shown
         /\ \A y \in Product : y # x => job'[y] = job[y]
<1>1. JobShaped(job[x]) /\ job = [y \in Product |-> job[y]]
  BY DEF HandoffInv, JobInv
<1> DEFINE j == job[x]
           k == At(j, at, n)
<1>2. /\ k.at = at /\ k.pub = j.pub /\ k.keys = j.keys /\ k.shown = j.shown /\ k.sent = n
      /\ k = [at |-> k.at, pub |-> k.pub, keys |-> k.keys, shown |-> k.shown, before |-> k.before, sent |-> k.sent]
  BY DEF At
<1>3. job' = [y \in Product |-> IF y = x THEN k ELSE job[y]]
  BY <1>1
<1>4. job'[x] = k /\ \A y \in Product : y # x => job'[y] = job[y]
  BY <1>3
<1> HIDE DEF k
<1>5. JobShaped(k)
  BY <1>1, <1>2 DEF JobShaped
<1>6. JobShaped(job[x])'
  BY <1>4, <1>5 DEF JobShaped
<1>7. QED
  BY <1>2, <1>3, <1>4, <1>6

LEMMA EndsAt ==
  ASSUME HandoffInv, NEW x \in Product, job' = [job EXCEPT ![x] = Handoff!NoJob]
  PROVE  /\ JobInv(x)' /\ job' = [y \in Product |-> job'[y]] /\ job'[x].at = "idle"
         /\ \A y \in Product : y # x => job'[y] = job[y]
<1>1. job' = [y \in Product |-> IF y = x THEN Handoff!NoJob ELSE job[y]]
  BY DEF HandoffInv
<1>2. job'[x] = Handoff!NoJob
  BY <1>1
<1>3. QED
  BY <1>1, <1>2, NoJobShaped

LEMMA PublicationStarts ==
  ASSUME HandoffInv, NEW x \in Product, Handoff!Start(x)
  PROVE  HandoffInv'
<1>1. /\ job[x].at = "idle" /\ pubs \in Nat /\ pubs' = pubs + 1 /\ UNCHANGED <<rows, display, sources, quality>>
      /\ catalog_h' = catalog_h /\ good_h' = [good_h EXCEPT ![x] = None]
  BY DEF HandoffInv, Handoff!Start, Handoff!tables
<1>2. PICK keys \in SUBSET Key \ {{}}, shown \in BOOLEAN :
        job' = [job EXCEPT ![x] = [at |-> "catalog", pub |-> pubs + 1, keys |-> keys, shown |-> shown,
                                   before |-> catalog_h[x], sent |-> 0]]
  BY DEF Handoff!Start
<1> DEFINE k == [at |-> "catalog", pub |-> pubs + 1, keys |-> keys, shown |-> shown, before |-> catalog_h[x],
                 sent |-> 0]
<1>3. job' = [y \in Product |-> IF y = x THEN k ELSE job[y]]
  BY <1>2 DEF HandoffInv
<1>4. job'[x] = k /\ \A y \in Product : y # x => job'[y] = job[y]
  BY <1>3
<1>5. DbShaped(Db)' /\ \A y \in Product : y # x => SameOf(y)
  BY <1>1, <1>4, QuietShared
<1>6. display[x] # pubs + 1
  BY <1>1, HandoffAssumption DEF HandoffInv, DbShaped, Db, Handoff!HandoffAssumption
<1>7. JobInv(x)'
  <2>1. JobShaped(job[x])'
    BY <1>1, <1>4 DEF JobShaped
  <2>2. MetaSent(x, 0, Db)'
    BY <1>1, <1>4, <1>6 DEF MetaSent, Db
  <2>3. QED
    BY <1>4, <2>1, <2>2 DEF JobInv
<1>8. good_h' = [y \in Product |-> good_h'[y]] /\ good_h'[x] = None
  BY <1>1 DEF HandoffInv
<1>9. CompletedInv(x)'
  BY <1>8 DEF CompletedInv
<1>10. job' = [y \in Product |-> job'[y]]
  BY <1>3
<1>11. catalog_h' = [y \in Product |-> catalog_h'[y]]
  BY <1>1 DEF HandoffInv
<1>12. pubs' \in Nat /\ pubs' >= pubs
  BY <1>1
<1>13. good_h' = [y \in Product |-> good_h'[y]]
  BY <1>8
<1>14. QED
  BY <1>5, <1>7, <1>9, <1>10, <1>11, <1>12, <1>13, OneMoves

LEMMA CatalogMoves ==
  ASSUME HandoffInv, NEW x \in Product, Handoff!Catalog(x)
  PROVE  HandoffInv'
<1>1. /\ job[x].at = "catalog" /\ pubs \in Nat /\ pubs' = pubs /\ UNCHANGED <<rows, display, sources, quality>>
      /\ good_h' = good_h /\ good_h = [y \in Product |-> good_h[y]] /\ catalog_h = [y \in Product |-> catalog_h[y]]
      /\ JobInv(x)
  BY DEF HandoffInv, Handoff!Catalog, Handoff!tables
<1>2. catalog_h' \in {catalog_h, [catalog_h EXCEPT ![x] = job[x].pub]}
  BY DEF Handoff!Catalog
<1>3. catalog_h' = [y \in Product |-> catalog_h'[y]] /\ \A y \in Product : y # x => catalog_h'[y] = catalog_h[y]
  BY <1>1, <1>2
<1>4. JobInv(x)' /\ job' = [y \in Product |-> job'[y]] /\ \A y \in Product : y # x => job'[y] = job[y]
  <2>1. CASE job' = [job EXCEPT ![x] = Handoff!NoJob]
    BY <2>1, EndsAt
  <2>2. CASE catalog_h' = [catalog_h EXCEPT ![x] = job[x].pub] /\ job' = [job EXCEPT ![x].at = "schema"]
    <3>1. JobShaped(job[x]) /\ job[x].sent = 0 /\ MetaSent(x, 0, Db)
      BY <1>1 DEF JobInv
    <3>2. [job[x] EXCEPT !.at = "schema"] = At(job[x], "schema", 0)
      BY <3>1, JobUpdates
    <3>3. job' = [job EXCEPT ![x] = At(job[x], "schema", 0)]
      BY <2>2, <3>2
    <3>4. /\ JobShaped(job[x])' /\ job' = [y \in Product |-> job'[y]]
          /\ job'[x].at = "schema" /\ job'[x].sent = 0 /\ job'[x].pub = job[x].pub /\ job'[x].keys = job[x].keys
          /\ job'[x].shown = job[x].shown /\ \A y \in Product : y # x => job'[y] = job[y]
      BY <1>1, <3>3, MovesTo
    <3>5. catalog_h'[x] = job[x].pub
      BY <1>1, <2>2
    <3>6. MetaSent(x, 0, Db)'
      BY <1>1, <3>1, <3>4 DEF MetaSent, Db
    <3>7. QED
      BY <3>4, <3>5, <3>6 DEF JobInv
  <2>3. QED
    BY <2>1, <2>2 DEF Handoff!Catalog
<1>5. DbShaped(Db)' /\ \A y \in Product : y # x => SameOf(y)
  BY <1>1, <1>3, <1>4, QuietShared
<1>6. CompletedInv(x)'
  BY <1>1, NothingCompleted
<1>7. QED
  BY <1>1, <1>3, <1>4, <1>5, <1>6, OneMoves

LEMMA SchemaIsRead ==
  ASSUME HandoffInv, NEW x \in Product, Handoff!ReadSchema(x)
  PROVE  HandoffInv'
<1>1. /\ job[x].at = "schema" /\ pubs \in Nat /\ pubs' = pubs /\ UNCHANGED <<rows, display, sources, quality>>
      /\ good_h' = good_h /\ good_h = [y \in Product |-> good_h[y]]
      /\ catalog_h' = catalog_h /\ catalog_h = [y \in Product |-> catalog_h[y]] /\ JobInv(x)
  BY DEF HandoffInv, Handoff!ReadSchema, Handoff!tables
<1>2. JobShaped(job[x]) /\ job[x].sent = 0 /\ MetaSent(x, 0, Db) /\ catalog_h[x] = job[x].pub
  BY <1>1 DEF JobInv
<1>3. PICK at \in {"migrate", "meta", "restore"} : job' = [job EXCEPT ![x].at = at]
  BY DEF Handoff!ReadSchema
<1>4. [job[x] EXCEPT !.at = at] = At(job[x], at, 0)
  BY <1>2, JobUpdates
<1>5. job' = [job EXCEPT ![x] = At(job[x], at, 0)]
  BY <1>3, <1>4
<1>6. /\ JobShaped(job[x])' /\ job' = [y \in Product |-> job'[y]]
      /\ job'[x].at = at /\ job'[x].sent = 0 /\ job'[x].pub = job[x].pub /\ job'[x].keys = job[x].keys
      /\ job'[x].shown = job[x].shown /\ \A y \in Product : y # x => job'[y] = job[y]
  BY <1>1, <1>5, MovesTo
<1>7. MetaSent(x, 0, Db)'
  BY <1>1, <1>2, <1>6 DEF MetaSent, Db
<1>8. JobInv(x)'
  BY <1>1, <1>2, <1>6, <1>7 DEF JobInv
<1>9. DbShaped(Db)' /\ \A y \in Product : y # x => SameOf(y)
  BY <1>1, <1>6, QuietShared
<1>10. CompletedInv(x)'
  BY <1>1, NothingCompleted
<1>11. QED
  BY <1>1, <1>6, <1>8, <1>9, <1>10, OneMoves

LEMMA TablesMigrate ==
  ASSUME HandoffInv, NEW x \in Product, Handoff!Migrate(x)
  PROVE  HandoffInv'
<1>1. /\ job[x].at = "migrate" /\ pubs \in Nat /\ pubs' = pubs /\ UNCHANGED <<display, sources, quality>>
      /\ good_h' = good_h /\ good_h = [y \in Product |-> good_h[y]]
      /\ catalog_h' = catalog_h /\ catalog_h = [y \in Product |-> catalog_h[y]]
      /\ JobInv(x) /\ DbShaped(Db) /\ rows \subseteq SharedRow
  BY DEF HandoffInv, Handoff!Migrate, DbShaped, Db
<1>2. JobShaped(job[x]) /\ job[x].sent = 0 /\ MetaSent(x, 0, Db) /\ catalog_h[x] = job[x].pub
  BY <1>1 DEF JobInv
<1>3. rows' = Handoff!Migrated \/ rows' = rows
  BY DEF Handoff!Migrate
<1>4. PICK at \in {"meta", "restore"} : job' = [job EXCEPT ![x].at = at]
  BY DEF Handoff!Migrate
<1>5. [job[x] EXCEPT !.at = at] = At(job[x], at, 0)
  BY <1>2, JobUpdates
<1>6. job' = [job EXCEPT ![x] = At(job[x], at, 0)]
  BY <1>4, <1>5
<1>7. /\ JobShaped(job[x])' /\ job' = [y \in Product |-> job'[y]]
      /\ job'[x].at = at /\ job'[x].sent = 0 /\ job'[x].pub = job[x].pub /\ job'[x].keys = job[x].keys
      /\ job'[x].shown = job[x].shown /\ \A y \in Product : y # x => job'[y] = job[y]
  BY <1>1, <1>6, MovesTo
<1>8. MetaSent(x, 0, Db)'
  BY <1>1, <1>2, <1>7 DEF MetaSent, Db
<1>9. JobInv(x)'
  BY <1>1, <1>2, <1>7, <1>8 DEF JobInv
<1>10. rows' \subseteq SharedRow
  BY <1>1, <1>3, MigratedRows
<1>11. DbShaped(Db)'
  BY <1>1, <1>10 DEF DbShaped, Db
<1>12. \A y \in Product : Handoff!Of(sources', y) = Handoff!Of(sources, y)
  BY <1>1
<1>13. \A y \in Product : y # x => SameOf(y)
  BY <1>1, <1>3, <1>7, <1>12 DEF SameOf
<1>14. CompletedInv(x)'
  BY <1>1, NothingCompleted
<1>15. QED
  BY <1>1, <1>7, <1>9, <1>11, <1>13, <1>14, OneMoves

\* How many statements a publication has about its metadata and its evidence.
LEMMA StatementCount ==
  ASSUME NEW x \in Product
  PROVE  Len(Handoff!Statements(x)) = IF job[x].at = "meta" THEN 4 ELSE 3
BY DEF Handoff!Statements, Handoff!MetaStatements, Handoff!EvidenceStatements

\* A publisher that stays at its place, with more statements sent.
LEMMA SendMoves ==
  ASSUME HandoffInv, NEW x \in Product, NEW n, pubs' = pubs, job[x].at \in {"meta", "evidence"},
         job' = [job EXCEPT ![x] = At(job[x], job[x].at, n)]
  PROVE  /\ JobShaped(job[x])' /\ job' = [y \in Product |-> job'[y]]
         /\ job'[x].at = job[x].at /\ job'[x].sent = n /\ job'[x].pub = job[x].pub /\ job'[x].keys = job[x].keys
         /\ job'[x].shown = job[x].shown /\ \A y \in Product : y # x => job'[y] = job[y]
<1>1. JobShaped(job[x]) /\ job = [y \in Product |-> job[y]]
  BY DEF HandoffInv, JobInv
<1> DEFINE j == job[x]
           k == At(j, j.at, n)
<1>2. /\ k.at = j.at /\ k.pub = j.pub /\ k.keys = j.keys /\ k.shown = j.shown /\ k.sent = n
      /\ k = [at |-> k.at, pub |-> k.pub, keys |-> k.keys, shown |-> k.shown, before |-> k.before, sent |-> k.sent]
  BY DEF At
<1>3. job' = [y \in Product |-> IF y = x THEN k ELSE job[y]]
  BY <1>1
<1>4. job'[x] = k /\ \A y \in Product : y # x => job'[y] = job[y]
  BY <1>3
<1> HIDE DEF k
<1>5. JobShaped(k)
  BY <1>1, <1>2 DEF JobShaped
<1>6. JobShaped(job[x])'
  BY <1>4, <1>5 DEF JobShaped
<1>7. QED
  BY <1>2, <1>3, <1>4, <1>6

LEMMA BatchIsSent ==
  ASSUME HandoffInv, NEW x \in Product, Handoff!Send(x)
  PROVE  HandoffInv'
<1>1. /\ job[x].at \in {"meta", "evidence"} /\ pubs \in Nat /\ pubs' = pubs
      /\ good_h' = good_h /\ good_h = [y \in Product |-> good_h[y]]
      /\ catalog_h' = catalog_h /\ catalog_h = [y \in Product |-> catalog_h[y]]
      /\ JobInv(x) /\ DbShaped(Db)
  BY DEF HandoffInv, Handoff!Send
<1>2. PICK k \in (job[x].sent + 1)..Len(Handoff!Statements(x)) :
        \/ Handoff!Apply(k, x) /\ job' = [job EXCEPT ![x].sent = k]
        \/ /\ Handoff!Apply(k, x) \/ UNCHANGED <<rows, display, sources, quality>>
           /\ job' = [job EXCEPT ![x].at = "restore"]
  BY DEF Handoff!Send
<1>3. /\ JobShaped(job[x]) /\ catalog_h[x] = job[x].pub
      /\ job[x].at = "meta" => job[x].sent \in 0..4 /\ MetaSent(x, job[x].sent, Db)
      /\ job[x].at = "evidence" =>
           job[x].sent \in 0..3 /\ MetaSent(x, 4, Db) /\ EvidenceSent(x, job[x].sent, Db)
  BY <1>1 DEF JobInv
<1>4. /\ k \in 1..4 /\ k > job[x].sent /\ job[x].sent \in 0..4
      /\ job[x].at = "evidence" => k <= 3
  <2>1. job[x].sent \in 0..4
    BY <1>1, <1>3
  <2>2. Len(Handoff!Statements(x)) = IF job[x].at = "meta" THEN 4 ELSE 3
    BY StatementCount
  <2>3. k \in Int /\ k >= job[x].sent + 1 /\ k <= Len(Handoff!Statements(x))
    BY <1>2, <2>1, <2>2
  <2>4. QED
    BY <1>1, <2>1, <2>2, <2>3
<1> DEFINE e == Handoff!Batch(k, x, Db)
<1>5. /\ DbShaped(e) /\ Elsewhere(x, Db, e)
      /\ job[x].at = "meta" => MetaSent(x, k, e)
      /\ job[x].at = "evidence" => EvidenceSent(x, k, e) /\ e.rows = rows /\ e.display = display
  BY <1>1, <1>3, <1>4, BatchEffect
<1>6. Handoff!Apply(k, x) => rows' = e.rows /\ display' = e.display /\ sources' = e.sources /\ quality' = e.quality
  BY DEF Handoff!Apply, Db
<1> HIDE DEF e
<1>7. Handoff!Apply(k, x) => Db' = e
  BY <1>5, <1>6 DEF Db, DbShaped
<1>8. CASE Handoff!Apply(k, x) /\ job' = [job EXCEPT ![x].sent = k]
  <2>1. job' = [job EXCEPT ![x] = At(job[x], job[x].at, k)]
    BY <1>3, <1>8, JobUpdates
  <2>2. job[x].at \in {"schema", "migrate", "meta", "evidence", "restore"} /\ job[x].at # "idle"
    BY <1>1
  <2>3. /\ JobShaped(job[x])' /\ job' = [y \in Product |-> job'[y]]
        /\ job'[x].at = job[x].at /\ job'[x].sent = k /\ job'[x].pub = job[x].pub /\ job'[x].keys = job[x].keys
        /\ job'[x].shown = job[x].shown /\ \A y \in Product : y # x => job'[y] = job[y]
    BY <1>1, <2>1, <2>2, SendMoves
  <2>4. job[x].at = "meta" => MetaSent(x, k, Db)'
    BY <1>5, <1>7, <1>8, <2>3 DEF MetaSent
  <2>5. job[x].at = "evidence" => MetaSent(x, 4, Db)' /\ EvidenceSent(x, k, Db)'
    <3>1. job[x].at = "evidence" => MetaSent(x, 4, e)
      BY <1>3, <1>5 DEF MetaSent, Db
    <3>2. QED
      BY <1>5, <1>7, <1>8, <2>3, <3>1 DEF MetaSent, EvidenceSent
  <2>6. JobInv(x)'
    BY <1>1, <1>3, <1>4, <2>3, <2>4, <2>5 DEF JobInv
  <2>7. DbShaped(Db)'
    BY <1>1, <1>5, <1>7, <1>8 DEF DbShaped
  <2>8. \A y \in Product : y # x => SameOf(y)
    BY <1>1, <1>5, <1>6, <1>8, <2>3 DEF SameOf, Elsewhere, Db
  <2>9. CompletedInv(x)'
    BY <1>1, <2>2, NothingCompleted
  <2>10. QED
    BY <1>1, <2>3, <2>6, <2>7, <2>8, <2>9, OneMoves
<1>9. CASE /\ Handoff!Apply(k, x) \/ UNCHANGED <<rows, display, sources, quality>>
           /\ job' = [job EXCEPT ![x].at = "restore"]
  <2>1. job' = [job EXCEPT ![x] = At(job[x], "restore", job[x].sent)]
    BY <1>3, <1>9, JobUpdates
  <2>2. job[x].at # "idle"
    BY <1>1
  <2>3. /\ JobShaped(job[x])' /\ job' = [y \in Product |-> job'[y]] /\ job'[x].at = "restore"
        /\ \A y \in Product : y # x => job'[y] = job[y]
    BY <1>1, <2>1, <2>2, MovesTo
  <2>4. JobInv(x)'
    BY <2>3, GivesUp
  <2>5. CompletedInv(x)'
    BY <1>1, <2>2, NothingCompleted
  <2>6. DbShaped(Db)' /\ \A y \in Product : y # x => SameOf(y)
    <3>1. CASE Handoff!Apply(k, x)
      <4>1. DbShaped(Db)'
        BY <1>1, <1>5, <1>7, <3>1 DEF DbShaped
      <4>2. \A y \in Product : y # x => SameOf(y)
        BY <1>1, <1>5, <1>6, <2>3, <3>1 DEF SameOf, Elsewhere, Db
      <4>3. QED
        BY <4>1, <4>2
    <3>2. CASE UNCHANGED <<rows, display, sources, quality>>
      BY <1>1, <2>3, <3>2, QuietShared
    <3>3. QED
      BY <1>9, <3>1, <3>2
  <2>7. QED
    BY <1>1, <2>3, <2>4, <2>5, <2>6, OneMoves
<1>10. QED
  BY <1>2, <1>8, <1>9

LEMMA PublicationIsSent ==
  ASSUME HandoffInv, NEW x \in Product, Handoff!Sent(x)
  PROVE  HandoffInv'
<1>1. /\ pubs \in Nat /\ pubs' = pubs /\ UNCHANGED <<rows, display, sources, quality>>
      /\ good_h = [y \in Product |-> good_h[y]]
      /\ catalog_h' = catalog_h /\ catalog_h = [y \in Product |-> catalog_h[y]]
      /\ JobInv(x) /\ DbShaped(Db) /\ rows \subseteq SharedRow /\ sources \subseteq SharedRow
  BY DEF HandoffInv, Handoff!Sent, Handoff!tables, DbShaped, Db
<1>1a. pubs' \in Nat /\ pubs' >= pubs /\ catalog_h' = [y \in Product |-> catalog_h'[y]]
  BY <1>1
<1>2. CASE job[x].at = "meta"
  <2>1. job' = [job EXCEPT ![x].at = "evidence", ![x].sent = 0] /\ good_h' = good_h /\ job[x].sent = 4
    BY <1>2, StatementCount DEF Handoff!Sent
  <2>2. JobShaped(job[x]) /\ catalog_h[x] = job[x].pub /\ MetaSent(x, 4, Db)
    BY <1>1, <1>2, <2>1 DEF JobInv
  <2>3. job' = [job EXCEPT ![x] = At(job[x], "evidence", 0)]
    <3> DEFINE i == [job[x] EXCEPT !.at = "evidence"]
    <3>1. [job EXCEPT ![x].at = "evidence", ![x].sent = 0] = [job EXCEPT ![x] = [i EXCEPT !.sent = 0]]
      BY DEF HandoffInv
    <3>2. i = At(job[x], "evidence", job[x].sent)
      BY <2>2, JobUpdates
    <3> HIDE DEF i
    <3>3. [i EXCEPT !.sent = 0] = At(job[x], "evidence", 0)
      BY <3>2 DEF At
    <3>4. QED
      BY <2>1, <3>1, <3>3 DEF i
  <2>4. /\ JobShaped(job[x])' /\ job' = [y \in Product |-> job'[y]]
        /\ job'[x].at = "evidence" /\ job'[x].sent = 0 /\ job'[x].pub = job[x].pub /\ job'[x].keys = job[x].keys
        /\ job'[x].shown = job[x].shown /\ \A y \in Product : y # x => job'[y] = job[y]
    BY <1>1, <1>2, <2>3, MovesTo
  <2>5. MetaSent(x, 4, Db)' /\ EvidenceSent(x, 0, Db)'
    BY <1>1, <2>2, <2>4 DEF MetaSent, EvidenceSent, Db
  <2>6. JobInv(x)'
    BY <1>1, <2>2, <2>4, <2>5 DEF JobInv
  <2>7. CompletedInv(x)'
    BY <1>2, <2>1, NothingCompleted
  <2>8. /\ good_h' = [y \in Product |-> good_h'[y]]
        /\ \A y \in Product : y # x => job'[y] = job[y] /\ good_h'[y] = good_h[y] /\ catalog_h'[y] = catalog_h[y]
    BY <1>1, <2>1, <2>4
  <2>9. DbShaped(Db)' /\ \A y \in Product : y # x => SameOf(y)
    BY <1>1a, <1>1, <2>8, QuietShared
  <2>10. QED
    BY <1>1a, <2>4, <2>6, <2>7, <2>8, <2>9, OneMoves
<1>3. CASE job[x].at = "evidence"
  <2> DEFINE g == [pub |-> job[x].pub, keys |-> job[x].keys, shown |-> job[x].shown]
  <2>1. job' = [job EXCEPT ![x] = Handoff!NoJob] /\ good_h' = [good_h EXCEPT ![x] = g] /\ job[x].sent = 3
    BY <1>3, StatementCount DEF Handoff!Sent
  <2>2. JobShaped(job[x]) /\ catalog_h[x] = job[x].pub /\ MetaSent(x, 4, Db) /\ EvidenceSent(x, 3, Db)
    BY <1>1, <1>3, <2>1 DEF JobInv
  <2>3. /\ JobInv(x)' /\ job' = [y \in Product |-> job'[y]] /\ job'[x].at = "idle"
        /\ \A y \in Product : y # x => job'[y] = job[y]
    BY <2>1, EndsAt
  <2>4. good_h' = [y \in Product |-> IF y = x THEN g ELSE good_h[y]]
    BY <1>1, <2>1
  <2>5. good_h'[x] = g /\ \A y \in Product : y # x => good_h'[y] = good_h[y]
    BY <2>4
  <2>6. good_h' = [y \in Product |-> good_h'[y]]
    BY <2>4
  <2>7. /\ job[x].pub \in Nat /\ quality[x] = job[x].pub
        /\ {r.key : r \in Handoff!Of(rows, x)} = job[x].keys
        /\ {r.pub : r \in Handoff!Of(rows, x)} \subseteq {job[x].pub, Handoff!Blank}
        /\ display[x] = IF job[x].shown THEN job[x].pub ELSE None
    <3>1. job[x].pub \in Nat /\ quality[x] = job[x].pub
      BY <1>3, <2>2 DEF JobShaped, EvidenceSent, Db
    <3>2. /\ \A k \in job[x].keys : \E r \in rows : r.product = x /\ r.key = k
          /\ \A r \in rows : r.product = x /\ r.key \in job[x].keys => r.pub \in {job[x].pub, Handoff!Blank}
          /\ \A r \in rows : r.product = x => r.key \in job[x].keys
          /\ display[x] = IF job[x].shown THEN job[x].pub ELSE None
      BY <2>2 DEF MetaSent, Db
    <3>3. QED
      BY <3>1, <3>2 DEF Handoff!Of
  <2>8. Handoff!Of(sources, x) = [product : {x}, key : job[x].keys, pub : {job[x].pub}]
    <3>1. /\ \A k \in job[x].keys : \E r \in sources : r.product = x /\ r.key = k
          /\ \A r \in sources : r.product = x => r.key \in job[x].keys /\ r.pub = job[x].pub
      BY <2>2 DEF EvidenceSent, Db
    <3>2. ASSUME NEW r \in Handoff!Of(sources, x) PROVE r \in [product : {x}, key : job[x].keys, pub : {job[x].pub}]
      BY <1>1, <3>1, <3>2 DEF Handoff!Of, SharedRow
    <3>3. ASSUME NEW r \in [product : {x}, key : job[x].keys, pub : {job[x].pub}] PROVE r \in Handoff!Of(sources, x)
      <4>1. r = [product |-> x, key |-> r.key, pub |-> job[x].pub] /\ r.key \in job[x].keys
        BY <3>3
      <4>2. PICK s \in sources : s.product = x /\ s.key = r.key
        BY <3>1, <4>1
      <4>3. s.pub = job[x].pub /\ s = [product |-> s.product, key |-> s.key, pub |-> s.pub]
        BY <1>1, <3>1, <4>2 DEF SharedRow
      <4>4. s = r
        BY <4>1, <4>2, <4>3
      <4>5. QED
        BY <4>2, <4>4 DEF Handoff!Of
    <3>4. QED
      BY <3>2, <3>3
  <2>9. CompletedInv(x)'
    <3>1. g.pub = job[x].pub /\ g.keys = job[x].keys /\ g.shown = job[x].shown
      OBVIOUS
    <3> HIDE DEF g
    <3>2. QED
      BY <1>1, <2>2, <2>3, <2>5, <2>7, <2>8, <3>1 DEF CompletedInv, Handoff!Of
  <2>10. DbShaped(Db)' /\ \A y \in Product : y # x => SameOf(y)
    BY <1>1a, <1>1, <2>3, <2>5, QuietShared
  <2>11. QED
    BY <1>1a, <2>3, <2>6, <2>9, <2>10, OneMoves
<1>4. QED
  BY <1>2, <1>3 DEF Handoff!Sent

LEMMA RestoreEnds ==
  ASSUME HandoffInv, NEW x \in Product, Handoff!Restore(x)
  PROVE  HandoffInv'
<1>1. /\ job[x].at = "restore" /\ pubs \in Nat /\ pubs' = pubs /\ UNCHANGED <<rows, display, sources, quality>>
      /\ good_h' = good_h /\ good_h = [y \in Product |-> good_h[y]] /\ catalog_h = [y \in Product |-> catalog_h[y]]
      /\ job' = [job EXCEPT ![x] = Handoff!NoJob]
  BY DEF HandoffInv, Handoff!Restore, Handoff!tables
<1>2. catalog_h' \in {catalog_h, [catalog_h EXCEPT ![x] = job[x].before]}
  BY DEF Handoff!Restore
<1>3. catalog_h' = [y \in Product |-> catalog_h'[y]] /\ \A y \in Product : y # x => catalog_h'[y] = catalog_h[y]
  BY <1>1, <1>2
<1>4. JobInv(x)' /\ job' = [y \in Product |-> job'[y]] /\ \A y \in Product : y # x => job'[y] = job[y]
  BY <1>1, EndsAt
<1>5. DbShaped(Db)' /\ \A y \in Product : y # x => SameOf(y)
  BY <1>1, <1>3, <1>4, QuietShared
<1>6. CompletedInv(x)'
  BY <1>1, NothingCompleted
<1>7. pubs' \in Nat /\ pubs' >= pubs /\ good_h' = [y \in Product |-> good_h'[y]]
  BY <1>1
<1>8. QED
  BY <1>3, <1>4, <1>5, <1>6, <1>7, OneMoves

LEMMA HandoffStarts == Handoff!Init => HandoffInv
<1> SUFFICES ASSUME Handoff!Init PROVE HandoffInv
  OBVIOUS
<1> USE DEF Handoff!Init
<1>1. rows \subseteq SharedRow
  BY DEF SharedRow, Handoff!Blank
<1>2. DbShaped(Db)
  BY <1>1 DEF DbShaped, Db
<1>3. \A y \in Product : JobInv(y) /\ CompletedInv(y)
  BY DEF JobInv, JobShaped, CompletedInv, Handoff!NoJob
<1>4. QED
  BY <1>2, <1>3 DEF HandoffInv

LEMMA HandoffInvariant == Handoff!Spec => []HandoffInv
<1>1. HandoffInv /\ [Handoff!Next]_(Handoff!vars) => HandoffInv'
  <2> SUFFICES ASSUME HandoffInv, [Handoff!Next]_(Handoff!vars) PROVE HandoffInv'
    OBVIOUS
  <2>1. CASE Handoff!Next
    BY <2>1, PublicationStarts, CatalogMoves, SchemaIsRead, TablesMigrate, BatchIsSent, PublicationIsSent, RestoreEnds
    DEF Handoff!Next
  <2>2. CASE UNCHANGED Handoff!vars
    <3>1. /\ rows' = rows /\ display' = display /\ sources' = sources /\ quality' = quality /\ catalog_h' = catalog_h
          /\ job' = job /\ good_h' = good_h /\ pubs' = pubs
      BY <2>2 DEF Handoff!vars
    <3>2. Db' = Db
      BY <3>1 DEF Db
    <3>3. DbShaped(Db)' <=> DbShaped(Db)
      BY <3>1, <3>2 DEF DbShaped
    <3>4. ASSUME NEW y \in Product, JobInv(y) PROVE JobInv(y)'
      BY <3>1, <3>2, <3>4 DEF JobInv, JobShaped, MetaSent, EvidenceSent
    <3>5. ASSUME NEW y \in Product, CompletedInv(y) PROVE CompletedInv(y)'
      BY <3>1, <3>5 DEF CompletedInv, Handoff!Of
    <3>6. QED
      BY <3>1, <3>3, <3>4, <3>5 DEF HandoffInv
  <2>3. QED
    BY <2>1, <2>2
<1>2. QED
  BY <1>1, HandoffStarts, PTL DEF Handoff!Spec

\* Once a publication is completed, readers have exactly its declaration, in
\* every one of the shared tables, whatever failed before it and whatever the
\* publishers of the other products do to the same tables
\* (d1_client.py publish_product_meta, publish_product_evidence).
THEOREM DeclaredIsServed == Handoff!Spec => []CompletedIsDeclared
<1>1. HandoffInv => CompletedIsDeclared
  BY HandoffAssumption
  DEF HandoffInv, CompletedInv, CompletedIsDeclared, Handoff!CompletedIsDeclared, Handoff!Open, Handoff!HandoffAssumption
<1>2. QED
  BY <1>1, HandoffInvariant, PTL
=============================================================================
