-------------------------- MODULE OperationsProofs --------------------------
(* Proofs about the five parts of MCOperations, each for every value of its    *)
(* constants: what a dbt phase reports was written by its own command; two     *)
(* manual triggers that both report success leave no conflicting runs; a day   *)
(* that passes in the public report had the evidence for it, and a slot that   *)
(* is covered in the operator's was loaded; the budget of a day is kept.       *)
EXTENDS MCOperations, FiniteSetTheorems, TLAPS

Stages == {"prepared", "healed", "running", "exited"}
Proc == [stage : Stages, rc : {"none", "ok", "transient", "failed"}, lost : BOOLEAN]

\* The live processes are records of a stage, a return code and a mark.
ProcsTyped ==
  /\ procs = [a \in DOMAIN procs |-> procs[a]]
  /\ \A a \in DOMAIN procs : procs[a] \in Proc
  /\ report = [r \in Run |-> report[r]]

\* From the reset of its execution directory until it is collected, an attempt
\* has no artifact in it but those of its own command.
OnlyOwnFiles ==
  \A a \in DOMAIN procs : procs[a].stage \in {"running", "exited"} =>
    \A f \in files : f.at = a => f.fresh

IInv == ProcsTyped /\ OnlyOwnFiles /\ ArtifactsAreOwn

-----------------------------------------------------------------------------
\* What At does to the processes: the attempt has the new record, the others
\* keep theirs.
LEMMA AtSets ==
  ASSUME NEW a, NEW p \in Proc, ProcsTyped, procs' = At(a, p), NEW b \in DOMAIN procs'
  PROVE  /\ procs' = [c \in DOMAIN procs' |-> procs'[c]]
         /\ procs'[b] \in Proc
         /\ b = a => procs'[b] = p
         /\ b # a => b \in DOMAIN procs /\ procs'[b] = procs[b]
BY DEF At, ProcsTyped

LEMMA MovedSets ==
  ASSUME NEW a \in DOMAIN procs, NEW stage \in Stages, ProcsTyped, procs' = Moved(a, stage),
         NEW b \in DOMAIN procs'
  PROVE  /\ procs' = [c \in DOMAIN procs' |-> procs'[c]]
         /\ procs'[b] \in Proc
         /\ b = a => procs'[b].stage = stage
         /\ b # a => b \in DOMAIN procs /\ procs'[b] = procs[b]
<1>1. procs[a] \in Proc
  BY DEF ProcsTyped
<1>2. /\ [procs[a] EXCEPT !.stage = stage] \in Proc
      /\ [procs[a] EXCEPT !.stage = stage].stage = stage
  BY <1>1 DEF Proc
<1>3. procs' = At(a, [procs[a] EXCEPT !.stage = stage])
  BY DEF Moved
<1>4. QED
  BY <1>2, <1>3 DEF At, ProcsTyped

\* A process that returns is gone, and the others are as they were.
LEMMA WithoutSets ==
  ASSUME NEW a, ProcsTyped, procs' = Without(a), NEW b \in DOMAIN procs'
  PROVE  /\ procs' = [c \in DOMAIN procs' |-> procs'[c]]
         /\ b # a /\ b \in DOMAIN procs /\ procs'[b] = procs[b]
BY DEF Without, ProcsTyped

-----------------------------------------------------------------------------
\* Only an attempt's own command adds files to its directory, so an attempt of
\* which procs says what it said before keeps its files or loses some.
LEMMA FilesOnlyGo ==
  ASSUME IInv, files' \subseteq files,
         \A b \in DOMAIN procs' : procs'[b].stage \in {"running", "exited"} =>
            b \in DOMAIN procs /\ procs[b].stage \in {"running", "exited"}
  PROVE  OnlyOwnFiles'
BY DEF IInv, OnlyOwnFiles

\* What is reported of a return is empty, or the artifacts of an attempt that
\* has exited.
LEMMA ReportsOwn ==
  ASSUME IInv, NEW a, NEW result, NEW outcome, Return(a, result, outcome), \A f \in result : f.fresh
  PROVE  \A r \in Run : \A f \in report'[r] : f.fresh
<1>1. report' = report \/ report' = [report EXCEPT ![a[1]] = result]
  BY DEF Return
<1>2. QED
  BY <1>1 DEF IInv, ProcsTyped, ArtifactsAreOwn

\* A return of an attempt that reports nothing but its own.
LEMMA ReturnKeeps ==
  ASSUME IInv, NEW a, NEW result, NEW outcome, Return(a, result, outcome), \A f \in result : f.fresh,
         files' \subseteq files, stable' # "unsound"
  PROVE  IInv'
<1>1. procs' = Without(a)
  BY DEF Return
<1>2. OnlyOwnFiles'
  BY <1>1, WithoutSets, FilesOnlyGo DEF IInv
<1>3. ProcsTyped'
  <2>1. report' = report \/ report' = [report EXCEPT ![a[1]] = result]
    BY DEF Return
  <2>2. QED
    BY <1>1, <2>1, WithoutSets DEF IInv, ProcsTyped, Without
<1>4. ArtifactsAreOwn'
  BY ReportsOwn DEF ArtifactsAreOwn
<1>5. QED
  BY <1>2, <1>3, <1>4 DEF IInv

LEMMA InitIInv == Init => IInv
<1>1. ASSUME Init PROVE ProcsTyped
  <2>1. DOMAIN procs = {} /\ procs = << >>
    BY <1>1 DEF Init
  <2>2. procs = [a \in DOMAIN procs |-> procs[a]]
    BY <2>1
  <2>3. QED
    BY <1>1, <2>1, <2>2 DEF Init, ProcsTyped
<1>2. ASSUME Init PROVE OnlyOwnFiles /\ ArtifactsAreOwn
  BY <1>2 DEF Init, OnlyOwnFiles, ArtifactsAreOwn
<1>3. QED
  BY <1>1, <1>2 DEF IInv

-----------------------------------------------------------------------------
(* Two lemmas for the steps that only move processes, and one for each of the  *)
(* three that touch the files: Execute, Exit and Collect.                      *)

\* The steps of Airflow and the operator.
LEMMA AirflowSteps ==
  ASSUME IInv, NEW r \in Run, Begin(r) \/ Prepare(r) \/ DeleteRun(r)
  PROVE  IInv'
<1>1. CASE Begin(r)
  <2>1. procs' = procs /\ files' = files /\ stable' = stable /\ report' = [report EXCEPT ![r] = {}]
    BY <1>1 DEF Begin, tree
  <2>2. QED
    BY <2>1 DEF IInv, ProcsTyped, OnlyOwnFiles, ArtifactsAreOwn
<1>2. CASE Prepare(r)
  <2> DEFINE new == [stage |-> "prepared", rc |-> "none", lost |-> FALSE]
             me == Attempt(r)
  <2>1. procs' = At(me, new) /\ files' = files /\ stable' = stable /\ report' = report
    BY <1>2 DEF Prepare
  <2>2. new \in Proc /\ new.stage = "prepared"
    BY DEF Proc, Stages
  <2> HIDE DEF new, me
  <2>3. ProcsTyped'
    BY <2>1, <2>2 DEF IInv, ProcsTyped, At
  <2>4. OnlyOwnFiles'
    BY <2>1, <2>2, FilesOnlyGo DEF IInv, ProcsTyped, At
  <2>5. QED
    BY <2>1, <2>3, <2>4 DEF IInv, ArtifactsAreOwn
<1>3. CASE DeleteRun(r)
  <2>1. procs' = procs /\ files' = files /\ stable' = stable /\ report' = report
    BY <1>3 DEF DeleteRun, tree
  <2>2. QED
    BY <2>1 DEF IInv, ProcsTyped, OnlyOwnFiles, ArtifactsAreOwn
<1>4. QED
  BY <1>1, <1>2, <1>3

\* The steps of an attempt before its command, and its loss.
LEMMA AttemptSteps ==
  ASSUME IInv, NEW a \in DOMAIN procs,
         \/ (\E ok \in BOOLEAN : SelfHeal(a, ok)) \/ PreflightFails(a)
         \/ \E dies \in BOOLEAN : LoseHeartbeat(a, dies)
  PROVE  IInv'
<1>1. ASSUME NEW ok \in BOOLEAN, SelfHeal(a, ok) PROVE IInv'
  <2>1. files' = files /\ stable' = stable
    BY <1>1 DEF SelfHeal
  <2>2. CASE ok
    <3>1. procs' = Moved(a, "healed") /\ report' = report
      BY <1>1, <2>2 DEF SelfHeal
    <3>2. "healed" \in Stages /\ "healed" \notin {"running", "exited"}
      BY DEF Stages
    <3>3. ProcsTyped'
      <4>1. procs' = [c \in DOMAIN procs' |-> procs'[c]]
        BY <3>1 DEF Moved, At
      <4>2. QED
        BY <3>1, <3>2, <4>1, MovedSets DEF IInv, ProcsTyped
    <3>4. OnlyOwnFiles'
      BY <3>1, <3>2, <2>1, MovedSets, FilesOnlyGo DEF IInv
    <3>5. QED
      BY <2>1, <3>1, <3>3, <3>4 DEF IInv, ArtifactsAreOwn
  <2>3. CASE ~ok
    <3>1. PICK outcome \in {"retry", "fail"} : Return(a, {}, outcome)
      BY <1>1, <2>3 DEF SelfHeal
    <3>2. QED
      BY <2>1, <3>1, ReturnKeeps DEF IInv, ArtifactsAreOwn
  <2>4. QED
    BY <2>2, <2>3
<1>2. CASE PreflightFails(a)
  <2>1. files' = files /\ stable' = stable
    BY <1>2 DEF PreflightFails, tree
  <2>2. PICK outcome \in {"retry", "fail"} : Return(a, {}, outcome)
    BY <1>2 DEF PreflightFails
  <2>3. QED
    BY <2>1, <2>2, ReturnKeeps DEF IInv, ArtifactsAreOwn
<1>3. ASSUME NEW dies \in BOOLEAN, LoseHeartbeat(a, dies) PROVE IInv'
  <2>1. files' = files /\ stable' = stable /\ report' = report
    BY <1>3 DEF LoseHeartbeat, tree
  <2>2. CASE dies
    <3>1. procs' = Without(a)
      BY <1>3, <2>2 DEF LoseHeartbeat
    <3>2. ProcsTyped'
      BY <2>1, <3>1, WithoutSets DEF IInv, ProcsTyped, Without
    <3>3. OnlyOwnFiles'
      BY <2>1, <3>1, WithoutSets, FilesOnlyGo DEF IInv
    <3>4. QED
      BY <2>1, <3>2, <3>3 DEF IInv, ArtifactsAreOwn
  <2>3. CASE ~dies
    <3> DEFINE p == [procs[a] EXCEPT !.lost = TRUE]
    <3>1. p \in Proc /\ p.stage = procs[a].stage
      BY DEF IInv, ProcsTyped, Proc
    <3>2. procs' = At(a, p)
      BY <1>3, <2>3 DEF LoseHeartbeat
    <3> HIDE DEF p
    <3>3. ProcsTyped'
      BY <2>1, <3>1, <3>2 DEF IInv, ProcsTyped, At
    <3>4. OnlyOwnFiles'
      BY <2>1, <3>1, <3>2, FilesOnlyGo DEF IInv, ProcsTyped, At
    <3>5. QED
      BY <2>1, <3>3, <3>4 DEF IInv, ArtifactsAreOwn
  <2>4. QED
    BY <2>2, <2>3
<1>4. QED
  BY <1>1, <1>2, <1>3

\* The command starts in an empty directory.
LEMMA ExecuteStep == ASSUME IInv, NEW a \in DOMAIN procs, Execute(a) PROVE IInv'
<1>1. procs' = Moved(a, "running") /\ stable' = stable /\ report' = report
  BY DEF Execute
<1>2. \A f \in files' : f \in files /\ f.at # a
  BY DEF Execute, ResetExecution
<1>3. "running" \in Stages
  BY DEF Stages
<1>4. ProcsTyped'
  <2>1. procs' = [c \in DOMAIN procs' |-> procs'[c]]
    BY <1>1 DEF Moved, At
  <2>2. QED
    BY <1>1, <1>3, <2>1, MovedSets DEF IInv, ProcsTyped
<1>5. OnlyOwnFiles'
  <2> SUFFICES ASSUME NEW b \in DOMAIN procs', procs'[b].stage \in {"running", "exited"},
                      NEW f \in files', f.at = b
               PROVE  f.fresh
    BY DEF OnlyOwnFiles
  <2>1. b # a /\ f \in files
    BY <1>2
  <2>2. b \in DOMAIN procs /\ procs'[b] = procs[b]
    BY <1>1, <1>3, <2>1, MovedSets DEF IInv
  <2>3. QED
    BY <2>1, <2>2 DEF IInv, OnlyOwnFiles
<1>6. QED
  BY <1>1, <1>4, <1>5 DEF IInv, ArtifactsAreOwn

\* What a command writes is fresh; what it leaves was its own already.
LEMMA ExitStep ==
  ASSUME IInv, NEW a \in DOMAIN procs, NEW rc \in {"ok", "transient", "failed"},
         (\E kinds \in SUBSET Expected(a[2]), whole \in BOOLEAN : Exit(a, rc, kinds, whole))
         \/ \E recreated \in BOOLEAN : ExitDeps(a, rc, recreated)
  PROVE  IInv'
<1> DEFINE p == [procs[a] EXCEPT !.stage = "exited", !.rc = rc]
<1>1. procs' = At(a, p) /\ stable' = stable /\ report' = report /\ procs[a].stage = "running"
  BY DEF Exit, ExitDeps
<1>2. p \in Proc
  BY DEF IInv, ProcsTyped, Proc, Stages
<1>3. \A f \in files' : f \in files \/ f.fresh
  <2>1. ASSUME NEW kinds \in SUBSET Expected(a[2]), NEW whole \in BOOLEAN, Exit(a, rc, kinds, whole)
        PROVE  \A f \in files' : f \in files \/ f.fresh
    BY <2>1 DEF Exit
  <2>2. ASSUME NEW recreated \in BOOLEAN, ExitDeps(a, rc, recreated) PROVE files' = files
    BY <2>2 DEF ExitDeps
  <2>3. QED
    BY <2>1, <2>2
<1> HIDE DEF p
<1>4. ProcsTyped'
  BY <1>1, <1>2 DEF IInv, ProcsTyped, At
<1>5. OnlyOwnFiles'
  <2> SUFFICES ASSUME NEW b \in DOMAIN procs', procs'[b].stage \in {"running", "exited"},
                      NEW f \in files', f.at = b
               PROVE  f.fresh
    BY DEF OnlyOwnFiles
  <2>1. b \in DOMAIN procs /\ procs[b].stage \in {"running", "exited"}
    BY <1>1, <1>2 DEF IInv, ProcsTyped, At
  <2>2. QED
    BY <1>3, <2>1 DEF IInv, OnlyOwnFiles
<1>6. QED
  BY <1>1, <1>4, <1>5 DEF IInv, ArtifactsAreOwn

\* The result and the stable manifest come from the files of the attempt,
\* whatever the pruning removes.
LEMMA CollectStep == ASSUME IInv, NEW a \in DOMAIN procs, Collect(a) PROVE IInv'
<1>1. \A f \in Existing(a) : f.fresh
  BY DEF IInv, OnlyOwnFiles, Collect, Existing
<1>2. files' \subseteq files
  BY DEF Collect, Prune, tree
<1>3. stable' # "unsound"
  <2>1. CASE Publishes(a)
    <3>1. "manifest" \in Expected(a[2])
      BY <2>1 DEF Publishes, Expected
    <3>2. PICK f \in Existing(a) : f.kind = "manifest"
      BY <2>1, <3>1 DEF Publishes, Missing
    <3>3. Soundness(a) = "sound"
      BY <1>1, <2>1, <3>2 DEF Soundness, Publishes
    <3>4. QED
      BY <2>1, <3>3 DEF Collect
  <2>2. CASE ~Publishes(a)
    BY <2>2 DEF Collect, IInv, ArtifactsAreOwn
  <2>3. QED
    BY <2>1, <2>2
<1>4. Return(a, Existing(a), Verdict(a))
  BY DEF Collect
<1>5. QED
  BY <1>1, <1>2, <1>3, <1>4, ReturnKeeps

LEMMA NextIInv == IInv /\ [Next]_vars => IInv'
<1>1. ASSUME IInv, NEW r \in Run, Begin(r) \/ Prepare(r) \/ DeleteRun(r) PROVE IInv'
  BY <1>1, AirflowSteps
<1>2. ASSUME IInv, NEW a \in DOMAIN procs, Step(a) PROVE IInv'
  BY <1>2, AttemptSteps, ExecuteStep, ExitStep, CollectStep DEF Step
<1>3. ASSUME IInv, UNCHANGED vars PROVE IInv'
  BY <1>3 DEF vars, IInv, ProcsTyped, OnlyOwnFiles, ArtifactsAreOwn
<1>4. QED
  BY <1>1, <1>2, <1>3 DEF Next

-----------------------------------------------------------------------------
\* What execute_dbt_phase returns are artifacts that its own command wrote, and
\* the stable manifest is one of a command that exited 0: for any runs that
\* share a pipeline, any tasks, tries and retention, and although Airflow gives
\* up processes that go on, and a deleted run's id is used again.
THEOREM ReportedIsOwn == Spec => []ArtifactsAreOwn
<1>1. IInv => ArtifactsAreOwn
  BY DEF IInv
<1>2. QED
  BY <1>1, InitIInv, NextIInv, PTL DEF Spec

-----------------------------------------------------------------------------
(* The manual trigger.                                                       *)
(*                                                                           *)
(* An invocation that reports success has held the lock from before its query *)
(* until after its run was there, and two such spans of time do not overlap.  *)

Triggerable == Weather \cup Traffic \cup Common
Invocation ==
  [pc : {"start", "query", "trigger", "unlock", "done"}, dag : Triggerable \cup {nobody}, check : BOOLEAN,
   status : {"lock_unavailable", "active", "clear", "query_failed", "triggered", "trigger_failed",
             "triggered_unlock_failed", "unlock_failed", "killed", nobody}]

\* The shape of the guards; who holds the lock is at work, and a command that
\* goes on without its guard is one of a killed guard.
Guards ==
  /\ guard \in [Guard -> Invocation]
  /\ orphans \subseteq Guard
  /\ mutex \in Guard \cup {nobody}
  /\ \A t \in Guard :
       /\ mutex = t => guard[t].pc \in {"query", "trigger", "unlock"}
       /\ t \in orphans => guard[t].pc = "done" /\ guard[t].status = "killed"
       /\ guard[t].pc \in {"query", "trigger", "unlock"} \/ Manual!Succeeded(t) =>
            guard[t].dag \in Triggerable

\* It has triggered its DAG, and held the lock all the time.
Sure(t) ==
  \/ Manual!Succeeded(t)
  \/ mutex = t /\ guard[t].pc = "unlock" /\ guard[t].status = "triggered"

Leaving(t) == Manual!NewRun(t) \in runs

\* What the query has seen holds for those who have succeeded before, as long as
\* the lock is held.
SeenClear(t) ==
  mutex = t /\ guard[t].pc = "trigger" =>
    \A q \in Guard : Sure(q) /\ Leaving(q) => guard[q].dag \notin Manual!ConflictSet(guard[t].dag)

Apart(t, q) ==
  t # q /\ Sure(t) /\ Sure(q) /\ Leaving(t) /\ Leaving(q) => guard[q].dag \notin Manual!ConflictSet(guard[t].dag)

TriggerInv == Guards /\ \A t \in Guard : SeenClear(t) /\ \A q \in Guard : Apart(t, q)

\* Conflict is mutual, because no DAG but maintenance is of both domains.
LEMMA ConflictIsMutual ==
  ASSUME NEW d \in Triggerable, NEW e \in Triggerable
  PROVE  d \in Manual!ConflictSet(e) <=> e \in Manual!ConflictSet(d)
BY TriggersAssumption DEF Manual!TriggerAssumption, Manual!ConflictSet, Manual!Dag, Triggerable

\* A step that brings no new run of one who is sure, and makes nobody sure,
\* keeps what is known of them.
LEMMA NobodyNew ==
  ASSUME TriggerInv, Guards',
         \A t \in Guard : /\ Sure(t)' => Sure(t) /\ guard'[t].dag = guard[t].dag
                          /\ Sure(t)' /\ Leaving(t)' => Leaving(t)
                          /\ mutex' = t /\ guard'[t].pc = "trigger" =>
                               mutex = t /\ guard[t].pc = "trigger" /\ guard'[t].dag = guard[t].dag
  PROVE  TriggerInv'
<1>1. \A t \in Guard : SeenClear(t)'
  BY DEF TriggerInv, SeenClear, Manual!ConflictSet, Manual!Dag
<1>2. \A t, q \in Guard : Apart(t, q)'
  BY DEF TriggerInv, Apart, Manual!ConflictSet, Manual!Dag
<1>3. QED
  BY <1>1, <1>2 DEF TriggerInv


\* A guard that moves on leaves the others where they were.
LEMMA LeavesMoves ==
  ASSUME Guards, NEW t \in Guard, NEW pc \in {"query", "trigger", "unlock", "done"},
         NEW st \in {"active", "clear", "query_failed", "triggered", "trigger_failed", "lock_unavailable",
                     "triggered_unlock_failed", "unlock_failed", "killed", nobody},
         Manual!Leaves(t, pc, st)
  PROVE  /\ guard' \in [Guard -> Invocation]
         /\ guard'[t].pc = pc /\ guard'[t].status = st /\ guard'[t].dag = guard[t].dag
         /\ \A q \in Guard : q # t => guard'[q] = guard[q]
<1>1. guard[t] \in Invocation
  BY DEF Guards
<1>2. guard' = [guard EXCEPT ![t] = [guard[t] EXCEPT !.pc = pc, !.status = st]]
  BY DEF Manual!Leaves
<1>3. /\ [guard[t] EXCEPT !.pc = pc, !.status = st] \in Invocation
      /\ [guard[t] EXCEPT !.pc = pc, !.status = st].pc = pc
      /\ [guard[t] EXCEPT !.pc = pc, !.status = st].status = st
      /\ [guard[t] EXCEPT !.pc = pc, !.status = st].dag = guard[t].dag
  BY <1>1 DEF Invocation
<1>4. QED
  BY <1>2, <1>3 DEF Guards

LEMMA TryLockKeeps ==
  ASSUME TriggerInv, NEW t \in Guard, Manual!TryLock(t)
  PROVE  TriggerInv'
<1>1. guard[t].pc = "start" /\ runs' = runs /\ orphans' = orphans
  BY DEF Manual!TryLock, Manual!At
<1>2. mutex # t /\ t \notin orphans /\ ~Sure(t)
  BY <1>1 DEF TriggerInv, Guards, Sure, Manual!Succeeded, Manual!At
<1>3. CASE mutex = nobody
  <2>1. PICK d \in Triggerable, check \in BOOLEAN :
          guard' = [guard EXCEPT ![t] = [guard[t] EXCEPT !.pc = "query", !.dag = d, !.check = check]]
    BY <1>3 DEF Manual!TryLock, Manual!Dag, Triggerable
  <2>2. mutex' = t
    BY <1>3 DEF Manual!TryLock
  <2>3. guard[t] \in Invocation
    BY DEF TriggerInv, Guards
  <2>4. /\ [guard[t] EXCEPT !.pc = "query", !.dag = d, !.check = check] \in Invocation
        /\ [guard[t] EXCEPT !.pc = "query", !.dag = d, !.check = check].pc = "query"
        /\ [guard[t] EXCEPT !.pc = "query", !.dag = d, !.check = check].dag = d
    BY <2>3 DEF Invocation
  <2>5. /\ guard' \in [Guard -> Invocation] /\ guard'[t].pc = "query" /\ guard'[t].dag = d
        /\ \A q \in Guard : q # t => guard'[q] = guard[q]
    BY <2>1, <2>4 DEF TriggerInv, Guards
  <2>6. Guards'
    BY <1>1, <1>2, <2>2, <2>5 DEF TriggerInv, Guards, Manual!Succeeded, Manual!At
  <2>7. QED
    BY <1>1, <1>2, <1>3, <2>2, <2>5, <2>6, NobodyNew, TriggersAssumption
       DEF Manual!TriggerAssumption, Sure, Leaving, Manual!Succeeded, Manual!At, Manual!NewRun
<1>4. CASE mutex # nobody
  <2>1. Manual!Leaves(t, "done", "lock_unavailable") /\ mutex' = mutex
    BY <1>4 DEF Manual!TryLock
  <2>2. /\ guard' \in [Guard -> Invocation] /\ guard'[t].pc = "done"
        /\ guard'[t].status = "lock_unavailable"
        /\ \A q \in Guard : q # t => guard'[q] = guard[q]
    BY <2>1, LeavesMoves DEF TriggerInv
  <2>3. Guards'
    BY <1>1, <1>2, <2>1, <2>2 DEF TriggerInv, Guards, Manual!Succeeded, Manual!At
  <2>4. QED
    BY <1>1, <1>2, <2>1, <2>2, <2>3, NobodyNew
       DEF Sure, Leaving, Manual!Succeeded, Manual!At, Manual!NewRun
<1>5. QED
  BY <1>3, <1>4


LEMMA QueryKeeps ==
  ASSUME TriggerInv, NEW t \in Guard, Manual!Query(t)
  PROVE  TriggerInv'
<1>1. PICK pc \in {"trigger", "unlock"}, st \in {"active", "clear", nobody} :
        /\ Manual!Leaves(t, pc, st)
        /\ st \in {"active", "clear"} \/ pc = "trigger"
        /\ pc = "trigger" => Manual!Conflicts(guard[t].dag) = {}
  BY DEF Manual!Query
<1>2. /\ guard[t].pc = "query" /\ runs' = runs /\ orphans' = orphans /\ mutex' = mutex
  BY DEF Manual!Query, Manual!At
<1>3. /\ guard' \in [Guard -> Invocation]
      /\ guard'[t].pc = pc /\ guard'[t].status = st /\ guard'[t].dag = guard[t].dag
      /\ \A q \in Guard : q # t => guard'[q] = guard[q]
  BY <1>1, LeavesMoves DEF TriggerInv
<1>4. Guards'
  BY <1>2, <1>3 DEF TriggerInv, Guards, Manual!Succeeded, Manual!At
<1>5. CASE pc = "unlock"
  <2>1. st # "triggered"
    BY <1>1, <1>5
  <2>2. QED
    BY <1>2, <1>3, <1>4, <1>5, <2>1, NobodyNew
       DEF Sure, Leaving, Manual!Succeeded, Manual!At, Manual!NewRun
<1>6. CASE pc = "trigger"
  <2>1. \A r \in runs : r.dag \notin Manual!ConflictSet(guard[t].dag)
    BY <1>1, <1>6 DEF Manual!Conflicts
  <2>2. \A q \in Guard : Sure(q)' => Sure(q) /\ guard'[q].dag = guard[q].dag
    BY <1>2, <1>3, <1>6 DEF Sure, Manual!Succeeded, Manual!At
  <2>3. \A q \in Guard : Leaving(q)' => Leaving(q) /\ guard[q].dag \notin Manual!ConflictSet(guard[t].dag)
    BY <1>2, <1>3, <2>1 DEF Leaving, Manual!NewRun
  <2>4. \A q \in Guard : SeenClear(q)'
    BY <1>2, <1>3, <2>2, <2>3 DEF TriggerInv, SeenClear, Manual!ConflictSet, Manual!Dag
  <2>5. \A p, q \in Guard : Apart(p, q)'
    BY <2>2, <2>3 DEF TriggerInv, Apart, Manual!ConflictSet, Manual!Dag
  <2>6. QED
    BY <1>4, <2>4, <2>5 DEF TriggerInv
<1>7. QED
  BY <1>5, <1>6

\* Only the holder of the lock becomes sure, and then the others who are have
\* been seen by its query.
LEMMA TriggerKeeps ==
  ASSUME TriggerInv, NEW t \in Guard, Manual!Trigger(t)
  PROVE  TriggerInv'
<1>1. /\ guard[t].pc = "trigger" /\ runs' = runs \cup {Manual!NewRun(t)}
      /\ orphans' = orphans /\ mutex' = mutex /\ Manual!Leaves(t, "unlock", "triggered")
  BY DEF Manual!Trigger, Manual!At
<1>2. /\ guard' \in [Guard -> Invocation]
      /\ guard'[t].pc = "unlock" /\ guard'[t].status = "triggered" /\ guard'[t].dag = guard[t].dag
      /\ \A q \in Guard : q # t => guard'[q] = guard[q]
  BY <1>1, LeavesMoves DEF TriggerInv
<1>3. Guards'
  BY <1>1, <1>2 DEF TriggerInv, Guards, Manual!Succeeded, Manual!At
<1>4. \A q \in Guard : q # t => (Sure(q)' <=> Sure(q)) /\ guard'[q].dag = guard[q].dag
  BY <1>1, <1>2 DEF Sure, Manual!Succeeded, Manual!At
<1>5. \A q \in Guard : q # t => (Leaving(q)' <=> Leaving(q))
  BY <1>1, <1>2 DEF Leaving, Manual!NewRun
<1>6. Sure(t)' => mutex = t
  BY <1>1, <1>2 DEF Sure, Manual!Succeeded, Manual!At
<1>7. \A q \in Guard : SeenClear(q)'
  BY <1>1, <1>2, <1>4, <1>5, <1>6 DEF TriggerInv, SeenClear, Manual!ConflictSet, Manual!Dag
<1>8. ASSUME NEW q \in Guard, q # t, Sure(t)', Sure(q)', Leaving(q)'
      PROVE  /\ guard[q].dag \notin Manual!ConflictSet(guard[t].dag)
             /\ guard[t].dag \notin Manual!ConflictSet(guard[q].dag)
  <2>1. guard[q].dag \notin Manual!ConflictSet(guard[t].dag)
    BY <1>1, <1>4, <1>5, <1>6, <1>8 DEF TriggerInv, SeenClear
  <2>2. guard[q].dag \in Triggerable /\ guard[t].dag \in Triggerable
    BY <1>1, <1>4, <1>8 DEF TriggerInv, Guards, Sure
  <2>3. QED
    BY <2>1, <2>2, ConflictIsMutual
<1>9. \A p, q \in Guard : Apart(p, q)'
  BY <1>2, <1>4, <1>5, <1>8 DEF TriggerInv, Apart, Manual!ConflictSet, Manual!Dag
<1>10. QED
  BY <1>3, <1>7, <1>9 DEF TriggerInv


\* The other steps make nobody sure, and bring no run of one who is.
LEMMA FailuresKeep ==
  ASSUME TriggerInv, NEW t \in Guard,
         Manual!QueryFails(t) \/ Manual!TriggerFails(t) \/ Manual!GuardDies(t)
  PROVE  TriggerInv'
<1>1. PICK pc \in {"unlock", "done"}, st \in {"query_failed", "trigger_failed", "killed"} :
        /\ Manual!Leaves(t, pc, st)
        /\ mutex' = t => pc = "unlock" /\ mutex = t
        /\ t \in orphans' => pc = "done" /\ st = "killed"
  <2>1. t \notin orphans /\ t # nobody
    BY TriggersAssumption
       DEF TriggerInv, Guards, Manual!QueryFails, Manual!TriggerFails, Manual!GuardDies, Manual!At,
           Manual!TriggerAssumption
  <2>2. CASE Manual!QueryFails(t)
    BY <2>1, <2>2 DEF Manual!QueryFails
  <2>3. CASE Manual!TriggerFails(t)
    BY <2>1, <2>3 DEF Manual!TriggerFails
  <2>4. CASE Manual!GuardDies(t)
    BY <2>1, <2>4 DEF Manual!GuardDies
  <2>5. QED
    BY <2>2, <2>3, <2>4
<1>2. /\ mutex' \in {mutex, nobody} /\ orphans' \subseteq orphans \cup {t}
      /\ runs' \subseteq runs \cup {Manual!NewRun(t)}
      /\ guard[t].pc \in {"query", "trigger", "unlock"}
  BY DEF Manual!QueryFails, Manual!TriggerFails, Manual!GuardDies, Manual!At
<1>3. /\ guard' \in [Guard -> Invocation]
      /\ guard'[t].pc = pc /\ guard'[t].status = st /\ guard'[t].dag = guard[t].dag
      /\ \A q \in Guard : q # t => guard'[q] = guard[q]
  BY <1>1, LeavesMoves DEF TriggerInv
<1>4. Guards'
  BY <1>1, <1>2, <1>3, TriggersAssumption
     DEF TriggerInv, Guards, Manual!Succeeded, Manual!At, Manual!TriggerAssumption
<1>5. \A q \in Guard : Sure(q)' => q # t /\ Sure(q)
  BY <1>1, <1>2, <1>3, TriggersAssumption DEF Sure, Manual!Succeeded, Manual!At, Manual!TriggerAssumption
<1>6. \A q \in Guard : q # t /\ Leaving(q)' => Leaving(q)
  BY <1>2, <1>3 DEF Leaving, Manual!NewRun
<1>7. QED
  BY <1>1, <1>2, <1>3, <1>4, <1>5, <1>6, NobodyNew, TriggersAssumption DEF Manual!TriggerAssumption

LEMMA UnlockKeeps ==
  ASSUME TriggerInv, NEW t \in Guard, Manual!Unlock(t)
  PROVE  TriggerInv'
<1>1. PICK st \in {"active", "clear", "query_failed", "triggered", "trigger_failed", "lock_unavailable",
                   "triggered_unlock_failed", "unlock_failed", "killed", nobody} :
        Manual!Leaves(t, "done", st) /\ (st = "triggered" => mutex = t /\ guard[t].status = "triggered")
  <2>1. guard[t] \in Invocation
    BY DEF TriggerInv, Guards
  <2>2. QED
    BY <2>1 DEF Invocation, Manual!Unlock, Manual!Released
<1>2. /\ guard[t].pc = "unlock" /\ runs' = runs /\ orphans' = orphans
      /\ mutex' = IF mutex = t THEN nobody ELSE mutex
  BY DEF Manual!Unlock, Manual!At
<1>3. /\ guard' \in [Guard -> Invocation]
      /\ guard'[t].pc = "done" /\ guard'[t].status = st /\ guard'[t].dag = guard[t].dag
      /\ \A q \in Guard : q # t => guard'[q] = guard[q]
  BY <1>1, LeavesMoves DEF TriggerInv
<1>4. t # nobody /\ nobody \notin Guard /\ guard[t].dag \in Triggerable
  BY <1>2, TriggersAssumption DEF Manual!TriggerAssumption, TriggerInv, Guards
<1>5. Guards'
  BY <1>2, <1>3, <1>4 DEF TriggerInv, Guards, Manual!Succeeded, Manual!At
<1>6. \A q \in Guard : Sure(q)' => Sure(q)
  BY <1>1, <1>2, <1>3, <1>4 DEF Sure, Manual!Succeeded, Manual!At
<1>7. \A q \in Guard : Leaving(q)' => Leaving(q)
  BY <1>2, <1>3 DEF Leaving, Manual!NewRun
<1>8. QED
  BY <1>2, <1>3, <1>4, <1>5, <1>6, <1>7, NobodyNew

LEMMA LoseSessionKeeps ==
  ASSUME TriggerInv, NEW t \in Guard, Manual!LoseSession(t)
  PROVE  TriggerInv'
<1>1. /\ mutex = t /\ mutex' = nobody /\ runs' = runs /\ orphans' = orphans
      /\ t # nobody /\ nobody \notin Guard
  BY TriggersAssumption DEF Manual!TriggerAssumption, Manual!LoseSession
<1>2. /\ guard' \in [Guard -> Invocation]
      /\ \A q \in Guard : q # t => guard'[q] = guard[q]
      /\ guard'[t].dag = guard[t].dag
      /\ guard'[t] = guard[t] \/ (guard'[t].pc = "unlock" /\ guard[t].pc = "query")
  <2>1. CASE Manual!At(t, "query")
    <3>1. Manual!Leaves(t, "unlock", "query_failed")
      BY <2>1 DEF Manual!LoseSession
    <3>2. QED
      BY <2>1, <3>1, LeavesMoves DEF TriggerInv, Manual!At
  <2>2. CASE ~Manual!At(t, "query")
    BY <2>2 DEF Manual!LoseSession, TriggerInv, Guards
  <2>3. QED
    BY <2>1, <2>2
<1>3. Guards'
  BY <1>1, <1>2 DEF TriggerInv, Guards, Manual!Succeeded, Manual!At
<1>4. \A q \in Guard : Sure(q)' => Sure(q)
  BY <1>1, <1>2 DEF Sure, Manual!Succeeded, Manual!At
<1>5. \A q \in Guard : Leaving(q)' => Leaving(q)
  BY <1>1, <1>2 DEF Leaving, Manual!NewRun
<1>6. QED
  BY <1>1, <1>2, <1>3, <1>4, <1>5, NobodyNew

\* A command without its guard, a run of the scheduler, the end of a run.
LEMMA RunsKeep ==
  ASSUME TriggerInv,
         \/ \E t \in Guard : Manual!OrphanTriggers(t)
         \/ Manual!ScheduledRun \/ Manual!RunEnds
  PROVE  TriggerInv'
<1>1. guard' = guard /\ mutex' = mutex /\ orphans' \subseteq orphans
  BY DEF Manual!OrphanTriggers, Manual!ScheduledRun, Manual!RunEnds
<1>2. Guards'
  BY <1>1 DEF TriggerInv, Guards, Manual!Succeeded, Manual!At
<1>3. \A q \in Guard : Sure(q)' <=> Sure(q)
  BY <1>1 DEF Sure, Manual!Succeeded, Manual!At
<1>4. \A q \in Guard : Sure(q) /\ Leaving(q)' => Leaving(q)
  <2>1. CASE Manual!ScheduledRun
    BY <1>1, <2>1, TriggersAssumption
       DEF Manual!ScheduledRun, Manual!TriggerAssumption, Leaving, Manual!NewRun
  <2>2. CASE Manual!RunEnds
    BY <1>1, <2>2 DEF Manual!RunEnds, Leaving, Manual!NewRun
  <2>3. ASSUME NEW t \in Guard, Manual!OrphanTriggers(t), NEW q \in Guard, Sure(q), Leaving(q)'
        PROVE  Leaving(q)
    <3>1. q # t
      BY <2>3 DEF TriggerInv, Guards, Sure, Manual!OrphanTriggers, Manual!Succeeded, Manual!At
    <3>2. QED
      BY <1>1, <2>3, <3>1 DEF Manual!OrphanTriggers, Leaving, Manual!NewRun
  <2>4. QED
    BY <2>1, <2>2, <2>3
<1>5. QED
  BY <1>1, <1>2, <1>3, <1>4, NobodyNew

\* Two invocations that both report success leave no conflicting runs active
\* together (safe_trigger_dag.py:144), for any invocations and conflict sets
\* that meet in maintenance only, although sessions with the lock are lost,
\* guards die while their command goes on, and the scheduler asks nobody.
THEOREM TriggersExclude == Manual!Spec => []SuccessesExclude
<1>1. Manual!Init => TriggerInv
  <2> SUFFICES ASSUME Manual!Init PROVE TriggerInv
    OBVIOUS
  <2>1. /\ guard = [t \in Guard |-> [pc |-> "start", dag |-> nobody, check |-> FALSE, status |-> nobody]]
        /\ mutex = nobody /\ orphans = {} /\ runs = {}
    BY DEF Manual!Init
  <2>2. guard \in [Guard -> Invocation]
    BY <2>1 DEF Invocation
  <2>3. \A t \in Guard : guard[t].pc = "start" /\ mutex # t
    BY <2>1, TriggersAssumption DEF Manual!TriggerAssumption
  <2>4. Guards
    BY <2>1, <2>2, <2>3 DEF Guards, Manual!Succeeded, Manual!At
  <2>5. QED
    BY <2>3, <2>4 DEF TriggerInv, SeenClear, Apart, Sure, Manual!Succeeded, Manual!At
<1>2. ASSUME TriggerInv, [Manual!Next]_(Manual!vars) PROVE TriggerInv'
  <2>1. ASSUME NEW t \in Guard,
               \/ Manual!TryLock(t) \/ Manual!Query(t) \/ Manual!QueryFails(t) \/ Manual!Trigger(t)
               \/ Manual!TriggerFails(t) \/ Manual!Unlock(t) \/ Manual!LoseSession(t) \/ Manual!GuardDies(t)
        PROVE  TriggerInv'
    BY <1>2, <2>1, TryLockKeeps, QueryKeeps, TriggerKeeps, FailuresKeep, UnlockKeeps, LoseSessionKeeps
  <2>2. CASE UNCHANGED Manual!vars
    BY <1>2, <2>2 DEF Manual!vars, TriggerInv, Guards, SeenClear, Apart, Sure, Leaving,
       Manual!Succeeded, Manual!At, Manual!NewRun, Manual!ConflictSet, Manual!Dag
  <2>3. QED
    BY <1>2, <2>1, <2>2, RunsKeep DEF Manual!Next
<1>3. TriggerInv => SuccessesExclude
  BY DEF TriggerInv, Apart, Sure, Leaving, SuccessesExclude, Manual!SuccessesExclude
<1>4. QED
  BY <1>1, <1>2, <1>3, PTL DEF Manual!Spec


-----------------------------------------------------------------------------
(* The public report.                                                        *)
(*                                                                           *)
(* A report is judged on a part of what R2 holds, and R2 only grows; whatever *)
(* tree of reports a job has cloned, made or left under way, each report in it *)
(* was earned.  The bucket is a parameter here: R the raw objects, M the       *)
(* manifests.                                                                 *)

BucketOK(R, M) ==
  /\ \A r \in R : r.grid \in Grid /\ r.issue \in Daily!Issues(Daily!DayOf(r.issue))
  /\ \A m \in M : m.refs \subseteq R

EvidenceIn(asOf, M) == UNION {m.refs : m \in {x \in M : x.complete /\ x.at <= asOf}}

Earned(sheet, R, M) ==
  /\ sheet.missing = "pass" =>
       \A slot \in Daily!Slots(sheet.day) : \E r \in EvidenceIn(sheet.asOf, M) :
         <<r.grid, r.issue>> = slot /\ r \in R /\ r.at <= sheet.asOf
  /\ sheet.status = "pass" =>
       \A g \in Grid : \E r \in EvidenceIn(sheet.asOf, M) :
         r.grid = g /\ sheet.asOf <= r.issue + FreshFor

\* A tree of the branch, every report of which was earned.
EarnedTree(pages, R, M) ==
  /\ pages = [d \in Daily!Days |-> pages[d]]
  /\ \A d \in Daily!Days :
       /\ pages[d] = [daily |-> pages[d].daily, rechecks |-> pages[d].rechecks]
       /\ \A sheet \in pages[d].daily \cup pages[d].rechecks :
            sheet.day = d /\ Daily!DayOf(sheet.asOf) = d + 1 /\ Earned(sheet, R, M)

\* The job at each of its steps.
JobInv ==
  /\ job.pc \in {"idle", "cloned", "listing", "built", "pushing"}
  /\ job.pc \in {"cloned", "listing", "built"} => EarnedTree(job.clone, raw, manifests)
  /\ job.pc = "listing" =>
       job.seen.raw \subseteq raw /\ job.seen.manifests \subseteq manifests /\ job.asOf \in Nat
  /\ job.pc = "built" => Earned(job.report, raw, manifests)
  /\ job.pc = "pushing" => EarnedTree(job.tree, raw, manifests)

ReportInv ==
  /\ now \in Nat
  /\ BucketOK(raw, manifests)
  /\ EarnedTree(archive, raw, manifests)
  /\ JobInv
  /\ \A push \in inflight : EarnedTree(push.tree, raw, manifests)

\* Evidence is not taken back.
LEMMA EarnedGrows ==
  ASSUME NEW R, NEW M, NEW S, NEW N, R \subseteq S, M \subseteq N,
         NEW sheet, Earned(sheet, R, M)
  PROVE  Earned(sheet, S, N)
<1>1. EvidenceIn(sheet.asOf, M) \subseteq EvidenceIn(sheet.asOf, N)
  BY DEF EvidenceIn
<1>2. QED
  BY <1>1 DEF Earned

LEMMA TreeGrows ==
  ASSUME NEW R, NEW M, NEW S, NEW N, R \subseteq S, M \subseteq N,
         NEW pages, EarnedTree(pages, R, M)
  PROVE  EarnedTree(pages, S, N)
BY EarnedGrows DEF EarnedTree

\* The report's own copies of the library's operators.
LEMMA SameLibrary ==
  /\ \A S : Daily!IsFiniteSet(S) <=> IsFiniteSet(S)
  /\ \A S : Daily!Cardinality(S) = Cardinality(S)
<1>1. \A S : Daily!IsFiniteSet(S) <=> IsFiniteSet(S)
  BY DEF Daily!IsFiniteSet, IsFiniteSet
<1>2. \A S : Daily!Cardinality(S) = Cardinality(S)
  BY DEF Daily!Cardinality, Cardinality
<1>3. QED
  BY <1>1, <1>2

\* The slots of a day are finitely many.
LEMMA FiniteSlots ==
  ASSUME NEW d
  PROVE  IsFiniteSet(Daily!Slots(d))
<1>1. IsFiniteSet(0..MaxTick)
  <2>1. 0 \in Int /\ MaxTick \in Int
    BY ReportAssumption DEF Daily!DayAssumption
  <2>2. QED
    BY <2>1, FS_Interval
<1>2. IsFiniteSet(Daily!Issues(d))
  <2>1. Daily!Issues(d) \subseteq 0..MaxTick
    BY DEF Daily!Issues
  <2>2. QED
    BY <1>1, <2>1, FS_Subset
<1>3. IsFiniteSet(Grid)
  BY ReportAssumption, SameLibrary DEF Daily!DayAssumption
<1>4. QED
  BY <1>2, <1>3, FS_Product DEF Daily!Slots

\* What is listed and accepted is evidence of its time.
LEMMA RowsAreEvidence ==
  ASSUME NEW R, NEW M, NEW seen, NEW asOf \in Nat,
         seen.raw \subseteq R, seen.manifests \subseteq M, NEW r \in Daily!Rows(seen, asOf)
  PROVE  r \in EvidenceIn(asOf, M) /\ r \in R /\ r.at <= asOf
BY DEF Daily!Rows, Daily!Accepted, EvidenceIn

\* A report that passes has seen what it needs.
LEMMA ReportIsEarned ==
  ASSUME NEW R, NEW M, BucketOK(R, M), NEW seen, NEW asOf \in Nat, NEW day, NEW unavailable \in BOOLEAN,
         seen.raw \subseteq R, seen.manifests \subseteq M
  PROVE  Earned(Daily!Report(seen, asOf, day, unavailable), R, M)
<1> DEFINE reason  == IF unavailable THEN "unavailable" ELSE Daily!Reason(seen, asOf)
           rows    == IF unavailable THEN {} ELSE Daily!Rows(seen, asOf)
           missing == Daily!MissingCheck(rows, day, reason)
           fresh   == Daily!FreshnessCheck(rows, asOf, reason)
           sheet  == Daily!Report(seen, asOf, day, unavailable)
<1>1. /\ sheet.day = day /\ sheet.asOf = asOf /\ sheet.missing = missing
      /\ sheet.status = "pass" => fresh = "pass"
  <2>1. fresh \in {"fail", "pass", "unmeasured"}
    BY DEF Daily!FreshnessCheck
  <2>2. \A a, b, c : Daily!Worst({a, b, c, fresh}) = "pass" => fresh \notin {"fail", "unmeasured"}
    BY DEF Daily!Worst
  <2> HIDE DEF fresh
  <2>3. /\ sheet.day = day /\ sheet.asOf = asOf /\ sheet.missing = missing
        /\ \E a, b, c : sheet.status = Daily!Worst({a, b, c, fresh})
    BY DEF Daily!Report, fresh
  <2>4. QED
    BY <2>1, <2>2, <2>3
<1>2. \A r \in rows : r \in EvidenceIn(asOf, M) /\ r \in R /\ r.at <= asOf
  BY RowsAreEvidence
<1> HIDE DEF rows, reason, sheet
<1>3. ASSUME missing = "pass", NEW slot \in Daily!Slots(day)
      PROVE  \E r \in EvidenceIn(asOf, M) : <<r.grid, r.issue>> = slot /\ r \in R /\ r.at <= asOf
  <2> DEFINE slots == Daily!Slots(day)
             observed == Daily!Observed(rows, day)
  <2>1. observed \subseteq slots
    BY <1>2 DEF Daily!Observed, Daily!Slots, BucketOK
  <2>2. ~(Cardinality(slots) > Cardinality(observed))
    BY <1>3, SameLibrary DEF Daily!MissingCheck
  <2>3. observed = slots
    <3> HIDE DEF slots, observed
    <3>1. /\ IsFiniteSet(slots) /\ IsFiniteSet(observed)
          /\ Cardinality(slots) \in Nat /\ Cardinality(observed) \in Nat
          /\ Cardinality(observed) <= Cardinality(slots)
          /\ Cardinality(observed) = Cardinality(slots) => observed = slots
      BY <2>1, FiniteSlots, FS_Subset, FS_CardinalityType DEF slots
    <3>2. QED
      BY <2>2, <3>1
  <2>4. PICK r \in rows : slot = <<r.grid, r.issue>>
    BY <2>3 DEF Daily!Observed
  <2>5. QED
    BY <1>2, <2>4
<1>4. ASSUME fresh = "pass", NEW g \in Grid
      PROVE  \E r \in EvidenceIn(asOf, M) : r.grid = g /\ asOf <= r.issue + FreshFor
  <2>1. PICK r \in rows : r.grid = g
    BY <1>4 DEF Daily!FreshnessCheck
  <2>2. g \notin Daily!StaleGrids(rows, asOf)
    BY <1>4 DEF Daily!FreshnessCheck
  <2>3. PICK q \in rows : q.grid = g /\ ~(asOf > q.issue + FreshFor)
    BY <2>1, <2>2 DEF Daily!StaleGrids
  <2>4. q.issue \in Nat /\ FreshFor \in Nat
    BY <1>2, <2>3, ReportAssumption DEF BucketOK, Daily!Issues, Daily!DayAssumption
  <2>5. QED
    BY <1>2, <2>3, <2>4
<1>5. QED
  BY <1>1, <1>3, <1>4 DEF Earned, sheet


\* A step of R2 or of the clock keeps every report.
LEMMA BucketSteps ==
  ASSUME ReportInv, now' \in Nat, raw \subseteq raw', manifests \subseteq manifests',
         BucketOK(raw', manifests'), UNCHANGED <<archive, job, inflight>>
  PROVE  ReportInv'
<1>1. /\ \A pages : EarnedTree(pages, raw, manifests) => EarnedTree(pages, raw', manifests')
      /\ \A sheet : Earned(sheet, raw, manifests) => Earned(sheet, raw', manifests')
  BY TreeGrows, EarnedGrows
<1>2. JobInv'
  BY <1>1 DEF ReportInv, JobInv
<1>3. QED
  BY <1>1, <1>2 DEF ReportInv

LEMMA CollectorKeeps ==
  ASSUME ReportInv,
         \/ Daily!Tick
         \/ \E g \in Grid, issue \in 0..now : Daily!LandRaw(g, issue)
         \/ \E refs \in SUBSET raw, complete \in BOOLEAN : Daily!LandManifest(refs, complete)
  PROVE  ReportInv'
<1>1. UNCHANGED <<archive, job, inflight>> /\ now' \in Nat /\ raw \subseteq raw' /\ manifests \subseteq manifests'
  <2>1. CASE Daily!Tick
    BY <2>1 DEF ReportInv, Daily!Tick, Daily!bucket, Daily!branch
  <2>2. ASSUME NEW g \in Grid, NEW issue \in 0..now, Daily!LandRaw(g, issue)
        PROVE  UNCHANGED <<now, archive, job, inflight, manifests>> /\ raw \subseteq raw'
    BY <2>2 DEF Daily!LandRaw, Daily!branch
  <2>3. ASSUME NEW refs \in SUBSET raw, NEW complete \in BOOLEAN, Daily!LandManifest(refs, complete)
        PROVE  UNCHANGED <<now, archive, job, inflight, raw>> /\ manifests \subseteq manifests'
    BY <2>3 DEF Daily!LandManifest, Daily!branch
  <2>4. QED
    BY <2>1, <2>2, <2>3 DEF ReportInv
<1>2. BucketOK(raw', manifests')
  <2>1. CASE Daily!Tick
    BY <2>1 DEF ReportInv, Daily!Tick, Daily!bucket
  <2>2. ASSUME NEW g \in Grid, NEW issue \in 0..now, Daily!LandRaw(g, issue) PROVE BucketOK(raw', manifests')
    <3> DEFINE object == [grid |-> g, issue |-> issue, load |-> Daily!DayOf(now), at |-> now]
    <3>1. /\ raw' = raw \cup {object} /\ manifests' = manifests
          /\ issue \in Daily!Issues(Daily!DayOf(issue))
      BY <2>2 DEF Daily!LandRaw
    <3>2. object.grid \in Grid /\ object.issue = issue
      OBVIOUS
    <3> HIDE DEF object
    <3>3. QED
      BY <3>1, <3>2 DEF ReportInv, BucketOK
  <2>3. ASSUME NEW refs \in SUBSET raw, NEW complete \in BOOLEAN, Daily!LandManifest(refs, complete)
        PROVE  BucketOK(raw', manifests')
    <3> DEFINE document == [load |-> Daily!DayOf(now), at |-> now, refs |-> refs, complete |-> complete]
    <3>1. raw' = raw /\ manifests' = manifests \cup {document}
      BY <2>3 DEF Daily!LandManifest
    <3>2. document.refs = refs
      OBVIOUS
    <3> HIDE DEF document
    <3>3. QED
      BY <3>1, <3>2 DEF ReportInv, BucketOK
  <2>4. QED
    BY <2>1, <2>2, <2>3
<1>3. QED
  BY <1>1, <1>2, BucketSteps

\* A report that is put beside the others of its day leaves an earned tree.
LEMMA WithReportEarned ==
  ASSUME NEW R, NEW M, NEW pages, EarnedTree(pages, R, M),
         NEW sheet, Earned(sheet, R, M), NEW day \in Int, sheet.day = day,
         Daily!DayOf(sheet.asOf) = day + 1
  PROVE  EarnedTree(Daily!WithReport(pages, sheet), R, M)
<1> DEFINE new == Daily!WithReport(pages, sheet)
           first == [pages[day] EXCEPT !.daily = {sheet}]
           again == [pages[day] EXCEPT !.rechecks = pages[day].rechecks \cup {sheet}]
<1>1. new = [pages EXCEPT ![day] = first] \/ new = [pages EXCEPT ![day] = again]
  BY DEF Daily!WithReport
<1>2. ASSUME day \in Daily!Days
      PROVE  /\ first = [daily |-> {sheet}, rechecks |-> pages[day].rechecks]
             /\ again = [daily |-> pages[day].daily, rechecks |-> pages[day].rechecks \cup {sheet}]
  <2> DEFINE D == pages[day].daily
             K == pages[day].rechecks
             more == K \cup {sheet}
  <2>1. pages[day] = [daily |-> D, rechecks |-> K]
    BY <1>2 DEF EarnedTree
  <2>2. again = [pages[day] EXCEPT !.rechecks = more]
    OBVIOUS
  <2> HIDE DEF D, K, more, again
  <2>3. first = [daily |-> {sheet}, rechecks |-> K]
    BY <2>1
  <2>4. again = [daily |-> D, rechecks |-> more]
    BY <2>1, <2>2
  <2>5. QED
    BY <2>3, <2>4 DEF D, K, more
<1> HIDE DEF new
<1>3. /\ new = [d \in Daily!Days |-> new[d]]
      /\ \A d \in Daily!Days : d # day => new[d] = pages[d]
      /\ day \in Daily!Days => new[day] = first \/ new[day] = again
  <2> HIDE DEF first, again
  <2>1. QED
    BY <1>1 DEF EarnedTree
<1>4. ASSUME day \in Daily!Days
      PROVE  /\ new[day] = [daily |-> new[day].daily, rechecks |-> new[day].rechecks]
             /\ new[day].daily \cup new[day].rechecks \subseteq
                  pages[day].daily \cup pages[day].rechecks \cup {sheet}
  BY <1>2, <1>3, <1>4
<1>5. QED
  BY <1>3, <1>4 DEF EarnedTree, new

\* The steps of a job that do not touch the branch.
LEMMA JobSteps ==
  ASSUME ReportInv, UNCHANGED <<now, raw, manifests, archive>>, JobInv',
         \A push \in inflight' : push \in inflight \/ EarnedTree(push.tree, raw, manifests)
  PROVE  ReportInv'
BY DEF ReportInv

LEMMA PrepareKeeps ==
  ASSUME ReportInv, NEW refresh \in BOOLEAN, Daily!Prepare(refresh)
  PROVE  ReportInv'
<1>1. UNCHANGED <<now, raw, manifests, archive, inflight>>
  BY DEF Daily!Prepare, Daily!bucket, Daily!branch
<1>2. \/ job' = [pc |-> "idle"]
      \/ job' = [pc |-> "cloned", refresh |-> refresh, clone |-> archive, base |-> head]
  BY DEF Daily!Prepare, Daily!Idle
<1>3. job'.pc = "idle" \/ (job'.pc = "cloned" /\ job'.clone = archive)
  BY <1>2
<1>4. JobInv'
  BY <1>1, <1>3 DEF JobInv, ReportInv
<1>5. QED
  BY <1>1, <1>4, JobSteps

LEMMA ListDayKeeps ==
  ASSUME ReportInv, Daily!ListDay
  PROVE  ReportInv'
<1>1. UNCHANGED <<now, raw, manifests, archive, inflight>> /\ job.pc = "cloned"
  BY DEF Daily!ListDay, Daily!bucket, Daily!branch, Daily!At
<1> DEFINE listed == Daily!Listed(Daily!DayOf(now) - 1)
<1>2. listed.raw \subseteq raw /\ listed.manifests \subseteq manifests
  BY DEF Daily!Listed
<1> HIDE DEF listed
<1>3. job' = [pc |-> "listing", refresh |-> job.refresh, clone |-> job.clone, base |-> job.base,
              asOf |-> now, day |-> Daily!DayOf(now) - 1, seen |-> listed]
  BY DEF Daily!ListDay, listed
<1>4. job'.pc = "listing" /\ job'.clone = job.clone /\ job'.asOf = now /\ job'.seen = listed
  BY <1>3
<1>5. JobInv'
  BY <1>1, <1>2, <1>4 DEF JobInv, ReportInv
<1>6. QED
  BY <1>1, <1>5, JobSteps

LEMMA ListNextDayKeeps ==
  ASSUME ReportInv, NEW unavailable \in BOOLEAN, Daily!ListNextDay(unavailable)
  PROVE  ReportInv'
<1>1. UNCHANGED <<now, raw, manifests, archive, inflight>> /\ job.pc = "listing"
  BY DEF Daily!ListNextDay, Daily!bucket, Daily!branch, Daily!At
<1> DEFINE next == Daily!Listed(job.day + 1)
           seen == [raw |-> job.seen.raw \cup next.raw, manifests |-> job.seen.manifests \cup next.manifests]
           sheet == Daily!Report(seen, job.asOf, job.day, unavailable)
<1>2. next.raw \subseteq raw /\ next.manifests \subseteq manifests
  BY DEF Daily!Listed
<1>3. seen.raw \subseteq raw /\ seen.manifests \subseteq manifests
  <2> HIDE DEF next
  <2>1. QED
    BY <1>1, <1>2 DEF ReportInv, JobInv
<1>4. job' = [pc |-> "built", refresh |-> job.refresh, clone |-> job.clone, base |-> job.base, report |-> sheet]
  BY DEF Daily!ListNextDay
<1> HIDE DEF seen
<1>5. Earned(sheet, raw, manifests)
  BY <1>1, <1>3, ReportIsEarned DEF ReportInv, JobInv
<1> HIDE DEF sheet
<1>6. job'.pc = "built" /\ job'.clone = job.clone /\ job'.report = sheet
  BY <1>4
<1>7. JobInv'
  BY <1>1, <1>5, <1>6 DEF JobInv, ReportInv
<1>8. QED
  BY <1>1, <1>7, JobSteps

LEMMA CommitKeeps ==
  ASSUME ReportInv, Daily!Commit
  PROVE  ReportInv'
<1>1. UNCHANGED <<now, raw, manifests, archive, inflight>> /\ job.pc = "built"
  BY DEF Daily!Commit, Daily!bucket, Daily!branch, Daily!At
<1> DEFINE day == Daily!DayOf(now) - 1
           pages == Daily!WithReport(job.clone, job.report)
<1>2. CASE job' = [pc |-> "idle"]
  <2>1. job'.pc = "idle"
    BY <1>2
  <2>2. JobInv'
    BY <2>1 DEF JobInv
  <2>3. QED
    BY <1>1, <2>2, JobSteps
<1>3. CASE Daily!Publishable(job.report, day) /\ job' = [pc |-> "pushing", base |-> job.base, tree |-> pages]
  <2>1. day \in Int /\ job.report.day = day /\ Daily!DayOf(job.report.asOf) = day + 1
    BY <1>3, ReportAssumption DEF ReportInv, Daily!Publishable, Daily!DayOf, Daily!DayAssumption
  <2> HIDE DEF day
  <2>2. EarnedTree(pages, raw, manifests)
    BY <1>1, <2>1, WithReportEarned DEF ReportInv, JobInv
  <2> HIDE DEF pages
  <2>3. job'.pc = "pushing" /\ job'.tree = pages
    BY <1>3
  <2>4. JobInv'
    BY <1>1, <2>2, <2>3 DEF JobInv
  <2>5. QED
    BY <1>1, <2>4, JobSteps
<1>4. QED
  BY <1>2, <1>3 DEF Daily!Commit, Daily!Idle

\* The pushes: of the job, of a killed one, and the kill that leaves it.
LEMMA PushesKeep ==
  ASSUME ReportInv,
         Daily!Push \/ Daily!Kill \/ \E push \in inflight : Daily!LatePush(push)
  PROVE  ReportInv'
<1>1. CASE Daily!Kill
  <2>1. /\ UNCHANGED <<now, raw, manifests, archive>> /\ job'.pc = "idle"
        /\ inflight' = IF job.pc = "pushing" THEN inflight \cup {job} ELSE inflight
    BY <1>1 DEF Daily!Kill, Daily!bucket, Daily!branch, Daily!Idle, Daily!At
  <2>2. JobInv'
    BY <2>1 DEF JobInv
  <2>3. \A push \in inflight' : push \in inflight \/ EarnedTree(push.tree, raw, manifests)
    BY <2>1 DEF ReportInv, JobInv
  <2>4. QED
    BY <2>1, <2>2, <2>3, JobSteps
<1>2. CASE Daily!Push
  <2>1. /\ UNCHANGED <<now, raw, manifests, inflight>> /\ job'.pc = "idle" /\ job.pc = "pushing"
        /\ archive' = job.tree \/ archive' = archive
    BY <1>2 DEF Daily!Push, Daily!Lands, Daily!bucket, Daily!branch, Daily!Idle, Daily!At
  <2>2. EarnedTree(archive', raw, manifests)
    BY <2>1 DEF ReportInv, JobInv
  <2>3. JobInv'
    BY <2>1 DEF JobInv
  <2>4. QED
    BY <2>1, <2>2, <2>3 DEF ReportInv
<1>3. ASSUME NEW push \in inflight, Daily!LatePush(push) PROVE ReportInv'
  <2>1. /\ UNCHANGED <<now, raw, manifests, job>> /\ inflight' \subseteq inflight
        /\ archive' = push.tree \/ archive' = archive
    BY <1>3 DEF Daily!LatePush, Daily!Lands, Daily!bucket, Daily!branch
  <2>2. EarnedTree(archive', raw, manifests) /\ JobInv'
    BY <1>3, <2>1 DEF ReportInv, JobInv
  <2>3. QED
    BY <2>1, <2>2 DEF ReportInv
<1>4. QED
  BY <1>1, <1>2, <1>3

\* A day published as covered or as passing had the evidence for it when it was
\* judged, for any grids, issues and clock, however the collector moved between
\* the two listings (weather_daily_quality_cloud.py:58), and although killed
\* jobs push late.
THEOREM PassesAreEarned == Daily!Spec => []PassIsEarned
<1>1. Daily!Init => ReportInv
  <2> SUFFICES ASSUME Daily!Init PROVE ReportInv
    OBVIOUS
  <2>1. /\ now = 0 /\ raw = {} /\ manifests = {} /\ inflight = {} /\ job.pc = "idle"
        /\ archive = [d \in Daily!Days |-> [daily |-> {}, rechecks |-> {}]]
    BY DEF Daily!Init, Daily!Idle
  <2>2. EarnedTree(archive, raw, manifests)
    BY <2>1 DEF EarnedTree
  <2>3. QED
    BY <2>1, <2>2 DEF ReportInv, JobInv, BucketOK
<1>2. ASSUME ReportInv, [Daily!Next]_(Daily!vars) PROVE ReportInv'
  <2>1. CASE UNCHANGED Daily!vars
    BY <1>2, <2>1, BucketSteps DEF Daily!vars, Daily!bucket, Daily!branch, ReportInv
  <2>2. QED
    BY <1>2, <2>1, CollectorKeeps, PrepareKeeps, ListDayKeeps, ListNextDayKeeps, CommitKeeps, PushesKeep
       DEF Daily!Next
<1>3. ReportInv => PassIsEarned
  <2>1. \A asOf : EvidenceIn(asOf, manifests) = Daily!Evidence(asOf)
    BY DEF EvidenceIn, Daily!Evidence
  <2>2. QED
    BY <2>1 DEF ReportInv, EarnedTree, Earned, PassIsEarned, Daily!PassIsEarned, Daily!Reports
<1>4. QED
  BY <1>1, <1>2, <1>3, PTL DEF Daily!Spec

-----------------------------------------------------------------------------
(* The operator's report.                                                    *)
(*                                                                           *)
(* A report judges an instant that is past, so what Bronze and the manifests *)
(* held at that instant does not change any more, whichever query reads it   *)
(* and whatever the collector adds between two of them.                      *)

\* What makes a report that calls the day covered true.
Backed(sheet) ==
  sheet.missing = "pass" =>
    \A s \in SlotOfDay : \E r \in bronze :
      /\ r.slot = s /\ r.whole /\ r.at <= sheet.asOf
      /\ {e.says : e \in Local!LastWord(r.run, sheet.asOf)} = {"publishable"}

\* A report of the past.
Settled(sheet) == sheet.asOf \in Nat /\ sheet.asOf < tick /\ Backed(sheet)

\* The report a process is making.
Making(p) ==
  /\ proc[p].pc \in {"idle", "coverage", "manifests", "built", "locked", "described"}
  /\ proc[p].pc \in {"coverage", "manifests"} => proc[p].asOf \in Nat /\ proc[p].asOf < tick
  /\ proc[p].pc = "manifests" =>
       proc[p].measured \in BOOLEAN /\ \A r \in proc[p].rows : r \in bronze /\ r.at <= proc[p].asOf
  /\ proc[p].pc \in {"built", "locked", "described"} =>
       proc[p] = [pc |-> proc[p].pc, report |-> proc[p].report] /\ Settled(proc[p].report)

LocalInv ==
  /\ tick \in Nat
  /\ proc = [p \in Reporter |-> proc[p]]
  /\ \A p \in Reporter : Making(p)
  /\ \A sheet \in revisions : Settled(sheet)

\* What the collector adds carries the present instant.
Adds ==
  /\ tick' \in Nat /\ tick' >= tick
  /\ bronze \subseteq bronze'
  /\ events \subseteq events' /\ \A e \in events' \ events : e.at = tick

LEMMA SettledStays ==
  ASSUME tick \in Nat, Adds, NEW sheet, Settled(sheet)
  PROVE  Settled(sheet)'
<1>1. sheet.asOf \in Nat /\ sheet.asOf < tick /\ sheet.asOf < tick'
  BY DEF Settled, Adds
<1>2. \A e : e \in events' /\ e.at <= sheet.asOf <=> e \in events /\ e.at <= sheet.asOf
  BY <1>1 DEF Adds
<1>3. ASSUME NEW load PROVE Local!LastWord(load, sheet.asOf)' = Local!LastWord(load, sheet.asOf)
  BY <1>2 DEF Local!LastWord
<1>4. Backed(sheet)'
  BY <1>3 DEF Settled, Backed, Adds
<1>5. QED
  BY <1>1, <1>4 DEF Settled

LEMMA MakingStays ==
  ASSUME tick \in Nat, Adds, NEW p \in Reporter, Making(p), proc'[p] = proc[p]
  PROVE  Making(p)'
<1>1. proc[p].pc \in {"built", "locked", "described"} => Settled(proc[p].report)'
  BY SettledStays DEF Making
<1>2. QED
  BY <1>1 DEF Making, Adds, Settled, Backed

\* A step of one process, beside which the collector may have added something.
LEMMA OneReports ==
  ASSUME LocalInv, Adds, NEW p \in Reporter, NEW to, proc' = [proc EXCEPT ![p] = to], Making(p)',
         \A sheet \in revisions' \ revisions : Settled(sheet)'
  PROVE  LocalInv'
<1>1. proc' = [q \in Reporter |-> IF q = p THEN to ELSE proc[q]]
  BY DEF LocalInv
<1>2. ASSUME NEW q \in Reporter, q # p PROVE Making(q)'
  BY <1>1, <1>2, MakingStays DEF LocalInv
<1>3. ASSUME NEW sheet \in revisions' PROVE Settled(sheet)'
  BY <1>3, SettledStays DEF LocalInv
<1>4. proc' = [q \in Reporter |-> proc'[q]] /\ tick' \in Nat
  BY <1>1 DEF Adds
<1>5. QED
  BY <1>2, <1>3, <1>4 DEF LocalInv

LEMMA AddingKeeps ==
  ASSUME LocalInv, Adds, proc' = proc, revisions' = revisions
  PROVE  LocalInv'
<1>1. ASSUME NEW q \in Reporter PROVE Making(q)'
  BY MakingStays DEF LocalInv
<1>2. ASSUME NEW sheet \in revisions' PROVE Settled(sheet)'
  BY <1>2, SettledStays DEF LocalInv
<1>3. QED
  BY <1>1, <1>2 DEF LocalInv, Adds

\* The last word of a run at an instant is what the events known then say.
LEMMA KnownWord ==
  ASSUME NEW asOf \in Nat, NEW load
  PROVE  LET known == {e \in events : e.at <= asOf} IN
         Local!Terminal(load, known) = Local!LastWord(load, asOf)
BY DEF Local!Terminal, Local!EventsOf, Local!LastWord

LEMMA BuildsBacked ==
  ASSUME NEW asOf \in Nat, asOf < tick, NEW seen, \A r \in seen : r \in bronze /\ r.at <= asOf, NEW ok \in BOOLEAN
  PROVE  Settled([asOf |-> asOf,
                  missing |-> Local!Missing(seen, {e \in events : e.at <= asOf}, ok)])
<1> DEFINE known == {e \in events : e.at <= asOf}
           sheet == [asOf |-> asOf, missing |-> Local!Missing(seen, known, ok)]
<1>1. sheet.asOf = asOf /\ sheet.missing = Local!Missing(seen, known, ok)
  OBVIOUS
<1> HIDE DEF sheet
<1>2. ASSUME sheet.missing = "pass", NEW s \in SlotOfDay
      PROVE  \E r \in bronze : /\ r.slot = s /\ r.whole /\ r.at <= asOf
                               /\ {e.says : e \in Local!LastWord(r.run, asOf)} = {"publishable"}
  <2> DEFINE accepted == Local!AcceptedRows(seen, known)
  <2>1. (\A r \in accepted : r.whole) /\ {r.slot : r \in accepted} = SlotOfDay
    <3> HIDE DEF known
    <3>1. QED
      BY <1>1, <1>2 DEF Local!Missing
  <2>2. PICK r \in accepted : r.slot = s
    BY <2>1
  <2>3. r \in seen /\ {e.says : e \in Local!Terminal(r.run, known)} = {"publishable"}
    BY <2>2 DEF Local!AcceptedRows, Local!Accepted
  <2>4. Local!Terminal(r.run, known) = Local!LastWord(r.run, asOf)
    BY KnownWord
  <2>5. QED
    BY <2>1, <2>2, <2>3, <2>4
<1>3. Backed(sheet)
  BY <1>1, <1>2 DEF Backed
<1>4. Settled(sheet)
  BY <1>1, <1>3 DEF Settled
<1>5. QED
  BY <1>4 DEF sheet

LEMMA CollectorAdds ==
  ASSUME LocalInv,
         \/ Local!Tick
         \/ \E load \in LoadRun, slots \in SUBSET SlotOfDay, whole \in BOOLEAN : Local!Load(load, slots, whole)
         \/ \E load \in LoadRun, says \in Local!Says : Local!Record(load, says)
  PROVE  LocalInv'
<1>1. tick \in Nat
  BY DEF LocalInv
<1>2. proc' = proc /\ revisions' = revisions
  BY DEF Local!Tick, Local!Load, Local!Record, Local!evidence, Local!files
<1>3. CASE Local!Tick
  BY <1>1, <1>2, <1>3, AddingKeeps DEF Adds, Local!Tick, Local!evidence
<1>4. ASSUME NEW load \in LoadRun, NEW slots, NEW whole, Local!Load(load, slots, whole) PROVE LocalInv'
  <2>1. tick' = tick /\ events' = events /\ bronze \subseteq bronze'
    BY <1>4 DEF Local!Load
  <2>2. QED
    BY <1>1, <1>2, <2>1, AddingKeeps DEF Adds
<1>5. ASSUME NEW load \in LoadRun, NEW says, Local!Record(load, says) PROVE LocalInv'
  <2> DEFINE event == [run |-> load, says |-> says, at |-> tick]
  <2>1. tick' = tick /\ bronze' = bronze /\ events' = events \cup {event} /\ event.at = tick
    BY <1>5 DEF Local!Record
  <2> HIDE DEF event
  <2>2. Adds
    BY <1>1, <2>1 DEF Adds
  <2>3. QED
    BY <1>2, <2>2, AddingKeeps
<1>6. QED
  BY <1>3, <1>4, <1>5

LEMMA QueriesKeep ==
  ASSUME LocalInv, NEW p \in Reporter,
         \/ \E asOf \in 0..tick - 1 : Local!Begin(p, asOf)
         \/ \E measured \in BOOLEAN : Local!ReadCoverage(p, measured)
         \/ \E measured \in BOOLEAN : Local!BuildReport(p, measured)
  PROVE  LocalInv'
<1>1. tick \in Nat /\ Making(p) /\ proc = [q \in Reporter |-> proc[q]]
  BY DEF LocalInv
<1>2. CASE \E asOf \in 0..tick - 1 : Local!Begin(p, asOf)
  <2>1. PICK asOf \in 0..tick - 1 : Local!Begin(p, asOf)
    BY <1>2
  <2> DEFINE to == [pc |-> "coverage", asOf |-> asOf]
  <2>2. /\ proc' = [proc EXCEPT ![p] = to] /\ tick' = tick /\ bronze' = bronze /\ events' = events
        /\ revisions' = revisions
    BY <2>1 DEF Local!Begin, Local!evidence, Local!files
  <2>3. Adds
    BY <1>1, <2>2 DEF Adds
  <2>4. proc'[p] = to
    BY <1>1, <2>2
  <2>5. Making(p)'
    BY <1>1, <2>2, <2>4 DEF Making
  <2>6. QED
    BY <2>2, <2>3, <2>5, OneReports
<1>3. CASE \E measured \in BOOLEAN : Local!ReadCoverage(p, measured)
  <2>1. PICK measured \in BOOLEAN : Local!ReadCoverage(p, measured)
    BY <1>3
  <2> DEFINE asOf == proc[p].asOf
             read == IF measured THEN {r \in bronze : r.at <= asOf} ELSE {}
             to == [pc |-> "manifests", asOf |-> asOf, measured |-> measured, rows |-> read]
  <2>2. /\ proc[p].pc = "coverage"
        /\ proc' = [proc EXCEPT ![p] = to] /\ tick' = tick /\ bronze' = bronze /\ events' = events
        /\ revisions' = revisions
    BY <2>1 DEF Local!ReadCoverage, Local!evidence, Local!files
  <2>3. Adds
    BY <1>1, <2>2 DEF Adds
  <2>4. proc'[p] = to
    BY <1>1, <2>2
  <2>5. asOf \in Nat /\ asOf < tick /\ \A r \in read : r \in bronze /\ r.at <= asOf
    BY <1>1, <2>2 DEF Making
  <2> HIDE DEF asOf, read
  <2>6. Making(p)'
    BY <2>2, <2>4, <2>5 DEF Making
  <2>7. QED
    BY <2>2, <2>3, <2>6, OneReports
<1>4. CASE \E measured \in BOOLEAN : Local!BuildReport(p, measured)
  <2>1. PICK measured \in BOOLEAN : Local!BuildReport(p, measured)
    BY <1>4
  <2> DEFINE asOf == proc[p].asOf
             sheet == [asOf |-> asOf, missing |-> Local!Missing(proc[p].rows, {e \in events : e.at <= asOf},
                                                               measured /\ proc[p].measured)]
             to == [pc |-> "built", report |-> sheet]
  <2>2. /\ proc[p].pc = "manifests"
        /\ proc' = [proc EXCEPT ![p] = to] /\ tick' = tick /\ bronze' = bronze /\ events' = events
        /\ revisions' = revisions
    BY <2>1 DEF Local!BuildReport, Local!evidence, Local!files
  <2>3. Adds
    BY <1>1, <2>2 DEF Adds
  <2>4. proc'[p] = to
    BY <1>1, <2>2
  <2>5. Settled(sheet)
    <3>1. /\ asOf \in Nat /\ asOf < tick /\ proc[p].measured \in BOOLEAN
          /\ \A r \in proc[p].rows : r \in bronze /\ r.at <= asOf
      BY <1>1, <2>2 DEF Making
    <3>2. (measured /\ proc[p].measured) \in BOOLEAN
      OBVIOUS
    <3>3. QED
      BY <3>1, <3>2, BuildsBacked
  <2>6. PICK made : made = sheet
    OBVIOUS
  <2>7. Settled(made)'
    BY <1>1, <2>3, <2>5, <2>6, SettledStays
  <2>8. proc'[p] = [pc |-> "built", report |-> made]
    BY <2>4, <2>6
  <2>9. Making(p)'
    BY <2>7, <2>8 DEF Making
  <2>10. QED
    BY <2>2, <2>3, <2>9, OneReports
<1>5. QED
  BY <1>2, <1>3, <1>4

\* A step that leaves what the collector has stored.
LEMMA NothingAdded ==
  ASSUME tick \in Nat, tick' = tick, bronze' = bronze, events' = events
  PROVE  Adds
BY DEF Adds

\* The next step of saving a report.
LEMMA MovedOn ==
  ASSUME LocalInv, Adds, NEW p \in Reporter, proc[p].pc \in {"built", "locked"}, NEW pc \in {"locked", "described"},
         proc' = Local!Moved(p, pc)
  PROVE  Making(p)' /\ proc' = [proc EXCEPT ![p] = [pc |-> pc, report |-> proc[p].report]]
<1>1. /\ proc = [q \in Reporter |-> proc[q]] /\ tick \in Nat
      /\ proc[p] = [pc |-> proc[p].pc, report |-> proc[p].report] /\ Settled(proc[p].report)
  BY DEF LocalInv, Making
<1>2. PICK made : made = proc[p].report
  OBVIOUS
<1>3. Settled(made)'
  BY <1>1, <1>2, SettledStays
<1>4. [proc[p] EXCEPT !.pc = pc] = [pc |-> pc, report |-> made]
  BY <1>1, <1>2
<1>5. proc' = [proc EXCEPT ![p] = [pc |-> pc, report |-> made]]
  BY <1>4 DEF Local!Moved
<1>6. proc'[p] = [pc |-> pc, report |-> made]
  BY <1>1, <1>5
<1>7. Making(p)'
  BY <1>3, <1>6 DEF Making
<1>8. QED
  BY <1>2, <1>5, <1>7

LEMMA Returns ==
  ASSUME LocalInv, Adds, NEW p \in Reporter, proc' = [proc EXCEPT ![p] = Local!Idle], revisions' = revisions
  PROVE  LocalInv'
<1>1. proc'[p] = Local!Idle
  BY DEF LocalInv
<1>2. Making(p)'
  BY <1>1 DEF Making, Local!Idle
<1>3. QED
  BY <1>2, OneReports

LEMMA SavingKeeps ==
  ASSUME LocalInv, NEW p \in Reporter,
         Local!SaveRevision(p) \/ Local!SaveMarkdown(p) \/ Local!SaveJson(p) \/ Local!Kill(p)
  PROVE  LocalInv'
<1>1. tick \in Nat /\ tick' = tick /\ bronze' = bronze /\ events' = events
  BY DEF LocalInv, Local!SaveRevision, Local!SaveMarkdown, Local!SaveJson, Local!Kill, Local!evidence, Local!files
<1>2. Adds
  BY <1>1, NothingAdded
<1>3. CASE Local!SaveRevision(p)
  <2>1. proc[p].pc = "built" /\ proc' = Local!Moved(p, "locked") /\ revisions' = revisions \cup {proc[p].report}
    BY <1>3 DEF Local!SaveRevision
  <2>2. Making(p)' /\ proc' = [proc EXCEPT ![p] = [pc |-> "locked", report |-> proc[p].report]]
    BY <1>2, <2>1, MovedOn
  <2>3. Settled(proc[p].report)
    BY <2>1 DEF LocalInv, Making
  <2>4. ASSUME NEW sheet \in revisions' \ revisions PROVE Settled(sheet)'
    BY <1>1, <1>2, <2>1, <2>3, <2>4, SettledStays
  <2>5. QED
    BY <1>2, <2>2, <2>4, OneReports
<1>4. CASE Local!SaveMarkdown(p)
  <2>1. /\ proc[p].pc = "locked" /\ revisions' = revisions
        /\ proc' = [proc EXCEPT ![p] = Local!Idle] \/ proc' = Local!Moved(p, "described")
    BY <1>4 DEF Local!SaveMarkdown
  <2>2. CASE proc' = Local!Moved(p, "described")
    <3>1. Making(p)' /\ proc' = [proc EXCEPT ![p] = [pc |-> "described", report |-> proc[p].report]]
      BY <1>2, <2>1, <2>2, MovedOn
    <3>2. QED
      BY <1>2, <2>1, <3>1, OneReports
  <2>3. QED
    BY <1>2, <2>1, <2>2, Returns
<1>5. CASE Local!SaveJson(p)
  BY <1>2, <1>5, Returns DEF Local!SaveJson
<1>6. CASE Local!Kill(p)
  BY <1>2, <1>6, Returns DEF Local!Kill, Local!files
<1>7. QED
  BY <1>3, <1>4, <1>5, <1>6

\* A slot that a saved report of the operator calls covered was loaded whole
\* before the report's instant by a run whose last word at that instant was a
\* publishable success, although rows and manifests are read by two queries
\* while the collector goes on (weather_daily_quality.py collect_evidence,
\* build_report).
THEOREM CoverageIsBacked == Local!Spec => []CoveredIsBacked
<1>1. Local!Init => LocalInv
  BY DEF Local!Init, LocalInv, Making, Local!Idle
<1>2. ASSUME LocalInv, [Local!Next]_(Local!vars) PROVE LocalInv'
  <2>1. CASE Local!Next
    BY <1>2, <2>1, CollectorAdds, QueriesKeep, SavingKeeps DEF Local!Next
  <2>2. CASE UNCHANGED Local!vars
    <3>1. /\ tick' = tick /\ bronze' = bronze /\ events' = events /\ proc' = proc /\ revisions' = revisions
      BY <2>2 DEF Local!vars, Local!evidence, Local!files
    <3>2. Adds
      BY <1>2, <3>1, NothingAdded DEF LocalInv
    <3>3. QED
      BY <1>2, <3>1, <3>2, AddingKeeps
  <2>3. QED
    BY <1>2, <2>1, <2>2
<1>3. LocalInv => CoveredIsBacked
  BY DEF LocalInv, Settled, Backed, CoveredIsBacked, Local!CoveredIsBacked
<1>4. QED
  BY <1>1, <1>2, <1>3, PTL DEF Local!Spec

-----------------------------------------------------------------------------
(* The attempt budget.                                                       *)
(*                                                                           *)
(* What a day's object counts and KMA has not got is held by processes that  *)
(* have been charged and have not sent yet; and such a process sends on the  *)
(* day it was charged for, because the headroom before midnight is longer    *)
(* than a request takes to leave.                                            *)
SenderState ==
  [pc : {"idle", "read", "put", "ack", "send", "stopped"}, day : Budget!Day \cup {nobody},
   count : Nat \cup {nobody}, at : Nat \cup {nobody}, tries : Nat, attempts : Nat]

\* The processes that are charged to a day and have not sent yet.
Holding(d) == {p \in Sender : process[p].pc \in {"ack", "send"} /\ process[p].day = d}

\* A process relies on what it has read, and sends on the day it was charged for.
SenderOK(p) ==
  /\ process[p].pc = "put" => process[p].day \in Budget!Day /\ process[p].count \in 0..DailyLimit - 1
  /\ process[p].pc \in {"ack", "send"} => process[p].day \in Budget!Day
  /\ process[p].pc = "send" =>
       /\ process[p].at \in Nat /\ process[p].at <= instant /\ instant - process[p].at <= SendDelay
       /\ Budget!DayOf(process[p].at) = process[p].day /\ Budget!BeforeMidnight(process[p].at)

Charged == \A d \in Budget!Day : sent[d] + Cardinality(Holding(d)) <= budget[d]

BudgetInv ==
  /\ instant \in Nat /\ instant < BudgetDays * DayLength
  /\ budget \in [Budget!Day -> 0..DailyLimit] /\ sent \in [Budget!Day -> Nat]
  /\ process \in [Sender -> SenderState]
  /\ \A p \in Sender : SenderOK(p)
  /\ Charged

LEMMA BudgetConstants ==
  /\ IsFiniteSet(Sender)
  /\ DayLength \in Nat \ {0} /\ BudgetDays \in Nat \ {0} /\ Tries \in Nat \ {0}
  /\ Headroom \in Nat /\ SendDelay \in Nat /\ DailyLimit \in Nat /\ SendDelay < Headroom
<1>1. Budget!IsFiniteSet(Sender) => IsFiniteSet(Sender)
  BY DEF Budget!IsFiniteSet, IsFiniteSet
<1>2. QED
  BY <1>1, SendersAssumption DEF Budget!BudgetAssumption

\* The day of an instant is the one whose bounds it lies in.
LEMMA DayBounds ==
  ASSUME NEW t \in Nat
  PROVE  /\ Budget!DayOf(t) \in Nat
         /\ Budget!DayOf(t) * DayLength <= t /\ t < (Budget!DayOf(t) + 1) * DayLength
BY BudgetConstants DEF Budget!DayOf

LEMMA Multiples ==
  ASSUME NEW a \in Nat, NEW b \in Nat, a * DayLength < (b + 1) * DayLength
  PROVE  a <= b
<1> SUFFICES ASSUME a >= b + 1 PROVE FALSE
  OBVIOUS
<1> DEFINE c == a - (b + 1)
<1>1. c \in Nat /\ DayLength \in Nat
  BY BudgetConstants
<1>2. a * DayLength = (b + 1) * DayLength + c * DayLength /\ c * DayLength >= 0
  BY <1>1
<1>3. a * DayLength \in Nat /\ (b + 1) * DayLength \in Nat /\ c * DayLength \in Nat
  BY <1>1
<1>4. QED
  BY <1>2, <1>3

LEMMA InRange ==
  ASSUME NEW t \in Nat, t < BudgetDays * DayLength
  PROVE  Budget!DayOf(t) \in Budget!Day
<1>1. BudgetDays - 1 \in Nat /\ BudgetDays = (BudgetDays - 1) + 1
  BY BudgetConstants
<1>2. /\ Budget!DayOf(t) \in Nat /\ Budget!DayOf(t) * DayLength \in Nat /\ BudgetDays * DayLength \in Nat
      /\ Budget!DayOf(t) * DayLength <= t
  BY DayBounds, BudgetConstants
<1>3. Budget!DayOf(t) * DayLength < ((BudgetDays - 1) + 1) * DayLength
  BY <1>1, <1>2
<1>4. Budget!DayOf(t) <= BudgetDays - 1
  BY <1>1, <1>2, <1>3, Multiples
<1>5. QED
  BY <1>1, <1>2, <1>4 DEF Budget!Day

LEMMA SameDay ==
  ASSUME NEW t \in Nat, NEW u \in Nat, t <= u, u - t <= SendDelay, Budget!BeforeMidnight(t)
  PROVE  Budget!DayOf(u) = Budget!DayOf(t)
<1> DEFINE d == Budget!DayOf(t)
           e == Budget!DayOf(u)
<1>1. /\ d \in Nat /\ d * DayLength <= t /\ t < (d + 1) * DayLength
      /\ e \in Nat /\ e * DayLength <= u /\ u < (e + 1) * DayLength
  BY DayBounds
<1>2. (d + 1) * DayLength - t >= Headroom
  BY DEF Budget!BeforeMidnight, Budget!Midnight
<1> HIDE DEF d, e
<1>3. d * DayLength \in Nat /\ e * DayLength \in Nat /\ (d + 1) * DayLength \in Nat /\ (e + 1) * DayLength \in Nat
  BY <1>1, BudgetConstants
<1>4. u < (d + 1) * DayLength
  BY <1>1, <1>2, <1>3, BudgetConstants
<1>5. e * DayLength < (d + 1) * DayLength /\ d * DayLength < (e + 1) * DayLength
  BY <1>1, <1>3, <1>4
<1>6. e <= d /\ d <= e
  BY <1>1, <1>5, Multiples
<1>7. QED
  BY <1>1, <1>6 DEF d, e

LEMMA HoldingFinite ==
  ASSUME NEW d
  PROVE  IsFiniteSet(Holding(d)) /\ Cardinality(Holding(d)) \in Nat
<1>1. Holding(d) \subseteq Sender
  BY DEF Holding
<1>2. IsFiniteSet(Holding(d))
  BY <1>1, BudgetConstants, FS_Subset
<1>3. QED
  BY <1>2, FS_CardinalityType

\* One process moves on, without sending or being charged.
LEMMA QuietSender ==
  ASSUME BudgetInv, NEW p \in Sender, process' \in [Sender -> SenderState],
         \A q \in Sender : q # p => process'[q] = process[q],
         instant' = instant, budget' = budget, sent' = sent,
         process'[p].pc \in {"ack", "send"} => process[p].pc \in {"ack", "send"} /\ process'[p].day = process[p].day,
         SenderOK(p)'
  PROVE  BudgetInv'
<1>1. ASSUME NEW q \in Sender, q # p PROVE SenderOK(q)'
  BY <1>1 DEF BudgetInv, SenderOK
<1>2. ASSUME NEW d \in Budget!Day PROVE sent'[d] + Cardinality(Holding(d)') <= budget'[d]
  <2>1. Holding(d)' \subseteq Holding(d)
    BY DEF Holding
  <2>2. Cardinality(Holding(d)') <= Cardinality(Holding(d)) /\ Cardinality(Holding(d)') \in Nat
    BY <2>1, HoldingFinite, FS_Subset, FS_CardinalityType
  <2>3. sent[d] \in Nat /\ budget[d] \in Nat /\ sent[d] + Cardinality(Holding(d)) <= budget[d]
    BY DEF BudgetInv, Charged
  <2>4. QED
    BY <2>2, <2>3, HoldingFinite
<1>3. Charged'
  BY <1>2 DEF Charged
<1>4. QED
  BY <1>1, <1>3 DEF BudgetInv

\* A process that is stopped, or starts anew.
LEMMA StopsSender ==
  ASSUME BudgetInv, NEW p \in Sender, Budget!Stop(p), instant' = instant, budget' = budget, sent' = sent
  PROVE  BudgetInv'
<1>1. process \in [Sender -> SenderState]
  BY DEF BudgetInv
<1>2. /\ process' \in [Sender -> SenderState] /\ process'[p].pc = "stopped"
      /\ \A q \in Sender : q # p => process'[q] = process[q]
  BY <1>1 DEF Budget!Stop, SenderState
<1>3. SenderOK(p)'
  BY <1>2 DEF SenderOK
<1>4. QED
  BY <1>2, <1>3, QuietSender

LEMMA AgainMoves ==
  ASSUME process \in [Sender -> SenderState], NEW p \in Sender, Budget!Again(p)
  PROVE  /\ process' \in [Sender -> SenderState] /\ process'[p].pc \in {"read", "stopped"}
         /\ \A q \in Sender : q # p => process'[q] = process[q]
<1>1. CASE process[p].tries > 1
  <2> DEFINE n == process[p].tries - 1
  <2>1. n \in Nat
    BY <1>1 DEF SenderState
  <2>2. process' = [process EXCEPT ![p] = [process[p] EXCEPT !.pc = "read", !.tries = n]]
    BY <1>1 DEF Budget!Again
  <2> HIDE DEF n
  <2>3. QED
    BY <2>1, <2>2 DEF SenderState
<1>2. CASE ~(process[p].tries > 1)
  <2>1. process' = [process EXCEPT ![p].pc = "stopped"]
    BY <1>2 DEF Budget!Again, Budget!Stop
  <2>2. QED
    BY <2>1 DEF SenderState
<1>3. QED
  BY <1>1, <1>2

LEMMA ReserveKeeps ==
  ASSUME BudgetInv, NEW p \in Sender, Budget!Reserve(p)
  PROVE  BudgetInv'
<1>1. process \in [Sender -> SenderState] /\ Tries \in Nat
  BY BudgetConstants DEF BudgetInv
<1>2. /\ process' \in [Sender -> SenderState] /\ process'[p].pc = "read"
      /\ \A q \in Sender : q # p => process'[q] = process[q]
      /\ instant' = instant /\ budget' = budget /\ sent' = sent
  BY <1>1 DEF Budget!Reserve, SenderState
<1>3. SenderOK(p)'
  BY <1>2 DEF SenderOK
<1>4. QED
  BY <1>2, <1>3, QuietSender

LEMMA ReadBudgetKeeps ==
  ASSUME BudgetInv, NEW p \in Sender, Budget!ReadBudget(p)
  PROVE  BudgetInv'
<1>1. /\ process \in [Sender -> SenderState] /\ budget \in [Budget!Day -> 0..DailyLimit] /\ DailyLimit \in Nat
      /\ instant' = instant /\ budget' = budget /\ sent' = sent
  BY BudgetConstants DEF BudgetInv, Budget!ReadBudget
<1>2. Budget!DayOf(instant) \in Budget!Day
  BY InRange DEF BudgetInv
<1>3. CASE Budget!BeforeMidnight(instant) /\ budget[Budget!DayOf(instant)] < DailyLimit
  <2> DEFINE d == Budget!DayOf(instant)
             n == budget[d]
  <2>1. n \in 0..DailyLimit - 1 /\ n \in Nat /\ d \in Budget!Day
    BY <1>1, <1>2, <1>3
  <2>2. process' = [process EXCEPT ![p] = [@ EXCEPT !.pc = "put", !.day = d, !.count = n]]
    BY <1>3 DEF Budget!ReadBudget
  <2> HIDE DEF d, n
  <2>3. /\ process' \in [Sender -> SenderState]
        /\ process'[p].pc = "put" /\ process'[p].day = d /\ process'[p].count = n
        /\ \A q \in Sender : q # p => process'[q] = process[q]
    BY <1>1, <2>1, <2>2 DEF SenderState
  <2>4. SenderOK(p)'
    BY <2>1, <2>3 DEF SenderOK
  <2>5. QED
    BY <1>1, <2>3, <2>4, QuietSender
<1>4. CASE ~(Budget!BeforeMidnight(instant) /\ budget[Budget!DayOf(instant)] < DailyLimit)
  BY <1>1, <1>4, StopsSender DEF Budget!ReadBudget
<1>5. QED
  BY <1>3, <1>4

\* An attempt is charged to the day of the object that was read; whether the
\* process learns of it or not.
LEMMA ChargeKeeps ==
  ASSUME BudgetInv, NEW p \in Sender, process[p].pc = "put", Budget!Matches(p), Budget!Charge(p),
         process' \in [Sender -> SenderState], \A q \in Sender : q # p => process'[q] = process[q],
         process'[p].pc \in {"read", "stopped", "ack"}, process'[p].pc = "ack" => process'[p].day = process[p].day,
         instant' = instant, sent' = sent
  PROVE  BudgetInv'
<1> DEFINE day == process[p].day
<1>1. /\ day \in Budget!Day /\ process[p].count \in 0..DailyLimit - 1 /\ budget[day] = process[p].count
      /\ budget \in [Budget!Day -> 0..DailyLimit] /\ sent \in [Budget!Day -> Nat] /\ DailyLimit \in Nat
  BY BudgetConstants DEF BudgetInv, SenderOK, Budget!Matches
<1>2. budget' = [budget EXCEPT ![day] = budget[day] + 1] /\ budget[day] + 1 \in 0..DailyLimit
  BY <1>1 DEF Budget!Charge
<1>3. ASSUME NEW q \in Sender PROVE SenderOK(q)'
  <2>1. CASE q = p
    BY <1>1, <2>1 DEF SenderOK
  <2>2. CASE q # p
    BY <2>2 DEF BudgetInv, SenderOK
  <2>3. QED
    BY <2>1, <2>2
<1>4. ASSUME NEW d \in Budget!Day PROVE sent'[d] + Cardinality(Holding(d)') <= budget'[d]
  <2>1. sent[d] \in Nat /\ budget[d] \in Nat /\ sent[d] + Cardinality(Holding(d)) <= budget[d]
    BY <1>1 DEF BudgetInv, Charged
  <2>2. CASE d = day
    <3>1. Holding(d)' \subseteq Holding(d) \cup {p} /\ p \notin Holding(d)
      BY DEF Holding
    <3>2. IsFiniteSet(Holding(d) \cup {p}) /\ Cardinality(Holding(d) \cup {p}) = Cardinality(Holding(d)) + 1
      BY <3>1, HoldingFinite, FS_AddElement
    <3>3. Cardinality(Holding(d)') <= Cardinality(Holding(d)) + 1 /\ Cardinality(Holding(d)') \in Nat
      BY <3>1, <3>2, FS_Subset, FS_CardinalityType
    <3>4. budget'[d] = budget[d] + 1
      BY <1>1, <1>2, <2>2
    <3>5. QED
      BY <2>1, <3>3, <3>4, HoldingFinite
  <2>3. CASE d # day
    <3>1. Holding(d)' \subseteq Holding(d)
      BY <2>3 DEF Holding
    <3>2. Cardinality(Holding(d)') <= Cardinality(Holding(d)) /\ Cardinality(Holding(d)') \in Nat
      BY <3>1, HoldingFinite, FS_Subset, FS_CardinalityType
    <3>3. budget'[d] = budget[d]
      BY <1>1, <1>2, <2>3
    <3>4. QED
      BY <2>1, <3>2, <3>3, HoldingFinite
  <2>4. QED
    BY <2>2, <2>3
<1>5. Charged'
  BY <1>4 DEF Charged
<1>6. budget' \in [Budget!Day -> 0..DailyLimit]
  BY <1>1, <1>2
<1>7. QED
  BY <1>3, <1>5, <1>6 DEF BudgetInv

LEMMA PutKeeps ==
  ASSUME BudgetInv, NEW p \in Sender, Budget!PutBudget(p) \/ Budget!PutUncertain(p)
  PROVE  BudgetInv'
<1>1. process \in [Sender -> SenderState] /\ process[p].pc = "put" /\ instant' = instant /\ sent' = sent
  BY DEF BudgetInv, Budget!PutBudget, Budget!PutUncertain, Budget!At
<1>2. ASSUME Budget!Again(p), budget' = budget PROVE BudgetInv'
  <2>1. /\ process' \in [Sender -> SenderState] /\ process'[p].pc \in {"read", "stopped"}
        /\ \A q \in Sender : q # p => process'[q] = process[q]
    BY <1>1, <1>2, AgainMoves
  <2>2. SenderOK(p)'
    BY <2>1 DEF SenderOK
  <2>3. QED
    BY <1>1, <1>2, <2>1, <2>2, QuietSender
<1>3. ASSUME Budget!Matches(p), Budget!Charge(p), process' = [process EXCEPT ![p].pc = "ack"] PROVE BudgetInv'
  <2>1. /\ process' \in [Sender -> SenderState] /\ process'[p].pc = "ack" /\ process'[p].day = process[p].day
        /\ \A q \in Sender : q # p => process'[q] = process[q]
    BY <1>1, <1>3 DEF SenderState
  <2>2. QED
    BY <1>1, <1>3, <2>1, ChargeKeeps
<1>4. ASSUME Budget!Matches(p), Budget!Charge(p), Budget!Stop(p) \/ Budget!Again(p) PROVE BudgetInv'
  <2>1. /\ process' \in [Sender -> SenderState] /\ process'[p].pc \in {"read", "stopped"}
        /\ \A q \in Sender : q # p => process'[q] = process[q]
    <3>1. CASE Budget!Again(p)
      BY <1>1, <3>1, AgainMoves
    <3>2. CASE Budget!Stop(p)
      BY <1>1, <3>2 DEF Budget!Stop, SenderState
    <3>3. QED
      BY <1>4, <3>1, <3>2
  <2>2. QED
    BY <1>1, <1>4, <2>1, ChargeKeeps
<1>5. QED
  BY <1>2, <1>3, <1>4 DEF Budget!PutBudget, Budget!PutUncertain

LEMMA AcknowledgeKeeps ==
  ASSUME BudgetInv, NEW p \in Sender, Budget!Acknowledge(p)
  PROVE  BudgetInv'
<1>1. /\ process \in [Sender -> SenderState] /\ process[p].pc = "ack" /\ instant \in Nat
      /\ instant' = instant /\ budget' = budget /\ sent' = sent /\ process[p].day \in Budget!Day
  BY DEF BudgetInv, SenderOK, Budget!Acknowledge, Budget!At
<1>2. CASE Budget!DayOf(instant) = process[p].day /\ Budget!BeforeMidnight(instant)
  <2> DEFINE n == process[p].attempts + 1
  <2>0. n \in Nat
    BY <1>1 DEF SenderState
  <2>1. process' = [process EXCEPT ![p] = [process[p] EXCEPT !.pc = "send", !.at = instant, !.attempts = n]]
    BY <1>2 DEF Budget!Acknowledge
  <2> HIDE DEF n
  <2>2. /\ process' \in [Sender -> SenderState]
        /\ process'[p].pc = "send" /\ process'[p].day = process[p].day /\ process'[p].at = instant
        /\ \A q \in Sender : q # p => process'[q] = process[q]
    BY <1>1, <2>0, <2>1 DEF SenderState
  <2>3. SenderOK(p)'
    BY <1>1, <1>2, <2>2, BudgetConstants DEF SenderOK
  <2>4. QED
    BY <1>1, <2>2, <2>3, QuietSender
<1>3. CASE ~(Budget!DayOf(instant) = process[p].day /\ Budget!BeforeMidnight(instant))
  BY <1>1, <1>3, StopsSender DEF Budget!Acknowledge
<1>4. QED
  BY <1>2, <1>3

\* The request counts on the day that it was charged to.
LEMMA SendKeeps ==
  ASSUME BudgetInv, NEW p \in Sender, Budget!Send(p)
  PROVE  BudgetInv'
<1> DEFINE day == process[p].day
<1>1. /\ process \in [Sender -> SenderState] /\ process[p].pc = "send" /\ instant \in Nat
      /\ budget \in [Budget!Day -> 0..DailyLimit] /\ DailyLimit \in Nat
      /\ instant' = instant /\ budget' = budget /\ sent \in [Budget!Day -> Nat] /\ SenderOK(p)
  BY BudgetConstants DEF BudgetInv, Budget!Send, Budget!At
<1>2. day \in Budget!Day /\ Budget!DayOf(instant) = day
  BY <1>1, SameDay DEF SenderOK
<1>3. sent' = [sent EXCEPT ![day] = sent[day] + 1]
  BY <1>2 DEF Budget!Send
<1>4. /\ process' \in [Sender -> SenderState] /\ process'[p].pc = "idle"
      /\ \A q \in Sender : q # p => process'[q] = process[q]
  <2>1. process' = [process EXCEPT ![p] = [Budget!Fresh EXCEPT !.attempts = process[p].attempts]]
    BY DEF Budget!Send
  <2>2. [Budget!Fresh EXCEPT !.attempts = process[p].attempts] =
          [pc |-> "idle", day |-> nobody, count |-> nobody, at |-> nobody, tries |-> Tries,
           attempts |-> process[p].attempts]
    BY DEF Budget!Fresh
  <2>3. QED
    BY <1>1, <2>1, <2>2, BudgetConstants DEF SenderState
<1>5. ASSUME NEW q \in Sender PROVE SenderOK(q)'
  <2>1. CASE q = p
    BY <1>4, <2>1 DEF SenderOK
  <2>2. CASE q # p
    BY <1>1, <1>4, <2>2 DEF BudgetInv, SenderOK
  <2>3. QED
    BY <2>1, <2>2
<1>6. ASSUME NEW d \in Budget!Day PROVE sent'[d] + Cardinality(Holding(d)') <= budget'[d]
  <2>1. sent[d] \in Nat /\ budget[d] \in Nat /\ sent[d] + Cardinality(Holding(d)) <= budget[d]
    BY <1>1 DEF BudgetInv, Charged
  <2>2. CASE d = day
    <3>1. Holding(d)' \subseteq Holding(d) \ {p} /\ p \in Holding(d)
      BY <1>1, <1>4, <2>2 DEF Holding
    <3>2. IsFiniteSet(Holding(d) \ {p}) /\ Cardinality(Holding(d) \ {p}) = Cardinality(Holding(d)) - 1
      BY <3>1, HoldingFinite, FS_RemoveElement
    <3>3. Cardinality(Holding(d)') <= Cardinality(Holding(d)) - 1 /\ Cardinality(Holding(d)') \in Nat
      BY <3>1, <3>2, FS_Subset, FS_CardinalityType
    <3>4. sent'[d] = sent[d] + 1
      BY <1>1, <1>3, <2>2
    <3>5. QED
      BY <1>1, <2>1, <3>3, <3>4, HoldingFinite
  <2>3. CASE d # day
    <3>1. Holding(d)' \subseteq Holding(d)
      BY <1>4 DEF Holding
    <3>2. Cardinality(Holding(d)') <= Cardinality(Holding(d)) /\ Cardinality(Holding(d)') \in Nat
      BY <3>1, HoldingFinite, FS_Subset, FS_CardinalityType
    <3>3. sent'[d] = sent[d]
      BY <1>1, <1>3, <2>3
    <3>4. QED
      BY <1>1, <2>1, <3>2, <3>3, HoldingFinite
  <2>4. QED
    BY <2>2, <2>3
<1>7. Charged'
  BY <1>6 DEF Charged
<1>8. sent' \in [Budget!Day -> Nat]
  BY <1>1, <1>2, <1>3
<1>9. QED
  BY <1>1, <1>4, <1>5, <1>7, <1>8 DEF BudgetInv

LEMMA ClockKeeps ==
  ASSUME BudgetInv, Budget!Tick
  PROVE  BudgetInv'
<1>1. /\ instant \in Nat /\ instant < BudgetDays * DayLength - 1 /\ BudgetDays * DayLength \in Nat
      /\ instant' = instant + 1 /\ process' = process /\ budget' = budget /\ sent' = sent
  BY BudgetConstants DEF BudgetInv, Budget!Tick
<1>2. ASSUME NEW p \in Sender PROVE SenderOK(p)'
  <2>1. process[p].pc = "send" => instant - process[p].at < SendDelay
    BY DEF Budget!Tick, Budget!At
  <2>2. SenderOK(p)
    BY DEF BudgetInv
  <2>3. QED
    BY <1>1, <2>1, <2>2, BudgetConstants DEF SenderOK
<1>3. Charged'
  BY <1>1 DEF BudgetInv, Charged, Holding
<1>4. QED
  BY <1>1, <1>2, <1>3 DEF BudgetInv

LEMMA BudgetStarts == Budget!Init => BudgetInv
<1> SUFFICES ASSUME Budget!Init PROVE BudgetInv
  OBVIOUS
<1>1. /\ instant = 0 /\ budget = [d \in Budget!Day |-> 0] /\ sent = [d \in Budget!Day |-> 0]
      /\ process = [p \in Sender |-> Budget!Fresh]
  BY DEF Budget!Init
<1>2. 0 < BudgetDays * DayLength
  BY BudgetConstants
<1>3. process \in [Sender -> SenderState] /\ \A p \in Sender : process[p].pc = "idle"
  BY <1>1, BudgetConstants DEF Budget!Fresh, SenderState
<1>4. \A p \in Sender : SenderOK(p)
  BY <1>3 DEF SenderOK
<1>5. ASSUME NEW d \in Budget!Day PROVE sent[d] + Cardinality(Holding(d)) <= budget[d]
  <2>1. Holding(d) = {}
    BY <1>3 DEF Holding
  <2>2. QED
    BY <1>1, <2>1, FS_EmptySet
<1>6. Charged
  BY <1>5 DEF Charged
<1>7. QED
  BY <1>1, <1>2, <1>3, <1>4, <1>6, BudgetConstants DEF BudgetInv

\* KMA never gets more requests on a day than its object has reserved, nor more
\* than the limit, whatever processes overlap, die, lose an answer or cross
\* midnight between the reservation and the request
\* (weather_collect_hosted.py AttemptBudget.reserve).
THEOREM BudgetIsKept == Budget!Spec => []NeverOverBudget
<1>1. ASSUME BudgetInv, [Budget!Next]_(Budget!vars) PROVE BudgetInv'
  <2>1. ASSUME NEW p \in Sender, Budget!Dies(p) PROVE BudgetInv'
    BY <1>1, <2>1, StopsSender DEF Budget!Dies
  <2>2. CASE Budget!Next
    BY <1>1, <2>1, <2>2, ReserveKeeps, ReadBudgetKeeps, PutKeeps, AcknowledgeKeeps, SendKeeps, ClockKeeps
    DEF Budget!Next
  <2>3. CASE UNCHANGED Budget!vars
    <3>1. instant' = instant /\ budget' = budget /\ sent' = sent /\ process' = process
      BY <2>3 DEF Budget!vars
    <3>2. QED
      BY <1>1, <3>1 DEF BudgetInv, SenderOK, Charged, Holding
  <2>4. QED
    BY <1>1, <2>2, <2>3
<1>2. BudgetInv => NeverOverBudget
  <2> SUFFICES ASSUME BudgetInv, NEW d \in Budget!Day PROVE sent[d] <= budget[d] /\ budget[d] <= DailyLimit
    BY DEF NeverOverBudget, Budget!NeverOverBudget
  <2>1. sent[d] \in Nat /\ budget[d] \in 0..DailyLimit /\ sent[d] + Cardinality(Holding(d)) <= budget[d]
    BY DEF BudgetInv, Charged
  <2>2. QED
    BY <2>1, HoldingFinite, BudgetConstants
<1>3. QED
  BY <1>1, <1>2, BudgetStarts, PTL DEF Budget!Spec
=============================================================================
