---------------------------- MODULE ReleaseProofs ----------------------------
(***************************************************************************)
(* Theorems about what a change to the code meets on its way.              *)
(* The deployment, for any commits, DAGs, writers and number of faults.    *)
(* The properties are not inductive: that an unpaused DAG runs on proven   *)
(* code rests on when the DAGs are all paused, on what the snapshot was    *)
(* taken over, and on the path a failure takes.  IInv says so, and is      *)
(* preserved by every action.  Then the maintenance of the tables, for any *)
(* tables, days and snapshots.  Last, what readers of the published data   *)
(* rely on: the contract gate and the export behind it, for any models and *)
(* ids; the gate of the usage patterns; and the freshness watchdog, for    *)
(* any moments, hours and faults.                                          *)
(***************************************************************************)
EXTENDS MCDeployment, MCServingContracts, FiniteSetTheorems, WellFoundedInduction, TLAPS

(***************************************************************************)
(* The steps that may replace the overlay or recreate the services, and    *)
(* the ones before them on the same path, once the pause was verified.     *)
(***************************************************************************)
QuietSteps ==
  \/ path = "deploy" /\ step \in {"prepare", "install", "services", "health"}
  \/ path = "rollback" /\ step \in {"drain", "install", "services", "health"}

Quiet == QuietSteps => AllPaused

\* Nothing but pause states changes before the install, nor after it failed.
BeforeInstall ==
  \/ path = "failed"
  \/ path = "deploy" /\ step \in {"drain", "pause", "prepare", "install"}

Untouched ==
  BeforeInstall => /\ installed = run.installed
                   /\ services = run.services
                   /\ (\E d \in Dag : ~run.snapshot[d]) => proven

\* What the install, the recreation and the health check have established.
Established ==
  path \in {"deploy", "rollback"} =>
    /\ step \in {"services", "health", "restore", "record"} => installed = Wanted
    /\ step \in {"health", "restore", "record"} => services = Wanted
    /\ step \in {"restore", "record"} => proven

\* The restore loop only unpauses what the snapshot says was unpaused.
Restoring ==
  /\ step = "restore" => todo \subseteq ToRestore
  /\ step = "record" => paused = run.snapshot

\* The snapshot never forgets a DAG the operator had paused.
SnapshotKept ==
  path \in {"deploy", "failed", "rollback"} =>
    \A d \in Dag : run.original[d] => run.snapshot[d]

\* The deployment in progress is not a success yet; its rollback candidate is.
InProgress ==
  path # "idle" => /\ ledger[run.sha] # "success"
                   /\ path \in {"deploy", "rollback"} =>
                        run.rollback = PreviousSuccess

Safe ==
  /\ UnpausedRunsProven
  /\ NeverEnables
  /\ Quiet
  /\ Untouched
  /\ Established
  /\ Restoring
  /\ SnapshotKept
  /\ InProgress

IInv == TypeOK /\ Safe

-----------------------------------------------------------------------------
\* A failure leads to a step of the path it takes.
LEMMA FailPosition == TypeOK /\ Fail => PositionOK' /\ todo' \subseteq Dag
  BY DEF TypeOK, Fail, GoTo, ToRestore, PositionOK

\* The end of a deployment.
LEMMA EndPosition == End => /\ PositionOK' /\ todo' \subseteq Dag
                            /\ lock' \in BOOLEAN
  BY DEF End, GoTo, PositionOK

\* A counted fault stays within its bound.
LEMMA FaultCount == TypeOK /\ Fault => faults' \in 0..MaxFaults
  BY DeploymentAssumption DEF TypeOK, Fault

\* The rollback candidate is a version.
LEMMA PreviousIsVersion == TypeOK => PreviousSuccess \in Version
  BY DEF TypeOK, PreviousSuccess, Version

\* Every step keeps the types.
LEMMA TypeStep == TypeOK /\ [Next]_vars => TypeOK'
<1> SUFFICES ASSUME TypeOK, [Next]_vars PROVE TypeOK'
    OBVIOUS
<1> USE DeploymentAssumption DEF TypeOK, PositionOK, Version, Outcome, Run
<1>1. CASE AlreadySuccessful
    BY <1>1 DEF AlreadySuccessful, End, GoTo, world, airflow, records
<1>2. CASE Refuse
  <2>1. PositionOK' /\ todo' \subseteq Dag /\ lock' \in BOOLEAN
    BY <1>2, EndPosition DEF Refuse
  <2>2. faults' \in 0..MaxFaults
    BY <1>2, FaultCount DEF Refuse
  <2>3. UNCHANGED <<world, airflow, records, run>>
    BY <1>2 DEF Refuse
  <2> QED
    BY <2>1, <2>2, <2>3 DEF world, airflow, records
<1>3. CASE Begin
  <2>1. run' \in Run
    BY <1>3, PreviousIsVersion DEF Begin
  <2>2. ledger' \in [Sha -> Outcome]
    BY <1>3 DEF Begin
  <2>3. PositionOK' /\ todo' \subseteq Dag
    BY <1>3 DEF Begin, GoTo
  <2>4. UNCHANGED <<lock, world, airflow, completed, faults>>
    BY <1>3 DEF Begin
  <2> QED
    BY <2>1, <2>2, <2>3, <2>4 DEF world, airflow
<1>4. CASE Drained
    BY <1>4 DEF Drained, GoTo, world, airflow, records
<1>5. CASE DrainTimeout
    BY <1>5 DEF DrainTimeout, Fail, InstallStarted, ToRestore, GoTo, world, airflow, records
<1>6. CASE DrainError
    BY <1>6 DEF DrainError, Fault, Fail, InstallStarted, ToRestore, GoTo, world, airflow, records
<1>7. ASSUME NEW d \in Dag, Pause(d) PROVE TypeOK'
    BY <1>7 DEF Pause, GoTo, world, airflow, records
<1>8. ASSUME NEW d \in Dag, PauseHasNoEffect(d) PROVE TypeOK'
    BY <1>8 DEF PauseHasNoEffect, Fault, GoTo, world, airflow, records
<1>9. ASSUME NEW d \in Dag, PauseError(d) PROVE TypeOK'
    BY <1>9 DEF PauseError, Fault, Fail, InstallStarted, ToRestore, GoTo, world, airflow, records
<1>10. CASE PauseVerified
    BY <1>10 DEF PauseVerified, GoTo, world, airflow, records
<1>11. CASE PauseNotVerified
    BY <1>11 DEF PauseNotVerified, Fail, InstallStarted, ToRestore, GoTo, world, airflow, records
<1>12. CASE Prepare
    BY <1>12 DEF Prepare, Fault, NoFault, Fail, InstallStarted, ToRestore, GoTo, world, airflow, records
<1>13. CASE Install
    BY <1>13 DEF Install, Fault, NoFault, Fail, InstallStarted, ToRestore, Wanted, GoTo, world, airflow, records
<1>14. CASE DeployCodeServices
  <2>1. services' \in Version \cup {Mixed} /\ proven' \in BOOLEAN
    BY <1>14 DEF DeployCodeServices
  <2>2. PositionOK' /\ todo' \subseteq Dag
    BY <1>14, FailPosition DEF DeployCodeServices, GoTo
  <2>3. faults' \in 0..MaxFaults
    BY <1>14, FaultCount DEF DeployCodeServices, NoFault
  <2>4. UNCHANGED <<lock, installed, airflow, records, run>>
    BY <1>14 DEF DeployCodeServices
  <2> QED
    BY <2>1, <2>2, <2>3, <2>4 DEF airflow, records
<1>15. CASE ReadHealth
  <2>1. proven' \in BOOLEAN
    BY <1>15 DEF ReadHealth
  <2>2. PositionOK' /\ todo' \subseteq Dag
    BY <1>15, FailPosition DEF ReadHealth, GoTo, ToRestore
  <2>3. faults' \in 0..MaxFaults
    BY <1>15, FaultCount DEF ReadHealth, NoFault
  <2>4. UNCHANGED <<lock, installed, services, airflow, records, run>>
    BY <1>15 DEF ReadHealth
  <2> QED
    BY <2>1, <2>2, <2>3, <2>4 DEF airflow, records
<1>16. ASSUME NEW d \in Dag, Unpause(d) PROVE TypeOK'
    BY <1>16 DEF Unpause, GoTo, world, airflow, records
<1>17. ASSUME NEW d \in Dag, UnpauseHasNoEffect(d) PROVE TypeOK'
    BY <1>17 DEF UnpauseHasNoEffect, Fault, GoTo, world, airflow, records
<1>18. ASSUME NEW d \in Dag, UnpauseError(d) PROVE TypeOK'
    BY <1>18 DEF UnpauseError, Fault, Fail, InstallStarted, ToRestore, GoTo, world, airflow, records
<1>19. CASE Restored
    BY <1>19 DEF Restored, GoTo, world, airflow, records
<1>20. CASE NotRestored
    BY <1>20 DEF NotRestored, Fail, InstallStarted, ToRestore, GoTo, world, airflow, records
<1>21. CASE RecordSuccess
  <2>1. ledger' \in [Sha -> Outcome]
    BY <1>21 DEF RecordSuccess, Complete
  <2>2. completed' \in Seq(Sha)
    BY <1>21 DEF RecordSuccess
  <2>3. PositionOK' /\ todo' \subseteq Dag /\ lock' \in BOOLEAN
    BY <1>21, EndPosition DEF RecordSuccess
  <2>4. UNCHANGED <<world, airflow, run, faults>>
    BY <1>21 DEF RecordSuccess
  <2> QED
    BY <2>1, <2>2, <2>3, <2>4 DEF world, airflow
<1>22. CASE RecordFailed
    BY <1>22 DEF RecordFailed, Complete, End, GoTo, world, airflow, records
<1>23. CASE RecordRolledBack
    BY <1>23 DEF RecordRolledBack, Complete, End, GoTo, world, airflow, records
<1>24. CASE RecordError
  <2>1. PositionOK' /\ todo' \subseteq Dag /\ lock' \in BOOLEAN
    BY <1>24, FailPosition, EndPosition DEF RecordError
  <2>2. faults' \in 0..MaxFaults
    BY <1>24, FaultCount DEF RecordError
  <2>3. UNCHANGED <<world, airflow, records, run>>
    BY <1>24 DEF RecordError
  <2> QED
    BY <2>1, <2>2, <2>3 DEF world, airflow, records
<1>25. CASE RecordClosed
  <2>1. ledger' \in [Sha -> Outcome]
    BY <1>25 DEF RecordClosed, Complete
  <2>2. run' \in Run
    BY <1>25 DEF RecordClosed
  <2>3. PositionOK' /\ todo' \subseteq Dag /\ lock' \in BOOLEAN
    BY <1>25, EndPosition DEF RecordClosed
  <2>4. faults' \in 0..MaxFaults
    BY <1>25, FaultCount DEF RecordClosed, NoFault
  <2>5. UNCHANGED <<world, airflow, completed>>
    BY <1>25 DEF RecordClosed
  <2> QED
    BY <2>1, <2>2, <2>3, <2>4, <2>5 DEF world, airflow
<1>26. ASSUME NEW s \in Sha, Acquire(s) PROVE TypeOK'
    BY <1>26 DEF Acquire, GoTo, world, airflow, records
<1>27. ASSUME NEW d \in Dag, StartRun(d) PROVE TypeOK'
    BY <1>27 DEF StartRun, position, world, airflow, records
<1>28. ASSUME NEW d \in Dag, FinishRun(d) PROVE TypeOK'
    BY <1>28 DEF FinishRun, position, world, airflow, records
<1>29. CASE Crash
    BY <1>29 DEF Crash, Fault, GoTo, world, airflow, records
<1>30. CASE RemoveStaleLock
    BY <1>30 DEF RemoveStaleLock, position, world, airflow, records
<1>31. CASE UNCHANGED vars
    BY <1>31 DEF vars, world, airflow, records, position
<1> QED
    BY <1>1, <1>2, <1>3, <1>4, <1>5, <1>6, <1>7, <1>8, <1>9, <1>10, <1>11, <1>12, <1>13,
       <1>14, <1>15, <1>16, <1>17, <1>18, <1>19, <1>20, <1>21, <1>22, <1>23, <1>24, <1>25,
       <1>26, <1>27, <1>28, <1>29, <1>30, <1>31 DEF Next, Deployer, Environment
\* Every step keeps the rest of the invariant.
LEMMA SafeStep == IInv /\ [Next]_vars => Safe'
<1> SUFFICES ASSUME IInv, [Next]_vars PROVE Safe'
    OBVIOUS
<1> USE DEF IInv, TypeOK, PositionOK, Run, Safe, UnpausedRunsProven, NeverEnables,
   Quiet, QuietSteps, Untouched, BeforeInstall,
         Established, Restoring, SnapshotKept, InProgress, AllPaused, ToRestore,
         Wanted, PreviousSuccess
<1>1. CASE AlreadySuccessful
    BY <1>1 DEF AlreadySuccessful, End, GoTo, world, airflow, records
<1>2. CASE Refuse
    BY <1>2 DEF Refuse, End, GoTo, world, airflow, records
<1>3. CASE Begin
    BY <1>3 DEF Begin, GoTo, world, airflow, records
<1>4. CASE Drained
    BY <1>4 DEF Drained, GoTo, world, airflow, records
<1>5. CASE DrainTimeout
    BY <1>5 DEF DrainTimeout, Fail, InstallStarted, GoTo, world, airflow, records
<1>6. CASE DrainError
    BY <1>6 DEF DrainError, Fail, InstallStarted, GoTo, world, airflow, records
<1>7. ASSUME NEW d \in Dag, Pause(d) PROVE Safe'
    BY <1>7 DEF Pause, GoTo, world, airflow, records
<1>8. ASSUME NEW d \in Dag, PauseHasNoEffect(d) PROVE Safe'
    BY <1>8 DEF PauseHasNoEffect, GoTo, world, airflow, records
<1>9. ASSUME NEW d \in Dag, PauseError(d) PROVE Safe'
    BY <1>9 DEF PauseError, Fail, InstallStarted, GoTo, world, airflow, records
<1>10. CASE PauseVerified
    BY <1>10 DEF PauseVerified, GoTo, world, airflow, records
<1>11. CASE PauseNotVerified
    BY <1>11 DEF PauseNotVerified, Fail, InstallStarted, GoTo, world, airflow, records
<1>12. CASE Prepare
    BY <1>12 DEF Prepare, Fail, InstallStarted, GoTo, world, airflow, records
<1>13. CASE Install
    BY <1>13 DEF Install, Fail, InstallStarted, GoTo, world, airflow, records
<1>14. CASE DeployCodeServices
    BY <1>14 DEF DeployCodeServices, Fail, InstallStarted, GoTo, world, airflow, records
<1>15. CASE ReadHealth
    BY <1>15 DEF ReadHealth, Fail, InstallStarted, GoTo, world, airflow, records
<1>16. ASSUME NEW d \in Dag, Unpause(d) PROVE Safe'
    BY <1>16 DEF Unpause, GoTo, world, airflow, records
<1>17. ASSUME NEW d \in Dag, UnpauseHasNoEffect(d) PROVE Safe'
    BY <1>17 DEF UnpauseHasNoEffect, GoTo, world, airflow, records
<1>18. ASSUME NEW d \in Dag, UnpauseError(d) PROVE Safe'
    BY <1>18 DEF UnpauseError, Fail, InstallStarted, GoTo, world, airflow, records
<1>19. CASE Restored
    BY <1>19 DEF Restored, GoTo, world, airflow, records
<1>20. CASE NotRestored
    BY <1>20 DEF NotRestored, Fail, InstallStarted, GoTo, world, airflow, records
<1>21. CASE RecordSuccess
    BY <1>21 DEF RecordSuccess, Complete, End, GoTo, world, airflow, records
<1>22. CASE RecordFailed
    BY <1>22 DEF RecordFailed, Complete, End, GoTo, world, airflow, records
<1>23. CASE RecordRolledBack
    BY <1>23 DEF RecordRolledBack, Complete, End, GoTo, world, airflow, records
<1>24. CASE RecordError
    BY <1>24 DEF RecordError, End, Fail, InstallStarted, GoTo, world, airflow, records
<1>25. CASE RecordClosed
    BY <1>25 DEF RecordClosed, Complete, End, GoTo, world, airflow, records
<1>26. ASSUME NEW s \in Sha, Acquire(s) PROVE Safe'
    BY <1>26 DEF Acquire, GoTo, world, airflow, records
<1>27. ASSUME NEW d \in Dag, StartRun(d) PROVE Safe'
    BY <1>27 DEF StartRun, position, world, airflow, records
<1>28. ASSUME NEW d \in Dag, FinishRun(d) PROVE Safe'
    BY <1>28 DEF FinishRun, position, world, airflow, records
<1>29. CASE Crash
    BY <1>29 DEF Crash, GoTo, world, airflow, records
<1>30. CASE RemoveStaleLock
    BY <1>30 DEF RemoveStaleLock, position, world, airflow, records
<1>31. CASE UNCHANGED vars
    BY <1>31 DEF vars, world, airflow, records, position
<1> QED
    BY <1>1, <1>2, <1>3, <1>4, <1>5, <1>6, <1>7, <1>8, <1>9, <1>10, <1>11, <1>12, <1>13,
       <1>14, <1>15, <1>16, <1>17, <1>18, <1>19, <1>20, <1>21, <1>22, <1>23, <1>24, <1>25,
       <1>26, <1>27, <1>28, <1>29, <1>30, <1>31 DEF Next, Deployer, Environment
-----------------------------------------------------------------------------
\* The initial states satisfy the invariant.
LEMMA InitInv == Init => IInv
<1> SUFFICES ASSUME Init PROVE IInv
    OBVIOUS
<1>1. run = [sha |-> run.sha, snapshot |-> paused, rollback |-> Baseline,
             installed |-> Baseline, services |-> Baseline,
             original |-> paused] /\ run.sha \in Sha
    BY DEF Init
<1>2. TypeOK
  <2>1. run \in Run
      BY <1>1 DEF Init, Run, Version
  <2>2. lock \in BOOLEAN /\ proven \in BOOLEAN
      BY DEF Init
  <2>3. /\ installed \in Version /\ services \in Version \cup {Mixed}
        /\ paused \in [Dag -> BOOLEAN] /\ active \subseteq Writer
        /\ ledger \in [Sha -> Outcome] /\ completed \in Seq(Sha)
      BY DEF Init, Version, Outcome
  <2>4. PositionOK /\ todo \subseteq Dag /\ faults \in 0..MaxFaults
      BY DeploymentAssumption DEF Init, PositionOK
  <2> QED
      BY <2>1, <2>2, <2>3, <2>4 DEF TypeOK
<1>3. Safe
    BY <1>1 DEF Init, Safe, UnpausedRunsProven, NeverEnables, Quiet, QuietSteps,
       Untouched, BeforeInstall, Established, Restoring, SnapshotKept, InProgress
<1> QED
    BY <1>2, <1>3 DEF IInv

\* The invariant holds in every reachable state.
LEMMA Invariant == Spec => []IInv
<1>1. IInv /\ [Next]_vars => IInv'
    BY TypeStep, SafeStep DEF IInv
<1> QED
    BY <1>1, InitInv, PTL DEF Spec

\* The deployer, Airflow, the overlay and the ledger keep their types.
THEOREM TypeCorrect == Spec => []TypeOK
<1>1. IInv => TypeOK
    BY DEF IInv
<1> QED
    BY <1>1, Invariant, PTL

(***************************************************************************)
(* Whatever fails in a deployment or its rollback, and whenever the        *)
(* deployer dies, a DAG that is not paused runs on code that passed its    *)
(* health check.                                                           *)
(***************************************************************************)
THEOREM OnlyProvenCodeScheduled == Spec => []UnpausedRunsProven
<1>1. IInv => UnpausedRunsProven
    BY DEF IInv, Safe
<1> QED
    BY <1>1, Invariant, PTL

(***************************************************************************)
(* No deployment ever unpauses a DAG that was paused before it, however    *)
(* many of them fail, crash or follow each other.                          *)
(***************************************************************************)
THEOREM OperatorPauseKept == Spec => []NeverEnables
<1>1. IInv => NeverEnables
    BY DEF IInv, Safe
<1> QED
    BY <1>1, Invariant, PTL

(***************************************************************************)
(* A record written to the ledger is true of the overlay, the services and *)
(* the pause state at that moment.                                         *)
(***************************************************************************)
THEOREM LedgerIsTrue == Spec => OutcomeIsTrue
<1>1. ASSUME IInv, [Next]_vars, ledger' # ledger
      PROVE  OutcomeHolds(ledger'[run.sha])
  <2> USE DEF IInv, TypeOK, PositionOK, Run, Safe
  <2>1. CASE Begin
      BY <1>1, <2>1 DEF Begin, OutcomeHolds
  <2>2. CASE RecordSuccess
      BY <1>1, <2>2 DEF RecordSuccess, Complete, OutcomeHolds, InPlace,
         Established, Restoring, Wanted
  <2>3. CASE RecordFailed
      BY <1>1, <2>3 DEF RecordFailed, Complete, OutcomeHolds, Untouched,
         BeforeInstall, Restoring
  <2>4. CASE RecordRolledBack
      BY <1>1, <2>4 DEF RecordRolledBack, Complete, OutcomeHolds, InPlace,
         Established, Restoring, Wanted, InProgress
  <2>5. CASE RecordClosed
      BY <1>1, <2>5 DEF RecordClosed, Complete, OutcomeHolds
  <2>6. CASE UNCHANGED ledger
      BY <1>1, <2>6
  <2> QED
      BY <1>1, <2>1, <2>2, <2>3, <2>4, <2>5, <2>6
      DEF Next, Deployer, Environment, AlreadySuccessful, Refuse, Drained,
          DrainTimeout, DrainError, Pause, PauseHasNoEffect, PauseError,
          PauseVerified, PauseNotVerified, Prepare, Install,
          DeployCodeServices, ReadHealth, Unpause, UnpauseHasNoEffect,
          UnpauseError, Restored, NotRestored, RecordError, Acquire, StartRun,
          FinishRun, Crash, RemoveStaleLock, vars, records
<1>2. IInv /\ [Next]_vars => [ledger' # ledger => OutcomeHolds(ledger'[run.sha])]_vars
    BY <1>1
<1> QED
    BY <1>2, Invariant, PTL DEF Spec, OutcomeIsTrue

(***************************************************************************)
(* The record of a successful deployment is never replaced, so it remains  *)
(* a rollback candidate.                                                   *)
(***************************************************************************)
THEOREM SuccessStays == Spec => SuccessIsKept
<1>1. ASSUME IInv, [Next]_vars, NEW s \in Sha, ledger[s] = "success"
      PROVE  ledger'[s] = "success"
  <2> USE DEF IInv, TypeOK, PositionOK, Run, Safe
  <2>1. CASE Begin
      BY <1>1, <2>1 DEF Begin
  <2>2. CASE RecordSuccess
      BY <1>1, <2>2 DEF RecordSuccess, Complete
  <2>3. CASE RecordFailed \/ RecordRolledBack \/ RecordClosed
      BY <1>1, <2>3 DEF RecordFailed, RecordRolledBack, RecordClosed, Complete,
         InProgress
  <2>4. CASE UNCHANGED ledger
      BY <1>1, <2>4
  <2> QED
      BY <1>1, <2>1, <2>2, <2>3, <2>4
      DEF Next, Deployer, Environment, AlreadySuccessful, Refuse, Drained,
          DrainTimeout, DrainError, Pause, PauseHasNoEffect, PauseError,
          PauseVerified, PauseNotVerified, Prepare, Install,
          DeployCodeServices, ReadHealth, Unpause, UnpauseHasNoEffect,
          UnpauseError, Restored, NotRestored, RecordError, Acquire, StartRun,
          FinishRun, Crash, RemoveStaleLock, vars, records
<1>2. IInv /\ [Next]_vars =>
        [\A s \in Sha : ledger[s] = "success" => ledger'[s] = "success"]_vars
    BY <1>1
<1> QED
    BY <1>2, Invariant, PTL DEF Spec, SuccessIsKept

-----------------------------------------------------------------------------
(***************************************************************************)
(* Iceberg maintenance, for any tables, retention, clock and number of     *)
(* snapshots.  An operation takes both slots of the lane, so none is       *)
(* running while a transform reads.                                        *)
(***************************************************************************)
Idle == \A a \in Upkeep!Action : task[a] # "running"

LaneInv ==
  /\ task = [a \in Upkeep!Action |-> task[a]]
  /\ snapshots = [t \in Table |-> snapshots[t]]
  /\ reader # none => reader.table \in Table /\ Idle

\* The instance's own copy of the library's operators.
LEMMA SameCardinality ==
  /\ \A set : Upkeep!IsFiniteSet(set) = IsFiniteSet(set)
  /\ \A set : Upkeep!Cardinality(set) = Cardinality(set)
BY DEF Upkeep!IsFiniteSet, IsFiniteSet, Upkeep!Cardinality, Cardinality

\* A slot that is free means that no operation is running, and an operation
\* that starts finds both free.
LEMMA Lane ==
  /\ Upkeep!Taken < Upkeep!Slots => Idle
  /\ Upkeep!Taken + Upkeep!ActionSlots <= Upkeep!Slots => reader = none
<1> DEFINE busy == {a \in Upkeep!Action : task[a] = "running"}
<1>1. IsFiniteSet(busy)
  <2>1. IsFiniteSet(Upkeep!Action)
    <3>1. IsFiniteSet(Table)
      BY UpkeepAssumption, SameCardinality DEF Upkeep!MaintenanceAssumption
    <3>2. IsFiniteSet(1..3)
      BY 1 \in Int, 3 \in Int, FS_Interval
    <3>3. QED
      BY <3>1, <3>2, FS_Product DEF Upkeep!Action
  <2>2. QED
    BY <2>1, FS_Subset
<1>2. Cardinality(busy) \in Nat /\ (Cardinality(busy) = 0 => busy = {})
  BY <1>1, FS_CardinalityType, FS_EmptySet
<1>3. Upkeep!Taken = 2 * Cardinality(busy) + (IF reader = none THEN 0 ELSE 1)
  BY SameCardinality DEF Upkeep!Taken, Upkeep!ActionSlots, Upkeep!Slots
<1>4. busy = {} => Idle
  BY DEF Idle
<1> HIDE DEF busy
<1>5. QED
  BY <1>2, <1>3, <1>4 DEF Upkeep!Slots, Upkeep!ActionSlots

\* The invariant and, of each step, what it leaves of a snapshot that is read.
LEMMA LaneSteps ==
  ASSUME LaneInv, [Upkeep!Next]_Upkeep!vars
  PROVE  /\ LaneInv'
         /\ reader # none /\ reader' = reader /\ ~Upkeep!Outlived =>
              {s \in snapshots[reader.table] : s.n = reader.n} \subseteq snapshots'[reader.table]
<1>1. CASE Upkeep!Gate \/ Upkeep!Summarize \/ Upkeep!Tick \/ UNCHANGED Upkeep!vars
  BY <1>1 DEF LaneInv, Idle, Upkeep!Gate, Upkeep!Summarize, Upkeep!Tick, Upkeep!vars
<1>2. CASE Upkeep!EndRead
  BY <1>2 DEF LaneInv, Idle, Upkeep!EndRead
<1>3. ASSUME NEW a \in Upkeep!Action, Upkeep!Submit(a) PROVE LaneInv' /\ reader = none
  BY <1>3, Lane DEF LaneInv, Upkeep!Submit
<1>4. ASSUME NEW a \in Upkeep!Action, Upkeep!UpstreamFails(a) \/ Upkeep!TimeOut(a)
      PROVE  LaneInv' /\ UNCHANGED snapshots
  BY <1>4 DEF LaneInv, Idle, Upkeep!UpstreamFails, Upkeep!TimeOut
<1>5. ASSUME NEW a \in Upkeep!Action, Upkeep!Execute(a)
      PROVE  LaneInv' /\ (reader # none => Upkeep!Outlived)
  BY <1>5 DEF LaneInv, Idle, Upkeep!Execute, Upkeep!Outlived
<1>6. ASSUME NEW t \in Table, Upkeep!BeginRead(t) PROVE LaneInv' /\ reader = none
  BY <1>6, Lane DEF LaneInv, Idle, Upkeep!BeginRead
<1>7. ASSUME NEW t \in Table, Upkeep!Commit(t)
      PROVE  LaneInv' /\ \A u \in Table : snapshots[u] \subseteq snapshots'[u]
  BY <1>7 DEF LaneInv, Idle, Upkeep!Commit
<1>8. reader # none => reader.table \in Table
  BY DEF LaneInv
<1>9. QED
  BY <1>1, <1>2, <1>3, <1>4, <1>5, <1>6, <1>7, <1>8 DEF Upkeep!Next, Upkeep!Gate, Upkeep!Summarize, Upkeep!Tick,
     Upkeep!EndRead, Upkeep!vars

(***************************************************************************)
(* The snapshot that a transform reads is not expired under it, whichever  *)
(* operation of whichever table is submitted, fails or times out, unless a *)
(* statement has outlived its task (weather_iceberg_maintenance.py).       *)
(***************************************************************************)
THEOREM ReadersKeepTheirs == Upkeep!Spec => ReaderKeepsItsSnapshot
<1>1. Upkeep!Init => LaneInv
  BY DEF Upkeep!Init, LaneInv
<1>2. LaneInv /\ [Upkeep!Next]_Upkeep!vars =>
        /\ LaneInv'
        /\ [reader # none /\ reader' = reader /\ ~Upkeep!Outlived =>
              {s \in snapshots[reader.table] : s.n = reader.n} \subseteq snapshots'[reader.table]]_Upkeep!vars
  BY LaneSteps
<1>3. QED
  BY <1>1, <1>2, PTL DEF Upkeep!Spec, ReaderKeepsItsSnapshot, Upkeep!ReaderKeepsItsSnapshot

-----------------------------------------------------------------------------
(***************************************************************************)
(* The watchdog.                                                           *)
(***************************************************************************)

LEMMA LeastOf ==
  ASSUME NEW S, S \subseteq Nat, S # {}
  PROVE  Dog!Min(S) \in S /\ \A y \in S : Dog!Min(S) <= y
<1>1. PICK x \in S : \A y \in S : ~(<<y, x>> \in OpToRel(<, Nat))
  BY NatLessThanWellFounded, WFMin
<1>2. OpToRel(<, Nat) = {ss \in Nat \X Nat : ss[1] < ss[2]}
  BY Zenon DEF OpToRel
<1>3. ASSUME NEW y \in S PROVE x <= y
  <2>1. <<y, x>> \notin {ss \in Nat \X Nat : ss[1] < ss[2]}
    BY <1>1, <1>2, Zenon
  <2>2. <<y, x>> \in Nat \X Nat
    OBVIOUS
  <2>3. ~(<<y, x>>[1] < <<y, x>>[2])
    BY <2>1, <2>2, Zenon
  <2>4. QED
    BY <2>3
<1>4. QED
  BY <1>3 DEF Dog!Min

\* What the watchdog relies on: instants are minutes, and a try that has read
\* its evidence was begun no earlier than its schedule.
Minutes ==
  /\ now \in Nat
  /\ served.stamp \in Nat
  /\ pub.at \in {"idle", "staged", "active"}
  /\ pub.at = "staged" => pub.stamp \in Nat
  /\ pub.at = "active" => previous.catalog.stamp \in Nat

Watching ==
  /\ watch = [at |-> watch.at, hour |-> watch.hour, try |-> watch.try, checked |-> watch.checked,
              seen |-> watch.seen]
  /\ watch.hour \in Nat
  /\ watch.at = "evidence" =>
       /\ watch.checked \in Nat /\ watch.checked >= watch.hour * 60 + 35
       /\ watch.seen.catalog.stamp \in Nat

WatchInv == Minutes /\ Watching

LEMMA NextIsMinute == ASSUME now \in Nat PROVE Dog!NextMoment \in Nat
<1>1. Moments \subseteq Nat /\ Moments # {}
  BY DogAssumption DEF Dog!WatchAssumption, Dog!Hour
<1>2. Dog!HourOf(now) \in Nat
  BY DEF Dog!HourOf, Dog!Hour
<1>3. Dog!Min(Moments) \in Nat
  BY <1>1, LeastOf
<1>4. ASSUME NEW S, S = {t \in Moments : t > Dog!Minute}, S # {} PROVE Dog!Min(S) \in Nat
  BY <1>1, <1>4, LeastOf
<1>5. QED
  BY <1>2, <1>3, <1>4 DEF Dog!NextMoment, Dog!Hour

\* The end of a try forgets what it has seen.
LEMMA ConcludedKeeps ==
  ASSUME Watching, NEW ok \in BOOLEAN, Dog!Concluded(ok)
  PROVE  Watching'
<1>1. CASE watch' = Dog!NoWatch(watch.hour + 1, 1)
  BY <1>1 DEF Watching, Dog!NoWatch
<1>2. CASE watch' = [watch EXCEPT !.at = "wait", !.try = @ + 1, !.seen = None]
  <2>1. watch' = [at |-> "wait", hour |-> watch.hour, try |-> watch.try + 1, checked |-> watch.checked,
                  seen |-> None]
    BY <1>2 DEF Watching
  <2>2. QED
    BY <2>1 DEF Watching
<1>3. QED
  BY <1>1, <1>2 DEF Dog!Concluded

LEMMA WatchNext == WatchInv /\ [Dog!Next]_(Dog!vars) => WatchInv'
<1> SUFFICES ASSUME WatchInv, [Dog!Next]_(Dog!vars) PROVE WatchInv'
  OBVIOUS
<1>1. CASE UNCHANGED Dog!vars
  BY <1>1 DEF WatchInv, Minutes, Watching, Dog!vars
<1>2. CASE Dog!Collect
  BY <1>2 DEF WatchInv, Minutes, Watching, Dog!Collect, Dog!d1
<1>3. CASE Dog!StartPublication
  <2>1. pub'.at = "staged" /\ pub'.stamp = now
    BY <1>3 DEF Dog!StartPublication
  <2>2. QED
    BY <1>3, <2>1 DEF WatchInv, Minutes, Watching, Dog!StartPublication, Dog!d1
<1>4. CASE Dog!Refuse \/ Dog!Complete
  <2>1. pub'.at = "idle"
    BY <1>4 DEF Dog!Refuse, Dog!Complete, Dog!NoPub
  <2>2. QED
    BY <1>4, <2>1 DEF WatchInv, Minutes, Watching, Dog!Refuse, Dog!Complete, Dog!d1
<1>5. CASE Dog!Activate
  <2>1. pub' = [pub EXCEPT !.at = "active"] /\ served'.stamp = pub.stamp /\ pub.at = "staged"
    BY <1>5 DEF Dog!Activate
  <2>2. previous'.catalog = served
    BY <1>5 DEF Dog!Activate, Dog!Active
  <2>3. pub'.at \in {"active", pub.at}
    BY <2>1
  <2>4. QED
    BY <1>5, <2>1, <2>2, <2>3 DEF WatchInv, Minutes, Watching, Dog!Activate
<1>6. CASE Dog!Abandon
  <2>1. pub'.at = "idle"
    BY <1>6 DEF Dog!Abandon, Dog!NoPub
  <2>2. served'.stamp \in Nat
    BY <1>6 DEF Dog!Abandon, WatchInv, Minutes
  <2>3. QED
    BY <1>6, <2>1, <2>2 DEF WatchInv, Minutes, Watching, Dog!Abandon
<1>7. CASE Dog!ReadEvidence
  <2>1. watch' = [at |-> "evidence", hour |-> watch.hour, try |-> watch.try, checked |-> now,
                  seen |-> [catalog |-> served, quality |-> quality]]
    BY <1>7 DEF Dog!ReadEvidence, WatchInv, Watching
  <2>2. now >= watch.hour * 60 + 35 /\ UNCHANGED <<now, served, pub, previous>>
    BY <1>7 DEF Dog!ReadEvidence, Dog!Hour, Dog!At, Dog!d1
  <2>3. QED
    BY <2>1, <2>2 DEF WatchInv, Minutes, Watching
<1>8. CASE Dog!Judge \/ Dog!ReadFails
  <2>1. Watching'
    BY <1>8, ConcludedKeeps DEF Dog!Judge, Dog!ReadFails, WatchInv
  <2>2. UNCHANGED <<now, served, pub, previous>>
    BY <1>8 DEF Dog!Judge, Dog!ReadFails, Dog!d1
  <2>3. QED
    BY <2>1, <2>2 DEF WatchInv, Minutes
<1>9. CASE Dog!Tick
  BY <1>9, NextIsMinute DEF WatchInv, Minutes, Watching, Dog!Tick, Dog!d1
<1>10. QED
  BY <1>1, <1>2, <1>3, <1>4, <1>5, <1>6, <1>7, <1>8, <1>9 DEF Dog!Next

LEMMA MinuteOf ==
  ASSUME NEW s \in Nat, NEW k \in Int, s >= 60 * k + 30, s < 60 * k + 60
  PROVE  s % 60 = s - 60 * k
OBVIOUS

\* A run that ends well has found a publication that began in this hour, or so
\* late in the one before that it was no normal one, with its own quality row
\* and, on the atomic path, its own query availability.
LEMMA GreenIsFresh ==
  ASSUME WatchInv, Dog!Next, verdict' = "green", verdict # "green"
  PROVE  /\ watch.seen.catalog.stamp >= watch.hour * Dog!Hour \/ watch.seen.catalog.stamp % Dog!Hour > Dog!Latest
         /\ watch.seen.quality.id = watch.seen.catalog.id
         /\ kind = "atomic" => sidecar.id = watch.seen.catalog.id
<1>1. watch.at = "evidence" /\ Dog!Issues(watch.seen) = {}
  <2>1. Dog!Judge
    BY DEF Dog!Next, Dog!Collect, Dog!StartPublication, Dog!Refuse, Dog!Activate, Dog!Complete, Dog!Abandon,
           Dog!ReadEvidence, Dog!ReadFails, Dog!Tick, Dog!Concluded
  <2>2. QED
    BY <2>1 DEF Dog!Judge, Dog!Concluded
<1> DEFINE seen == watch.seen
<1>2. /\ "publication_id_mismatch" \notin Dog!Issues(seen)
      /\ "publication_interval_breached" \notin Dog!Issues(seen)
      /\ "query_availability_publication_mismatch" \notin Dog!Issues(seen)
  BY <1>1
<1>3. seen.quality.id = seen.catalog.id
  BY <1>2 DEF Dog!Issues
<1>4. ~(Dog!Age(seen.catalog.stamp) > Dog!Hour + Dog!Grace)
  BY <1>2 DEF Dog!Issues
<1>5. kind = "atomic" => Dog!HasSidecar(seen)
  BY <1>2 DEF Dog!Issues
<1>6. /\ watch.checked \in Nat /\ watch.hour \in Nat /\ seen.catalog.stamp \in Nat
      /\ watch.checked >= watch.hour * 60 + 35
      /\ watch.checked - seen.catalog.stamp <= 65
  BY <1>1, <1>4 DEF WatchInv, Watching, Dog!Age, Dog!Hour, Dog!Grace
<1>7. seen.catalog.stamp >= watch.hour * 60 \/ seen.catalog.stamp % 60 > 28
  <2>1. ASSUME NEW s \in Nat, NEW h \in Nat, s < h * 60, s >= h * 60 - 30 PROVE s % 60 > 28
    <3>1. PICK k \in Int : k = h - 1
      OBVIOUS
    <3>2. s \in Nat /\ s >= 60 * k + 30 /\ s < 60 * k + 60
      BY <2>1, <3>1
    <3>3. s % 60 = s - 60 * k
      BY <3>2, MinuteOf
    <3>4. QED
      BY <3>2, <3>3
  <2>2. QED
    BY <1>6, <2>1
<1>8. QED
  BY <1>3, <1>5, <1>7 DEF Dog!HasSidecar, Dog!Hour, Dog!Latest

\* "While still detecting one missed hourly cycle": for any moments, hours,
\* faults and retries.
THEOREM MissedCycleReported == Dog!Spec => MissedCycleIsReported
<1>1. Dog!Init => WatchInv
  BY DEF Dog!Init, WatchInv, Minutes, Watching, Dog!NoPub, Dog!NoWatch, Dog!Hour
<1>2. WatchInv /\ [Dog!Next]_(Dog!vars) =>
        [verdict' = "green" /\ verdict # "green" =>
          /\ watch.seen.catalog.stamp >= watch.hour * Dog!Hour \/ watch.seen.catalog.stamp % Dog!Hour > Dog!Latest
          /\ watch.seen.quality.id = watch.seen.catalog.id
          /\ kind = "atomic" => sidecar.id = watch.seen.catalog.id]_(Dog!vars)
  BY GreenIsFresh
<1>3. QED
  BY <1>1, <1>2, WatchNext, PTL DEF Dog!Spec, MissedCycleIsReported, Dog!MissedCycleIsReported

-----------------------------------------------------------------------------
\* The watchdog is quiet: the clock, the forecasts, the publication and the try
\* while everything is in time.
Clock ==
  /\ Dog!HourOf(now) \in Nat
  /\ Dog!Minute \in Moments \union {0}
  /\ now = 60 * Dog!HourOf(now) + Dog!Minute

LEMMA Clocked ==
  ASSUME NEW k \in Int, NEW m \in 0..59, NEW t, t = 60 * k + m
  PROVE  t % 60 = m /\ t \div 60 = k
OBVIOUS

LEMMA SomeMoments == Moments \subseteq 0..59 /\ \E m, n \in Moments : 35 <= m /\ m + 5 <= n
BY DogAssumption DEF Dog!WatchAssumption, Dog!Hour, Dog!At, Dog!RetryDelay

\* The next moment, of this hour or, after its last one, of the next.
LEMMA TickMoves ==
  ASSUME Clock, now' = Dog!NextMoment
  PROVE  /\ Clock'
         /\ \/ /\ Dog!HourOf(now)' = Dog!HourOf(now)
               /\ Dog!Minute' > Dog!Minute
               /\ \A y \in Moments : y > Dog!Minute => Dog!Minute' <= y
            \/ /\ Dog!HourOf(now)' = Dog!HourOf(now) + 1
               /\ Dog!Minute = Dog!Max(Moments)
               /\ \A y \in Moments : y <= Dog!Minute /\ Dog!Minute' <= y
<1> DEFINE later == {m \in Moments : m > Dog!Minute}
<1>1. Moments \subseteq 0..59 /\ Moments # {} /\ Moments \subseteq Nat
  BY SomeMoments
<1>2. CASE later # {}
  <2>1. PICK n : n = Dog!Min(later)
    OBVIOUS
  <2>2. n \in later /\ \A y \in later : n <= y
    BY <1>1, <1>2, <2>1, LeastOf
  <2>3. PICK k \in Nat : k = Dog!HourOf(now)
    BY DEF Clock
  <2>4. now' = 60 * k + n
    BY <1>1, <1>2, <2>1, <2>2, <2>3 DEF Dog!NextMoment, Dog!Hour
  <2>5. now' % 60 = n /\ now' \div 60 = k
    <3>1. n \in 0..59
      BY <1>1, <2>2
    <3>2. QED
      BY <2>4, <3>1, Clocked
  <2>6. Dog!HourOf(now)' = k /\ Dog!Minute' = n
    BY <2>5 DEF Dog!HourOf, Dog!Minute, Dog!Hour
  <2>7. QED
    BY <2>2, <2>3, <2>4, <2>6 DEF Clock
<1>3. CASE later = {}
  <2>1. PICK n : n = Dog!Min(Moments)
    OBVIOUS
  <2>2. n \in Moments /\ \A y \in Moments : n <= y
    BY <1>1, <2>1, LeastOf
  <2>3. PICK k \in Nat : k = Dog!HourOf(now)
    BY DEF Clock
  <2>4. now' = 60 * (k + 1) + n
    BY <1>1, <1>3, <2>1, <2>2, <2>3 DEF Dog!NextMoment, Dog!Hour
  <2>5. now' % 60 = n /\ now' \div 60 = k + 1
    <3>1. n \in 0..59
      BY <1>1, <2>2
    <3>2. QED
      BY <2>4, <3>1, Clocked
  <2>6. Dog!HourOf(now)' = k + 1 /\ Dog!Minute' = n
    BY <2>5 DEF Dog!HourOf, Dog!Minute, Dog!Hour
  <2>7. Dog!Minute \in Nat /\ \A y \in Moments : y <= Dog!Minute
    BY <1>1, <1>3 DEF Clock
  <2>8. Dog!Minute \in Moments
    BY <1>1, <2>7, SomeMoments DEF Clock
  <2>9. Dog!Minute = Dog!Max(Moments)
    <3>1. PICK x : x = Dog!Max(Moments)
      OBVIOUS
    <3>2. x \in Moments /\ \A y \in Moments : x >= y
      BY <2>7, <2>8, <3>1 DEF Dog!Max
    <3>3. QED
      BY <1>1, <2>7, <2>8, <3>1, <3>2
  <2>10. QED
    BY <2>2, <2>3, <2>4, <2>6, <2>7, <2>9 DEF Clock
<1>4. QED
  BY <1>2, <1>3

\* The newest forecast is of one of the last three hours.
Forecasts ==
  /\ collected \in Nat /\ gold \in Nat
  /\ Dog!HourOf(collected) \in Nat /\ Dog!HourOf(collected) % 3 = 0
  /\ Dog!HourOf(now) <= Dog!HourOf(collected) + 3
  /\ 60 * Dog!HourOf(collected) <= collected /\ collected <= now
  /\ 60 * (Dog!HourOf(now) - 3) <= gold /\ gold <= now

\* What was published in hour h.
Recent(h, fresh) == fresh \in Nat /\ 60 * (h - 3) <= fresh /\ fresh <= now

Published(h) ==
  /\ served = [id |-> h, stamp |-> served.stamp, fresh |-> served.fresh]
  /\ quality = [id |-> h, fresh |-> served.fresh]
  /\ kind = "atomic" => sidecar = [id |-> h, fresh |-> served.fresh]
  /\ served.stamp \in Nat /\ 60 * h <= served.stamp /\ served.stamp <= now
  /\ Recent(h, served.fresh)

Publishing ==
  /\ pub.hour \in Int /\ pub.hour <= Dog!HourOf(now)
  /\ pub.at \in {"idle", "staged", "active"}
  /\ pub.at # "idle" =>
       /\ pub.hour \in Nat /\ pub.id = pub.hour
       /\ pub.stamp \in Nat /\ 60 * pub.hour <= pub.stamp /\ pub.stamp <= now
       /\ Recent(pub.hour, pub.fresh)
  /\ pub.at = "active" =>
       /\ served = [id |-> pub.id, stamp |-> pub.stamp, fresh |-> pub.fresh]
       /\ kind = "atomic" => sidecar = [id |-> pub.id, fresh |-> pub.fresh]
  /\ pub.at = "idle" /\ pub.hour >= 0 => Published(pub.hour)

\* The publication of this hour is over.
Done == pub.at = "idle" /\ pub.hour = Dog!HourOf(now)

\* Both tries fall in their hour, the second one after a moment at which the
\* publication had to be over.
Trying ==
  /\ watch.at \in {"wait", "evidence"} /\ watch.try \in {1, 2}
  /\ watch.hour <= Hours =>
       /\ Dog!HourOf(now) <= watch.hour
       /\ watch.try = 1 /\ Dog!HourOf(now) = watch.hour =>
            \A m \in Moments : m >= 35 => Dog!Minute <= m
       /\ watch.try = 2 \/ watch.at = "evidence" => Dog!HourOf(now) = watch.hour /\ Dog!Minute >= 35
       /\ watch.at = "evidence" => watch.checked = now
       /\ watch.at = "wait" /\ watch.try = 2 =>
            /\ watch.checked \in Nat /\ watch.checked <= now
            /\ \A m \in Moments : m >= 35 => watch.checked <= 60 * watch.hour + m
            /\ \A n \in Moments : 60 * watch.hour + n >= watch.checked + 5 => Dog!Minute <= n
            /\ normal /\ watch.checked < now => Done
       /\ watch.at = "evidence" /\ watch.try = 2 /\ normal =>
            Done /\ watch.seen = [catalog |-> served, quality |-> quality]
  /\ watch.at = "evidence" => watch.hour <= Hours

QuietInv == WatchInv /\ Clock /\ (normal => Forecasts /\ Publishing) /\ Trying /\ normal \in BOOLEAN /\ NormalIsQuiet

\* Who moves the clock, and who ends what is normal.
LEMMA NormalSteps ==
  ASSUME Dog!Next, normal \in BOOLEAN
  PROVE  /\ normal' \in BOOLEAN /\ (normal' => normal)
         /\ ~Dog!Tick => UNCHANGED <<now, gold>>
         /\ ~Dog!Tick /\ ~Dog!Collect => UNCHANGED collected
<1>1. CASE Dog!Tick
  <2>1. normal' = (normal /\ Dog!InTime)
    BY <1>1 DEF Dog!Tick
  <2>2. QED
    BY <1>1, <2>1, Zenon
<1>2. CASE Dog!ReadFails
  <2>1. normal' = (normal /\ watch.try = 1) /\ UNCHANGED <<now, gold, collected>>
    BY <1>2 DEF Dog!ReadFails, Dog!upstream
  <2>2. QED
    BY <2>1, Zenon
<1>3. CASE Dog!Collect
  BY <1>3 DEF Dog!Collect
<1>4. CASE ~Dog!Tick /\ ~Dog!ReadFails /\ ~Dog!Collect
  <2>1. (normal' = normal \/ normal' = FALSE) /\ now' = now /\ gold' = gold /\ collected' = collected
    BY <1>4 DEF Dog!Next, Dog!StartPublication, Dog!Refuse, Dog!Activate, Dog!Complete, Dog!Abandon,
                Dog!ReadEvidence, Dog!Judge, Dog!upstream
  <2>2. CASE normal' = normal
    BY <1>4, <2>1, <2>2
  <2>3. CASE normal' = FALSE
    BY <1>4, <2>1, <2>3
  <2>4. QED
    BY <2>1, <2>2, <2>3
<1>5. QED
  BY <1>1, <1>2, <1>3, <1>4

LEMMA Sixty == ASSUME NEW k \in Nat, NEW m \in Nat PROVE 60 * k + m \in Nat /\ 60 * (k + 1) + m \in Nat
OBVIOUS

LEMMA ForecastsNext ==
  ASSUME Clock, Forecasts, normal, normal', Dog!Next, Clock', normal \in BOOLEAN
  PROVE  Forecasts'
<1>1. CASE Dog!Collect
  <2>1. collected' = now /\ Dog!HourOf(now) % 3 = 0 /\ UNCHANGED <<now, gold>>
    BY <1>1 DEF Dog!Collect, Dog!Period
  <2>2. Dog!HourOf(collected)' = Dog!HourOf(now) /\ Dog!HourOf(now)' = Dog!HourOf(now)
    BY <2>1 DEF Dog!HourOf
  <2>3. PICK h \in Nat : h = Dog!HourOf(now)
    BY DEF Clock
  <2>4. now \in Nat /\ 60 * h <= now
    BY <2>3, SomeMoments DEF Clock
  <2>5. QED
    BY <2>1, <2>2, <2>3, <2>4 DEF Forecasts
<1>2. CASE Dog!Tick
  <2>1. /\ now' = Dog!NextMoment /\ collected' = collected
        /\ gold' = IF Dog!HourOf(now)' > Dog!HourOf(now) THEN collected ELSE gold
        /\ Dog!HourOf(now) % 3 = 0 /\ Dog!Minute = Dog!Max(Moments) => Dog!HourOf(collected) = Dog!HourOf(now)
    BY <1>2 DEF Dog!Tick, Dog!InTime, Dog!Period, Dog!HourOf
  <2>2. Dog!HourOf(collected)' = Dog!HourOf(collected)
    BY <2>1 DEF Dog!HourOf
  <2>3. PICK h \in Nat : h = Dog!HourOf(now)
    BY DEF Clock
  <2>4. PICK c \in Nat : c = Dog!HourOf(collected)
    BY DEF Forecasts
  <2>5. c % 3 = 0 /\ h <= c + 3 /\ 60 * c <= collected /\ collected <= now /\ collected \in Nat /\ gold \in Nat
        /\ 60 * (h - 3) <= gold /\ gold <= now
    BY <2>3, <2>4 DEF Forecasts
  <2>6. now = 60 * h + Dog!Minute /\ Dog!Minute \in Nat /\ Dog!Minute < 60
    BY <2>3, SomeMoments DEF Clock
  <2>7. CASE Dog!HourOf(now)' = Dog!HourOf(now) /\ Dog!Minute' > Dog!Minute
    <3>1. now' = 60 * h + Dog!Minute' /\ Dog!Minute' \in Nat
      BY <2>3, <2>7, SomeMoments DEF Clock
    <3>2. gold' = gold /\ now <= now'
      BY <2>1, <2>3, <2>6, <2>7, <3>1
    <3>3. now \in Nat /\ now' \in Nat
      BY <2>6, <3>1, Sixty
    <3>4. QED
      BY <2>1, <2>2, <2>3, <2>4, <2>5, <2>7, <3>2, <3>3 DEF Forecasts
  <2>8. CASE Dog!HourOf(now)' = Dog!HourOf(now) + 1 /\ Dog!Minute = Dog!Max(Moments)
    <3>1. now' = 60 * (h + 1) + Dog!Minute' /\ Dog!Minute' \in Nat
      BY <2>3, <2>8, SomeMoments DEF Clock
    <3>2. gold' = collected /\ now <= now'
      BY <2>1, <2>3, <2>6, <2>8, <3>1
    <3>3. now \in Nat /\ now' \in Nat
      BY <2>6, <3>1, Sixty
    <3>4. h # c + 3
      <4>1. ASSUME h = c + 3 PROVE h % 3 = 0
        BY <2>5, <4>1
      <4>2. QED
        BY <2>1, <2>3, <2>4, <2>8, <4>1
    <3>5. QED
      BY <2>1, <2>2, <2>3, <2>4, <2>5, <2>8, <3>2, <3>3, <3>4 DEF Forecasts
  <2>9. QED
    BY <2>1, <2>7, <2>8, TickMoves
<1>3. CASE ~Dog!Collect /\ ~Dog!Tick
  BY <1>3, NormalSteps DEF Forecasts, Dog!HourOf
<1>4. QED
  BY <1>1, <1>2, <1>3

\* Nothing that was published becomes unpublished as time passes.
LEMMA LaterStill ==
  ASSUME NEW h \in Int, Published(h), now \in Nat, now' \in Nat, now <= now',
         UNCHANGED <<kind, served, quality, sidecar>>
  PROVE  Published(h)'
BY DEF Published, Recent

LEMMA PublishingNext ==
  ASSUME Clock, Clock', Forecasts, Publishing, WatchInv, normal, normal', normal \in BOOLEAN, Dog!Next
  PROVE  Publishing'
<1>0. PICK h \in Nat : h = Dog!HourOf(now)
  BY DEF Clock
<1>1. now \in Nat /\ 60 * h <= now
  BY <1>0, SomeMoments DEF Clock
<1>2. ASSUME ~Dog!Tick PROVE now' = now /\ Dog!HourOf(now)' = h
  BY <1>0, <1>2, NormalSteps DEF Dog!HourOf
<1>3. CASE Dog!Tick
  <2>1. UNCHANGED <<kind, pub, served, quality, sidecar>>
    BY <1>3 DEF Dog!Tick, Dog!d1
  <2>2. now' = Dog!NextMoment
    BY <1>3 DEF Dog!Tick
  <2>3. PICK h2 \in Nat : h2 = Dog!HourOf(now)'
    BY DEF Clock
  <2>4. PICK m \in 0..59 : m = Dog!Minute
    BY SomeMoments DEF Clock
  <2>5. PICK m2 \in 0..59 : m2 = Dog!Minute'
    BY SomeMoments DEF Clock
  <2>6. now = 60 * h + m /\ now' = 60 * h2 + m2
    BY <1>0, <2>3, <2>4, <2>5 DEF Clock
  <2>7. (h2 = h /\ m2 > m) \/ h2 = h + 1
    BY <1>0, <2>2, <2>3, <2>4, <2>5, TickMoves
  <2>8. now' \in Nat /\ now <= now' /\ h <= h2
    BY <2>6, <2>7
  <2>9. pub.at = "idle" /\ pub.hour >= 0 => Published(pub.hour)'
    BY <1>1, <2>1, <2>8, LaterStill DEF Publishing
  <2>10. pub.at # "idle" => Recent(pub.hour, pub.fresh)'
    BY <1>1, <2>1, <2>8 DEF Publishing, Recent
  <2>11. QED
    BY <1>0, <1>1, <2>1, <2>3, <2>8, <2>9, <2>10 DEF Publishing
<1>4. CASE Dog!StartPublication
  <2>1. PICK fresh \in {gold, collected} :
          pub' = [at |-> "staged", id |-> h, stamp |-> now, fresh |-> fresh, hour |-> h]
    BY <1>0, <1>4 DEF Dog!StartPublication
  <2>2. fresh \in Nat /\ 60 * (h - 3) <= fresh /\ fresh <= now
    <3>1. PICK c \in Nat : c = Dog!HourOf(collected)
      BY DEF Forecasts
    <3>2. h <= c + 3 /\ 60 * c <= collected /\ collected <= now /\ collected \in Nat /\ gold \in Nat
          /\ 60 * (h - 3) <= gold /\ gold <= now
      BY <1>0, <3>1 DEF Forecasts
    <3>3. QED
      BY <3>1, <3>2
  <2>3. QED
    BY <1>0, <1>1, <1>2, <1>4, <2>1, <2>2 DEF Publishing, Recent, Dog!Tick, Dog!StartPublication
<1>5. CASE Dog!Refuse \/ Dog!Abandon
  BY <1>5 DEF Dog!Refuse, Dog!Abandon
<1>6. CASE Dog!Activate
  <2>1. pub.at = "staged" /\ pub' = [pub EXCEPT !.at = "active"]
    BY <1>6 DEF Dog!Activate
  <2>2. /\ served' = [id |-> pub.id, stamp |-> pub.stamp, fresh |-> pub.fresh]
        /\ kind = "atomic" => sidecar' = [id |-> pub.id, fresh |-> pub.fresh]
        /\ kind' = kind /\ now' = now
    BY <1>6 DEF Dog!Activate
  <2>3. pub'.hour = pub.hour /\ pub'.id = pub.id /\ pub'.stamp = pub.stamp /\ pub'.fresh = pub.fresh
    BY <2>1
  <2>4. pub'.at = "active"
    BY <2>1 DEF Publishing
  <2>5. QED
    BY <1>0, <2>1, <2>2, <2>3, <2>4 DEF Publishing, Recent, Dog!HourOf
<1>7. CASE Dog!Complete
  <2>1. pub.at = "active" /\ UNCHANGED <<now, kind, served, sidecar>>
    BY <1>7 DEF Dog!Complete
  <2>2. quality' = [id |-> pub.id, fresh |-> pub.fresh]
    BY <1>7 DEF Dog!Complete
  <2>3. pub'.at = "idle" /\ pub'.hour = pub.hour
    BY <1>7 DEF Dog!Complete, Dog!NoPub
  <2>4. /\ pub.hour \in Nat /\ pub.id = pub.hour
        /\ served = [id |-> pub.hour, stamp |-> pub.stamp, fresh |-> pub.fresh]
        /\ kind = "atomic" => sidecar = [id |-> pub.hour, fresh |-> pub.fresh]
        /\ pub.stamp \in Nat /\ 60 * pub.hour <= pub.stamp /\ pub.stamp <= now
        /\ Recent(pub.hour, pub.fresh)
    BY <2>1 DEF Publishing
  <2>5. served.fresh = pub.fresh /\ served.stamp = pub.stamp
    BY <2>4
  <2>6. Published(pub.hour)'
    BY <2>1, <2>2, <2>3, <2>4, <2>5 DEF Published, Recent
  <2>7. QED
    BY <1>0, <2>1, <2>3, <2>4, <2>6 DEF Publishing, Dog!HourOf
<1>8. CASE Dog!Collect \/ Dog!ReadEvidence \/ Dog!Judge \/ Dog!ReadFails
  <2>1. UNCHANGED <<now, kind, pub, served, quality, sidecar>>
    BY <1>8 DEF Dog!Collect, Dog!ReadEvidence, Dog!Judge, Dog!ReadFails, Dog!d1
  <2>2. QED
    BY <2>1 DEF Publishing, Published, Recent, Dog!HourOf
<1>9. QED
  BY <1>3, <1>4, <1>5, <1>6, <1>7, <1>8 DEF Dog!Next

\* Once it is over, the publication of an hour leaves the rest of it alone.
LEMMA DoneStays ==
  ASSUME Clock, Done, Dog!Next, ~Dog!Tick
  PROVE  UNCHANGED <<pub, served, quality, sidecar>>
<1>1. ~(pub.hour < Dog!HourOf(now)) /\ pub.at = "idle"
  BY DEF Done, Clock
<1>2. ~Dog!StartPublication /\ ~Dog!Refuse /\ ~Dog!Activate /\ ~Dog!Complete /\ ~Dog!Abandon
  BY <1>1 DEF Dog!StartPublication, Dog!Refuse, Dog!Activate, Dog!Complete, Dog!Abandon
<1>3. QED
  BY <1>2 DEF Dog!Next, Dog!Collect, Dog!ReadEvidence, Dog!Judge, Dog!ReadFails, Dog!d1

LEMMA TickTries ==
  ASSUME WatchInv, Clock, Clock', Trying, normal \in BOOLEAN, Dog!Tick
  PROVE  Trying'
<1>1. /\ watch.at = "wait" /\ watch' = watch /\ pub' = pub /\ now' = Dog!NextMoment
      /\ watch.hour <= Hours => now < watch.hour * 60 + 35 \/ (watch.try > 1 /\ now < watch.checked + 5)
  BY DEF Dog!Tick, Dog!Hour, Dog!At, Dog!RetryDelay
<1>2. normal' => (Dog!Minute >= 28 => Done)
  <2>1. normal' = (normal /\ Dog!InTime)
    BY DEF Dog!Tick
  <2>2. normal' => Dog!InTime
    BY <2>1
  <2>3. QED
    BY <2>2 DEF Dog!InTime, Dog!Latest, Done
<1>3. PICK h \in Nat, h2 \in Nat : h = Dog!HourOf(now) /\ h2 = Dog!HourOf(now)'
  BY DEF Clock
<1>4. PICK m \in 0..59, m2 \in 0..59 : m = Dog!Minute /\ m2 = Dog!Minute'
  BY SomeMoments DEF Clock
<1>5. now = 60 * h + m /\ now' = 60 * h2 + m2
  BY <1>3, <1>4 DEF Clock
<1>6. \/ h2 = h /\ m2 > m /\ \A y \in Moments : y > m => m2 <= y
      \/ h2 = h + 1 /\ \A y \in Moments : y <= m /\ m2 <= y
  BY <1>1, <1>3, <1>4, TickMoves
<1>7. PICK a \in Moments, b \in Moments : 35 <= a /\ a + 5 <= b
  BY SomeMoments
<1>8. a \in 0..59 /\ b \in 0..59 /\ Moments \subseteq 0..59 /\ watch.hour \in Nat
  BY SomeMoments DEF WatchInv, Watching
<1>9. ASSUME watch.hour <= Hours, watch.try = 1
      PROVE  /\ h2 <= watch.hour
             /\ h2 = watch.hour => \A y \in Moments : y >= 35 => m2 <= y
  <2>1. h <= watch.hour /\ now < 60 * watch.hour + 35
    BY <1>1, <1>3, <1>8, <1>9 DEF Trying
  <2>2. h = watch.hour => m < 35
    BY <1>5, <1>8, <2>1
  <2>3. QED
    BY <1>6, <1>7, <1>8, <2>1, <2>2
<1>10. ASSUME watch.hour <= Hours, watch.try = 2
       PROVE  /\ h2 = watch.hour /\ h2 = h /\ m2 >= 35 /\ m >= 35 /\ now < now'
              /\ \A n \in Moments : 60 * watch.hour + n >= watch.checked + 5 => m2 <= n
  <2>1. /\ h = watch.hour /\ m >= 35 /\ watch.checked \in Nat /\ watch.checked <= 60 * h + a
    BY <1>1, <1>3, <1>4, <1>7, <1>10 DEF Trying
  <2>2. now < watch.checked + 5
    BY <1>1, <1>5, <1>8, <1>10, <2>1
  <2>3. 60 * h + b >= watch.checked + 5 /\ b > m
    BY <1>5, <1>7, <1>8, <2>1, <2>2
  <2>4. h2 = h /\ m2 > m /\ \A y \in Moments : y > m => m2 <= y
    BY <1>6, <1>8, <2>3
  <2>5. ASSUME NEW n \in Moments, 60 * h + n >= watch.checked + 5 PROVE m2 <= n
    BY <1>5, <1>8, <2>1, <2>2, <2>4, <2>5
  <2>6. QED
    BY <1>5, <1>8, <2>1, <2>4, <2>5
<1>11. QED
  <2>1. watch.try \in {1, 2}
    BY DEF Trying
  <2>2. CASE watch.try = 1
    BY <1>1, <1>3, <1>4, <1>9, <2>2 DEF Trying
  <2>3. CASE watch.try = 2
    <3>1. watch.hour <= Hours /\ normal' => Done'
      BY <1>1, <1>2, <1>3, <1>4, <1>10, <2>3 DEF Done
    <3>2. watch.hour <= Hours => /\ watch.checked \in Nat /\ watch.checked <= now'
                                 /\ \A n \in Moments : n >= 35 => watch.checked <= 60 * watch.hour + n
      BY <1>1, <1>5, <1>8, <1>10, <2>3 DEF Trying
    <3>3. QED
      BY <1>1, <1>3, <1>4, <1>10, <2>3, <3>1, <3>2 DEF Trying
  <2>4. QED
    BY <2>1, <2>2, <2>3

\* What a second try has read leaves nothing to report.
LEMMA DoneIsClean ==
  ASSUME Clock, WatchInv, Publishing, Done, watch.checked = now,
         watch.seen = [catalog |-> served, quality |-> quality]
  PROVE  Dog!Issues(watch.seen) = {}
<1> DEFINE seen == watch.seen
<1>1. PICK h \in Nat : h = Dog!HourOf(now)
  BY DEF Clock
<1>2. PICK m \in 0..59 : m = Dog!Minute
  BY SomeMoments DEF Clock
<1>3. now = 60 * h + m
  BY <1>1, <1>2 DEF Clock
<1>4. pub.at = "idle" /\ pub.hour = h
  BY <1>1 DEF Done
<1>5. Published(h)
  BY <1>4 DEF Publishing
<1>6. /\ served.id = h /\ quality.id = h /\ quality.fresh = served.fresh
      /\ kind = "atomic" => sidecar.id = h /\ sidecar.fresh = served.fresh
  BY <1>5 DEF Published
<1>7. /\ served.stamp \in Nat /\ 60 * h <= served.stamp /\ served.stamp <= now
      /\ served.fresh \in Nat /\ 60 * (h - 3) <= served.fresh /\ served.fresh <= now
  BY <1>5 DEF Published, Recent
<1>8. PICK a \in 0..65, b \in 0..240 : a = now - served.stamp /\ b = now - served.fresh
  <2>1. PICK s \in Nat, f \in Nat : s = served.stamp /\ f = served.fresh
    BY <1>7
  <2>2. 60 * h <= s /\ s <= now /\ 60 * (h - 3) <= f /\ f <= now
    BY <1>7, <2>1
  <2>3. now - s \in 0..65 /\ now - f \in 0..240
    BY <1>3, <2>2
  <2>4. QED
    BY <2>1, <2>3
<1>9. seen.catalog = served /\ seen.quality = quality
  OBVIOUS
<1>10. /\ Dog!Age(seen.catalog.stamp) = a /\ Dog!Age(seen.quality.fresh) = b
       /\ kind = "atomic" => Dog!HasSidecar(seen) /\ Dog!Age(sidecar.fresh) = b
  BY <1>6, <1>8, <1>9 DEF Dog!Age, Dog!HasSidecar
<1>11. ~(b > Dog!Slo) /\ ~(a > Dog!Hour + Dog!Grace) /\ ~(a < 0) /\ ~(b < 0)
  BY DEF Dog!Slo, Dog!Hour, Dog!Grace
<1>12. QED
  BY <1>6, <1>9, <1>10, <1>11 DEF Dog!Issues

LEMMA ConcludedTries ==
  ASSUME WatchInv, Clock, Trying, watch.at = "evidence", NEW ok \in BOOLEAN, Dog!Concluded(ok),
         UNCHANGED <<now, pub, served, quality>>, normal' => normal
  PROVE  Trying'
<1>1. watch.hour \in Nat /\ watch.hour <= Hours /\ watch.try \in {1, 2} /\ Hours \in Nat
  BY DogAssumption DEF Trying, WatchInv, Watching, Dog!WatchAssumption
<1>2. PICK h \in Nat, m \in 0..59 : h = Dog!HourOf(now) /\ m = Dog!Minute /\ now = 60 * h + m
  BY SomeMoments DEF Clock
<1>3. Dog!HourOf(now)' = h /\ Dog!Minute' = m
  BY <1>2 DEF Dog!HourOf, Dog!Minute
<1>4. h = watch.hour /\ m >= 35 /\ watch.checked = now
  BY <1>1, <1>2 DEF Trying
<1>5. CASE watch' = Dog!NoWatch(watch.hour + 1, 1)
  <2>1. watch'.at = "wait" /\ watch'.try = 1 /\ watch'.hour = watch.hour + 1
    BY <1>5 DEF Dog!NoWatch
  <2>2. QED
    BY <1>1, <1>3, <1>4, <2>1 DEF Trying
<1>6. CASE watch.try = 1 /\ watch' = [watch EXCEPT !.at = "wait", !.try = watch.try + 1, !.seen = None]
  <2>1. watch' = [at |-> "wait", hour |-> watch.hour, try |-> 2, checked |-> now, seen |-> None]
    <3>1. watch = [at |-> watch.at, hour |-> watch.hour, try |-> watch.try, checked |-> watch.checked,
                   seen |-> watch.seen]
      BY DEF WatchInv, Watching
    <3>2. PICK n : n = watch.try + 1
      OBVIOUS
    <3>3. n = 2 /\ watch' = [watch EXCEPT !.at = "wait", !.try = n, !.seen = None]
      BY <1>6, <3>2
    <3>4. QED
      BY <1>4, <3>1, <3>3
  <2>2. \A y \in Moments : y >= 35 => m <= y
    BY <1>1, <1>2, <1>4, <1>6 DEF Trying
  <2>3. Moments \subseteq 0..59
    BY SomeMoments
  <2>4. /\ now \in Nat
        /\ \A y \in Moments : y >= 35 => now <= 60 * h + y
        /\ \A y \in Moments : 60 * h + y >= now + 5 => m <= y
    BY <1>2, <2>2, <2>3
  <2>5. QED
    BY <1>1, <1>3, <1>4, <2>1, <2>4 DEF Trying
<1>7. QED
  BY <1>1, <1>5, <1>6 DEF Dog!Concluded, Dog!Again, Dog!Retries

LEMMA TryingNext ==
  ASSUME WatchInv, Clock, Clock', Trying, normal \in BOOLEAN, Dog!Next
  PROVE  Trying'
<1>1. CASE Dog!Tick
  BY <1>1, TickTries
<1>2. CASE Dog!ReadEvidence
  <2>1. watch' = [at |-> "evidence", hour |-> watch.hour, try |-> watch.try, checked |-> now,
                  seen |-> [catalog |-> served, quality |-> quality]]
    BY <1>2 DEF Dog!ReadEvidence, WatchInv, Watching
  <2>2. /\ watch.at = "wait" /\ watch.hour <= Hours /\ now >= watch.hour * 60 + 35
        /\ watch.try > 1 => now >= watch.checked + 5
        /\ UNCHANGED <<now, pub, served, quality, normal>>
    BY <1>2 DEF Dog!ReadEvidence, Dog!Hour, Dog!At, Dog!RetryDelay, Dog!d1
  <2>3. PICK h \in Nat, m \in 0..59 : h = Dog!HourOf(now) /\ m = Dog!Minute /\ now = 60 * h + m
    BY SomeMoments DEF Clock
  <2>4. Dog!HourOf(now)' = h /\ Dog!Minute' = m /\ watch.hour \in Nat
    BY <2>2, <2>3 DEF Dog!HourOf, Dog!Minute, WatchInv, Watching
  <2>5. h <= watch.hour
    BY <2>2, <2>3 DEF Trying
  <2>6. h = watch.hour /\ m >= 35
    BY <2>2, <2>3, <2>4, <2>5
  <2>7. watch.try = 2 /\ normal => Done
    <3>1. watch.try = 2 => watch.checked \in Nat /\ now >= watch.checked + 5
      BY <2>2 DEF Trying
    <3>2. watch.try = 2 => watch.checked < now
      BY <2>3, <3>1
    <3>3. QED
      BY <2>2, <3>2 DEF Trying
  <2>8. watch.try = 1 => \A y \in Moments : y >= 35 => m <= y
    BY <2>2, <2>3, <2>6 DEF Trying
  <2>9. Done => Done'
    BY <2>2, <2>3, <2>4 DEF Done
  <2>10. QED
    BY <2>1, <2>2, <2>4, <2>6, <2>7, <2>8, <2>9 DEF Trying
<1>3. CASE Dog!Judge \/ Dog!ReadFails
  <2>1. watch.at = "evidence" /\ UNCHANGED <<now, pub, served, quality>>
    BY <1>3 DEF Dog!Judge, Dog!ReadFails, Dog!d1
  <2>2. PICK ok \in BOOLEAN : Dog!Concluded(ok)
    BY <1>3 DEF Dog!Judge, Dog!ReadFails
  <2>3. QED
    BY <2>1, <2>2, ConcludedTries, NormalSteps
<1>4. CASE ~Dog!Tick /\ ~Dog!ReadEvidence /\ ~Dog!Judge /\ ~Dog!ReadFails
  <2>1. now' = now /\ watch' = watch
    BY <1>4 DEF Dog!Next, Dog!Collect, Dog!StartPublication, Dog!Refuse, Dog!Activate, Dog!Complete, Dog!Abandon
  <2>2. Dog!HourOf(now)' = Dog!HourOf(now) /\ Dog!Minute' = Dog!Minute
    BY <2>1 DEF Dog!HourOf, Dog!Minute
  <2>3. normal' => normal
    BY NormalSteps
  <2>4. Done => Done' /\ UNCHANGED <<served, quality>>
    BY <1>4, <2>2, DoneStays DEF Done
  <2>5. QED
    BY <2>1, <2>2, <2>3, <2>4 DEF Trying
<1>5. QED
  BY <1>1, <1>2, <1>3, <1>4

LEMMA QuietNext == QuietInv /\ [Dog!Next]_(Dog!vars) => QuietInv'
<1> SUFFICES ASSUME QuietInv, [Dog!Next]_(Dog!vars) PROVE QuietInv'
  OBVIOUS
<1>1. WatchInv'
  BY WatchNext DEF QuietInv
<1>2. CASE UNCHANGED Dog!vars
  <2>1. Dog!HourOf(now)' = Dog!HourOf(now) /\ Dog!Minute' = Dog!Minute
        /\ Dog!HourOf(collected)' = Dog!HourOf(collected)
    BY <1>2 DEF Dog!vars, Dog!HourOf, Dog!Minute
  <2>2. Clock' /\ Trying' /\ normal' \in BOOLEAN /\ NormalIsQuiet'
    BY <1>2, <2>1 DEF QuietInv, Dog!vars, Clock, Trying, Done, NormalIsQuiet, Dog!NormalIsQuiet
  <2>3. normal' => Forecasts' /\ Publishing'
    BY <1>2, <2>1 DEF QuietInv, Dog!vars, Forecasts, Publishing, Published, Recent
  <2>4. QED
    BY <1>1, <2>2, <2>3 DEF QuietInv
<1>3. CASE Dog!Next
  <2>1. Clock'
    <3>1. CASE Dog!Tick
      <4>1. now' = Dog!NextMoment
        BY <3>1 DEF Dog!Tick
      <4>2. QED
        BY <4>1, TickMoves DEF QuietInv
    <3>2. CASE ~Dog!Tick
      <4>1. now' = now
        BY <1>3, <3>2, NormalSteps DEF QuietInv
      <4>2. QED
        BY <4>1 DEF QuietInv, Clock, Dog!HourOf, Dog!Minute
    <3>3. QED
      BY <3>1, <3>2
  <2>2. normal' \in BOOLEAN /\ (normal' => normal)
    BY <1>3, NormalSteps DEF QuietInv
  <2>3. normal' => Forecasts' /\ Publishing'
    BY <1>3, <2>1, <2>2, ForecastsNext, PublishingNext DEF QuietInv
  <2>4. Trying'
    BY <1>3, <2>1, TryingNext DEF QuietInv
  <2>5. NormalIsQuiet'
    <3>1. ASSUME normal', verdict' = "red", verdict # "red" PROVE FALSE
      <4>1. (Dog!Judge \/ Dog!ReadFails) /\ watch.at = "evidence" /\ ~Dog!Again
        BY <1>3, <3>1 DEF Dog!Next, Dog!Collect, Dog!StartPublication, Dog!Refuse, Dog!Activate, Dog!Complete,
           Dog!Abandon, Dog!ReadEvidence, Dog!Judge, Dog!ReadFails, Dog!Tick, Dog!Concluded
      <4>2. watch.try = 2
        BY <4>1 DEF QuietInv, Trying, Dog!Again, Dog!Retries
      <4>3. ~Dog!ReadFails
        <5>1. Dog!ReadFails => normal' = (normal /\ watch.try = 1)
          BY DEF Dog!ReadFails
        <5>2. watch.try # 1
          BY <4>2
        <5>3. QED
          BY <3>1, <5>1, <5>2, Zenon
      <4>4. Dog!Issues(watch.seen) # {}
        BY <3>1, <4>1, <4>3 DEF Dog!Judge, Dog!Concluded
      <4>5. Done /\ watch.checked = now /\ watch.seen = [catalog |-> served, quality |-> quality]
        BY <2>2, <3>1, <4>1, <4>2 DEF QuietInv, Trying
      <4>6. Clock /\ WatchInv /\ Publishing
        BY <2>2, <3>1 DEF QuietInv
      <4>7. QED
        BY <4>4, <4>5, <4>6, DoneIsClean
    <3>2. QED
      BY <2>2, <3>1 DEF QuietInv, NormalIsQuiet, Dog!NormalIsQuiet
  <2>6. QED
    BY <1>1, <2>1, <2>2, <2>3, <2>4, <2>5 DEF QuietInv
<1>4. QED
  BY <1>2, <1>3

LEMMA QuietStart == Dog!Init => QuietInv
<1> SUFFICES ASSUME Dog!Init PROVE QuietInv
  OBVIOUS
<1>1. now = 60 /\ collected = 20 /\ gold = 20 /\ normal = TRUE /\ verdict = "none"
  BY DEF Dog!Init, Dog!Hour
<1>2. Dog!HourOf(now) = 1 /\ Dog!Minute = 0 /\ Dog!HourOf(collected) = 0
  BY <1>1 DEF Dog!HourOf, Dog!Minute, Dog!Hour
<1>3. Clock /\ Forecasts
  BY <1>1, <1>2 DEF Clock, Forecasts
<1>4. pub.at = "idle" /\ pub.hour = -1
  BY DEF Dog!Init, Dog!NoPub
<1>5. Publishing
  BY <1>2, <1>4 DEF Publishing
<1>6. watch.at = "wait" /\ watch.hour = 1 /\ watch.try = 1
  BY DEF Dog!Init, Dog!NoWatch
<1>7. Trying
  BY <1>2, <1>6, SomeMoments DEF Trying
<1>8. WatchInv
  BY DEF Dog!Init, WatchInv, Minutes, Watching, Dog!NoPub, Dog!NoWatch, Dog!Hour
<1>9. QED
  BY <1>1, <1>3, <1>5, <1>7, <1>8 DEF QuietInv, NormalIsQuiet, Dog!NormalIsQuiet

(***************************************************************************)
(* "Avoids a normal publication race": for any moments that leave both     *)
(* tries in their hour, no run of the watchdog ends in an alert while every *)
(* collection and publication is in time and no second read fails.         *)
(***************************************************************************)
THEOREM NormalStaysQuiet == Dog!Spec => []NormalIsQuiet
<1>1. QuietInv => NormalIsQuiet
  BY DEF QuietInv
<1>2. QED
  BY <1>1, QuietStart, QuietNext, PTL DEF Dog!Spec

-----------------------------------------------------------------------------
(***************************************************************************)
(* The usage patterns.                                                     *)
(***************************************************************************)

\* A pattern that was merged without a stamp is one the gate could bind.
Bound(p) == p.stamp # None \/ Pattern!GateBinds(p)

PatternInv ==
  /\ DOMAIN branch = {"edition", "shape", "place", "form", "default", "allowEmpty", "stamp"}
  /\ branch.shape \in Pattern!Choice.shape
  /\ merged.shape \in Pattern!Choice.shape
  /\ merged.default # "malformed"
  /\ Bound(merged)

\* An edit chooses a shape the language of the patterns has.
LEMMA AuthorKeeps ==
  ASSUME PatternInv, NEW f \in DOMAIN Pattern!Choice, Pattern!Author(f)
  PROVE  DOMAIN branch' = DOMAIN branch /\ branch'.shape \in Pattern!Choice.shape
<1>1. PICK v \in Pattern!Choice[f] : branch' = [branch EXCEPT ![f] = v, !.edition = branch.edition + 1]
  BY DEF Pattern!Author
<1>2. DOMAIN branch' = DOMAIN branch
  BY <1>1
<1>3. CASE f = "shape"
  BY <1>1, <1>3 DEF PatternInv
<1>4. CASE f # "shape"
  BY <1>1, <1>4 DEF PatternInv
<1>5. QED
  BY <1>2, <1>3, <1>4

LEMMA PatternNext == PatternInv /\ [Pattern!Next]_(Pattern!vars) => PatternInv'
<1> SUFFICES ASSUME PatternInv, [Pattern!Next]_(Pattern!vars) PROVE PatternInv'
  OBVIOUS
<1>1. CASE UNCHANGED Pattern!vars
  BY <1>1 DEF PatternInv, Pattern!vars, Bound
<1>2. ASSUME NEW f \in DOMAIN Pattern!Choice, Pattern!Author(f) PROVE PatternInv'
  <2>1. merged' = merged
    BY <1>2 DEF Pattern!Author
  <2>2. QED
    BY <1>2, <2>1, AuthorKeeps DEF PatternInv, Bound
<1>3. CASE Pattern!Merge
  BY <1>3 DEF PatternInv, Pattern!Merge, Pattern!Gate, Bound
<1>4. CASE Pattern!Stamp
  <2>1. PICK e : merged' = [merged EXCEPT !.stamp = e]
    BY <1>4 DEF Pattern!Stamp, Pattern!WithStamp
  <2>2. branch' = merged' /\ branch = merged /\ merged.stamp = None
    BY <1>4 DEF Pattern!Stamp
  <2>3. Pattern!GateBinds(merged)
    BY <2>2 DEF PatternInv, Bound
  <2>4. merged'.shape = merged.shape /\ merged'.default = merged.default /\ merged'.form = merged.form
    BY <2>1, <2>2 DEF PatternInv
  <2>5. DOMAIN branch' = DOMAIN branch
    BY <2>1, <2>2
  <2>6. QED
    BY <2>2, <2>3, <2>4, <2>5 DEF PatternInv, Bound, Pattern!GateBinds
<1>5. CASE Pattern!Age \/ Pattern!ExportLegacy \/ \E withSibling \in BOOLEAN : Pattern!ExportAtomic(withSibling)
  BY <1>5 DEF PatternInv, Bound, Pattern!Age, Pattern!ExportLegacy, Pattern!ExportAtomic
<1>6. QED
  BY <1>1, <1>2, <1>3, <1>4, <1>5 DEF Pattern!Next

\* What the gate could bind and the export cannot is one of the drifts.
LEMMA BindsOrDrifts ==
  ASSUME PatternInv, merged.stamp = None
  PROVE  Pattern!LegacyBinds(merged) <=> ~Pattern!Drifts(merged)
<1>1. merged.form \in {"quoted", "list", "plain", "bracket"} /\ merged.default # "malformed"
  BY DEF PatternInv, Bound, Pattern!GateBinds
<1>2. CASE Pattern!Relative(merged)
  BY <1>1, <1>2 DEF Pattern!LegacyBinds, Pattern!Binds, Pattern!Drifts, Pattern!Relative
<1>3. CASE ~Pattern!Relative(merged)
  BY <1>1, <1>3 DEF Pattern!LegacyBinds, Pattern!Binds, Pattern!Drifts, Pattern!Relative, Pattern!ExportForms
<1>4. QED
  BY <1>2, <1>3

\* The two paths differ in what they read of a default, and in the table.
LEMMA PathsPart ==
  ASSUME merged.shape \in Pattern!Choice.shape, Pattern!LegacyRow # None,
         merged.shape # "sibling", ~(merged.stamp = None /\ Pattern!Relative(merged))
  PROVE  Pattern!LegacyRow.stamp = Pattern!AtomicRow(TRUE).stamp
<1>1. ~Pattern!Denied(merged)
  BY DEF Pattern!LegacyRow, Pattern!Row
<1>2. Pattern!Rewrites(merged, TRUE)
  <2>1. merged.shape \in {"own", "joined", "denied", "failing"}
    BY DEF Pattern!Choice
  <2>2. Pattern!Relations(merged) \in {{"own"}, {"own", "sibling"}}
    BY <1>1, <2>1 DEF Pattern!Denied, Pattern!Relations
  <2>3. QED
    BY <2>2 DEF Pattern!Rewrites
<1>3. Pattern!Stamped(merged, TRUE, Pattern!LegacyBinds(merged))
        = Pattern!Stamped(merged, FALSE, Pattern!AtomicBinds(merged))
  <2>1. CASE merged.stamp # None
    BY <2>1 DEF Pattern!Stamped
  <2>2. CASE ~Pattern!Relative(merged)
    <3>1. Pattern!LegacyBinds(merged) <=> Pattern!AtomicBinds(merged)
      BY <2>2 DEF Pattern!LegacyBinds, Pattern!AtomicBinds, Pattern!Binds
    <3>2. merged.default # "relative"
      BY <2>2 DEF Pattern!Relative
    <3>3. Pattern!Passes(merged, TRUE) <=> Pattern!Passes(merged, FALSE)
      BY <3>2 DEF Pattern!Passes, Pattern!Selects
    <3>4. QED
      BY <3>1, <3>3 DEF Pattern!Stamped
  <2>3. QED
    BY <2>1, <2>2
<1>4. QED
  BY <1>1, <1>2, <1>3 DEF Pattern!LegacyRow, Pattern!AtomicRow, Pattern!Row

(***************************************************************************)
(* A merged pattern without a stamp is bound by the export, and the two    *)
(* publication paths agree on its right to run, except where the readings  *)
(* of the gate, the tool and the export are known to part: after any       *)
(* number of edits, merges, stamps and exports (contract_gates.py).        *)
(***************************************************************************)
THEOREM PatternsAreRead == Pattern!Spec => []ConventionsAreLocked
<1>1. Pattern!Init => PatternInv
  <2> SUFFICES ASSUME Pattern!Init PROVE PatternInv
    OBVIOUS
  <2>1. branch = [edition |-> 1, shape |-> "own", place |-> "comment", form |-> "plain",
                  default |-> None, allowEmpty |-> FALSE, stamp |-> None] /\ merged = branch
    BY DEF Pattern!Init
  <2>2. DOMAIN branch = {"edition", "shape", "place", "form", "default", "allowEmpty", "stamp"}
    BY <2>1
  <2>3. branch.shape = "own" /\ branch.form = "plain" /\ branch.default = None
    BY <2>1
  <2>4. None # "malformed"
    BY PatternAssumption
  <2>5. QED
    BY <2>1, <2>2, <2>3, <2>4 DEF PatternInv, Bound, Pattern!GateBinds, Pattern!Choice
<1>2. PatternInv => ConventionsAreLocked
  BY BindsOrDrifts, PathsPart
  DEF ConventionsAreLocked, Pattern!ConventionsAreLocked, Pattern!MergedPatternBinds, Pattern!PathsAgree, PatternInv
<1>3. QED
  BY <1>1, <1>2, PatternNext, PTL DEF Pattern!Spec

-----------------------------------------------------------------------------
(***************************************************************************)
(* The contracts.                                                          *)
(***************************************************************************)

RulesOf(c) ==
  /\ StructuralRule(c) /\ LifecycleRule(c) /\ KeyRule(c) /\ FreshnessRule(c)
  /\ CompanionRule(c) /\ ValidEmptyRule(c) /\ ProjectionRule(c) /\ TermsRule(c)

\* What the loader relies on beyond the rules of the validator: the companions
\* a tree can name, and the two places its terms can stand.
Declared(c) == c.companion \in Choice.companion /\ c.termsAt \in Choice.termsAt

\* Of a contract the validator accepts, the loader refuses nothing but ...
Unloaded(c) ==
  \/ UnprojectedContract(c) \/ RepeatedKey(c) \/ NarrowCompanion(c) \/ UnreadTerms(c)
  \/ c.eventTime = None /\ PartialSource(c)

LEMMA ProjectedIsRead ==
  ASSUME NEW c, ProjectionRule(c), c.projection # None
  PROVE  /\ LoadsProjection(c) /\ Readable(c)
         /\ LoadsKeys(c) <=> ~RepeatedKey(c)
         /\ c.freshness # None => c.freshness \in Columns \intersect Range(c.projection)
<1>1. /\ c.projection # <<>> /\ Distinct(c.projection)
      /\ Range(c.projection) \subseteq Columns \ (Internal \union c.bare)
      /\ c.publicKeys # None => Distinct(c.publicKeys)
      /\ Required(c) \subseteq Range(c.projection)
  BY DEF ProjectionRule
<1>2. LoadsProjection(c)
  BY <1>1 DEF LoadsProjection
<1>3. /\ Range(ProjectedKeys(c)) \subseteq Range(c.projection)
      /\ {c.eventTime, c.freshness, c.sampled} \ {None} \subseteq Range(c.projection)
  BY <1>1 DEF Required
<1>4. LoadsKeys(c) <=> ~RepeatedKey(c)
  BY <1>1, <1>3 DEF LoadsKeys, RepeatedKey, ProjectedKeys
<1>5. QED
  BY <1>1, <1>2, <1>3, <1>4 DEF Readable

LEMMA CompanionIsRead ==
  ASSUME NEW c, CompanionRule(c), c.companion \in Choice.companion
  PROVE  LoadsCompanion(c) <=> ~NarrowCompanion(c)
<1>1. c.companion \in {None, "companion", "narrow", "missing", "self"}
  BY DEF Choice
<1>2. DOMAIN Relation = {"upstream", "companion", "narrow"}
  BY DEF Relation
<1>3. "coverage" \in Relation["companion"] /\ "coverage" \notin Relation["narrow"]
  BY DEF Relation
<1>4. None # "narrow"
  BY NoneAssumption
<1>5. CASE c.companion = None
  BY <1>4, <1>5 DEF LoadsCompanion, NarrowCompanion
<1>6. CASE c.companion # None
  <2>1. c.companion \in {"companion", "narrow"}
    BY <1>1, <1>2, <1>6 DEF CompanionRule
  <2>2. CASE c.companion = "companion"
    BY <1>2, <1>3, <1>6, <2>2 DEF LoadsCompanion, NarrowCompanion
  <2>3. CASE c.companion = "narrow"
    BY <1>2, <1>3, <1>6, <2>3 DEF LoadsCompanion, NarrowCompanion
  <2>4. QED
    BY <2>1, <2>2, <2>3
<1>7. QED
  BY <1>5, <1>6

LEMMA FreshnessIsRead ==
  ASSUME NEW c, FreshnessRule(c), c.freshness # None => c.freshness \in Columns \intersect Range(c.projection)
  PROVE  LoadsFreshness(c)
<1>1. "self" \notin DOMAIN Relation
  BY DEF Relation
<1>2. QED
  BY <1>1 DEF FreshnessRule, LoadsFreshness

LEMMA TermsAreRead ==
  ASSUME NEW c, TermsRule(c), c.termsAt \in Choice.termsAt
  PROVE  LoadsTerms(c) <=> ~UnreadTerms(c)
<1>1. c.termsAt \in {"config", "meta"}
  BY DEF Choice
<1>2. c.termsAt = "config" => LoadsTerms(c)
  BY DEF TermsRule, LoadsTerms
<1>3. QED
  BY <1>1, <1>2 DEF UnreadTerms

LEMMA StrategyIsRead ==
  ASSUME NEW c, LifecycleRule(c)
  PROVE  LoadsStrategy(c) <=> ~(c.eventTime = None /\ PartialSource(c))
<1>1. None # "incremental"
  BY NoneAssumption
<1>2. QED
  BY <1>1 DEF LifecycleRule, LoadsStrategy, PartialSource

LEMMA AcceptedLoads ==
  ASSUME NEW c, RulesOf(c), Declared(c)
  PROVE  /\ Loads(c) <=> ~Unloaded(c)
         /\ Loads(c) => Readable(c)
         /\ Publishable(c) <=> ~(PartialSource(c) \/ UnregisteredVocabulary(c))
<1>1. Publishable(c) <=> ~(PartialSource(c) \/ UnregisteredVocabulary(c))
  BY DEF Publishable, PartialSource, UnregisteredVocabulary
<1>2. LoadsEvidence(c)
  BY DEF RulesOf, StructuralRule, LoadsEvidence
<1>3. /\ LoadsCompanion(c) <=> ~NarrowCompanion(c)
      /\ LoadsTerms(c) <=> ~UnreadTerms(c)
      /\ LoadsStrategy(c) <=> ~(c.eventTime = None /\ PartialSource(c))
  BY CompanionIsRead, TermsAreRead, StrategyIsRead DEF RulesOf, Declared
<1>4. CASE c.projection = None
  BY <1>1, <1>4 DEF Loads, LoadsProjection, Unloaded, UnprojectedContract
<1>5. CASE c.projection # None
  <2>1. LoadsProjection(c) /\ Readable(c) /\ (LoadsKeys(c) <=> ~RepeatedKey(c)) /\ LoadsFreshness(c)
    BY <1>5, ProjectedIsRead, FreshnessIsRead DEF RulesOf
  <2>2. QED
    BY <1>1, <1>2, <1>3, <1>5, <2>1 DEF Loads, Unloaded, UnprojectedContract
<1>6. QED
  BY <1>4, <1>5

DeclaredTree(contracts) == \A m \in Model : Declared(contracts[m])

\* A tree the validator accepts is exported exactly without the omissions.
LEMMA AcceptedExports ==
  ASSUME NEW at, Validates(at.contracts), DeclaredTree(at.contracts)
  PROVE  Exports(at) <=> ~Omission(at)
<1>1. ASSUME NEW m \in Model
      PROVE  /\ Loads(at.contracts[m]) <=> ~Unloaded(at.contracts[m])
             /\ Loads(at.contracts[m]) => Readable(at.contracts[m])
             /\ Publishable(at.contracts[m]) <=>
                  ~(PartialSource(at.contracts[m]) \/ UnregisteredVocabulary(at.contracts[m]))
  BY <1>1, AcceptedLoads DEF Validates, RulesOf, DeclaredTree
<1>2. Selected(at) \subseteq Enabled(at.contracts) /\ Enabled(at.contracts) \subseteq Model
  BY DEF Selected, Enabled
<1>3. Omission(at) <=> \/ UnlistedChange(at)
                       \/ \E m \in Enabled(at.contracts) : Unloaded(at.contracts[m])
                       \/ \E m \in Selected(at) :
                            PartialSource(at.contracts[m]) \/ UnregisteredVocabulary(at.contracts[m])
  BY DEF Omission, Unloaded
<1>4. QED
  BY <1>1, <1>2, <1>3 DEF Exports, UnlistedChange

\* What Edit can tell apart: a contract is a record of the fields of Choice.
Shaped(contracts) ==
  /\ DOMAIN contracts = Model
  /\ \A m \in Model : DOMAIN contracts[m] = Fields

ContractInv ==
  /\ Shaped(tree) /\ DeclaredTree(tree)
  /\ DeclaredTree(main.contracts) /\ Validates(main.contracts)

LEMMA EditKeeps ==
  ASSUME Shaped(tree), DeclaredTree(tree), NEW m \in Model, NEW f \in Fields, Edit(m, f)
  PROVE  Shaped(tree)' /\ DeclaredTree(tree)'
<1>1. PICK v \in Choice[f] : tree' = [tree EXCEPT ![m][f] = v]
  BY DEF Edit
<1>2. DOMAIN tree' = Model
  BY <1>1 DEF Shaped
<1>3. ASSUME NEW n \in Model, n # m PROVE tree'[n] = tree[n]
  BY <1>1, <1>3 DEF Shaped
<1>4. tree'[m] = [tree[m] EXCEPT ![f] = v]
  BY <1>1 DEF Shaped
<1>5. DOMAIN tree'[m] = Fields
  BY <1>4 DEF Shaped
<1>6. Declared(tree'[m])
  <2>1. "companion" \in Fields /\ "termsAt" \in Fields
    BY DEF Fields, Choice
  <2>2. ASSUME NEW g \in Fields, tree[m][g] \in Choice[g] PROVE tree'[m][g] \in Choice[g]
    BY <1>4, <2>2 DEF Shaped
  <2>3. tree[m]["companion"] \in Choice["companion"] /\ tree[m]["termsAt"] \in Choice["termsAt"]
    BY DEF DeclaredTree, Declared
  <2>4. tree'[m]["companion"] \in Choice["companion"] /\ tree'[m]["termsAt"] \in Choice["termsAt"]
    BY <2>1, <2>2, <2>3
  <2>5. QED
    BY <2>4 DEF Declared
<1>7. QED
  BY <1>2, <1>3, <1>5, <1>6 DEF Shaped, DeclaredTree

LEMMA ContractNextKeeps == ContractInv /\ [ContractNext]_contractVars => ContractInv'
<1> SUFFICES ASSUME ContractInv, [ContractNext]_contractVars PROVE ContractInv'
  OBVIOUS
<1>1. CASE UNCHANGED <<tree, main>>
  BY <1>1 DEF ContractInv, Shaped, DeclaredTree
<1>2. ASSUME NEW m \in Model, NEW f \in Fields, Edit(m, f) PROVE ContractInv'
  <2>1. main' = main
    BY <1>2 DEF Edit
  <2>2. QED
    BY <1>2, <2>1, EditKeeps DEF ContractInv, DeclaredTree
<1>3. CASE Merge
  <2>1. main'.contracts = tree /\ tree' = tree /\ Validates(tree)
    BY <1>3 DEF Merge, At
  <2>2. QED
    BY <2>1 DEF ContractInv, Shaped, DeclaredTree
<1>4. (\E id \in ProductId : EditList(id)) \/ Export => UNCHANGED <<tree, main>>
  BY DEF EditList, Export
<1>5. QED
  BY <1>1, <1>2, <1>3, <1>4 DEF ContractNext, contractVars

\* The terms of a contract that is exported are the only ones of its vocabulary.
LEMMA OwnLabels ==
  ASSUME Validates(main.contracts), NEW S, S = {main.contracts[m] : m \in Selected(main)},
         NEW g \in Glossaries(S), NEW c \in S, \A d \in S : d.termsAt = "config",
         c.terms # None, c.vocabulary \in Registered, NEW i \in DOMAIN c.terms
  PROVE  /\ g[c.vocabulary][c.terms[i][1]] = c.terms[i][2]
         /\ g[c.vocabulary] # <<>>
<1> DEFINE v == c.vocabulary
           Holders == {d \in S : d.vocabulary = v /\ d.terms # None}
           Rows == UNION {Range(d.terms) : d \in Holders}
           code == c.terms[i][1]
<1>1. /\ DOMAIN g[v] = {r[1] : r \in Rows}
      /\ \A k \in {r[1] : r \in Rows} : <<k, g[v][k]>> \in Rows
  BY DEF Glossaries
<1>2. Selected(main) \subseteq Model
  BY DEF Selected, Enabled
<1>3. PICK m \in Model : c = main.contracts[m]
  BY <1>2
<1>4. ASSUME NEW d \in Holders PROVE d.terms = c.terms
  <2>1. PICK n \in Model : d = main.contracts[n]
    BY <1>2
  <2>2. AgreeRule(main.contracts)
    BY DEF Validates
  <2>3. d.termsAt = "config" /\ c.termsAt = "config"
    OBVIOUS
  <2>4. QED
    BY <1>3, <2>1, <2>2, <2>3 DEF AgreeRule
<1>5. c \in Holders
  OBVIOUS
<1>6. Rows = Range(c.terms)
  BY <1>4, <1>5
<1>7. c.terms[i] \in Range(c.terms)
  BY DEF Range
<1>8. <<code, g[v][code]>> \in Range(c.terms)
  BY <1>1, <1>6, <1>7
<1>9. PICK j \in DOMAIN c.terms : c.terms[j] = <<code, g[v][code]>>
  BY <1>8 DEF Range
<1>10. TermsRule(c) /\ c.termsAt = "config"
  BY <1>3 DEF Validates
<1>11. i = j
  BY <1>9, <1>10 DEF TermsRule
<1>12. g[v][code] = c.terms[i][2]
  BY <1>9, <1>11
<1>13. code \in DOMAIN g[v]
  BY <1>1, <1>6, <1>7
<1>14. QED
  BY <1>12, <1>13

LEMMA ExportServes ==
  ASSUME Validates(main.contracts), Export
  PROVE  ExportedIsServed'
<1> DEFINE S == {main.contracts[m] : m \in Selected(main)}
<1>1. /\ exported' = S
      /\ catalog' = (catalog \union {c.id : c \in S}) \ Retirements(main.contracts)
  BY DEF Export
<1>2. PICK g \in Glossaries(S) :
        glossary' = [v \in Registered |-> IF g[v] = <<>> THEN glossary[v] ELSE g[v]]
  BY <1>1 DEF Export
<1>3. ASSUME NEW c \in S PROVE c.id \in catalog'
  <2>1. PICK m \in Selected(main) : c = main.contracts[m]
    BY DEF S
  <2>2. m \in Model /\ main.contracts[m].enabled
    BY <2>1 DEF Selected, Enabled
  <2>3. ASSUME NEW n \in Model, ~main.contracts[n].enabled PROVE main.contracts[n].id # c.id
    BY <2>1, <2>2, <2>3 DEF Validates, UniqueRule
  <2>4. c.id \notin Retirements(main.contracts)
    BY <2>3 DEF Retirements
  <2>5. QED
    BY <1>1, <2>4
<1>4. ASSUME NEW c \in S, \A d \in S : d.termsAt = "config", c.terms # None, c.vocabulary \in Registered,
             NEW i \in DOMAIN c.terms
      PROVE  glossary'[c.vocabulary][c.terms[i][1]] = c.terms[i][2]
  <2>1. /\ g[c.vocabulary][c.terms[i][1]] = c.terms[i][2]
        /\ g[c.vocabulary] # <<>>
    BY <1>4, OwnLabels
  <2>2. glossary'[c.vocabulary] = g[c.vocabulary]
    BY <1>2, <1>4, <2>1
  <2>3. QED
    BY <2>1, <2>2
<1>5. QED
  BY <1>1, <1>3, <1>4 DEF ExportedIsServed

\* What the rules read of the contracts a tree starts with.
StartFields(c) ==
  /\ DOMAIN c = Fields
  /\ (c.enabled /\ c.external /\ c.retire = None) \/ (~c.enabled /\ ~c.external)
  /\ c.mode = "upsert" /\ c.keys = <<"place">> /\ c.tested = {"place"} /\ c.unique
  /\ c.nullable = {} /\ c.bare = {} /\ c.eventTime = "at" /\ c.slo
  /\ c.sources = <<"kma">> /\ c.termsAt = "config"
  /\ \/ c.zero = "fail" /\ c.fallback = None /\ c.companion = None
     \/ c.fallback = <<"upstream", "at">> /\ c.validEmpty /\ c.companion = "companion"

PlainLike(c) ==
  /\ c.publicKeys = None /\ c.projection = <<"place", "at">> /\ c.freshness = None /\ c.sampled = None
  /\ c.coverage = <<"place", "published_rows">>
  /\ c.vocabulary = "weather:sky_code" /\ c.terms = <<Term.sky>>

RollupLike(c) ==
  /\ c.publicKeys = <<"at">> /\ c.projection = <<"place", "at", "samples">>
  /\ c.freshness = "samples" /\ c.sampled = "samples"
  /\ c.coverage = <<"samples", "source_relation">>
  /\ c.terms = None

LEMMA PlainShape == ASSUME NEW p PROVE StartFields(Plain(p)) /\ PlainLike(Plain(p)) /\ Plain(p).id = p
<1>1. DOMAIN Plain(p) = Fields
  BY DEF Plain, Fields, Choice
<1>2. QED
  BY <1>1 DEF Plain, StartFields, PlainLike

LEMMA RetiredShape == ASSUME NEW p PROVE StartFields(Retired(p)) /\ PlainLike(Retired(p)) /\ Retired(p).id = p
<1>1. DOMAIN Retired(p) = Fields
  BY DEF Plain, Retired, Fields, Choice
<1>2. QED
  BY <1>1 DEF Plain, Retired, StartFields, PlainLike

LEMMA SparseShape == ASSUME NEW p PROVE StartFields(Sparse(p)) /\ PlainLike(Sparse(p)) /\ Sparse(p).id = p
<1>1. DOMAIN Sparse(p) = Fields
  BY DEF Plain, Sparse, Fields, Choice
<1>2. QED
  BY <1>1 DEF Plain, Sparse, StartFields, PlainLike

LEMMA RollupShape == ASSUME NEW p PROVE StartFields(Rollup(p)) /\ RollupLike(Rollup(p)) /\ Rollup(p).id = p
<1>1. DOMAIN Rollup(p) = Fields
  BY DEF Plain, Rollup, Fields, Choice
<1>2. QED
  BY <1>1 DEF Plain, Rollup, StartFields, RollupLike

LEMMA Tuples ==
  /\ Range(<<"place">>) = {"place"} /\ Distinct(<<"place">>)
  /\ Range(<<"at">>) = {"at"} /\ Distinct(<<"at">>)
  /\ Range(<<"kma">>) = {"kma"} /\ Distinct(<<"kma">>) /\ <<"kma">> # <<>>
  /\ Range(<<"place", "at">>) = {"place", "at"} /\ Distinct(<<"place", "at">>) /\ <<"place", "at">> # <<>>
  /\ Range(<<"place", "at", "samples">>) = {"place", "at", "samples"}
  /\ Distinct(<<"place", "at", "samples">>) /\ <<"place", "at", "samples">> # <<>>
<1>1. ASSUME NEW x PROVE Range(<<x>>) = {x} /\ Distinct(<<x>>) /\ <<x>> # <<>>
  BY DEF Range, Distinct, IsInjective
<1>2. ASSUME NEW x, NEW y, x # y PROVE Range(<<x, y>>) = {x, y} /\ Distinct(<<x, y>>) /\ <<x, y>> # <<>>
  BY <1>2 DEF Range, Distinct, IsInjective
<1>3. ASSUME NEW x, NEW y, NEW z, x # y, x # z, y # z
      PROVE  Range(<<x, y, z>>) = {x, y, z} /\ Distinct(<<x, y, z>>) /\ <<x, y, z>> # <<>>
  BY <1>3 DEF Range, Distinct, IsInjective
<1>4. QED
  BY <1>1, <1>2, <1>3

LEMMA StartIsSound ==
  ASSUME NEW c, StartFields(c), PlainLike(c) \/ RollupLike(c)
  PROVE  RulesOf(c) /\ Declared(c)
<1>1. StructuralRule(c)
  BY Tuples DEF StartFields, PlainLike, RollupLike, StructuralRule, Columns
<1>2. LifecycleRule(c) /\ KeyRule(c)
  BY Tuples, NoneAssumption DEF StartFields, LifecycleRule, KeyRule, Columns
<1>3. FreshnessRule(c) /\ CompanionRule(c)
  BY DEF StartFields, PlainLike, RollupLike, FreshnessRule, CompanionRule, Columns, Relation
<1>4. ValidEmptyRule(c)
  <2>1. CASE c.zero = "fail"
    BY <2>1 DEF ValidEmptyRule
  <2>2. CASE c.zero # "fail"
    BY <2>2, NoneAssumption DEF StartFields, ValidEmptyRule
  <2>3. QED
    BY <2>1, <2>2
<1>5. ProjectionRule(c)
  <2>1. CASE PlainLike(c)
    BY <2>1, Tuples, NoneAssumption
    DEF StartFields, PlainLike, ProjectionRule, Required, ProjectedKeys, Columns, Internal
  <2>2. CASE RollupLike(c)
    BY <2>2, Tuples, NoneAssumption
    DEF StartFields, RollupLike, ProjectionRule, Required, ProjectedKeys, Columns, Internal
  <2>3. QED
    BY <2>1, <2>2
<1>6. TermsRule(c)
  <2>1. CASE PlainLike(c)
    <3>1. c.vocabulary # None
      BY <2>1, NoneAssumption DEF PlainLike
    <3>2. \A i, j \in DOMAIN c.terms : i = j
      BY <2>1 DEF PlainLike
    <3>3. QED
      BY <3>1, <3>2 DEF TermsRule
  <2>2. CASE RollupLike(c)
    BY <2>2 DEF RollupLike, TermsRule
  <2>3. QED
    BY <2>1, <2>2
<1>7. Declared(c)
  BY DEF StartFields, Declared, Choice
<1>8. QED
  BY <1>1, <1>2, <1>3, <1>4, <1>5, <1>6, <1>7 DEF RulesOf

LEMMA ContractStart == ContractInit => ContractInv /\ ExportedIsServed
<1> SUFFICES ASSUME ContractInit PROVE ContractInv /\ ExportedIsServed
  OBVIOUS
<1>1. PICK kinds \in [Model -> {"plain", "rollup", "sparse", "retired"}] :
        \E ids \in {f \in [Model -> ProductId] : IsInjective(f)} :
          tree = [m \in Model |-> CASE kinds[m] = "plain" -> Plain(ids[m])
                                    [] kinds[m] = "rollup" -> Rollup(ids[m])
                                    [] kinds[m] = "sparse" -> Sparse(ids[m])
                                    [] kinds[m] = "retired" -> Retired(ids[m])]
  BY DEF ContractInit
<1>2. PICK ids \in [Model -> ProductId] :
        /\ IsInjective(ids)
        /\ tree = [m \in Model |-> CASE kinds[m] = "plain" -> Plain(ids[m])
                                     [] kinds[m] = "rollup" -> Rollup(ids[m])
                                     [] kinds[m] = "sparse" -> Sparse(ids[m])
                                     [] kinds[m] = "retired" -> Retired(ids[m])]
  BY <1>1
<1>3. ASSUME NEW m \in Model
      PROVE  tree[m] \in {Plain(ids[m]), Rollup(ids[m]), Sparse(ids[m]), Retired(ids[m])}
  BY <1>2
<1>4. ASSUME NEW m \in Model
      PROVE  StartFields(tree[m]) /\ (PlainLike(tree[m]) \/ RollupLike(tree[m])) /\ tree[m].id = ids[m]
  BY <1>3, PlainShape, RollupShape, SparseShape, RetiredShape
<1>5. ASSUME NEW m \in Model PROVE RulesOf(tree[m]) /\ Declared(tree[m])
  BY <1>4, StartIsSound
<1>6. UniqueRule(tree)
  <2>1. ASSUME NEW m \in Model, NEW n \in Model, m # n PROVE ids[m] # ids[n]
    BY <1>2, <2>1 DEF IsInjective
  <2>2. QED
    BY <1>4, <2>1 DEF UniqueRule
<1>7. AgreeRule(tree)
  <2>1. ASSUME NEW m \in Model, tree[m].terms # None PROVE tree[m].terms = <<Term.sky>>
    BY <1>4, <2>1 DEF PlainLike, RollupLike
  <2>2. QED
    BY <2>1 DEF AgreeRule
<1>8. Validates(tree)
  BY <1>5, <1>6, <1>7 DEF Validates, RulesOf
<1>9. Shaped(tree)
  BY <1>2, <1>4 DEF Shaped, StartFields
<1>10. main.contracts = tree /\ exported = {}
  BY DEF ContractInit, At
<1>11. QED
  BY <1>5, <1>8, <1>9, <1>10 DEF ContractInv, DeclaredTree, ExportedIsServed

(***************************************************************************)
(* The publisher "trusts contracts that already passed the validator": for *)
(* any models, ids and edits, a merged tree stops the export exactly when  *)
(* it has one of the omissions, and the loader, the reader and the         *)
(* publisher refuse nothing else (contracts.py, manifest_contracts.py).    *)
(***************************************************************************)
THEOREM ValidatedExports == ContractSpec => []ValidatedTreeExports
<1>1. ContractInit => ContractInv
  BY ContractStart
<1>2. ContractInv => ValidatedTreeExports
  BY AcceptedExports DEF ContractInv, ValidatedTreeExports
<1>3. QED
  BY <1>1, <1>2, ContractNextKeeps, PTL DEF ContractSpec

(***************************************************************************)
(* What the export has published is served as declared: the retirement     *)
(* that follows does not take it out again, and no other product's labels  *)
(* replace its own.                                                        *)
(***************************************************************************)
THEOREM ExportedServed == ContractSpec => []ExportedIsServed
<1>1. ContractInit => ContractInv /\ ExportedIsServed
  BY ContractStart
<1>2. ContractInv /\ ExportedIsServed /\ [ContractNext]_contractVars => ExportedIsServed'
  <2>1. CASE Export
    BY <2>1, ExportServes DEF ContractInv
  <2>2. CASE UNCHANGED <<catalog, exported, glossary>>
    BY <2>2 DEF ExportedIsServed
  <2>3. QED
    BY <2>1, <2>2 DEF ContractNext, contractVars, Edit, EditList, Merge
<1>3. QED
  BY <1>1, <1>2, ContractNextKeeps, PTL DEF ContractSpec
=============================================================================
