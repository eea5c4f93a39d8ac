---------------------------- MODULE MCDeployment ----------------------------
(* The operators' own actions on Airflow: two commits deployed one after the   *)
(* other over two DAGs, one of them a writer, and, apart from that, a run of   *)
(* the Iceberg maintenance over two tables.  Either one moves while the other  *)
(* stands at its start.                                                        *)
EXTENDS Deployment

CONSTANTS none, Table, Retention, MaxDay, MaxSnapshots, MaxReads, MaxUpkeepFaults

VARIABLES day, gate, task, server, summary, snapshots, reader, reads, faults_m

MCRetention == [days |-> 1, last |-> 1]

Upkeep == INSTANCE IcebergMaintenance WITH MaxFaults <- MaxUpkeepFaults, None <- none, faults <- faults_m

ASSUME UpkeepAssumption == Upkeep!MaintenanceAssumption

maintenanceVars == <<day, gate, task, server, summary, snapshots, reader, reads, faults_m>>

\* Where each stands while the other moves.
MaintenanceAtStart == gate = "none" /\ day = 0 /\ reads = 0 /\ \A t \in Table : snapshots[t] = {}
DeploymentAtStart ==
  /\ step = "none" /\ ~lock /\ active = {} /\ faults = 0
  /\ run.sha = CHOOSE s \in Sha : TRUE
  /\ \A d \in Dag : ~paused[d]
  /\ Init

MCInit ==
  /\ Init /\ Upkeep!Init
  /\ MaintenanceAtStart \/ DeploymentAtStart

DeploymentMoved == UNCHANGED maintenanceVars
MaintenanceMoved == UNCHANGED vars

MCNext ==
  \/ MaintenanceAtStart /\ AlreadySuccessful /\ DeploymentMoved
  \/ MaintenanceAtStart /\ Refuse /\ DeploymentMoved
  \/ MaintenanceAtStart /\ Begin /\ DeploymentMoved
  \/ MaintenanceAtStart /\ Drained /\ DeploymentMoved
  \/ MaintenanceAtStart /\ DrainTimeout /\ DeploymentMoved
  \/ MaintenanceAtStart /\ DrainError /\ DeploymentMoved
  \/ MaintenanceAtStart /\ PauseVerified /\ DeploymentMoved
  \/ MaintenanceAtStart /\ PauseNotVerified /\ DeploymentMoved
  \/ MaintenanceAtStart /\ Prepare /\ DeploymentMoved
  \/ MaintenanceAtStart /\ Install /\ DeploymentMoved
  \/ MaintenanceAtStart /\ DeployCodeServices /\ DeploymentMoved
  \/ MaintenanceAtStart /\ ReadHealth /\ DeploymentMoved
  \/ MaintenanceAtStart /\ Restored /\ DeploymentMoved
  \/ MaintenanceAtStart /\ NotRestored /\ DeploymentMoved
  \/ MaintenanceAtStart /\ RecordSuccess /\ DeploymentMoved
  \/ MaintenanceAtStart /\ RecordFailed /\ DeploymentMoved
  \/ MaintenanceAtStart /\ RecordRolledBack /\ DeploymentMoved
  \/ MaintenanceAtStart /\ RecordError /\ DeploymentMoved
  \/ MaintenanceAtStart /\ RecordClosed /\ DeploymentMoved
  \/ MaintenanceAtStart /\ Crash /\ DeploymentMoved
  \/ MaintenanceAtStart /\ RemoveStaleLock /\ DeploymentMoved
  \/ \E s \in Sha : MaintenanceAtStart /\ Acquire(s) /\ DeploymentMoved
  \/ \E d \in Dag :
       \/ MaintenanceAtStart /\ Pause(d) /\ DeploymentMoved
       \/ MaintenanceAtStart /\ PauseHasNoEffect(d) /\ DeploymentMoved
       \/ MaintenanceAtStart /\ PauseError(d) /\ DeploymentMoved
       \/ MaintenanceAtStart /\ Unpause(d) /\ DeploymentMoved
       \/ MaintenanceAtStart /\ UnpauseHasNoEffect(d) /\ DeploymentMoved
       \/ MaintenanceAtStart /\ UnpauseError(d) /\ DeploymentMoved
       \/ MaintenanceAtStart /\ StartRun(d) /\ DeploymentMoved
       \/ MaintenanceAtStart /\ FinishRun(d) /\ DeploymentMoved
  \/ DeploymentAtStart /\ Upkeep!Gate /\ MaintenanceMoved
  \/ DeploymentAtStart /\ Upkeep!Summarize /\ MaintenanceMoved
  \/ DeploymentAtStart /\ Upkeep!EndRead /\ MaintenanceMoved
  \/ DeploymentAtStart /\ Upkeep!Tick /\ MaintenanceMoved
  \/ \E a \in Table \X (1..3) :
       \/ DeploymentAtStart /\ Upkeep!Submit(a) /\ MaintenanceMoved
       \/ DeploymentAtStart /\ Upkeep!UpstreamFails(a) /\ MaintenanceMoved
       \/ DeploymentAtStart /\ Upkeep!Execute(a) /\ MaintenanceMoved
       \/ DeploymentAtStart /\ Upkeep!TimeOut(a) /\ MaintenanceMoved
  \/ \E t \in Table :
       \/ DeploymentAtStart /\ Upkeep!BeginRead(t) /\ MaintenanceMoved
       \/ DeploymentAtStart /\ Upkeep!Commit(t) /\ MaintenanceMoved

MCSpec == MCInit /\ [][MCNext]_<<vars, maintenanceVars>> /\ WF_vars(Deployer)

\* The snapshot a transform reads is not expired under it.
ReaderKeepsItsSnapshot == Upkeep!ReaderKeepsItsSnapshot
=============================================================================
