----------------------------- MODULE Deployment -----------------------------
(***************************************************************************)
(* The main-branch deployer, src/deployment/main_orchestrator.py, over the *)
(* Airflow instance, the Compose code services, the stable overlay file    *)
(* and the deployment ledger it drives.                                    *)
(*                                                                         *)
(* One deployer runs at a time, because it holds the O_EXCL lock file: a   *)
(* second one fails on the lock and changes nothing.  A run is on one of   *)
(* four paths, each a sequence of steps: "deploy" (the try block of        *)
(* _deploy_locked), "failed" (_fail_before_install), "rollback"            *)
(* (_rollback) and "closed" (_fail_closed).                                *)
(*                                                                         *)
(* A version names one overlay artifact together with the checkout it      *)
(* mounts.  The scheduler starts and ends writer runs at any moment, and a *)
(* command of the deployer may fail before or after its effect.            *)
(***************************************************************************)
EXTENDS Sequences, Naturals

CONSTANTS
  Sha,        \* the commits that are deployed
  Baseline,   \* the version recorded by the first cutover
  Mixed,      \* what the code services run when their recreation was cut short
  Dag,        \* target.dag_allowlist
  Writer,     \* target.writer_dag_allowlist
  MaxFaults   \* bound on failed commands and crashes

ASSUME DeploymentAssumption ==
  /\ Baseline \notin Sha
  /\ Mixed \notin Sha \cup {Baseline}
  /\ Writer \subseteq Dag
  /\ MaxFaults \in Nat

Version == Sha \cup {Baseline}

VARIABLES
  lock,       \* the lock file exists
  installed,  \* the version of the stable overlay file
  services,   \* the version the code services were last recreated from
  proven,     \* read_health has passed since that recreation
  paused,     \* is_paused of every DAG
  active,     \* the writer DAGs with a running or queued run
  ledger,     \* the outcome in each commit's record
  completed,  \* the commits recorded as success, by completed_at
  path,       \* the procedure the deployer is in, or "idle"
  step,       \* the step of that procedure
  todo,       \* the DAGs the current pause or unpause loop has left
  run,        \* the locals of the deployment (kept when it has ended)
  faults      \* failed commands and crashes so far

world == <<installed, services, proven>>
airflow == <<paused, active>>
records == <<ledger, completed>>
position == <<path, step, todo>>
vars == <<lock, world, airflow, records, position, run, faults>>

Outcome == {"none", "started", "success", "failed", "rolled_back",
            "rollback_failed", "pause_state_unverified"}

\* the steps of each procedure
PositionOK ==
  \/ path = "idle" /\ step \in {"none", "check"}
  \/ path = "deploy" /\ step \in {"drain", "pause", "prepare", "install",
                                  "services", "health", "restore", "record"}
  \/ path = "failed" /\ step \in {"restore", "record"}
  \/ path = "rollback" /\ step \in {"pause", "drain", "install", "services",
                                    "health", "restore", "record"}
  \/ path = "closed" /\ step = "pause"

(***************************************************************************)
(* run.rollback is the _RollbackCandidate.  The last three fields are      *)
(* history that no action reads: what was in place when the deployment     *)
(* began, and the pause state of the DAGs before any deployment, or since  *)
(* one was failed closed.                                                  *)
(***************************************************************************)
Run == [sha : Sha, snapshot : [Dag -> BOOLEAN], rollback : Version,
        installed : Version, services : Version \cup {Mixed},
        original : [Dag -> BOOLEAN]]

TypeOK ==
  /\ lock \in BOOLEAN
  /\ installed \in Version
  /\ services \in Version \cup {Mixed}
  /\ proven \in BOOLEAN
  /\ paused \in [Dag -> BOOLEAN]
  /\ active \subseteq Writer
  /\ ledger \in [Sha -> Outcome]
  /\ completed \in Seq(Sha)
  /\ PositionOK
  /\ todo \subseteq Dag
  /\ run \in Run
  /\ faults \in 0..MaxFaults

(***************************************************************************)
(* The first cutover has left the baseline installed and healthy; the      *)
(* operator has paused any of the DAGs.                                    *)
(***************************************************************************)
Init ==
  /\ lock = FALSE
  /\ installed = Baseline /\ services = Baseline /\ proven = TRUE
  /\ paused \in [Dag -> BOOLEAN]
  /\ active = {}
  /\ ledger = [s \in Sha |-> "none"] /\ completed = <<>>
  /\ path = "idle" /\ step = "none" /\ todo = {}
  /\ run \in [sha : Sha, snapshot : {paused}, rollback : {Baseline},
              installed : {Baseline}, services : {Baseline},
              original : {paused}]
  /\ faults = 0

AllPaused == \A d \in Dag : paused[d]

Fault == faults < MaxFaults /\ faults' = faults + 1
NoFault == UNCHANGED faults

\* previous_success, or the baseline when no deployment has succeeded
PreviousSuccess ==
  IF completed = <<>> THEN Baseline ELSE completed[Len(completed)]

GoTo(p, s, t) == path' = p /\ step' = s /\ todo' = t

\* deploy() returns or raises: the lock file is unlinked
End == GoTo("idle", "none", {}) /\ lock' = FALSE

\* install_started
InstallStarted ==
  step \in {"install", "services", "health", "restore", "record"}

ToRestore == {d \in Dag : ~run.snapshot[d]}

\* the except clauses of _deploy_locked, _fail_before_install and _rollback
Fail ==
  \/ /\ path = "deploy" /\ ~InstallStarted
     /\ GoTo("failed", "restore", ToRestore)
  \/ /\ path = "deploy" /\ InstallStarted
     /\ GoTo("rollback", "pause", Dag)
  \/ /\ path \in {"failed", "rollback"}
     /\ GoTo("closed", "pause", Dag)

-----------------------------------------------------------------------------
(***************************************************************************)
(* Before the first mutation: lock, idempotence, rollback candidate,       *)
(* snapshot, STARTED record.                                               *)
(***************************************************************************)
Acquire(s) ==
  /\ path = "idle" /\ step = "none" /\ ~lock
  /\ lock' = TRUE
  /\ GoTo("idle", "check", {})
  /\ run' = [run EXCEPT !.sha = s]
  /\ UNCHANGED <<world, airflow, records, faults>>

AlreadySuccessful ==
  /\ step = "check"
  /\ ledger[run.sha] = "success"
  /\ End
  /\ UNCHANGED <<world, airflow, records, run, faults>>

\* an unusable rollback candidate, snapshot or ledger ends the deployment here
Refuse ==
  /\ step = "check"
  /\ ledger[run.sha] # "success"
  /\ Fault
  /\ End
  /\ UNCHANGED <<world, airflow, records, run>>

Begin ==
  /\ step = "check"
  /\ ledger[run.sha] # "success"
  /\ run' = [sha |-> run.sha, snapshot |-> paused, rollback |-> PreviousSuccess,
             installed |-> installed, services |-> services,
             original |-> run.original]
  /\ ledger' = [ledger EXCEPT ![run.sha] = "started"]
  /\ GoTo("deploy", "drain", {})
  /\ UNCHANGED <<lock, world, airflow, completed, faults>>

-----------------------------------------------------------------------------
(***************************************************************************)
(* _drain: poll until no writer run is running or queued; the bounded wait *)
(* ends in a timeout when one still is.                                    *)
(***************************************************************************)
Drained ==
  /\ step = "drain" /\ active = {}
  /\ \/ path = "deploy" /\ GoTo("deploy", "pause", Dag)
     \/ path = "rollback" /\ GoTo("rollback", "install", {})
  /\ UNCHANGED <<lock, world, airflow, records, run, faults>>

\* Mutant: the rollback waits for the runs without a deadline.
DrainTimeout_NotInRollback ==
  /\ step = "drain" /\ active # {} /\ path = "deploy"
  /\ Fail
  /\ UNCHANGED <<lock, world, airflow, records, run, faults>>

DrainTimeout ==
  /\ step = "drain" /\ active # {}
  /\ Fail
  /\ UNCHANGED <<lock, world, airflow, records, run, faults>>

DrainError ==
  /\ step = "drain" /\ Fault
  /\ Fail
  /\ UNCHANGED <<lock, world, airflow, records, run>>

(***************************************************************************)
(* One pause command.  A command that fails may have taken effect, and one *)
(* that reports success may not have: the readback after the loop decides. *)
(* _fail_closed goes on after a failed command.                            *)
(***************************************************************************)
Pause(d) ==
  /\ step = "pause" /\ d \in todo
  /\ paused' = [paused EXCEPT ![d] = TRUE]
  /\ GoTo(path, step, todo \ {d})
  /\ UNCHANGED <<lock, world, active, records, run, faults>>

PauseHasNoEffect(d) ==
  /\ step = "pause" /\ d \in todo /\ Fault
  /\ GoTo(path, step, todo \ {d})
  /\ UNCHANGED <<lock, world, airflow, records, run>>

PauseError(d) ==
  /\ step = "pause" /\ d \in todo /\ Fault
  /\ \E took \in BOOLEAN : paused' = [paused EXCEPT ![d] = @ \/ took]
  /\ \/ path # "closed" /\ Fail
     \/ path = "closed" /\ GoTo(path, step, todo \ {d})
  /\ UNCHANGED <<lock, world, active, records, run>>

\* Mutant: the loop of pause commands is trusted without the readback.
PauseVerified_NoReadback ==
  /\ step = "pause" /\ todo = {} /\ path # "closed"
  /\ \/ path = "deploy" /\ GoTo("deploy", "prepare", {})
     \/ path = "rollback" /\ GoTo("rollback", "drain", {})
  /\ UNCHANGED <<lock, world, airflow, records, run, faults>>

\* _pause_state_matches after the loop of _pause_all and of _rollback
PauseVerified ==
  /\ step = "pause" /\ todo = {} /\ path # "closed"
  /\ AllPaused
  /\ \/ path = "deploy" /\ GoTo("deploy", "prepare", {})
     \/ path = "rollback" /\ GoTo("rollback", "drain", {})
  /\ UNCHANGED <<lock, world, airflow, records, run, faults>>

PauseNotVerified ==
  /\ step = "pause" /\ todo = {} /\ path # "closed"
  /\ ~AllPaused \/ faults < MaxFaults
  /\ faults' = IF AllPaused THEN faults + 1 ELSE faults
  /\ Fail
  /\ UNCHANGED <<lock, world, airflow, records, run>>

-----------------------------------------------------------------------------
\* detached_checkout, render_release_overlay, stage and validate_candidate
Prepare ==
  /\ step = "prepare"
  /\ \/ GoTo("deploy", "install", {}) /\ NoFault
     \/ Fault /\ Fail
  /\ UNCHANGED <<lock, world, airflow, records, run>>

\* the version this path puts in place
Wanted == IF path = "deploy" THEN run.sha ELSE run.rollback

(***************************************************************************)
(* install or restore, with verify_installed: the overlay file is replaced *)
(* in one rename; an error comes before or after it.                       *)
(***************************************************************************)
Install ==
  /\ step = "install"
  /\ \/ installed' = Wanted /\ GoTo(path, "services", {}) /\ NoFault
     \/ installed' \in {installed, Wanted} /\ Fault /\ Fail
  /\ UNCHANGED <<lock, services, proven, airflow, records, run>>

(***************************************************************************)
(* deploy_code_services recreates the services from the stable overlay; a  *)
(* failed `up` may have recreated none, some or all of them.               *)
(***************************************************************************)
DeployCodeServices ==
  /\ step = "services"
  /\ \/ services' = installed /\ proven' = FALSE
        /\ GoTo(path, "health", {}) /\ NoFault
     \/ services' \in {installed, Mixed} /\ proven' = FALSE /\ Fault /\ Fail
     \/ UNCHANGED <<services, proven>> /\ Fault /\ Fail
  /\ UNCHANGED <<lock, installed, airflow, records, run>>

ReadHealth ==
  /\ step = "health"
  /\ \/ proven' = TRUE /\ GoTo(path, "restore", ToRestore) /\ NoFault
     \/ proven' = proven /\ Fault /\ Fail
  /\ UNCHANGED <<lock, installed, services, airflow, records, run>>

-----------------------------------------------------------------------------
(***************************************************************************)
(* _restore_snapshot: unpause what was not paused when the deployment      *)
(* began, then read the state back.                                        *)
(***************************************************************************)
Unpause(d) ==
  /\ step = "restore" /\ d \in todo
  /\ paused' = [paused EXCEPT ![d] = FALSE]
  /\ GoTo(path, step, todo \ {d})
  /\ UNCHANGED <<lock, world, active, records, run, faults>>

UnpauseHasNoEffect(d) ==
  /\ step = "restore" /\ d \in todo /\ Fault
  /\ GoTo(path, step, todo \ {d})
  /\ UNCHANGED <<lock, world, airflow, records, run>>

UnpauseError(d) ==
  /\ step = "restore" /\ d \in todo /\ Fault
  /\ \E took \in BOOLEAN : paused' = [paused EXCEPT ![d] = @ /\ ~took]
  /\ Fail
  /\ UNCHANGED <<lock, world, active, records, run>>

\* Mutant: the unpause commands are trusted without the readback.
Restored_NoReadback ==
  /\ step = "restore" /\ todo = {}
  /\ GoTo(path, "record", {})
  /\ UNCHANGED <<lock, world, airflow, records, run, faults>>

Restored ==
  /\ step = "restore" /\ todo = {}
  /\ paused = run.snapshot
  /\ GoTo(path, "record", {})
  /\ UNCHANGED <<lock, world, airflow, records, run, faults>>

NotRestored ==
  /\ step = "restore" /\ todo = {}
  /\ paused # run.snapshot \/ faults < MaxFaults
  /\ faults' = IF paused = run.snapshot THEN faults + 1 ELSE faults
  /\ Fail
  /\ UNCHANGED <<lock, world, airflow, records, run>>

-----------------------------------------------------------------------------
\* _record and complete: the commit's record is replaced in one rename
Complete(outcome) == ledger' = [ledger EXCEPT ![run.sha] = outcome]

RecordSuccess ==
  /\ path = "deploy" /\ step = "record"
  /\ Complete("success")
  /\ completed' = Append(completed, run.sha)
  /\ End
  /\ UNCHANGED <<world, airflow, run, faults>>

RecordFailed ==
  /\ path = "failed" /\ step = "record"
  /\ Complete("failed")
  /\ End
  /\ UNCHANGED <<world, airflow, completed, run, faults>>

RecordRolledBack ==
  /\ path = "rollback" /\ step = "record"
  /\ Complete("rolled_back")
  /\ End
  /\ UNCHANGED <<world, airflow, completed, run, faults>>

(***************************************************************************)
(* The record cannot be written: the deployment is rolled back, or closed, *)
(* or, after a failure before the install, ends with the STARTED record.   *)
(***************************************************************************)
RecordError ==
  /\ step = "record" /\ path # "closed" /\ Fault
  /\ \/ path # "failed" /\ Fail /\ UNCHANGED lock
     \/ path = "failed" /\ End
  /\ UNCHANGED <<world, airflow, records, run>>

(***************************************************************************)
(* The end of _fail_closed: the readback decides between rollback_failed   *)
(* and its category PAUSE_STATE_UNVERIFIED; a failed write is swallowed.   *)
(***************************************************************************)
RecordClosed ==
  /\ path = "closed" /\ todo = {}
  /\ \/ AllPaused /\ Complete("rollback_failed") /\ NoFault
     \/ ~AllPaused /\ Complete("pause_state_unverified") /\ NoFault
     \/ Fault /\ Complete("pause_state_unverified")
     \/ Fault /\ UNCHANGED ledger
  /\ End
  /\ run' = [run EXCEPT !.original = paused]
  /\ UNCHANGED <<world, airflow, completed>>

-----------------------------------------------------------------------------
(***************************************************************************)
(* Outside the deployer.  The scheduler starts a run of an unpaused writer *)
(* DAG; a run ends, though of a paused DAG no further task is scheduled.   *)
(* The deployer's process dies; an operator removes the lock it left.      *)
(***************************************************************************)
StartRun(d) ==
  /\ d \in Writer \ active /\ ~paused[d]
  /\ active' = active \cup {d}
  /\ UNCHANGED <<lock, world, paused, records, position, run, faults>>

FinishRun(d) ==
  /\ d \in active
  /\ active' = active \ {d}
  /\ UNCHANGED <<lock, world, paused, records, position, run, faults>>

Crash ==
  /\ step # "none" /\ Fault
  /\ GoTo("idle", "none", {})
  /\ UNCHANGED <<lock, world, airflow, records, run>>

RemoveStaleLock ==
  /\ lock /\ step = "none"
  /\ lock' = FALSE
  /\ UNCHANGED <<world, airflow, records, position, run, faults>>

Deployer ==
  \/ AlreadySuccessful \/ Refuse \/ Begin
  \/ Drained \/ DrainTimeout \/ DrainError
  \/ \E d \in Dag : Pause(d) \/ PauseHasNoEffect(d) \/ PauseError(d)
  \/ PauseVerified \/ PauseNotVerified
  \/ Prepare \/ Install \/ DeployCodeServices \/ ReadHealth
  \/ \E d \in Dag : Unpause(d) \/ UnpauseHasNoEffect(d) \/ UnpauseError(d)
  \/ Restored \/ NotRestored
  \/ RecordSuccess \/ RecordFailed \/ RecordRolledBack \/ RecordError
  \/ RecordClosed

Environment ==
  \/ \E s \in Sha : Acquire(s)
  \/ \E d \in Dag : StartRun(d) \/ FinishRun(d)
  \/ Crash \/ RemoveStaleLock

Next == Deployer \/ Environment

Spec == Init /\ [][Next]_vars

\* the deployer's process is scheduled: no step of it waits for good
FairSpec == Spec /\ WF_vars(Deployer)

-----------------------------------------------------------------------------
(***************************************************************************)
(* Airflow schedules DAGs only on code that passed read_health since the   *)
(* services were last recreated: whatever fails and whenever the deployer  *)
(* dies, a DAG that is not paused runs on proven code.                     *)
(***************************************************************************)
UnpausedRunsProven == (\E d \in Dag : ~paused[d]) => proven

(***************************************************************************)
(* A DAG the operator had paused is never unpaused by a deployment, a      *)
(* rollback or the recovery from either, crashes in between included       *)
(* (_restore_snapshot unpauses only what the snapshot says was unpaused).  *)
(***************************************************************************)
NeverEnables == \A d \in Dag : run.original[d] => paused[d]

(***************************************************************************)
(* What the ledger says of a deployment is so when it is written: success  *)
(* and rolled_back mean that the overlay, the healthy services and the     *)
(* latest success agree and the pause state is the snapshot; failed means  *)
(* that nothing was touched; rollback_failed that every DAG is paused.     *)
(***************************************************************************)
InPlace(v) ==
  installed = v /\ services = v /\ proven /\ paused = run.snapshot

OutcomeHolds(outcome) ==
  /\ outcome = "success" => InPlace(run.sha)
  /\ outcome = "rolled_back" => InPlace(PreviousSuccess)
  /\ outcome = "failed" => /\ installed = run.installed
                           /\ services = run.services
                           /\ paused = run.snapshot
  /\ outcome = "rollback_failed" => AllPaused

OutcomeIsTrue ==
  [][ledger' # ledger => OutcomeHolds(ledger'[run.sha])]_vars

(***************************************************************************)
(* A success is never forgotten: its record is never replaced, so it stays *)
(* the rollback candidate until a later deployment succeeds, and a commit  *)
(* is deployed successfully at most once.                                  *)
(***************************************************************************)
SuccessIsKept ==
  [][\A s \in Sha : ledger[s] = "success" => ledger'[s] = "success"]_vars

(***************************************************************************)
(* Every deployment ends: the bounded drain does not wait for a run that   *)
(* the pause itself has stopped, and every error path reaches its end.     *)
(***************************************************************************)
DeploymentEnds == step # "none" ~> step = "none"

-----------------------------------------------------------------------------
=============================================================================
