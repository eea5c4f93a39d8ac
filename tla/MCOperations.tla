---------------------------- MODULE MCOperations ----------------------------
(* What stands around the pipeline, in five parts that share no state: the     *)
(* directories of two DAGs that share a dbt pipeline, the manual trigger, the  *)
(* public daily report, the operator's daily report, and the attempt budget of *)
(* the hosted collector.  One of them moves while the others stand at their    *)
(* start.                                                                      *)
(* A dbt run of either DAG, of which one is retained, and four commands let a  *)
(* run be pruned, and be created again under its id.  Two triggers meet over a *)
(* weather, a traffic and a common DAG and maintenance.                        *)
(* The public report covers two grids, which are alike, and two days; the      *)
(* operator's one run of two slots.  Two processes overlap around a midnight.  *)
EXTENDS DbtArtifacts

CONSTANTS
  d1, b1, daily, backfill,
  Grid, TicksPerDay, IssueTicks, FreshFor, MaxTick, MaxRaw, MaxManifests, MaxJobs,
  Weather, Traffic, Common, Maintenance, Guard, MaxScheduled, MaxTriggerFaults, nobody,
  Sender, DayLength, BudgetDays, Headroom, SendDelay, DailyLimit, RunLimit, Tries,
  Reporter, LoadRun, SlotOfDay, MaxInstant, MaxReports

VARIABLES
  now, raw, manifests, archive, head, job, inflight, jobs,
  runs, mutex, guard, orphans, scheduled, faults_t,
  instant, budget, process, sent,
  tick, bronze, events, proc, flock, revisions, markdown, latest, begun,
  moving  \* the part that moves in this behaviour

MCRun == {d1, b1}
MCDagOf == (d1 :> daily) @@ (b1 :> backfill)
MCTasks == <<"dbt_deps", "dbt_build">>

Daily == INSTANCE PublicReport WITH Fresh <- FreshFor

Manual == INSTANCE ManualTrigger WITH
  MaxFaults <- MaxTriggerFaults, None <- nobody,
  active <- runs, lock <- mutex, faults <- faults_t

Budget == INSTANCE AttemptBudget WITH
  Process <- Sender, Days <- BudgetDays, None <- nobody, now <- instant

Local == INSTANCE LocalReport WITH
  Proc <- Reporter, CollectionRun <- LoadRun, Slot <- SlotOfDay, MaxTick <- MaxInstant,
  now <- tick, rows <- bronze, lock <- flock

ASSUME TriggersAssumption == Manual!TriggerAssumption
ASSUME ReportAssumption == Daily!DayAssumption
ASSUME SendersAssumption == Budget!BudgetAssumption

dailyVars == <<now, raw, manifests, archive, head, job, inflight, jobs>>
manualVars == <<runs, mutex, guard, orphans, scheduled, faults_t>>
budgetVars == <<instant, budget, process, sent>>
localVars == <<tick, bronze, events, proc, flock, revisions, markdown, latest, begun>>

\* dbt writes the manifest when it has parsed the project, and the results last.
Written(t) == {kinds \in SUBSET Expected(t) : "run_results" \in kinds => "manifest" \in kinds}

\* The grids are alike, so the first one lands first.
Landing == IF raw = {} THEN {CHOOSE g \in Grid : TRUE} ELSE Grid

MCInit == Init /\ Daily!Init /\ Manual!Init /\ Budget!Init /\ Local!Init /\ moving = "none"

Moves(part) == moving \in {"none", part} /\ moving' = part
Building == Moves("dbt")
Reporting == Moves("daily")
Triggering == Moves("manual")
Sending == Moves("budget")
Judging == Moves("local")

DbtMoved == UNCHANGED <<dailyVars, manualVars, budgetVars, localVars>>
DailyMoved == UNCHANGED <<vars, manualVars, budgetVars, localVars>>
ManualMoved == UNCHANGED <<vars, dailyVars, budgetVars, localVars>>
BudgetMoved == UNCHANGED <<vars, dailyVars, manualVars, localVars>>
LocalMoved == UNCHANGED <<vars, dailyVars, manualVars, budgetVars>>

MCNext ==
  \/ Reporting /\ Daily!Tick /\ DailyMoved
  \/ \E g \in Landing, issue \in 0..now : Reporting /\ Daily!LandRaw(g, issue) /\ DailyMoved
  \/ \E refs \in SUBSET raw, complete \in BOOLEAN : Reporting /\ Daily!LandManifest(refs, complete) /\ DailyMoved
  \/ \E refresh \in BOOLEAN : Reporting /\ Daily!Prepare(refresh) /\ DailyMoved
  \/ Reporting /\ Daily!ListDay /\ DailyMoved
  \/ \E unavailable \in BOOLEAN : Reporting /\ Daily!ListNextDay(unavailable) /\ DailyMoved
  \/ Reporting /\ Daily!Commit /\ DailyMoved
  \/ Reporting /\ Daily!Push /\ DailyMoved
  \/ Reporting /\ Daily!Kill /\ DailyMoved
  \/ \E push \in inflight : Reporting /\ Daily!LatePush(push) /\ DailyMoved
  \/ \E r \in Run :
       \/ Building /\ Begin(r) /\ DbtMoved
       \/ Building /\ Prepare(r) /\ DbtMoved
       \/ Building /\ DeleteRun(r) /\ DbtMoved
  \/ \E a \in DOMAIN procs :
       \/ \E ok \in BOOLEAN : Building /\ SelfHeal(a, ok) /\ DbtMoved
       \/ Building /\ PreflightFails(a) /\ DbtMoved
       \/ Building /\ Execute(a) /\ DbtMoved
       \/ \E rc \in {"ok", "transient", "failed"}, kinds \in Written(a[2]), whole \in BOOLEAN :
            Building /\ Exit(a, rc, kinds, whole) /\ DbtMoved
       \/ \E rc \in {"ok", "transient", "failed"}, recreated \in BOOLEAN : Building /\ ExitDeps(a, rc, recreated) /\ DbtMoved
       \/ Building /\ Collect(a) /\ DbtMoved
       \/ \E dies \in BOOLEAN : Building /\ LoseHeartbeat(a, dies) /\ DbtMoved
  \/ \E t \in Guard :
       \/ Triggering /\ Manual!TryLock(t) /\ ManualMoved
       \/ Triggering /\ Manual!Query(t) /\ ManualMoved
       \/ Triggering /\ Manual!QueryFails(t) /\ ManualMoved
       \/ Triggering /\ Manual!Trigger(t) /\ ManualMoved
       \/ Triggering /\ Manual!TriggerFails(t) /\ ManualMoved
       \/ Triggering /\ Manual!Unlock(t) /\ ManualMoved
       \/ Triggering /\ Manual!LoseSession(t) /\ ManualMoved
       \/ Triggering /\ Manual!GuardDies(t) /\ ManualMoved
       \/ Triggering /\ Manual!OrphanTriggers(t) /\ ManualMoved
  \/ Triggering /\ Manual!ScheduledRun /\ ManualMoved
  \/ Triggering /\ Manual!RunEnds /\ ManualMoved
  \/ \E p \in Sender :
       \/ Sending /\ Budget!Reserve(p) /\ BudgetMoved
       \/ Sending /\ Budget!ReadBudget(p) /\ BudgetMoved
       \/ Sending /\ Budget!PutBudget(p) /\ BudgetMoved
       \/ Sending /\ Budget!PutUncertain(p) /\ BudgetMoved
       \/ Sending /\ Budget!Acknowledge(p) /\ BudgetMoved
       \/ Sending /\ Budget!Send(p) /\ BudgetMoved
       \/ Sending /\ Budget!Dies(p) /\ BudgetMoved
  \/ Sending /\ Budget!Tick /\ BudgetMoved
  \/ Judging /\ Local!Tick /\ LocalMoved
  \/ \E load \in LoadRun, slots \in SUBSET SlotOfDay, whole \in BOOLEAN :
       slots # {} /\ Judging /\ Local!Load(load, slots, whole) /\ LocalMoved
  \/ \E load \in LoadRun, says \in Local!Says :
       Judging /\ Local!Record(load, says) /\ LocalMoved
  \/ \E p \in Reporter :
       \/ \E asOf \in 0..tick - 1 : Judging /\ Local!Begin(p, asOf) /\ LocalMoved
       \/ \E measured \in BOOLEAN : Judging /\ Local!ReadCoverage(p, measured) /\ LocalMoved
       \/ \E measured \in BOOLEAN : Judging /\ Local!BuildReport(p, measured) /\ LocalMoved
       \/ Judging /\ Local!SaveRevision(p) /\ LocalMoved
       \/ Judging /\ Local!SaveMarkdown(p) /\ LocalMoved
       \/ Judging /\ Local!SaveJson(p) /\ LocalMoved
       \/ Judging /\ Local!Kill(p) /\ LocalMoved

\* The runs of the pipeline are alike, up to their DAGs.
Symmetry == Permutations(Run)

MCSpec == MCInit /\ [][MCNext]_<<vars, dailyVars, manualVars, budgetVars, localVars, moving>>

\* A report that passes had the evidence for it.
PassIsEarned == Daily!PassIsEarned

\* Two triggers that both report success leave no conflicting runs together.
SuccessesExclude == Manual!SuccessesExclude

\* No day gets more requests than its object has reserved, nor more than the
\* limit.
NeverOverBudget == Budget!NeverOverBudget

\* A slot a saved report calls covered is backed by what its run last said.
CoveredIsBacked == Local!CoveredIsBacked
=============================================================================
