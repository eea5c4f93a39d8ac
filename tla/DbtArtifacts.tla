---------------------------- MODULE DbtArtifacts ----------------------------
(* The directories in which the Weather DAGs run dbt: every attempt of a task *)
(* has its own target directory under its DAG run's, the packages are         *)
(* installed once per run, dbt_deps prunes the runs of its pipeline down to    *)
(* the retained number, and a successful phase replaces the stable manifest.   *)
(* Several DAGs may share one pipeline name (daily and backfill quality).      *)
EXTENDS Naturals, Sequences, FiniteSets, SequencesExt

CONSTANTS
  Run,          \* DAG runs of one pipeline
  DagOf,        \* [Run -> DAG]; a DAG has one active run (max_active_runs=1)
  Tasks,        \* the dbt tasks of a run in order, the first is dbt_deps
  MaxTries,     \* tries Airflow gives a task
  Retention,    \* ASK_SEOUL_DBT_ARTIFACT_RETENTION_RUNS
  MaxCommands,  \* bound: dbt commands executed in a behaviour
  MaxFaults     \* bound: lost heartbeats and deleted runs

ASSUME RetentionAssumption == Retention \in Nat \ {0}
ASSUME TasksAssumption == Tasks # <<>> /\ IsInjective(Tasks)

VARIABLES
  status,    \* [Run -> "absent" | "active" | "success" | "failed"] in Airflow
  step,      \* [Run -> index in Tasks] the task Airflow is at
  try,       \* [Run -> 1..MaxTries] the try it is at
  procs,     \* attempt -> [stage, rc, lost], the live processes
  present,   \* runs of the pipeline that have a directory
  mtimes,    \* runs by the mtime of their directory, oldest first; a removed
             \* directory keeps its place
  entries,   \* [Run -> SUBSET Range(Tasks)] task directories in them
  packages,  \* runs whose package sentinel is installed
  files,     \* artifact files: [at: attempt, kind, whole, fresh: written by the
             \* last command of that attempt]
  stable,    \* target/manifest.json: "none", or whether the command that wrote
             \* it exited 0, "sound" or "unsound"
  report,    \* [Run -> artifacts of the last execution Airflow was told of]
  commands,  \* dbt commands executed so far
  faults

vars == <<status, step, try, procs, present, mtimes, entries, packages, files,
          stable, report, commands, faults>>

Task == {Tasks[i] : i \in DOMAIN Tasks}
Deps == Tasks[1]

\* attempt_paths: the invocation id is the task id, so the run, the task and
\* the try tell attempts apart.
Attempt(r) == <<r, Tasks[step[r]], try[r]>>

Newest(r) == Append(SelectSeq(mtimes, LAMBDA x : x # r), r)

\* mkdir(parents=True): the directories are there afterwards, and a new entry
\* moves the run directory's mtime.
MakeDirectories(r, t) ==
  /\ present' = present \cup {r}
  /\ entries' = [entries EXCEPT ![r] = @ \cup {t}]
  /\ mtimes' = IF t \in entries[r] THEN mtimes ELSE Newest(r)

Expected(t) == IF t = Deps THEN {} ELSE {"run_results", "manifest"}

TypeOK ==
  /\ status \in [Run -> {"absent", "active", "success", "failed"}]
  /\ step \in [Run -> DOMAIN Tasks]
  /\ try \in [Run -> 1..MaxTries]
  /\ entries \in [Run -> SUBSET Task]
  /\ packages \subseteq Run
  /\ \A r \in Run : entries[r] # {} => r \in present
  /\ present \subseteq ToSet(mtimes) /\ IsInjective(mtimes)

Init ==
  /\ status = [r \in Run |-> "absent"]
  /\ step = [r \in Run |-> 1]
  /\ try = [r \in Run |-> 1]
  /\ procs = << >>
  /\ present = {}
  /\ mtimes = << >>
  /\ entries = [r \in Run |-> {}]
  /\ packages = {}
  /\ files = {}
  /\ stable = "none"
  /\ report = [r \in Run |-> {}]
  /\ commands = 0
  /\ faults = 0

airflow == <<status, step, try>>
places == <<present, mtimes, entries>>
tree == <<places, packages, files>>

Live(a) == a \in DOMAIN procs
Without(a) == [b \in DOMAIN procs \ {a} |-> procs[b]]
At(a, p) == [b \in DOMAIN procs \cup {a} |-> IF b = a THEN p ELSE procs[b]]
Moved(a, stage) == At(a, [procs[a] EXCEPT !.stage = stage])

Begin(r) ==
  /\ status[r] = "absent"
  /\ \A s \in Run : DagOf[s] = DagOf[r] => status[s] # "active"
  /\ \A a \in DOMAIN procs : a[1] # r
  /\ status' = [status EXCEPT ![r] = "active"]
  /\ step' = [step EXCEPT ![r] = 1]
  /\ try' = [try EXCEPT ![r] = 1]
  /\ report' = [report EXCEPT ![r] = {}]
  /\ UNCHANGED <<procs, tree, stable, commands, faults>>

\* execute_dbt_phase up to its first command: the attempt's preflight
\* directories and the run's packages directory exist and are writable.
Prepare(r) ==
  LET a == Attempt(r) IN
  /\ status[r] = "active"
  /\ ~Live(a)
  /\ procs' = At(a, [stage |-> "prepared", rc |-> "none", lost |-> FALSE])
  /\ MakeDirectories(r, a[2])
  /\ UNCHANGED <<airflow, packages, files, stable, report, commands, faults>>

\* What Airflow does with the end of its current try: the next task, another
\* try of this one, or the end of the run.
Conclude(r, outcome) ==
  IF outcome = "ok" THEN
    IF step[r] = Len(Tasks)
    THEN status' = [status EXCEPT ![r] = "success"] /\ UNCHANGED <<step, try>>
    ELSE /\ step' = [step EXCEPT ![r] = @ + 1]
         /\ try' = [try EXCEPT ![r] = 1]
         /\ UNCHANGED status
  ELSE IF outcome = "retry" /\ try[r] < MaxTries
    THEN try' = [try EXCEPT ![r] = @ + 1] /\ UNCHANGED <<status, step>>
    ELSE status' = [status EXCEPT ![r] = "failed"] /\ UNCHANGED <<step, try>>

\* The result of an attempt whose process Airflow gave up is not taken.
Return(a, result, outcome) ==
  /\ procs' = Without(a)
  /\ IF procs[a].lost
     THEN UNCHANGED <<airflow, report>>
     ELSE Conclude(a[1], outcome) /\ report' = [report EXCEPT ![a[1]] = result]

\* The package sentinel is missing: deps runs before anything else. Its
\* failure ends the attempt with no command attempted.
SelfHeal(a, ok) ==
  /\ Live(a) /\ procs[a].stage = "prepared"
  /\ a[2] # Deps /\ a[1] \notin packages
  /\ IF ok
     THEN /\ packages' = packages \cup {a[1]}
          /\ present' = present \cup {a[1]}
          /\ mtimes' = Newest(a[1])
          /\ procs' = Moved(a, "healed")
          /\ UNCHANGED <<airflow, report>>
     ELSE /\ \E outcome \in {"retry", "fail"} : Return(a, {}, outcome)
          /\ UNCHANGED <<packages, present, mtimes>>
  /\ UNCHANGED <<entries, files, stable, commands, faults>>

\* Nothing stands between the attempt and its preflight listing.
PackagesReady(a) ==
  \/ procs[a].stage = "healed"
  \/ procs[a].stage = "prepared" /\ (a[2] = Deps \/ a[1] \in packages)

\* The raw preflight `dbt ls` fails or selects nothing: the attempt ends before
\* its command, and what an earlier attempt left is not looked at.
PreflightFails(a) ==
  /\ Live(a) /\ PackagesReady(a)
  /\ a[2] # Deps
  /\ \E outcome \in {"retry", "fail"} : Return(a, {}, outcome)
  /\ UNCHANGED <<tree, stable, commands, faults>>

\* reset_execution_directories: the attempt's execution directory starts empty.
ResetExecution(a) == {f \in files : f.at # a}

\* The listing selected nodes (deps has no selector), and the command starts.
Execute(a) ==
  /\ Live(a) /\ PackagesReady(a)
  /\ commands < MaxCommands
  /\ commands' = commands + 1
  /\ files' = {IF f.at = a THEN [f EXCEPT !.fresh = FALSE] ELSE f :
                f \in ResetExecution(a)}
  /\ MakeDirectories(a[1], a[2])
  /\ procs' = Moved(a, "running")
  /\ UNCHANGED <<airflow, packages, stable, report, faults>>

\* The command ends: with 0, with a transient adapter error in its output, or
\* with any other failure, and with any of its artifacts written (dbt makes the
\* directories it needs), the manifest possibly cut short.
Exit(a, rc, kinds, whole) ==
  /\ Live(a) /\ procs[a].stage = "running"
  /\ a[2] # Deps
  /\ kinds \subseteq Expected(a[2])
  /\ procs' = At(a, [procs[a] EXCEPT !.stage = "exited", !.rc = rc])
  /\ files' = {f \in files : f.at # a \/ f.kind \notin kinds}
              \cup {[at |-> a, kind |-> k, fresh |-> TRUE,
                     whole |-> whole \/ k # "manifest"] : k \in kinds}
  /\ IF kinds = {} THEN UNCHANGED places ELSE MakeDirectories(a[1], a[2])
  /\ UNCHANGED <<airflow, packages, stable, report, commands, faults>>

\* The same of `dbt deps`: its success has installed the packages, which may
\* re-create their directory.
ExitDeps(a, rc, recreated) ==
  /\ Live(a) /\ procs[a].stage = "running"
  /\ a[2] = Deps
  /\ procs' = At(a, [procs[a] EXCEPT !.stage = "exited", !.rc = rc])
  /\ IF rc = "ok"
     THEN /\ packages' = packages \cup {a[1]}
          /\ present' = present \cup {a[1]}
          /\ mtimes' = IF recreated \/ a[1] \notin present
                       THEN Newest(a[1]) ELSE mtimes
     ELSE UNCHANGED <<packages, present, mtimes>>
  /\ UNCHANGED <<airflow, entries, files, stable, report, commands, faults>>

\* _prune_run_root: nothing up to the retained number, else the current run
\* and the newest others by mtime are kept.
Kept(r) ==
  LET others == SelectSeq(mtimes, LAMBDA x : x \in present \ {r})
      quota  == Retention - Cardinality({r} \cap present)
      spared == {others[i] : i \in {j \in DOMAIN others : j + quota > Len(others)}}
  IN IF Cardinality(present) <= Retention THEN present
     ELSE ({r} \cap present) \cup spared

Prune(a) ==
  LET keep == Kept(a[1]) IN
  /\ present' = keep
  /\ entries' = [r \in Run |-> IF r \in keep THEN entries[r] ELSE {}]
  /\ packages' = packages \cap keep
  /\ files' = {f \in files : f.at[1] \in keep}
  /\ UNCHANGED mtimes

\* The files of the attempt's execution directory that count as artifacts.
Existing(a) == {f \in files : f.at = a /\ (f.kind = "manifest" => f.whole)}
Missing(a) == Expected(a[2]) \ {f.kind : f \in Existing(a)}

\* MUTANT A whole manifest is published however the command ended.
Publishes_AnyExit(a) == a[2] # Deps /\ Missing(a) = {}

\* _publish_stable_manifest: only a whole manifest of a command that exited 0
\* with nothing missing replaces the stable one, atomically.
Publishes(a) == a[2] # Deps /\ procs[a].rc = "ok" /\ Missing(a) = {}

Soundness(a) ==
  IF procs[a].rc = "ok" /\ \E f \in Existing(a) : f.kind = "manifest" /\ f.fresh
  THEN "sound" ELSE "unsound"

\* run_weather_dbt_phase: a transient adapter error is retried even when
\* artifacts are missing, every other failure is final.
Verdict(a) ==
  IF procs[a].rc = "ok" /\ Missing(a) = {} THEN "ok"
  ELSE IF procs[a].rc = "transient" THEN "retry" ELSE "fail"

\* The end of execute_dbt_phase: a successful deps prunes, then what exists is
\* collected, the stable manifest replaced and the result returned.
Collect(a) ==
  /\ Live(a) /\ procs[a].stage = "exited"
  /\ IF a[2] = Deps /\ procs[a].rc = "ok" THEN Prune(a) ELSE UNCHANGED tree
  /\ stable' = IF Publishes(a) THEN Soundness(a) ELSE stable
  /\ Return(a, Existing(a), Verdict(a))
  /\ UNCHANGED <<commands, faults>>

\* Airflow gives an attempt up, whose process may go on for a while.
LoseHeartbeat(a, dies) ==
  /\ Live(a) /\ ~procs[a].lost
  /\ faults < MaxFaults
  /\ faults' = faults + 1
  /\ Conclude(a[1], "retry")
  /\ procs' = IF dies THEN Without(a) ELSE At(a, [procs[a] EXCEPT !.lost = TRUE])
  /\ UNCHANGED <<tree, stable, report, commands>>

\* An operator deletes a finished DAG run; a run of the same id may be created
\* again, and its tries start over in the directories that are still there.
DeleteRun(r) ==
  /\ status[r] \in {"success", "failed"}
  /\ \A a \in DOMAIN procs : a[1] # r
  /\ faults < MaxFaults
  /\ faults' = faults + 1
  /\ status' = [status EXCEPT ![r] = "absent"]
  /\ UNCHANGED <<step, try, procs, tree, stable, report, commands>>

Step(a) ==
  \/ \E ok \in BOOLEAN : SelfHeal(a, ok)
  \/ PreflightFails(a)
  \/ Execute(a)
  \/ \E rc \in {"ok", "transient", "failed"} :
       \/ \E kinds \in SUBSET Expected(a[2]), whole \in BOOLEAN :
            Exit(a, rc, kinds, whole)
       \/ \E recreated \in BOOLEAN : ExitDeps(a, rc, recreated)
  \/ Collect(a)
  \/ \E dies \in BOOLEAN : LoseHeartbeat(a, dies)

Next ==
  \/ \E r \in Run : Begin(r) \/ Prepare(r) \/ DeleteRun(r)
  \/ \E a \in DOMAIN procs : Step(a)

Spec == Init /\ [][Next]_vars
-----------------------------------------------------------------------------
\* What a phase reports its own dbt command wrote, never the deleted run of the
\* same id whose directories are still there, and the stable manifest is that
\* of a command that exited 0 (execute_dbt_phase runs "without stale
\* artifacts").
ArtifactsAreOwn ==
  /\ \A r \in Run : \A f \in report[r] : f.fresh
  /\ stable # "unsound"
=============================================================================
