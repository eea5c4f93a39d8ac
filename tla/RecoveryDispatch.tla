-------------------------- MODULE RecoveryDispatch --------------------------
(* From recovery candidates to admitted dispatches: the planner, the compiler *)
(* of trigger requests, the snapshot of Airflow's metadata and the admission  *)
(* policy.  Each stage is pure; what happens between two stages is not: runs  *)
(* start and end while a plan is on its way.  Nothing is triggered (the       *)
(* repository has no executor yet).                                           *)
EXTENDS Integers, FiniteSets, Sequences, SequencesExt

CONSTANTS
    Candidates,     \* the candidates that a document may hold
    MaxCandidates,  \* bound: candidates of one document
    Now,            \* now
    MaxJobs,        \* max_jobs
    MaxApiJobs,     \* max_api_jobs
    MaxAge,         \* max_recovery_age
    MaxDispatches,  \* max_dispatches
    Dag             \* the DAGs that may run meanwhile

\* _conflict_dag_ids: the runs that bar a dispatch.  The id of the maintenance
\* DAG is weather_iceberg_maintenance, so that its runs bar none.
Family ==
    {"weather_vilage_fcst_bronze", "weather_vilage_fcst_bronze_backfill", "weather_vilage_fcst_recollect",
     "weather_vilage_fcst_transform", "weather_serving_snapshot_refresh", "weather_serving_export",
     "weather_serving_freshness_watchdog", "weather_ultra_srt_ncst_bronze", "weather_w2_canonical_transform",
     "weather_w1_contract_smoke", "weather_w2_canonical_contract_audit", "weather_w2_observation_recovery",
     "weather_reference_data_refresh", "ask_seoul_iceberg_maintenance"}

Pool == {"kma_api_requests", "trino_weather_heavy"}
\* What slots_stats says of a pool: it is missing, its running and deferred tasks
\* exceed its slots, they fill them, tasks wait for it, or it has a free slot.
PoolStats == {"absent", "overfull", "full", "queued", "free"}

VARIABLES
    given,      \* the candidate document
    stage,
    plan,
    requests,
    runs,       \* of each DAG, the state of its run in Airflow's metadata
    seen,       \* the active runs of the snapshot
    decisions,  \* of each request, what admission says
    early       \* history: the runs that have been active since before the snapshot

vars == <<given, stage, plan, requests, runs, seen, decisions, early>>

\* RecoveryCandidate: one that does not satisfy it ends the command.
Valid(c) ==
    /\ c.size > 0
    /\ c.covered \in 0..c.size
    /\ c.deadline >= c.at

Classify(c) ==
    CASE c.running -> "deferred"
      [] c.deadline > Now -> "deferred"
      [] c.blocking -> "blocked"
      [] Now - c.at > MaxAge -> "blocked"
      [] c.verified /\ c.covered # c.size -> "blocked"
      [] c.verified -> "raw_replay"
      [] c.historical -> "recollect"
      [] OTHER -> "blocked"

Job(c) == [slot |-> c.slot, size |-> c.size, at |-> c.at, action |-> Classify(c)]
ApiCost(job) == IF job.action = "recollect" THEN 1 ELSE 0

\* Replays come first, then the older ones.
Before(j, k) ==
    \/ j.action = "raw_replay" /\ k.action = "recollect"
    \/ j.action = k.action /\ (j.at < k.at \/ (j.at = k.at /\ j.slot < k.slot))

\* Of the candidates of one slot the first one is planned; those that differ
\* from it are blocked.
FirstOfEach(cs) == {cs[i] : i \in {n \in DOMAIN cs : \A m \in 1..(n - 1) : cs[m].slot # cs[n].slot}}
Conflicting(cs) == Range(cs) \ FirstOfEach(cs)

\* No order: the jobs are tried as the document has them.
Sorted_AsGiven(jobs, cs) == SelectSeq([i \in DOMAIN cs |-> Job(cs[i])], LAMBDA j : j \in jobs)
Sorted(jobs, cs) == SetToSortSeq(jobs, Before)

\* One more job, if the budgets allow it; a job is not tried again.
Budgeted(p, job) ==
    IF Len(p.jobs) >= MaxJobs \/ p.api + ApiCost(job) > (IF ApiCost(job) = 0 THEN p.api ELSE MaxApiJobs)
    THEN [p EXCEPT !.deferred = @ \cup {job}]
    ELSE [p EXCEPT !.jobs = Append(@, job), !.api = @ + ApiCost(job)]

PlanOf(cs) ==
    LET classified == {Job(c) : c \in FirstOfEach(cs)}
        of(action) == {j \in classified : j.action = action}
    IN  FoldLeft(Budgeted,
                 [jobs |-> <<>>, api |-> 0, deferred |-> of("deferred"),
                  blocked |-> of("blocked") \cup {[Job(c) EXCEPT !.action = "blocked"] : c \in Conflicting(cs)}],
                 Sorted(of("raw_replay") \cup of("recollect"), cs))

Init ==
    /\ given \in UNION {[1..n -> Candidates] : n \in 1..MaxCandidates}
    /\ runs \in [Dag -> {"none", "queued", "running"}]
    /\ stage = "given" /\ plan = <<>> /\ requests = <<>> /\ seen = {} /\ decisions = <<>>
    /\ early = {d \in Dag : runs[d] # "none"}

MakePlan ==
    /\ stage = "given"
    /\ IF \A i \in DOMAIN given : Valid(given[i])
       THEN plan' = PlanOf(given) /\ stage' = "planned"
       ELSE plan' = plan /\ stage' = "refused"
    /\ UNCHANGED <<given, requests, runs, seen, decisions, early>>

\* A verified manifest with an object for each slot of the job.
Covers(job, evidence) == job.slot \in DOMAIN evidence /\ evidence[job.slot] >= job.size

Request(job, evidence) ==
    IF job.action = "raw_replay"
    THEN [job |-> job, target |-> "weather_vilage_fcst_bronze_backfill", objects |-> evidence[job.slot]]
    ELSE [job |-> job, target |-> "weather_vilage_fcst_recollect", objects |-> 0]

\* One replay without its evidence refuses the whole plan.
Compile ==
    /\ stage = "planned"
    /\ \E known \in SUBSET {c.slot : c \in Candidates} : \E evidence \in [known -> 1..2] :
        IF \A i \in DOMAIN plan.jobs : plan.jobs[i].action = "raw_replay" => Covers(plan.jobs[i], evidence)
        THEN /\ requests' = [i \in DOMAIN plan.jobs |-> Request(plan.jobs[i], evidence)]
             /\ stage' = "compiled"
        ELSE requests' = requests /\ stage' = "refused"
    /\ UNCHANGED <<given, plan, runs, seen, decisions, early>>

Active_Running(d) == runs[d] = "running"
Active(d) == runs[d] # "none"

\* read_airflow_recovery_snapshot, its first query.
ReadRuns ==
    /\ stage = "compiled"
    /\ seen' = {d \in Dag : Active(d)}
    /\ stage' = "read"
    /\ UNCHANGED <<given, plan, requests, runs, decisions, early>>

RequiredPools(request) ==
    IF request.target = "weather_vilage_fcst_recollect" THEN Pool ELSE {"trino_weather_heavy"}

Decide(pools, before, request) ==
    CASE seen \cap Family # {} -> "defer"
      [] \E p \in RequiredPools(request) : pools[p] = "absent" -> "reject"
      [] \E p \in RequiredPools(request) : pools[p] # "free" -> "defer"
      [] Cardinality({i \in DOMAIN before : before[i] = "admit"}) >= MaxDispatches -> "defer"
      [] OTHER -> "admit"

\* The second query, then the decisions in the order of the plan.
Admit ==
    /\ stage = "read"
    /\ \E pools \in [Pool -> PoolStats] :
        IF \E p \in Pool : pools[p] = "overfull"
        THEN decisions' = decisions /\ stage' = "refused"
        ELSE /\ decisions' = FoldLeft(LAMBDA ds, r : Append(ds, Decide(pools, ds, r)), <<>>, requests)
             /\ stage' = "decided"
    /\ UNCHANGED <<given, plan, requests, runs, seen, early>>

\* Airflow goes on meanwhile.
RunMoves(d) ==
    /\ runs' = [runs EXCEPT ![d] = CASE @ = "none" -> "queued" [] @ = "queued" -> "running" [] OTHER -> "none"]
    /\ early' = {e \in early \cup (IF stage \in {"read", "decided"} THEN {} ELSE Dag) : runs'[e] # "none"}
    /\ UNCHANGED <<given, stage, plan, requests, seen, decisions>>

Next == MakePlan \/ Compile \/ ReadRuns \/ Admit \/ (\E d \in Dag : RunMoves(d))

Spec == Init /\ [][Next]_vars

-----------------------------------------------------------------------------
\* The same candidates in another order make the same plan, which no job of
\* which is chosen by where it stood in the document ("Candidate order is never
\* trusted", planner.py): if no two of them differ about a slot.
Reordered(cs) == {[i \in DOMAIN cs |-> cs[f[i]]] : f \in {g \in [DOMAIN cs -> DOMAIN cs] : Range(g) = DOMAIN cs}}
OrderNeverMatters ==
    stage = "planned" /\ Conflicting(given) = {} => \A cs \in Reordered(given) : PlanOf(cs) = plan

\* What is admitted may be dispatched: the collection of its slots was due and
\* had ended when the plan was made, a replay has the objects of all its slots,
\* at most MaxDispatches go at once, and no run that reads or writes the same
\* tables has been active since before the snapshot and still is.
Admitted == {i \in DOMAIN decisions : decisions[i] = "admit"}
AdmittedIsSafe ==
    /\ Cardinality(Admitted) <= MaxDispatches
    /\ Admitted # {} => early \cap Family = {}
    /\ \A i \in Admitted : \E c \in Range(given) :
        /\ c.slot = requests[i].job.slot /\ c.deadline <= Now /\ ~c.running
        /\ requests[i].target = "weather_vilage_fcst_bronze_backfill" =>
            c.covered = c.size /\ requests[i].objects >= c.size
=============================================================================
