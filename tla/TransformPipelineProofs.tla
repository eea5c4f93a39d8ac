----------------------- MODULE TransformPipelineProofs -----------------------
(* Proofs about the Weather DAGs between Bronze and the public tables: for any  *)
(* number of Bronze runs, any issues they belong to, any order of their events, *)
(* any number of products and failures.                                         *)
(*                                                                              *)
(* The invariant has four parts: the shape of the state; the lane, of which     *)
(* tasks may hold the pool together; the stages, of what the finished tasks of  *)
(* a transform say about its pin and the tables; and the account of every       *)
(* published run.                                                               *)
EXTENDS TransformPipeline, FiniteSetTheorems, WellFoundedInduction, TLAPS

Rows == [Issues -> Run \cup {None}]
Clocked == {"refresh", "reference"}

Shape ==
  /\ published \subseteq Run /\ coalesced \subseteq published
  /\ queue \in [Consumers -> SUBSET published] /\ batch \in [Consumers -> SUBSET published]
  /\ pin \in [Consumers -> Run \cup {None}]
  /\ active \subseteq Dags /\ due \subseteq Clocked
  /\ clock \in 0..LastHour /\ frozen \in [Dags -> 0..LastHour]
  /\ done \subseteq Tasks /\ running \subseteq Tasks /\ failed \subseteq Tasks /\ retried \subseteq Tasks
  /\ silver \in Rows /\ place \in Rows /\ grid \in Rows /\ gold \in [place : Rows, grid : Rows]
  /\ edition \in Nat /\ passed \subseteq 0..edition /\ products \in [Product -> 0..edition]
  /\ ready \in BOOLEAN /\ exporting \subseteq Product
  /\ faults \in 0..MaxFaults /\ lost \subseteq Run

\* A task that has started has all it needs behind it, and two tasks share the
\* pool only when neither is exclusive.
Lanes ==
  /\ running \cap done = {}
  /\ \A t \in running \cup done : Graph[t].needs \subseteq done /\ Graph[t].dag \in active
  /\ \A t \in running : Graph[t].slots > 0
  /\ \A s, t \in running : s # t => Graph[s].slots = 1 /\ Graph[t].slots = 1

Pinned == pin["transform"]

\* What the finished tasks of the running transform have left.
Stages ==
  /\ "resolve_snapshot" \in done =>
       /\ Pinned = Newest("transform") /\ Pinned \in batch["transform"]
       /\ batch["transform"] \ {Pinned} \subseteq coalesced
  /\ "run_silver" \in done =>
       \/ silver[IssueOf[Pinned]] = Pinned
       \/ Pinned \in coalesced
       \/ Pinned \in lost /\ \E i \in Issues : silver[i] > Pinned
  /\ "place_mart" \in done => place = silver
  /\ "grid_mart" \in done => grid = silver
  /\ "gold" \in done => gold = [place |-> place, grid |-> grid]

\* A published run whose rows a newer run has taken over, or that was set aside
\* for one.
Superseded(r) ==
  \E newer \in published : newer > r /\ (r \in coalesced \/ IssueOf[newer] = IssueOf[r])

\* Where a published run is, or why it is nowhere.
Account ==
  /\ \A d \in Consumers : d \in active <=> batch[d] # {}
  /\ \A r \in coalesced : \E newer \in published : newer > r
  /\ \A r \in published :
       \/ r \in queue["transform"] \cup batch["transform"] \cup lost
       \/ silver[IssueOf[r]] = r
       \/ Superseded(r)

IInv == Shape /\ Lanes /\ Stages /\ Account

-----------------------------------------------------------------------------
(* The task graph.                                                           *)

LEMMA TaskNames ==
  /\ DOMAIN TransformTasks = {"resolve_snapshot", "resolve_hour", "source_freshness", "run_silver",
                              "test_silver", "place_mart", "grid_mart", "gold", "mark_gold"}
  /\ DOMAIN W2Tasks = {"w2_resolve", "w2_models"}
  /\ DOMAIN RefreshTasks = {"refresh_hour", "refresh_run", "refresh_test", "refresh_mark"}
  /\ DOMAIN ReferenceTasks = {"seed_mapping"}
  /\ Tasks = {"resolve_snapshot", "resolve_hour", "source_freshness", "run_silver", "test_silver",
              "place_mart", "grid_mart", "gold", "mark_gold", "w2_resolve", "w2_models",
              "refresh_hour", "refresh_run", "refresh_test", "refresh_mark", "seed_mapping"}
<1>1. /\ DOMAIN TransformTasks = {"resolve_snapshot", "resolve_hour", "source_freshness", "run_silver",
                                  "test_silver", "place_mart", "grid_mart", "gold", "mark_gold"}
      /\ DOMAIN W2Tasks = {"w2_resolve", "w2_models"}
      /\ DOMAIN RefreshTasks = {"refresh_hour", "refresh_run", "refresh_test", "refresh_mark"}
      /\ DOMAIN ReferenceTasks = {"seed_mapping"}
  BY DEF TransformTasks, W2Tasks, RefreshTasks, ReferenceTasks
<1>2. QED
  BY <1>1 DEF Tasks

LEMMA GraphSplits ==
  /\ \A t \in DOMAIN TransformTasks : Graph[t] = TransformTasks[t]
  /\ \A t \in DOMAIN W2Tasks : Graph[t] = W2Tasks[t]
  /\ \A t \in DOMAIN RefreshTasks : Graph[t] = RefreshTasks[t]
  /\ \A t \in DOMAIN ReferenceTasks : Graph[t] = ReferenceTasks[t]
BY TaskNames DEF Graph

\* The chain of the transform's tasks; the marts are its only fork.
LEMMA TransformGraph ==
  /\ Graph["resolve_snapshot"] = Task("transform", {}, 0, {}, {})
  /\ Graph["resolve_hour"] = Task("transform", {"resolve_snapshot"}, 0, {}, {})
  /\ Graph["source_freshness"] = Task("transform", {"resolve_hour"}, 1, {"bronze"}, {})
  /\ Graph["run_silver"] = Task("transform", {"source_freshness"}, 1, {"bronze"}, {"silver"})
  /\ Graph["test_silver"] = Task("transform", {"run_silver"}, 1, {"bronze", "silver"}, {})
  /\ Graph["place_mart"] = Task("transform", {"test_silver"}, 1, {"silver", "mapping"}, {"place"})
  /\ Graph["grid_mart"] = Task("transform", {"test_silver"}, 1, {"silver"}, {"grid"})
  /\ Graph["gold"] = Task("transform", {"place_mart", "grid_mart"}, 1, {"place", "grid"}, {"gold"})
  /\ Graph["mark_gold"] = Task("transform", {"gold"}, 0, {}, {})
<1>1. /\ TransformTasks["resolve_snapshot"] = Task("transform", {}, 0, {}, {})
      /\ TransformTasks["resolve_hour"] = Task("transform", {"resolve_snapshot"}, 0, {}, {})
      /\ TransformTasks["source_freshness"] = Task("transform", {"resolve_hour"}, 1, {"bronze"}, {})
      /\ TransformTasks["run_silver"] = Task("transform", {"source_freshness"}, 1, {"bronze"}, {"silver"})
      /\ TransformTasks["test_silver"] = Task("transform", {"run_silver"}, 1, {"bronze", "silver"}, {})
      /\ TransformTasks["place_mart"] = Task("transform", {"test_silver"}, 1, {"silver", "mapping"}, {"place"})
      /\ TransformTasks["grid_mart"] = Task("transform", {"test_silver"}, 1, {"silver"}, {"grid"})
      /\ TransformTasks["gold"] = Task("transform", {"place_mart", "grid_mart"}, 1, {"place", "grid"}, {"gold"})
      /\ TransformTasks["mark_gold"] = Task("transform", {"gold"}, 0, {}, {})
  BY DEF TransformTasks, Branch
<1>2. QED
  BY <1>1, GraphSplits, TaskNames

LEMMA OtherGraphs ==
  /\ Graph["w2_resolve"] = Task("w2", {}, 0, {}, {})
  /\ Graph["w2_models"] = Task("w2", {"w2_resolve"}, 2, {"bronze", "mapping"}, {"w2"})
  /\ Graph["refresh_hour"] = Task("refresh", {}, 0, {}, {})
  /\ Graph["refresh_run"] = Task("refresh", {"refresh_hour"}, 2, {"gold", "place"}, {"products"})
  /\ Graph["refresh_test"] = Task("refresh", {"refresh_run"}, 2, {"products"}, {})
  /\ Graph["refresh_mark"] = Task("refresh", {"refresh_test"}, 0, {}, {})
  /\ Graph["seed_mapping"] = Task("reference", {}, 2, {}, {"mapping"})
<1>1. /\ W2Tasks["w2_resolve"] = Task("w2", {}, 0, {}, {})
      /\ W2Tasks["w2_models"] = Task("w2", {"w2_resolve"}, 2, {"bronze", "mapping"}, {"w2"})
      /\ RefreshTasks["refresh_hour"] = Task("refresh", {}, 0, {}, {})
      /\ RefreshTasks["refresh_run"] = Task("refresh", {"refresh_hour"}, 2, {"gold", "place"}, {"products"})
      /\ RefreshTasks["refresh_test"] = Task("refresh", {"refresh_run"}, 2, {"products"}, {})
      /\ RefreshTasks["refresh_mark"] = Task("refresh", {"refresh_test"}, 0, {}, {})
      /\ ReferenceTasks["seed_mapping"] = Task("reference", {}, 2, {}, {"mapping"})
  BY DEF W2Tasks, RefreshTasks, ReferenceTasks, Exclusive
<1>2. QED
  BY <1>1, GraphSplits, TaskNames

\* A task waits for tasks of its own DAG and takes at most the whole lane.
LEMMA GraphShape ==
  ASSUME NEW t \in Tasks
  PROVE  /\ Graph[t].slots \in 0..2 /\ Graph[t].dag \in Dags
         /\ Graph[t].needs \subseteq Tasks
         /\ \A s \in Graph[t].needs : Graph[s].dag = Graph[t].dag
<1>1. /\ \A dag, needs, slots, reads, writes :
           LET task == Task(dag, needs, slots, reads, writes)
           IN  task.dag = dag /\ task.needs = needs /\ task.slots = slots
  BY DEF Task
<1>2. CASE t \in DOMAIN TransformTasks
  BY <1>1, <1>2, TransformGraph, TaskNames DEF Dags
<1>3. CASE t \notin DOMAIN TransformTasks
  BY <1>1, <1>3, OtherGraphs, TaskNames DEF Dags
<1>4. QED
  BY <1>2, <1>3

\* The tasks that take one slot are the middle of the transform.
LEMMA Branches ==
  ASSUME NEW t \in Tasks, Graph[t].slots = 1
  PROVE  t \in {"source_freshness", "run_silver", "test_silver", "place_mart", "grid_mart", "gold"}
<1>1. \A dag, needs, slots, reads, writes : Task(dag, needs, slots, reads, writes).slots = slots
  BY DEF Task
<1>2. QED
  BY <1>1, TransformGraph, OtherGraphs, TaskNames

LEMMA FewAreFinite ==
  ASSUME NEW a, NEW b, NEW c, NEW d
  PROVE  IsFiniteSet({a, b, c, d})
<1>1. IsFiniteSet({a})
  BY FS_Singleton
<1>2. IsFiniteSet({a} \cup {b})
  BY <1>1, FS_AddElement
<1>3. IsFiniteSet(({a} \cup {b}) \cup {c})
  BY <1>2, FS_AddElement
<1>4. IsFiniteSet((({a} \cup {b}) \cup {c}) \cup {d})
  BY <1>3, FS_AddElement
<1>5. {a, b, c, d} = (({a} \cup {b}) \cup {c}) \cup {d}
  OBVIOUS
<1>6. QED
  BY <1>4, <1>5

LEMMA TasksFinite == IsFiniteSet(Tasks)
<1> DEFINE A == {"resolve_snapshot", "resolve_hour", "source_freshness", "run_silver"}
           B == {"test_silver", "place_mart", "grid_mart", "gold"}
           C == {"mark_gold", "w2_resolve", "w2_models", "seed_mapping"}
           D == {"refresh_hour", "refresh_run", "refresh_test", "refresh_mark"}
<1>1. IsFiniteSet(A) /\ IsFiniteSet(B) /\ IsFiniteSet(C) /\ IsFiniteSet(D)
  BY FewAreFinite
<1>2. Tasks = (A \cup B) \cup (C \cup D)
  BY TaskNames
<1> HIDE DEF A, B, C, D
<1>3. IsFiniteSet(A \cup B) /\ IsFiniteSet(C \cup D)
  BY <1>1, FS_Union
<1>4. QED
  BY <1>2, <1>3, FS_Union

-----------------------------------------------------------------------------
(* The lane.                                                                 *)

\* A task for which there are slots left finds no exclusive task in the pool,
\* and an exclusive one finds the pool empty.
LEMMA SlotsLeft ==
  ASSUME running \subseteq Tasks, \A s \in running : Graph[s].slots > 0,
         NEW t \in Tasks, Graph[t].slots > 0, Used + Graph[t].slots <= Lane
  PROVE  /\ \A s \in running : Graph[s].slots = 1
         /\ Graph[t].slots = 1 \/ running = {}
<1> DEFINE S == {slot \in running \X (1..Lane) : slot[2] <= Graph[slot[1]].slots}
<1>1. \A s \in Tasks : Graph[s].slots \in 0..2
  BY GraphShape
<1>2. IsFiniteSet(S)
  <2>1. IsFiniteSet(running)
    BY TasksFinite, FS_Subset
  <2>2. IsFiniteSet(1..Lane)
    BY 1 \in Int, 2 \in Int, FS_Interval DEF Lane
  <2>3. IsFiniteSet(running \X (1..Lane))
    BY <2>1, <2>2, FS_Product
  <2>4. QED
    BY <2>3, FS_Subset
<1>3. Cardinality(S) \in Nat /\ Cardinality(S) + Graph[t].slots <= 2
  BY <1>2, FS_CardinalityType DEF Used, Lane
<1>4. \A s \in running : <<s, 1>> \in S
  BY <1>1 DEF Lane
<1>5. ASSUME NEW s \in running, Graph[s].slots # 1 PROVE FALSE
  <2>1. Graph[s].slots = 2
    BY <1>1, <1>5
  <2>2. {<<s, 1>>} \cup {<<s, 2>>} \subseteq S
    BY <2>1 DEF Lane
  <2>3. IsFiniteSet({<<s, 1>>}) /\ Cardinality({<<s, 1>>}) = 1
    BY FS_Singleton
  <2>4. <<s, 2>> \notin {<<s, 1>>}
    OBVIOUS
  <2>5. Cardinality({<<s, 1>>} \cup {<<s, 2>>}) = 2
    <3> DEFINE one == {<<s, 1>>}
    <3> HIDE DEF one
    <3>1. Cardinality(one \cup {<<s, 2>>}) = Cardinality(one) + 1
      BY <2>3, <2>4, FS_AddElement DEF one
    <3>2. QED
      BY <2>3, <3>1 DEF one
  <2>6. 2 <= Cardinality(S)
    BY <1>2, <2>2, <2>5, FS_Subset
  <2>7. QED
    BY <1>1, <1>3, <2>6
<1>6. ASSUME Graph[t].slots # 1, NEW s \in running PROVE FALSE
  <2>1. Cardinality(S) = 0
    BY <1>1, <1>3, <1>6
  <2>2. S = {}
    BY <1>2, <2>1, FS_EmptySet
  <2>3. QED
    BY <1>4, <1>6, <2>2
<1>7. QED
  BY <1>5, <1>6

\* A task starts in the pool.
LEMMA StartTaskLanes ==
  ASSUME Shape, Lanes, NEW t \in Tasks, StartTask(t)
  PROVE  Lanes'
<1>1. /\ running' = running \cup {t} /\ UNCHANGED <<done, active>>
      /\ t \notin running \cup done /\ Graph[t].needs \subseteq done /\ Graph[t].dag \in active
      /\ Graph[t].slots > 0
  BY DEF StartTask, Ready
<1>2. (\A s \in running : Graph[s].slots = 1) /\ (Graph[t].slots = 1 \/ running = {})
  BY SlotsLeft DEF Shape, Lanes, StartTask
<1>3. QED
  BY <1>1, <1>2 DEF Lanes

\* A task ends, or one outside the pool does all it has to do in one step.
LEMMA TaskEndsLanes ==
  ASSUME Shape, Lanes, NEW t \in Tasks, Ready(t) \/ t \in running, running' = running \ {t},
         done' = done \/ done' = done \cup {t}, UNCHANGED active
  PROVE  Lanes'
<1>1. Graph[t].needs \subseteq done /\ Graph[t].dag \in active
  BY DEF Lanes, Ready
<1>2. QED
  BY <1>1 DEF Lanes

\* Runs start, and the tasks are as they were.
LEMMA RunStartsLanes ==
  ASSUME Lanes, UNCHANGED <<running, done>>, active \subseteq active'
  PROVE  Lanes'
BY DEF Lanes

\* A run goes with all its tasks, and no other task waits for one of them.
LEMMA CloseLanes ==
  ASSUME Shape, Lanes, NEW d \in Dags, Close(d)
  PROVE  Lanes'
<1>1. /\ running' = running \ TasksOf[d] /\ done' = done \ TasksOf[d]
      /\ active' = active \ {d}
  BY DEF Close
<1>2. TasksOf[d] = {t \in Tasks : Graph[t].dag = d}
  BY DEF TasksOf
<1>3. ASSUME NEW t \in running' \cup done' PROVE Graph[t].needs \subseteq done' /\ Graph[t].dag \in active'
  <2>1. t \in running \cup done /\ t \in Tasks /\ Graph[t].dag # d
    BY <1>1, <1>2, <1>3 DEF Shape
  <2>2. Graph[t].needs \subseteq done /\ Graph[t].dag \in active
    BY <2>1 DEF Lanes
  <2>3. \A s \in Graph[t].needs : s \in Tasks /\ Graph[s].dag # d
    BY <2>1, GraphShape
  <2>4. QED
    BY <1>1, <1>2, <2>1, <2>2, <2>3
<1>4. QED
  BY <1>1, <1>3 DEF Lanes

\* Behind a task of the transform that has started, every earlier one is done.
LEMMA Chain ==
  ASSUME Lanes
  PROVE  /\ "resolve_hour" \in running \cup done => "resolve_snapshot" \in done
         /\ "source_freshness" \in running \cup done => "resolve_hour" \in done
         /\ "run_silver" \in running \cup done => "source_freshness" \in done
         /\ "test_silver" \in running \cup done => "run_silver" \in done
         /\ "place_mart" \in running \cup done => "test_silver" \in done
         /\ "grid_mart" \in running \cup done => "test_silver" \in done
         /\ "gold" \in running \cup done => "place_mart" \in done /\ "grid_mart" \in done
<1>1. \A dag, needs, slots, reads, writes : Task(dag, needs, slots, reads, writes).needs = needs
  BY DEF Task
<1>2. /\ "resolve_snapshot" \in Graph["resolve_hour"].needs
      /\ "resolve_hour" \in Graph["source_freshness"].needs
      /\ "source_freshness" \in Graph["run_silver"].needs
      /\ "run_silver" \in Graph["test_silver"].needs
      /\ "test_silver" \in Graph["place_mart"].needs
      /\ "test_silver" \in Graph["grid_mart"].needs
      /\ "place_mart" \in Graph["gold"].needs /\ "grid_mart" \in Graph["gold"].needs
  BY <1>1, TransformGraph
<1>3. QED
  BY <1>2 DEF Lanes

\* Only the two marts ever share the pool.
LEMMA LanesNoRace ==
  ASSUME Shape, Lanes
  PROVE  NoRace
<1> SUFFICES ASSUME NEW s \in running, NEW t \in running, s # t PROVE ~Races(s, t)
  BY DEF NoRace
<1>1. s \in {"source_freshness", "run_silver", "test_silver", "place_mart", "grid_mart", "gold"}
  BY Branches DEF Shape, Lanes
<1>2. t \in {"source_freshness", "run_silver", "test_silver", "place_mart", "grid_mart", "gold"}
  BY Branches DEF Shape, Lanes
<1>3. {s, t} = {"place_mart", "grid_mart"}
  <2>1. ASSUME NEW u \in running, NEW v \in running, u # v, u \in {"gold", "place_mart", "grid_mart"},
               v \in {"gold", "source_freshness", "run_silver", "test_silver"}
        PROVE  FALSE
    BY <2>1, Chain DEF Lanes
  <2>2. ASSUME NEW u \in running, NEW v \in running, u # v,
               u \in {"source_freshness", "run_silver", "test_silver"},
               v \in {"source_freshness", "run_silver", "test_silver"}
        PROVE  FALSE
    BY <2>2, Chain DEF Lanes
  <2>3. ~(s \in {"source_freshness", "run_silver", "test_silver", "gold"})
    BY <1>1, <1>2, <2>1, <2>2
  <2>4. ~(t \in {"source_freshness", "run_silver", "test_silver", "gold"})
    BY <1>1, <1>2, <2>1, <2>2
  <2>5. QED
    BY <1>1, <1>2, <2>3, <2>4
<1>4. /\ Graph["place_mart"].reads = {"silver", "mapping"} /\ Graph["place_mart"].writes = {"place"}
      /\ Graph["grid_mart"].reads = {"silver"} /\ Graph["grid_mart"].writes = {"grid"}
  BY TransformGraph DEF Task
<1>5. QED
  BY <1>3, <1>4 DEF Races

-----------------------------------------------------------------------------
(* Runs, events and rows.                                                    *)

LEMMA RunsPositive == \A r \in Run : r \in Nat /\ r > 0
BY FS_CardinalityType, RunAssumption

\* Some run of a set of runs is the newest.
LEMMA HasNewest ==
  ASSUME NEW S \in SUBSET Run, S # {}
  PROVE  Max(S) \in S /\ \A r \in S : Max(S) >= r
<1> DEFINE Above(r) == {q \in S : q > r}
           Sets == {Above(r) : r \in S}
<1>1. IsFiniteSet(S) /\ \A r \in S : r \in Nat
  BY FS_Subset, RunAssumption, RunsPositive
<1>2. IsWellFoundedOn(StrictSubsetOrdering(S), SUBSET S)
  BY <1>1, FS_StrictSubsetOrderingWellFounded, FS_FiniteSubsetsOfFinite
<1>3. Sets \subseteq SUBSET S /\ Sets # {}
  OBVIOUS
<1>4. PICK least \in Sets : \A other \in Sets : ~ (<<other, least>> \in StrictSubsetOrdering(S))
  <2> HIDE DEF Sets
  <2>1. QED
    BY <1>2, <1>3, WFMin
<1>5. PICK r \in S : least = Above(r)
  BY <1>4
<1>6. ASSUME NEW q \in S, ~(r >= q) PROVE FALSE
  <2>1. Above(q) \subseteq Above(r) /\ q \in Above(r) /\ q \notin Above(q)
    BY <1>1, <1>6
  <2>2. <<Above(q), least>> \in StrictSubsetOrdering(S)
    BY <1>5, <2>1 DEF StrictSubsetOrdering
  <2>3. QED
    BY <1>4, <2>2
<1>7. QED
  BY <1>6 DEF Max

\* The stages speak of these tasks alone.
StageTasks == {"resolve_snapshot", "run_silver", "place_mart", "grid_mart", "gold"}

LEMMA StageTasksSets ==
  /\ StageTasks \subseteq TasksOf["transform"]
  /\ \A t \in StageTasks : Graph[t].dag = "transform"
<1>1. \A t \in StageTasks : Graph[t].dag = "transform"
  BY TransformGraph DEF Task, StageTasks
<1>2. QED
  BY <1>1, TaskNames DEF TasksOf, Dags, StageTasks

\* Without a running transform there is nothing to say.
LEMMA NoStages ==
  ASSUME done' \cap StageTasks = {}
  PROVE  Stages'
BY DEF Stages, StageTasks

LEMMA IdleTransform ==
  ASSUME Shape, Lanes, "transform" \notin active
  PROVE  done \cap StageTasks = {}
BY StageTasksSets DEF Lanes

\* A step that finishes none of these tasks, and leaves alone what they say.
LEMMA StagesStay ==
  ASSUME Stages, done' \cap StageTasks \subseteq done, coalesced \subseteq coalesced', lost \subseteq lost',
         UNCHANGED marts, pin'["transform"] = pin["transform"], batch'["transform"] = batch["transform"]
  PROVE  Stages'
BY DEF Stages, StageTasks, marts, Pinned, Newest

\* A step that moves no event and no row of Silver.
LEMMA AccountStays ==
  ASSUME Account, UNCHANGED <<published, coalesced, queue, batch, silver>>, lost \subseteq lost',
         \A d \in Consumers : d \in active' <=> d \in active
  PROVE  Account'
BY DEF Account, Superseded

LEMMA PurgedSets ==
  ASSUME Shape, NEW i \in Issues
  PROVE  /\ Purged \in Rows
         /\ Purged[i] = silver[i] \/ (Purged[i] = None /\ silver[i] \in coalesced)
BY DEF Shape, Rows, Purged

\* What the merge leaves: the pin, unless it was set aside or Silver is past it.
LEMMA MergedSets ==
  ASSUME Shape, Pinned \in published
  PROVE  /\ Merged \in Rows
         /\ Merged[IssueOf[Pinned]] = Pinned \/ Pinned \in coalesced \/ (Merged = Purged /\ Outrun)
         /\ Outrun => Merged = Purged
         /\ \A i \in Issues : \/ Merged[i] = Purged[i]
                              \/ i = IssueOf[Pinned] /\ Merged[i] = Pinned /\ ~Outrun
<1>1. Pinned \in Run /\ IssueOf[Pinned] \in Issues
  BY DEF Shape, Issues
<1>2. Purged \in Rows
  BY DEF Shape, Rows, Purged
<1>3. QED
  BY <1>1, <1>2 DEF Merged, Pinned, Publishable, Rows

\* No run is lost sight of when Silver is purged or takes in the pin: its rows
\* go with a run that was set aside, or give way to a newer run of its issue.
LEMMA SilverAccount ==
  ASSUME Shape, Account, Pinned \in published, silver' \in {silver, Purged, Merged}, lost \subseteq lost',
         UNCHANGED <<published, coalesced, queue, batch, active>>
  PROVE  Account'
<1>1. ASSUME NEW r \in published, silver[IssueOf[r]] = r, silver'[IssueOf[r]] # r
      PROVE  Superseded(r)
  <2>1. r \in Run /\ IssueOf[r] \in Issues /\ r \in Nat /\ r > 0
    BY RunsPositive DEF Shape, Issues
  <2>2. Purged[IssueOf[r]] = r \/ r \in coalesced
    BY <1>1, <2>1, PurgedSets
  <2>3. CASE r \in coalesced
    BY <2>3 DEF Account, Superseded
  <2>4. CASE r \notin coalesced
    <3>1. Purged[IssueOf[r]] = r /\ silver' = Merged
      BY <1>1, <2>2, <2>4
    <3>2. IssueOf[r] = IssueOf[Pinned] /\ Pinned # r /\ ~Outrun
      BY <1>1, <2>1, <3>1, MergedSets
    <3>3. ~(Purged[IssueOf[r]] > Pinned)
      BY <2>1, <3>2 DEF Outrun, Pinned
    <3>4. Pinned \in Nat
      BY RunsPositive DEF Shape
    <3>5. Pinned > r
      BY <2>1, <3>1, <3>2, <3>3, <3>4
    <3>6. QED
      BY <3>2, <3>5 DEF Superseded
  <2>5. QED
    BY <2>3, <2>4
<1>2. \A r \in published : Superseded(r)' <=> Superseded(r)
  BY DEF Superseded
<1>3. QED
  BY <1>1, <1>2 DEF Account

-----------------------------------------------------------------------------
(* The scheduler's steps.                                                    *)

LEMMA PublishBronzeKeeps ==
  ASSUME IInv, NEW r \in Run, PublishBronze(r)
  PROVE  IInv'
<1>1. /\ published' = published \cup {r} /\ queue' = [d \in Consumers |-> queue[d] \cup {r}]
      /\ UNCHANGED <<coalesced, batch, pin, frozen, airflow, marts, serving, lost>>
  BY DEF PublishBronze
<1>2. Shape'
  BY <1>1 DEF IInv, Shape, airflow, marts, serving, Rows
<1>3. Lanes' /\ Stages'
  BY <1>1, RunStartsLanes, StagesStay DEF IInv, airflow
<1>4. "transform" \in Consumers /\ \A q \in published : Superseded(q) => Superseded(q)'
  BY <1>1 DEF Consumers, Superseded
<1>5. Account'
  BY <1>1, <1>4 DEF IInv, Account, airflow, marts
<1>6. QED
  BY <1>2, <1>3, <1>5 DEF IInv

LEMMA TriggerKeeps ==
  ASSUME IInv, NEW d \in Consumers, Trigger(d)
  PROVE  IInv'
<1>1. /\ d \notin active /\ queue[d] # {} /\ active' = active \cup {d}
      /\ batch' = [batch EXCEPT ![d] = queue[d]] /\ queue' = [queue EXCEPT ![d] = {}]
      /\ UNCHANGED <<pin, frozen, due, clock, done, running, failed, retried, faults, manifest, marts, serving, lost>>
  BY DEF Trigger
<1>2. d \in Dags /\ "transform" \in Consumers
  BY DEF Consumers, Dags
<1>3. Shape'
  BY <1>1, <1>2 DEF IInv, Shape, manifest, marts, serving, Rows
<1>4. Lanes'
  BY <1>1, RunStartsLanes DEF IInv
<1>5. Stages'
  <2>1. CASE d = "transform"
    BY <1>1, <2>1, IdleTransform, NoStages DEF IInv
  <2>2. CASE d # "transform"
    BY <1>1, <1>2, <2>2, StagesStay DEF IInv, Shape, manifest
  <2>3. QED
    BY <2>1, <2>2
<1>6. Account'
  <2>1. batch[d] = {} /\ batch'[d] = queue[d] /\ queue'[d] = {}
    BY <1>1 DEF IInv, Shape, Account
  <2>2. \A c \in Consumers \ {d} : batch'[c] = batch[c] /\ queue'[c] = queue[c]
    BY <1>1 DEF IInv, Shape
  <2>3. \A c \in Consumers : queue[c] \cup batch[c] = queue'[c] \cup batch'[c]
    BY <2>1, <2>2
  <2>4. \A c \in Consumers : c \in active' <=> batch'[c] # {}
    BY <1>1, <2>1, <2>2 DEF IInv, Account
  <2>5. UNCHANGED <<published, coalesced, silver, lost>>
    BY <1>1 DEF manifest, marts
  <2>6. QED
    BY <1>2, <2>3, <2>4, <2>5 DEF IInv, Account, Superseded
<1>7. QED
  BY <1>3, <1>4, <1>5, <1>6 DEF IInv

LEMMA ClockKeeps ==
  ASSUME IInv, Tick \/ \E d \in Clocked : StartScheduled(d)
  PROVE  IInv'
<1>1. CASE Tick
  <2>1. clock' \in 0..LastHour /\ due' \subseteq Clocked
    BY <1>1, RunAssumption DEF Tick, IInv, Shape, Clocked
  <2>2. UNCHANGED <<active, done, running, failed, retried, faults, manifest, events, marts, serving, lost>>
    BY <1>1 DEF Tick
  <2>3. Shape'
    BY <2>1, <2>2 DEF IInv, Shape, manifest, events, marts, serving, Rows
  <2>4. Lanes' /\ Stages' /\ Account'
    BY <2>2, RunStartsLanes, StagesStay, AccountStays DEF IInv, manifest, events, marts
  <2>5. QED
    BY <2>3, <2>4 DEF IInv
<1>2. CASE \E d \in Clocked : StartScheduled(d)
  <2>1. PICK d \in Clocked : StartScheduled(d)
    BY <1>2
  <2>2. /\ due' = due \ {d} /\ active' = active \cup {d} /\ edition' \in {edition, edition + 1}
        /\ UNCHANGED <<clock, done, running, failed, retried, faults, manifest,
                       events, marts, products, passed, ready, exporting, lost>>
    BY <2>1 DEF StartScheduled
  <2>3. edition' \in Nat /\ 0..edition \subseteq 0..edition'
    BY <2>2 DEF IInv, Shape
  <2>4. Shape'
    BY <2>2, <2>3 DEF IInv, Shape, manifest, events, marts, Rows, Clocked, Dags
  <2>5. \A c \in Consumers : c \in active' <=> c \in active
    BY <2>2 DEF Consumers, Clocked
  <2>6. Lanes' /\ Stages' /\ Account'
    BY <2>2, <2>5, RunStartsLanes, StagesStay, AccountStays DEF IInv, manifest, events, marts
  <2>7. QED
    BY <2>4, <2>6 DEF IInv
<1>3. QED
  BY <1>1, <1>2

\* A DAG run ends.  The runs that a transform had taken are in Silver, were set
\* aside, or are lost.
LEMMA CloseKeeps ==
  ASSUME IInv, NEW d \in Dags, Close(d), UNCHANGED <<due, clock, queue, manifest, marts, serving>>,
         faults' \in 0..MaxFaults
  PROVE  IInv'
<1>1. /\ active' = active \ {d}
      /\ done' = done \ TasksOf[d] /\ failed' = failed \ TasksOf[d]
      /\ retried' = retried \ TasksOf[d] /\ running' = running \ TasksOf[d]
      /\ lost' = lost \cup Forgotten(d)
      /\ batch' = [c \in Consumers |-> IF c = d THEN {} ELSE batch[c]]
      /\ pin' = [c \in Consumers |-> IF c = d THEN None ELSE pin[c]]
      /\ frozen' = [frozen EXCEPT ![d] = 0]
  BY DEF Close
<1>2. "transform" \in Consumers /\ 0 \in 0..LastHour
  BY RunAssumption DEF Consumers
<1>3. Forgotten(d) \subseteq Run
  BY <1>2 DEF Forgotten, IInv, Shape
<1>4. Shape'
  <2>1. batch' \in [Consumers -> SUBSET published] /\ pin' \in [Consumers -> Run \cup {None}]
    BY <1>1 DEF IInv, Shape
  <2>2. QED
    BY <1>1, <1>2, <1>3, <2>1 DEF IInv, Shape, manifest, marts, serving, Rows
<1>5. Lanes'
  BY CloseLanes DEF IInv
<1>6. CASE d = "transform"
  <2>1. Stages'
    BY <1>1, <1>6, StageTasksSets, NoStages
  <2>2. ASSUME NEW r \in batch["transform"], r \notin lost' PROVE silver[IssueOf[r]] = r \/ Superseded(r)
    <3>1. "run_silver" \in done
      BY <1>1, <1>6, <2>2 DEF Forgotten
    <3>2. Pinned \in batch["transform"] /\ batch["transform"] \ {Pinned} \subseteq coalesced
      BY <3>1, Chain DEF IInv, Stages
    <3>3. r \in coalesced \/ silver[IssueOf[r]] = r
      BY <1>1, <2>2, <3>1, <3>2 DEF IInv, Stages
    <3>4. QED
      BY <3>3 DEF IInv, Account, Superseded
  <2>3. /\ batch'["transform"] = {} /\ UNCHANGED <<published, coalesced, queue, silver>>
        /\ \A c \in Consumers \ {d} : batch'[c] = batch[c]
    BY <1>1, <1>2, <1>6 DEF manifest, marts
  <2>4. \A c \in Consumers : c \in active' <=> batch'[c] # {}
    BY <1>1, <1>6, <2>3 DEF IInv, Account
  <2>5. \A r \in published : Superseded(r)' <=> Superseded(r)
    BY <2>3 DEF Superseded
  <2>6. lost \subseteq lost'
    BY <1>1
  <2>7. Account'
    BY <2>2, <2>3, <2>4, <2>5, <2>6 DEF IInv, Account
  <2>8. QED
    BY <1>4, <1>5, <2>1, <2>7 DEF IInv
<1>7. CASE d # "transform"
  <2>1. batch'["transform"] = batch["transform"] /\ pin'["transform"] = pin["transform"]
    BY <1>1, <1>2, <1>7
  <2>2. Stages'
    BY <1>1, <2>1, StagesStay DEF IInv, manifest
  <2>3. \A c \in Consumers : c \in active' <=> batch'[c] # {}
    BY <1>1 DEF IInv, Account
  <2>4. UNCHANGED <<published, coalesced, queue, silver>> /\ lost \subseteq lost'
    BY <1>1 DEF manifest, marts
  <2>5. Account'
    BY <2>1, <2>3, <2>4 DEF IInv, Account, Superseded
  <2>6. QED
    BY <1>4, <1>5, <2>2, <2>5 DEF IInv
<1>8. QED
  BY <1>6, <1>7

\* A task starts, fails, or passes without a word on the stages.
LEMMA TaskMoves ==
  ASSUME IInv, Lanes', running' \subseteq Tasks, failed' \subseteq Tasks, retried' \subseteq Tasks,
         faults' \in 0..MaxFaults, done' \subseteq Tasks, done' \cap StageTasks \subseteq done,
         UNCHANGED <<active, due, clock, manifest, events, marts, serving, lost>>
  PROVE  IInv'
<1>1. Shape'
  BY DEF IInv, Shape, manifest, events, marts, serving, Rows
<1>2. Stages' /\ Account'
  BY StagesStay, AccountStays DEF IInv, manifest, events, marts
<1>3. QED
  BY <1>1, <1>2 DEF IInv

LEMMA StartTaskKeeps ==
  ASSUME IInv, NEW t \in Tasks, StartTask(t)
  PROVE  IInv'
<1>1. Lanes'
  BY StartTaskLanes DEF IInv
<1>2. QED
  BY <1>1, TaskMoves DEF IInv, Shape, StartTask

LEMMA RejectSilverKeeps ==
  ASSUME IInv, RejectSilver
  PROVE  IInv'
<1>1. /\ "test_silver" \in running /\ failed' = failed \cup {"test_silver"}
      /\ running' = running \ {"test_silver"}
      /\ UNCHANGED <<active, due, clock, done, retried, faults, manifest, events, marts, serving, lost>>
  BY DEF RejectSilver, Fails
<1>2. "test_silver" \in Tasks
  BY TaskNames
<1>3. Lanes'
  BY <1>1, <1>2, TaskEndsLanes DEF IInv
<1>4. QED
  BY <1>1, <1>2, <1>3, TaskMoves DEF IInv, Shape

-----------------------------------------------------------------------------
(* The pin.                                                                  *)

LEMMA CoalesceKeeps ==
  ASSUME IInv, NEW d \in Consumers, NEW r \in Run, Coalesce(d, r)
  PROVE  IInv'
<1>1. /\ r \in batch[d] \ {Newest(d)} /\ coalesced' = coalesced \cup {r}
      /\ UNCHANGED <<published, events, airflow, marts, serving, lost>>
  BY DEF Coalesce
<1>2. batch[d] \subseteq published /\ published \subseteq Run
  BY DEF IInv, Shape
<1>3. Newest(d) \in published /\ Newest(d) > r
  <2>1. Newest(d) \in batch[d] /\ Newest(d) >= r
    BY <1>1, <1>2, HasNewest DEF Newest
  <2>2. Newest(d) \in Nat /\ r \in Nat
    BY <1>2, <2>1, RunsPositive
  <2>3. QED
    BY <1>1, <1>2, <2>1, <2>2
<1>4. Shape'
  BY <1>1, <1>2 DEF IInv, Shape, events, airflow, marts, serving, Rows
<1>5. Lanes' /\ Stages'
  BY <1>1, RunStartsLanes, StagesStay DEF IInv, events, airflow
<1>6. \A q \in published : Superseded(q) => Superseded(q)'
  BY <1>1 DEF Superseded
<1>7. Account'
  BY <1>1, <1>3, <1>6 DEF IInv, Account, events, airflow, marts
<1>8. QED
  BY <1>4, <1>5, <1>7 DEF IInv

LEMMA PinKeeps ==
  ASSUME IInv, NEW d \in Consumers, Pin(d)
  PROVE  IInv'
<1> DEFINE t == PinTask[d]
<1>1. (d = "transform" /\ t = "resolve_snapshot") \/ (d = "w2" /\ t = "w2_resolve")
  BY DEF Consumers, PinTask
<1>2. t \in Tasks
  BY <1>1, TaskNames
<1>3. /\ Ready(t) /\ batch[d] \ {Newest(d)} \subseteq coalesced
      /\ UNCHANGED <<queue, batch, frozen, manifest, marts, serving, lost>>
  BY DEF Pin
<1>4. t \notin running
  BY <1>3 DEF Ready
<1>5. CASE Publishable(Newest(d))
  <2>1. /\ done' = done \cup {t} /\ running' = running \ {t} /\ pin' = [pin EXCEPT ![d] = Newest(d)]
        /\ UNCHANGED <<active, due, clock, failed, retried, faults>>
    BY <1>5 DEF Pin, Passes
  <2>2. Newest(d) \in Run
    BY <1>5 DEF Publishable, IInv, Shape
  <2>3. Shape'
    BY <1>2, <1>3, <2>1, <2>2 DEF IInv, Shape, manifest, marts, serving, Rows
  <2>4. Lanes'
    BY <1>2, <1>3, <2>1, TaskEndsLanes DEF IInv
  <2>5. Stages'
    <3>1. CASE d = "transform"
      <4>1. batch["transform"] # {} /\ batch["transform"] \subseteq Run
        <5>1. Graph["resolve_snapshot"].dag = "transform"
          BY TransformGraph DEF Task
        <5>2. QED
          BY <1>1, <1>3, <3>1, <5>1 DEF Ready, IInv, Account, Shape
      <4>2. Newest("transform") \in batch["transform"]
        BY <4>1, HasNewest DEF Newest
      <4>3. pin'["transform"] = Newest("transform") /\ batch' = batch /\ coalesced' = coalesced
        BY <1>3, <2>1, <3>1 DEF IInv, Shape, manifest
      <4>4. done \cap StageTasks = {}
        BY <1>1, <1>3, <3>1, Chain DEF Ready, StageTasks, IInv
      <4>5. done' \cap StageTasks \subseteq {"resolve_snapshot"}
        BY <1>1, <2>1, <3>1, <4>4
      <4>6. Pinned' = Newest("transform")' /\ Pinned' \in batch'["transform"]
            /\ batch'["transform"] \ {Pinned'} \subseteq coalesced'
        BY <1>3, <3>1, <4>2, <4>3 DEF Pinned, Newest
      <4>7. QED
        BY <4>5, <4>6 DEF Stages, StageTasks
    <3>2. CASE d = "w2"
      BY <1>1, <1>3, <2>1, <3>2, StagesStay DEF IInv, Shape, StageTasks, manifest
    <3>3. QED
      BY <1>1, <3>1, <3>2
  <2>6. Account'
    BY <1>3, <2>1, AccountStays DEF IInv, manifest, marts
  <2>7. QED
    BY <2>3, <2>4, <2>5, <2>6 DEF IInv
<1>6. CASE ~Publishable(Newest(d))
  <2>1. /\ failed' = failed \cup {t} /\ running' = running \ {t}
        /\ UNCHANGED <<pin, active, due, clock, done, retried, faults>>
    BY <1>6 DEF Pin, Fails
  <2>2. Lanes'
    BY <1>2, <1>3, <2>1, TaskEndsLanes DEF IInv
  <2>3. QED
    BY <1>2, <1>3, <2>1, <2>2, TaskMoves DEF IInv, Shape, events
<1>7. QED
  BY <1>5, <1>6

LEMMA FreezeHourKeeps ==
  ASSUME IInv, NEW d \in {"transform", "refresh"}, FreezeHour(d)
  PROVE  IInv'
<1> DEFINE t == HourTask[d]
<1>1. t \in {"resolve_hour", "refresh_hour"}
  BY DEF HourTask
<1>2. t \in Tasks /\ t \notin StageTasks /\ d \in Dags
  BY <1>1, TaskNames DEF StageTasks, Dags
<1>3. /\ Ready(t) /\ done' = done \cup {t} /\ running' = running \ {t} /\ frozen' = [frozen EXCEPT ![d] = clock]
      /\ UNCHANGED <<active, due, clock, failed, retried, faults, queue, batch, pin, manifest, marts, serving, lost>>
  BY DEF FreezeHour, Passes
<1>4. Shape'
  BY <1>2, <1>3 DEF IInv, Shape, manifest, marts, serving, Rows
<1>5. Lanes'
  BY <1>2, <1>3, TaskEndsLanes DEF IInv
<1>6. Stages' /\ Account'
  BY <1>2, <1>3, StagesStay, AccountStays DEF IInv, manifest, marts
<1>7. QED
  BY <1>4, <1>5, <1>6 DEF IInv

-----------------------------------------------------------------------------
(* The phases.                                                               *)

\* While a phase runs, nothing that waits for it is done.
LEMMA PhaseAhead ==
  ASSUME IInv, NEW t \in running
  PROVE  /\ t \notin done /\ t \in Tasks
         /\ t = "run_silver" =>
              /\ {"run_silver", "place_mart", "grid_mart", "gold"} \cap done = {}
              /\ Pinned \in published
         /\ t \in {"place_mart", "grid_mart"} => "gold" \notin done
<1>1. t \notin done /\ t \in Tasks /\ Lanes
  BY DEF IInv, Lanes, Shape
<1>2. t = "run_silver" => "resolve_snapshot" \in done
  BY <1>1, Chain
<1>3. "resolve_snapshot" \in done => Pinned \in published
  BY DEF IInv, Stages, Shape, Consumers
<1>4. QED
  BY <1>1, <1>2, <1>3, Chain

\* Silver moves: it is purged, or purged and merged, by a phase that passes or not.
LEMMA SilverMoves ==
  ASSUME IInv, Shape', Lanes', "run_silver" \in running, silver' \in {silver, Purged, Merged},
         done' \subseteq done \cup {"run_silver"}, lost \subseteq lost',
         "run_silver" \in done' => silver' = Merged /\ (Outrun => Pinned \in lost'),
         UNCHANGED <<active, manifest, events>>
  PROVE  IInv'
<1>1. {"run_silver", "place_mart", "grid_mart", "gold"} \cap done = {} /\ Pinned \in published
  BY PhaseAhead
<1>2. Account'
  BY <1>1, SilverAccount DEF IInv, manifest, events
<1>3. UNCHANGED <<Pinned, Newest("transform"), batch, coalesced>>
  BY DEF Pinned, Newest, manifest, events
<1>4. "run_silver" \in done' =>
        \/ silver'[IssueOf[Pinned]] = Pinned
        \/ Pinned \in coalesced
        \/ Pinned \in lost' /\ \E i \in Issues : silver'[i] > Pinned
  BY <1>1, MergedSets DEF IInv, Outrun, Pinned
<1>5. Stages'
  BY <1>1, <1>3, <1>4 DEF IInv, Stages
<1>6. QED
  BY <1>2, <1>5 DEF IInv

\* A mart or Gold is rebuilt, by a phase that passes or not.
LEMMA MartMoves ==
  ASSUME IInv, Shape', Lanes', NEW t \in running \cap {"place_mart", "grid_mart", "gold"}, Writes(t),
         done' \in {done, done \cup {t}}, UNCHANGED <<active, manifest, events, lost>>
  PROVE  IInv'
<1>1. t \notin done /\ (t # "gold" => "gold" \notin done)
  BY PhaseAhead
<1>2. /\ UNCHANGED silver
      /\ t = "place_mart" => place' = silver /\ UNCHANGED <<grid, gold>>
      /\ t = "grid_mart" => grid' = silver /\ UNCHANGED <<place, gold>>
      /\ t = "gold" => gold' = [place |-> place, grid |-> grid] /\ UNCHANGED <<place, grid>>
  BY DEF Writes
<1>3. UNCHANGED <<Pinned, Newest("transform"), batch, coalesced, lost>>
  BY DEF Pinned, Newest, manifest, events
<1>4. Stages'
  BY <1>1, <1>2, <1>3 DEF IInv, Stages
<1>5. Account'
  BY <1>2, AccountStays DEF IInv, manifest, events
<1>6. QED
  BY <1>4, <1>5 DEF IInv

\* What a phase writes are rows.
LEMMA WritesRows ==
  ASSUME Shape, NEW t, Writes(t), t = "run_silver" => Pinned \in published
  PROVE  /\ silver' \in Rows /\ place' \in Rows /\ grid' \in Rows
         /\ gold' \in [place : Rows, grid : Rows]
         /\ t \notin {"run_silver", "place_mart", "grid_mart", "gold"} => UNCHANGED marts
<1>1. t = "run_silver" => Merged \in Rows
  BY MergedSets
<1>2. CASE t = "run_silver"
  BY <1>1, <1>2 DEF Writes, Shape
<1>3. CASE t \in {"place_mart", "grid_mart", "gold"}
  BY <1>3 DEF Writes, Shape
<1>4. CASE t \notin {"run_silver", "place_mart", "grid_mart", "gold"}
  BY <1>4 DEF Writes, Shape, marts
<1>5. QED
  BY <1>2, <1>3, <1>4

LEMMA PassKeeps ==
  ASSUME IInv, NEW t \in running, Pass(t)
  PROVE  IInv'
<1>1. /\ done' = done \cup {t} /\ running' = running \ {t} /\ Writes(t)
      /\ UNCHANGED <<active, due, clock, failed, retried, faults>>
      /\ UNCHANGED <<manifest, events, edition, products, ready, exporting>>
      /\ passed' \in {passed, passed \cup {edition}}
      /\ lost' = IF t = "run_silver" /\ Outrun THEN lost \cup {Pinned} ELSE lost
  BY DEF Pass, Passes, Pinned
<1>2. t \in Tasks /\ t \notin done /\ (t = "run_silver" => Pinned \in published)
  BY PhaseAhead
<1>3. Lanes'
  BY <1>1, <1>2, TaskEndsLanes DEF IInv
<1>4. lost \subseteq lost' /\ lost' \subseteq Run
  BY <1>1, <1>2 DEF IInv, Shape
<1>5. Shape'
  <2>1. silver' \in Rows /\ place' \in Rows /\ grid' \in Rows /\ gold' \in [place : Rows, grid : Rows]
    BY <1>1, <1>2, WritesRows DEF IInv
  <2>2. passed' \subseteq 0..edition
    BY <1>1 DEF IInv, Shape
  <2>3. QED
    BY <1>1, <1>2, <1>4, <2>1, <2>2 DEF IInv, Shape, manifest, events
<1>6. CASE t = "run_silver"
  <2>1. silver' = Merged
    BY <1>1, <1>6 DEF Writes
  <2>2. QED
    BY <1>1, <1>3, <1>4, <1>5, <1>6, <2>1, SilverMoves
<1>7. CASE t \in {"place_mart", "grid_mart", "gold"}
  BY <1>1, <1>3, <1>5, <1>7, MartMoves
<1>8. CASE t \notin {"run_silver", "place_mart", "grid_mart", "gold"}
  <2>1. UNCHANGED marts
    BY <1>1, <1>8, WritesRows DEF IInv
  <2>2. t # "resolve_snapshot"
    BY TransformGraph DEF Task, IInv, Lanes
  <2>3. done' \cap StageTasks \subseteq done
    BY <1>1, <1>8, <2>2 DEF StageTasks
  <2>4. Stages' /\ Account'
    BY <1>1, <1>4, <2>1, <2>3, StagesStay, AccountStays DEF IInv, manifest, events, marts
  <2>5. QED
    BY <1>3, <1>5, <2>4 DEF IInv
<1>9. QED
  BY <1>6, <1>7, <1>8

LEMMA BreakKeeps ==
  ASSUME IInv, NEW t \in running, Break(t)
  PROVE  IInv'
<1>1. /\ faults' \in 0..MaxFaults /\ running' = running \ {t} /\ Leaves(t)
      /\ failed' \subseteq failed \cup {t} /\ retried' \subseteq retried \cup {t}
      /\ UNCHANGED <<active, due, clock, done, manifest, events, serving, lost>>
  BY RunAssumption DEF Break, IInv, Shape
<1>2. t \in Tasks /\ t \notin done /\ (t = "run_silver" => Pinned \in published)
  BY PhaseAhead
<1>3. Lanes'
  BY <1>1, <1>2, TaskEndsLanes DEF IInv
<1>4. \/ UNCHANGED marts
      \/ Writes(t)
      \/ t = "run_silver" /\ silver' = Purged /\ UNCHANGED <<place, grid, gold>>
  BY <1>1 DEF Leaves
<1>5. Shape'
  <2>1. silver' \in Rows /\ place' \in Rows /\ grid' \in Rows /\ gold' \in [place : Rows, grid : Rows]
    <3>1. Purged \in Rows
      BY DEF IInv, Shape, Rows, Purged
    <3>2. QED
      BY <1>2, <1>4, <3>1, WritesRows DEF IInv, Shape, marts
  <2>2. QED
    BY <1>1, <1>2, <2>1 DEF IInv, Shape, manifest, events, serving
<1>6. CASE t = "run_silver"
  <2>1. silver' \in {silver, Purged, Merged}
    BY <1>4, <1>6 DEF Writes, marts
  <2>2. QED
    BY <1>1, <1>2, <1>3, <1>5, <1>6, <2>1, SilverMoves
<1>7. CASE t # "run_silver"
  <2>1. CASE UNCHANGED marts
    BY <1>1, <1>3, <1>5, <2>1, StagesStay, AccountStays DEF IInv, manifest, events, marts
  <2>2. CASE Writes(t) /\ t \in {"place_mart", "grid_mart", "gold"}
    BY <1>1, <1>3, <1>5, <2>2, MartMoves
  <2>3. QED
    BY <1>2, <1>4, <1>7, <2>1, <2>2, WritesRows DEF IInv
<1>8. QED
  BY <1>6, <1>7

-----------------------------------------------------------------------------
(* The products, the markers and the export.                                 *)

\* A step of the serving side, with or without a marker that passes or fails.
LEMMA ServingMoves ==
  ASSUME IInv, Lanes', running' \subseteq running, done' \subseteq Tasks, failed' \subseteq Tasks,
         done' \cap StageTasks \subseteq done, products' \in [Product -> 0..edition],
         ready' \in BOOLEAN, exporting' \subseteq Product,
         UNCHANGED <<active, due, clock, retried, faults, manifest, events, marts, edition, passed, lost>>
  PROVE  IInv'
<1>1. Shape'
  BY DEF IInv, Shape, manifest, events, marts, Rows
<1>2. Stages' /\ Account'
  BY StagesStay, AccountStays DEF IInv, manifest, events, marts
<1>3. QED
  BY <1>1, <1>2 DEF IInv

LEMMA BuildProductKeeps ==
  ASSUME IInv, NEW p \in Product, BuildProduct(p)
  PROVE  IInv'
<1>1. edition \in 0..edition
  BY DEF IInv, Shape
<1>2. products' \in [Product -> 0..edition]
  BY <1>1 DEF IInv, Shape, BuildProduct
<1>3. Lanes'
  BY RunStartsLanes DEF IInv, BuildProduct, airflow
<1>4. QED
  BY <1>2, <1>3, ServingMoves DEF IInv, Shape, BuildProduct, airflow

LEMMA MarkersKeep ==
  ASSUME IInv, MarkGold \/ MarkRefresh
  PROVE  IInv'
<1>1. PICK t \in {"mark_gold", "refresh_mark"} :
        /\ Ready(t) /\ running' = running \ {t} /\ done' \in {done, done \cup {t}}
        /\ failed' \in {failed, failed \cup {t}} /\ ready' \in BOOLEAN
        /\ UNCHANGED <<active, due, clock, retried, faults, manifest, events, marts, lost,
                       edition, products, passed, exporting>>
  BY DEF MarkGold, MarkRefresh, Passes, Fails, Current, IInv, Shape
<1>2. t \in Tasks /\ t \notin StageTasks
  BY TaskNames DEF StageTasks
<1>3. Lanes'
  BY <1>1, <1>2, TaskEndsLanes DEF IInv
<1>4. QED
  BY <1>1, <1>2, <1>3, ServingMoves DEF IInv, Shape

LEMMA ExportKeeps ==
  ASSUME IInv, StartExport \/ \E p \in Product : Export(p)
  PROVE  IInv'
<1>1. /\ exporting' \subseteq Product /\ ready' \in BOOLEAN
      /\ UNCHANGED <<airflow, manifest, events, marts, lost, edition, products, passed>>
  BY DEF StartExport, Export, IInv, Shape
<1>2. Lanes'
  BY <1>1, RunStartsLanes DEF IInv, airflow
<1>3. QED
  BY <1>1, <1>2, ServingMoves DEF IInv, Shape, airflow

-----------------------------------------------------------------------------
(* The invariant.                                                            *)

LEMMA InitIInv == Init => IInv
<1> SUFFICES ASSUME Init PROVE IInv
  OBVIOUS
<1>1. Shape
  <2>1. NoRows \in Rows
    BY DEF NoRows, Rows
  <2>2. gold \in [place : Rows, grid : Rows]
    BY <2>1 DEF Init
  <2>3. 0 \in 0..LastHour /\ 0 \in 0..MaxFaults /\ edition \in Nat /\ 0 \in 0..edition /\ {0} \subseteq 0..edition
    BY RunAssumption DEF Init
  <2>4. frozen \in [Dags -> 0..LastHour] /\ products \in [Product -> 0..edition]
    BY <2>3 DEF Init
  <2>5. QED
    BY <2>1, <2>2, <2>3, <2>4 DEF Init, Shape
<1>2. Lanes /\ Stages
  BY DEF Init, Lanes, Stages
<1>3. Account
  BY DEF Init, Account
<1>4. QED
  BY <1>1, <1>2, <1>3 DEF IInv

LEMMA NextIInv == IInv /\ [Next]_vars => IInv'
<1> SUFFICES ASSUME IInv, [Next]_vars PROVE IInv'
  OBVIOUS
<1>1. CASE UNCHANGED vars
  <2>1. UNCHANGED <<airflow, manifest, events, marts, serving, lost>>
    BY <1>1 DEF vars
  <2>2. Shape'
    BY <2>1 DEF IInv, Shape, airflow, manifest, events, marts, serving, Rows
  <2>3. Lanes' /\ Stages' /\ Account'
    BY <2>1, RunStartsLanes, StagesStay, AccountStays DEF IInv, airflow, manifest, events, marts
  <2>4. QED
    BY <2>2, <2>3 DEF IInv
<1>2. ASSUME NEW r \in Run, PublishBronze(r) PROVE IInv'
  BY <1>2, PublishBronzeKeeps
<1>3. CASE Tick
  BY <1>3, ClockKeeps
<1>4. CASE TimeOut
  <2>1. "transform" \in Dags /\ faults' \in 0..MaxFaults /\ Close("transform")
        /\ UNCHANGED <<due, clock, queue, manifest, marts, serving>>
    BY <1>4, RunAssumption DEF TimeOut, Dags, IInv, Shape
  <2>2. QED
    BY <2>1, CloseKeeps
<1>5. ASSUME NEW d \in Consumers, Trigger(d) PROVE IInv'
  BY <1>5, TriggerKeeps
<1>6. ASSUME NEW d \in Consumers, Pin(d) PROVE IInv'
  BY <1>6, PinKeeps
<1>7. ASSUME NEW d \in Consumers, NEW r \in Run, Coalesce(d, r) PROVE IInv'
  BY <1>7, CoalesceKeeps
<1>8. ASSUME NEW d \in {"refresh", "reference"}, StartScheduled(d) PROVE IInv'
  BY <1>8, ClockKeeps DEF Clocked
<1>9. ASSUME NEW d \in {"transform", "refresh"}, FreezeHour(d) PROVE IInv'
  BY <1>9, FreezeHourKeeps
<1>10. ASSUME NEW d \in Dags, EndRun(d) PROVE IInv'
  <2>1. faults' \in 0..MaxFaults /\ Close(d) /\ UNCHANGED <<due, clock, queue, manifest, marts, serving>>
    BY <1>10 DEF EndRun, IInv, Shape
  <2>2. QED
    BY <2>1, CloseKeeps
<1>11. ASSUME NEW t \in Tasks, StartTask(t) PROVE IInv'
  BY <1>11, StartTaskKeeps
<1>12. ASSUME NEW t \in running, Pass(t) \/ Break(t) PROVE IInv'
  BY <1>12, PassKeeps, BreakKeeps
<1>13. CASE RejectSilver
  BY <1>13, RejectSilverKeeps
<1>14. ASSUME NEW p \in Product, BuildProduct(p) PROVE IInv'
  BY <1>14, BuildProductKeeps
<1>15. CASE MarkGold \/ MarkRefresh
  BY <1>15, MarkersKeep
<1>16. CASE StartExport \/ \E p \in Product : Export(p)
  BY <1>16, ExportKeeps
<1>17. CASE Rest
  BY <1>1, <1>17 DEF Rest
<1>18. QED
  BY <1>1, <1>2, <1>3, <1>4, <1>5, <1>6, <1>7, <1>8, <1>9, <1>10, <1>11, <1>12, <1>13, <1>14,
     <1>15, <1>16, <1>17 DEF Next

LEMMA SpecIInv == Spec => []IInv
BY InitIInv, NextIInv, PTL DEF Spec

-----------------------------------------------------------------------------
(* The results.                                                              *)

(* Every variable keeps its type.                                            *)
THEOREM TypeCorrect == Spec => []TypeOK
<1>1. IInv => TypeOK
  <2> SUFFICES ASSUME IInv PROVE TypeOK
    OBVIOUS
  <2>1. /\ queue \in [Consumers -> SUBSET Run] /\ batch \in [Consumers -> SUBSET Run]
        /\ gold.place \in Rows /\ gold.grid \in Rows
    BY DEF IInv, Shape
  <2>2. QED
    BY <2>1 DEF IInv, Shape, TypeOK, Clocked, Rows
<1>2. QED
  BY <1>1, SpecIInv, PTL

(* No two running phases race on a table, whatever number of DAG runs compete   *)
(* for the pool: the slots a task asks for are enough to keep apart all but the *)
(* two marts, which write different tables (weather_vilage_fcst_transform.py:   *)
(* 81-86).                                                                      *)
THEOREM LaneIsSafe == Spec => []NoRace
<1>1. IInv => NoRace
  BY LanesNoRace DEF IInv
<1>2. QED
  BY <1>1, SpecIInv, PTL

(* When the Gold marker may fire, both marts of Gold come from one Silver, which *)
(* holds the pinned run, unless that run was set aside meanwhile or Silver was   *)
(* past it: however often a phase failed half-way, was retried or timed out.     *)
THEOREM GoldIsPinned == Spec => []AnnouncedGoldIsPinned
<1>1. IInv => AnnouncedGoldIsPinned
  <2> SUFFICES ASSUME IInv, Ready("mark_gold") PROVE AnnouncedGoldIsPinned
    BY DEF AnnouncedGoldIsPinned
  <2>1. "gold" \in done
    BY TransformGraph DEF Ready, Task
  <2>2. {"run_silver", "place_mart", "grid_mart", "gold"} \subseteq done
    BY <2>1, Chain DEF IInv
  <2>3. gold.place = silver /\ gold.grid = silver
    BY <2>2 DEF IInv, Stages
  <2>4. \/ silver[IssueOf[Pinned]] = Pinned
        \/ Pinned \in coalesced
        \/ \E i \in Issues : silver[i] > Pinned
    BY <2>2 DEF IInv, Stages
  <2>5. QED
    BY <2>3, <2>4 DEF AnnouncedGoldIsPinned, Pinned
<1>2. QED
  BY <1>1, SpecIInv, PTL

(* At rest every published run is in Silver, or gave way to a newer one, or its *)
(* own transform is known to have failed: no event is dropped between two DAG   *)
(* runs, whichever of the two consumers coalesces what in the manifest they     *)
(* share.                                                                       *)
THEOREM NothingForgotten == Spec => []NothingIsForgotten
<1>1. IInv => NothingIsForgotten
  <2> SUFFICES ASSUME IInv, AtRest, NEW r \in Run
               PROVE  r \in lost \/ silver[IssueOf[r]] = r \/ Superseded(r)
    BY DEF NothingIsForgotten, Superseded
  <2>1. "transform" \in Consumers
    BY DEF Consumers
  <2>2. queue["transform"] = {} /\ batch["transform"] = {} /\ r \in published
    BY <2>1 DEF AtRest, IInv, Account
  <2>3. QED
    BY <2>2 DEF IInv, Account
<1>2. QED
  BY <1>1, SpecIInv, PTL
=============================================================================
