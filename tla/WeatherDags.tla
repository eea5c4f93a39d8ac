----------------------------- MODULE WeatherDags -----------------------------
(* The task graphs of the Weather DAGs that share the two-slot Trino lane:     *)
(* the asset-triggered transform and its canonical W2 sibling, the hourly      *)
(* refresh of the public products and the daily rebuild of the reference       *)
(* tables. A task names the tasks it waits for, the slots of the pool it       *)
(* takes while it runs and the tables it reads and writes; a task without      *)
(* slots runs outside the pool in one step. The deps and runtime-guard tasks   *)
(* and the metrics teardown touch none of these and are left out; where nobody *)
(* reads a table between its run and its test phase, the two are one task.     *)
EXTENDS Naturals

Lane == 2

Branch == 1
Exclusive == 2

\* What the code calls the legacy pool has one slot, whatever was asked for.
Task(dag, needs, slots, reads, writes) ==
  [dag |-> dag, needs |-> needs, slots |-> slots,
   reads |-> reads, writes |-> writes]

TransformTasks == [t \in {"resolve_snapshot", "resolve_hour", "source_freshness", "run_silver",
                         "test_silver", "place_mart", "grid_mart", "gold", "mark_gold"} |->
  CASE t = "resolve_snapshot" -> Task("transform", {}, 0, {}, {})
    [] t = "resolve_hour" -> Task("transform", {"resolve_snapshot"}, 0, {}, {})
    [] t = "source_freshness" -> Task("transform", {"resolve_hour"}, Branch, {"bronze"}, {})
    [] t = "run_silver" ->
         Task("transform", {"source_freshness"}, Branch, {"bronze"}, {"silver"})
    [] t = "test_silver" ->
         Task("transform", {"run_silver"}, Branch, {"bronze", "silver"}, {})
    [] t = "place_mart" ->
         Task("transform", {"test_silver"}, Branch, {"silver", "mapping"}, {"place"})
    [] t = "grid_mart" -> Task("transform", {"test_silver"}, Branch, {"silver"}, {"grid"})
    [] t = "gold" ->
         Task("transform", {"place_mart", "grid_mart"}, Branch, {"place", "grid"}, {"gold"})
    [] t = "mark_gold" -> Task("transform", {"gold"}, 0, {}, {})]

W2Tasks == [t \in {"w2_resolve", "w2_models"} |->
  CASE t = "w2_resolve" -> Task("w2", {}, 0, {}, {})
    [] t = "w2_models" -> Task("w2", {"w2_resolve"}, Exclusive, {"bronze", "mapping"}, {"w2"})]

RefreshTasks == [t \in {"refresh_hour", "refresh_run", "refresh_test", "refresh_mark"} |->
  CASE t = "refresh_hour" -> Task("refresh", {}, 0, {}, {})
    [] t = "refresh_run" ->
         Task("refresh", {"refresh_hour"}, Exclusive, {"gold", "place"}, {"products"})
    [] t = "refresh_test" -> Task("refresh", {"refresh_run"}, Exclusive, {"products"}, {})
    [] t = "refresh_mark" -> Task("refresh", {"refresh_test"}, 0, {}, {})]

\* Each reference table is seeded, then tested; the place mapping stands for all.
ReferenceTasks == [t \in {"seed_mapping"} |-> Task("reference", {}, Exclusive, {}, {"mapping"})]

Tasks == UNION {DOMAIN TransformTasks, DOMAIN W2Tasks, DOMAIN RefreshTasks, DOMAIN ReferenceTasks}

Graph == [t \in Tasks |-> IF t \in DOMAIN TransformTasks THEN TransformTasks[t]
                          ELSE IF t \in DOMAIN W2Tasks THEN W2Tasks[t]
                          ELSE IF t \in DOMAIN RefreshTasks THEN RefreshTasks[t]
                          ELSE ReferenceTasks[t]]

Dags == {"transform", "w2", "refresh", "reference"}
Consumers == {"transform", "w2"}

TasksOf == [d \in Dags |-> {t \in Tasks : Graph[t].dag = d}]

\* Two tasks race when one writes what the other reads or writes.
Races(s, t) ==
  Graph[s].writes \intersect (Graph[t].reads \union Graph[t].writes) # {}
=============================================================================
