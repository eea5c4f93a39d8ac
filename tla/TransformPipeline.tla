-------------------------- MODULE TransformPipeline --------------------------
(* The Weather DAGs between a published Bronze run and the public tables. The  *)
(* transform and the W2 DAG both follow the Bronze asset: each gathers the     *)
(* events that arrived while it was busy, pins the newest run and records the  *)
(* others COALESCED in the manifest they share. The transform merges its pin   *)
(* into Silver and rebuilds two marts and the Gold input from it; the hourly   *)
(* refresh rebuilds the public products from that input; each ends by a marker *)
(* that starts the D1 export of the products. The pool lets one exclusive task *)
(* or two branches run, and is released between two tasks of one DAG run.      *)
(* Runs are numbered by the collection instant their events carry.             *)
EXTENDS WeatherDags, FiniteSets, FiniteSetsExt

CONSTANTS Run,          \* the publishable Bronze runs
          IssueOf,      \* the KMA issue a run collected
          Product,      \* the public product tables
          LastHour,     \* bound on the clock: hours after the first
          MaxFaults     \* bound on failures nobody provokes

ASSUME RunAssumption ==
  /\ IsFiniteSet(Run) /\ Run = 1..Cardinality(Run)
  /\ LastHour \in Nat /\ MaxFaults \in Nat

None == 0
ReferenceHour == 1
Issues == {IssueOf[r] : r \in Run}

VARIABLES
  published,    \* runs with a publishable SUCCESS row and an asset event
  coalesced,    \* runs with a COALESCED row
  queue,        \* per consumer: runs whose events no DAG run has taken
  batch,        \* per consumer: runs whose events its DAG run has taken
  pin,          \* per consumer: the run it verified, None before
  active,       \* the DAGs with a running DAG run
  due,          \* the clocked DAGs with a scheduled run to start
  clock,        \* the current hour
  frozen,       \* per DAG: the serving hour its run froze
  done, running, failed, retried,   \* tasks of the active DAG runs
  silver, place, grid,              \* per issue: the run whose rows stand
  gold,         \* the Gold tables' copies of both marts
  edition,      \* the refresh runs started
  products,     \* per product: the edition that built it
  passed,       \* editions whose contract tests passed
  ready,        \* an asset event of a marker the export has not taken
  exporting,    \* products the running export has still to read
  faults,
  lost          \* runs whose transform failed before Silver or was below it

airflow == <<active, due, clock, done, running, failed, retried, faults>>
manifest == <<published, coalesced>>
events == <<queue, batch, pin, frozen>>
marts == <<silver, place, grid, gold>>
serving == <<edition, products, passed, ready, exporting>>
vars == <<airflow, manifest, events, marts, serving, lost>>

NoRows == [i \in Issues |-> None]

Init ==
  /\ published = {} /\ coalesced = {}
  /\ queue = [d \in Consumers |-> {}]
  /\ batch = [d \in Consumers |-> {}]
  /\ pin = [d \in Consumers |-> None]
  /\ active = {} /\ due = {} /\ clock = 0
  /\ frozen = [d \in Dags |-> 0]
  /\ done = {} /\ running = {} /\ failed = {} /\ retried = {}
  /\ silver = NoRows /\ place = NoRows /\ grid = NoRows
  /\ gold = [place |-> NoRows, grid |-> NoRows]
  /\ edition = 0 /\ passed = {0}
  /\ products = [p \in Product |-> 0]
  /\ ready = FALSE /\ exporting = {}
  /\ faults = 0 /\ lost = {}

----------------------------------------------------------------------------
\* The scheduler.

Used_Tasks == Cardinality(running)
Used == Cardinality({slot \in running \X (1..Lane) : slot[2] <= Graph[slot[1]].slots})

Ready_AnyUpstream(t) ==
  /\ Graph[t].dag \in active
  /\ t \notin done \union running \union failed
  /\ Graph[t].needs = {} \/ Graph[t].needs \intersect done # {}

Ready(t) ==
  /\ Graph[t].dag \in active
  /\ t \notin done \union running \union failed
  /\ Graph[t].needs \subseteq done

\* The collecting DAG, or the backfill of an older run, verified Bronze.
PublishBronze(r) ==
  /\ r \notin published
  /\ published' = published \union {r}
  /\ queue' = [d \in Consumers |-> queue[d] \union {r}]
  /\ UNCHANGED <<coalesced, batch, pin, frozen, airflow, marts, serving, lost>>

Trigger_NewestOnly(d) ==
  /\ d \notin active /\ queue[d] # {}
  /\ active' = active \union {d}
  /\ batch' = [batch EXCEPT ![d] = {Max(queue[d])}]
  /\ queue' = [queue EXCEPT ![d] = {}]
  /\ UNCHANGED <<pin, frozen, due, clock, done, running, failed, retried, faults,
                 manifest, marts, serving, lost>>

\* An asset-triggered DAG takes every waiting event; one run at a time.
Trigger(d) ==
  /\ d \notin active /\ queue[d] # {}
  /\ active' = active \union {d}
  /\ batch' = [batch EXCEPT ![d] = queue[d]]
  /\ queue' = [queue EXCEPT ![d] = {}]
  /\ UNCHANGED <<pin, frozen, due, clock, done, running, failed, retried, faults,
                 manifest, marts, serving, lost>>

\* Without catch-up a DAG that is still running keeps one scheduled run.
Tick ==
  /\ clock < LastHour
  /\ clock' = clock + 1
  /\ due' = due \union {"refresh"}
               \union (IF clock' = ReferenceHour THEN {"reference"} ELSE {})
  /\ UNCHANGED <<active, done, running, failed, retried, faults,
                 manifest, events, marts, serving, lost>>

StartScheduled(d) ==
  /\ d \in due \ active
  /\ due' = due \ {d}
  /\ active' = active \union {d}
  /\ edition' = IF d = "refresh" THEN edition + 1 ELSE edition
  /\ UNCHANGED <<clock, done, running, failed, retried, faults, manifest,
                 events, marts, products, passed, ready, exporting, lost>>

StartTask(t) ==
  /\ Ready(t) /\ Graph[t].slots > 0
  /\ Used + Graph[t].slots <= Lane
  /\ running' = running \union {t}
  /\ UNCHANGED <<active, due, clock, done, failed, retried, faults,
                 manifest, events, marts, serving, lost>>

\* A failed branch does not stop its sibling: the run ends when none is left.
Over(d) ==
  /\ d \in active
  /\ TasksOf[d] \intersect running = {}
  /\ \A t \in TasksOf[d] : ~Ready(t)

Forgotten(d) ==
  IF d = "transform" /\ "run_silver" \notin done THEN batch[d] ELSE {}

Close(d) ==
  /\ active' = active \ {d}
  /\ done' = done \ TasksOf[d]
  /\ failed' = failed \ TasksOf[d]
  /\ retried' = retried \ TasksOf[d]
  /\ running' = running \ TasksOf[d]
  /\ lost' = lost \union Forgotten(d)
  /\ batch' = [c \in Consumers |-> IF c = d THEN {} ELSE batch[c]]
  /\ pin' = [c \in Consumers |-> IF c = d THEN None ELSE pin[c]]
  /\ frozen' = [frozen EXCEPT ![d] = 0]

EndRun(d) ==
  /\ Over(d)
  /\ Close(d)
  /\ UNCHANGED <<due, clock, faults, queue, manifest, marts, serving>>

\* dagrun_timeout of the transform, at any moment of the run.
TimeOut ==
  /\ "transform" \in active /\ ~Over("transform")
  /\ faults < MaxFaults /\ faults' = faults + 1
  /\ Close("transform")
  /\ UNCHANGED <<due, clock, queue, manifest, marts, serving>>

Passes(t) ==
  /\ done' = done \union {t}
  /\ running' = running \ {t}
  /\ UNCHANGED <<active, due, clock, failed, retried, faults>>

Fails(t) ==
  /\ failed' = failed \union {t}
  /\ running' = running \ {t}
  /\ UNCHANGED <<active, due, clock, done, retried, faults>>

----------------------------------------------------------------------------
\* Pinning the snapshot: "resolve_snapshot" and "w2_resolve".

PinTask == [transform |-> "resolve_snapshot", w2 |-> "w2_resolve"]
Newest(d) == Max(batch[d])

Coalesce(d, r) ==
  /\ Ready(PinTask[d])
  /\ r \in batch[d] \ ({Newest(d)} \union coalesced)
  /\ coalesced' = coalesced \union {r}
  /\ UNCHANGED <<published, events, airflow, marts, serving, lost>>

Publishable(r) == r \in published \ coalesced

Pin(d) ==
  /\ Ready(PinTask[d])
  /\ batch[d] \ {Newest(d)} \subseteq coalesced
  /\ IF Publishable(Newest(d))
       THEN Passes(PinTask[d]) /\ pin' = [pin EXCEPT ![d] = Newest(d)]
       ELSE Fails(PinTask[d]) /\ UNCHANGED pin
  /\ UNCHANGED <<queue, batch, frozen, manifest, marts, serving, lost>>

HourTask == [transform |-> "resolve_hour", refresh |-> "refresh_hour"]

FreezeHour(d) ==
  /\ Ready(HourTask[d])
  /\ Passes(HourTask[d])
  /\ frozen' = [frozen EXCEPT ![d] = clock]
  /\ UNCHANGED <<queue, batch, pin, manifest, marts, serving, lost>>

----------------------------------------------------------------------------
\* The dbt phases: what a phase leaves in the tables when it passes.

\* The pre-hook deletes the runs whose latest manifest state is not publishable.
Purged == [i \in Issues |-> IF silver[i] \in coalesced THEN None ELSE silver[i]]

\* The merge selects the pin while it is publishable, and not below the
\* watermark: the newest collection instant Silver holds, less the lookback.
Outrun == \E i \in Issues : Purged[i] > pin["transform"]
Merged == IF Publishable(pin["transform"]) /\ ~Outrun
            THEN [Purged EXCEPT ![IssueOf[pin["transform"]]] = pin["transform"]]
            ELSE Purged

Writes(t) ==
  CASE t = "run_silver" -> silver' = Merged /\ UNCHANGED <<place, grid, gold>>
    [] t = "place_mart" -> place' = silver /\ UNCHANGED <<silver, grid, gold>>
    [] t = "grid_mart"  -> grid' = silver /\ UNCHANGED <<silver, place, gold>>
    [] t = "gold"       -> gold' = [place |-> place, grid |-> grid]
                           /\ UNCHANGED <<silver, place, grid>>
    [] OTHER            -> UNCHANGED marts

\* assert_silver_kma_uses_publishable_runs
Sound(t) ==
  t = "test_silver" =>
    \A i \in Issues : silver[i] # None => Publishable(silver[i])

Built(t) == t = "refresh_run" => \A p \in Product : products[p] = edition

Pass(t) ==
  /\ Sound(t) /\ Built(t)
  /\ Passes(t)
  /\ Writes(t)
  /\ passed' = IF t = "refresh_test" THEN passed \union {edition} ELSE passed
  /\ lost' = IF t = "run_silver" /\ Outrun THEN lost \union {pin["transform"]} ELSE lost
  /\ UNCHANGED <<manifest, events, edition, products, ready, exporting>>

RejectSilver ==
  /\ "test_silver" \in running /\ ~Sound("test_silver")
  /\ Fails("test_silver")
  /\ UNCHANGED <<manifest, events, marts, serving, lost>>

\* The products are renamed into place one by one.
BuildProduct(p) ==
  /\ "refresh_run" \in running
  /\ products[p] # edition
  /\ products' = [products EXCEPT ![p] = edition]
  /\ UNCHANGED <<airflow, manifest, events, marts, lost,
                 edition, passed, ready, exporting>>

\* A phase fails before or after the statements that change its tables, or
\* between the pre-hook and the merge; a transient failure has one retry.
Leaves(t) ==
  \/ UNCHANGED marts
  \/ Writes(t)
  \/ t = "run_silver" /\ silver' = Purged /\ UNCHANGED <<place, grid, gold>>

Break(t) ==
  /\ faults < MaxFaults /\ faults' = faults + 1
  /\ running' = running \ {t}
  /\ \/ t \notin retried /\ retried' = retried \union {t} /\ UNCHANGED failed
     \/ failed' = failed \union {t} /\ UNCHANGED retried
  /\ Leaves(t)
  /\ UNCHANGED <<active, due, clock, done, manifest, events, serving, lost>>

----------------------------------------------------------------------------
\* The markers and the D1 export they start.

Current(d) == frozen[d] = clock

MarkGold ==
  /\ Ready("mark_gold")
  /\ Passes("mark_gold")
  /\ ready' = (ready \/ Current("transform"))
  /\ UNCHANGED <<manifest, events, marts, lost,
                 edition, products, passed, exporting>>

MarkRefresh ==
  /\ Ready("refresh_mark")
  /\ IF Current("refresh") THEN Passes("refresh_mark") /\ ready' = TRUE
                           ELSE Fails("refresh_mark") /\ UNCHANGED ready
  /\ UNCHANGED <<manifest, events, marts, lost,
                 edition, products, passed, exporting>>

StartExport ==
  /\ ready /\ exporting = {}
  /\ ready' = FALSE /\ exporting' = Product
  /\ UNCHANGED <<airflow, manifest, events, marts, lost,
                 edition, products, passed>>

Export(p) ==
  /\ p \in exporting
  /\ exporting' = exporting \ {p}
  /\ UNCHANGED <<airflow, manifest, events, marts, lost,
                 edition, products, passed, ready>>

AtRest ==
  /\ active = {} /\ due = {} /\ clock = LastHour /\ published = Run
  /\ \A d \in Consumers : queue[d] = {}
  /\ ~ready /\ exporting = {}

Rest == AtRest /\ UNCHANGED vars

Next ==
  \/ \E r \in Run : PublishBronze(r)
  \/ Tick \/ TimeOut
  \/ \E d \in Consumers : Trigger(d) \/ Pin(d)
  \/ \E d \in Consumers, r \in Run : Coalesce(d, r)
  \/ \E d \in {"refresh", "reference"} : StartScheduled(d)
  \/ \E d \in {"transform", "refresh"} : FreezeHour(d)
  \/ \E d \in Dags : EndRun(d)
  \/ \E t \in Tasks : StartTask(t)
  \/ \E t \in running : Pass(t) \/ Break(t)
  \/ RejectSilver
  \/ \E p \in Product : BuildProduct(p) \/ Export(p)
  \/ MarkGold \/ MarkRefresh \/ StartExport
  \/ Rest

Spec == Init /\ [][Next]_vars

----------------------------------------------------------------------------
TypeOK ==
  /\ published \subseteq Run /\ coalesced \subseteq published
  /\ queue \in [Consumers -> SUBSET Run] /\ batch \in [Consumers -> SUBSET Run]
  /\ pin \in [Consumers -> Run \union {None}]
  /\ active \subseteq Dags /\ due \subseteq {"refresh", "reference"}
  /\ clock \in 0..LastHour /\ frozen \in [Dags -> 0..LastHour]
  /\ done \subseteq Tasks /\ running \subseteq Tasks
  /\ failed \subseteq Tasks /\ retried \subseteq Tasks
  /\ {silver, place, grid, gold.place, gold.grid}
       \subseteq [Issues -> Run \union {None}]
  /\ passed \subseteq 0..edition
  /\ products \in [Product -> 0..edition]
  /\ ready \in BOOLEAN /\ exporting \subseteq Product
  /\ faults \in 0..MaxFaults /\ lost \subseteq Run

(* No two running phases race on a table: the slots a task asks for keep a     *)
(* table swap away from the branches of a transform and from every reader in   *)
(* the lane (weather_vilage_fcst_transform.py:81-86).                          *)
NoRace == \A s, t \in running : s # t => ~Races(s, t)

(* When the Gold marker may fire, both marts of Gold come from one state of    *)
(* Silver, and they hold the pinned run, unless the W2 DAG coalesced that run  *)
(* meanwhile or Silver was already past it (a backfill below the watermark):   *)
(* retries, timeouts and the sibling branch never mix two pins.                *)
AnnouncedGoldIsPinned ==
  Ready("mark_gold") =>
    LET r == pin["transform"] IN
      /\ gold.place = gold.grid
      /\ \/ gold.place[IssueOf[r]] = r
         \/ r \in coalesced
         \/ \E i \in Issues : gold.place[i] > r

(* When everything is at rest, a published run is in Silver, or a newer run of  *)
(* its issue was published, or it was set aside for a newer published run, or   *)
(* its own transform failed before Silver or found Silver past it: no event is  *)
(* dropped between two DAG runs, by the two consumers coalescing in one         *)
(* manifest, or by the pool.                                                    *)
NothingIsForgotten ==
  AtRest => \A r \in Run :
    \/ r \in lost
    \/ silver[IssueOf[r]] = r
    \/ \E newer \in published :
         newer > r /\ (r \in coalesced \/ IssueOf[newer] = IssueOf[r])
=============================================================================
