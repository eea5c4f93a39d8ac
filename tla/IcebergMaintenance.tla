------------------------- MODULE IcebergMaintenance -------------------------
(* One run of weather_iceberg_maintenance beside the transforms that share    *)
(* the lane trino_weather_heavy: optimize, expire_snapshots and               *)
(* remove_orphan_files of one table after the other.  A table's data is the   *)
(* set of its snapshots; a statement whose task has timed out goes on in      *)
(* Trino, and takes effect at one moment.                                     *)
EXTENDS Integers, FiniteSets, FiniteSetsExt

CONSTANTS
    Table,          \* the tables, 1..n in the order of MAINTAINED_TABLES
    Retention,      \* FIXED_RETENTION and RETAIN_LAST: [days, last]
    MaxDay,         \* bound: the clock
    MaxSnapshots,   \* bound: snapshots of a table
    MaxReads,       \* bound: reads of the transforms
    MaxFaults,      \* bound: failed and timed-out tasks
    None

MaintenanceAssumption == IsFiniteSet(Table)

Operation == <<"optimize", "expire_snapshots", "remove_orphan_files">>
Action == Table \X (1..3)
Slots == 2

VARIABLES
    day,
    gate,       \* the task validate_dev_runtime
    task,       \* of each action, its task's state
    server,     \* the statements that run in Trino
    summary,
    snapshots,  \* of each table, its snapshots: [n, day]
    reader,     \* the transform that reads: [table, n], or None
    reads,
    faults

vars == <<day, gate, task, server, summary, snapshots, reader, reads, faults>>

Init ==
    /\ day = 0
    /\ gate = "none"
    /\ task = [a \in Action |-> "none"]
    /\ server = {}
    /\ summary = FALSE
    /\ snapshots \in [Table -> {{}, {[n |-> 1, day |-> 0]}}]
    /\ reader = None /\ reads = 0
    /\ faults = 0

Fault == faults < MaxFaults /\ faults' = faults + 1

Latest(t) == Max({s.n : s \in snapshots[t]})

\* The slots that are taken: an action takes both, a transform one.
ActionSlots_One == 1
ActionSlots == Slots
Taken ==
    ActionSlots * Cardinality({a \in Action : task[a] = "running"}) + (IF reader = None THEN 0 ELSE 1)

Ended(state) == state \in {"success", "failed", "upstream_failed"}

\* What an action waits for: the gate, the last operation of the table before,
\* or the operation before.
Upstream(a) ==
    IF a[2] > 1 THEN task[<<a[1], a[2] - 1>>]
    ELSE IF a[1] > 1 THEN task[<<a[1] - 1, 3>>]
    ELSE gate

\* The first operation of every table but the first has trigger_rule all_done.
AllDone(a) == a[2] = 1 /\ a[1] > 1

Gate ==
    /\ gate = "none"
    /\ \/ gate' = "success" /\ UNCHANGED faults
       \/ gate' = "failed" /\ Fault
    /\ UNCHANGED <<day, task, server, summary, snapshots, reader, reads>>

\* A table that does not exist is skipped.
Submit(a) ==
    /\ task[a] = "none"
    /\ Upstream(a) = "success" \/ (AllDone(a) /\ Ended(Upstream(a)))
    /\ Taken + ActionSlots <= Slots
    /\ IF snapshots[a[1]] = {}
       THEN task' = [task EXCEPT ![a] = "success"] /\ UNCHANGED server
       ELSE task' = [task EXCEPT ![a] = "running"] /\ server' = server \cup {a}
    /\ UNCHANGED <<day, gate, summary, snapshots, reader, reads, faults>>

UpstreamFails(a) ==
    /\ task[a] = "none"
    /\ ~AllDone(a)
    /\ Upstream(a) \in {"failed", "upstream_failed"}
    /\ task' = [task EXCEPT ![a] = "upstream_failed"]
    /\ UNCHANGED <<day, gate, server, summary, snapshots, reader, reads, faults>>

\* Snapshots that are young or among the last are kept.
Kept(t, policy) ==
    {s \in snapshots[t] :
        s.day > day - policy.days \/ Cardinality({r \in snapshots[t] : r.n > s.n}) < policy.last}

\* run_maintenance_action builds MaintainedTable(schema, table_name): it has
\* the default retention, whatever the table declares.
Policy(t) == Retention

\* The files that no snapshot has are not modelled, so that their removal
\* changes nothing.
Effect(a) ==
    CASE Operation[a[2]] = "optimize" -> snapshots[a[1]] \cup {[n |-> Latest(a[1]) + 1, day |-> day]}
      [] Operation[a[2]] = "expire_snapshots" -> Kept(a[1], Policy(a[1]))
      [] OTHER -> snapshots[a[1]]

\* The statement ends, well or badly; its task may have been given up on.
Execute(a) ==
    /\ a \in server
    /\ server' = server \ {a}
    /\ \/ /\ Operation[a[2]] = "optimize" => Latest(a[1]) < MaxSnapshots
          /\ snapshots' = [snapshots EXCEPT ![a[1]] = Effect(a)]
          /\ task' = [task EXCEPT ![a] = IF @ = "running" THEN "success" ELSE @]
          /\ UNCHANGED faults
       \/ /\ IF Operation[a[2]] = "optimize" /\ Latest(a[1]) = MaxSnapshots THEN UNCHANGED faults ELSE Fault
          /\ task' = [task EXCEPT ![a] = IF @ = "running" THEN "failed" ELSE @]
          /\ UNCHANGED snapshots
    /\ UNCHANGED <<day, gate, summary, reader, reads>>

\* execution_timeout: the pool's slots are free, the statement runs on.
TimeOut(a) ==
    /\ task[a] = "running"
    /\ Fault
    /\ task' = [task EXCEPT ![a] = "failed"]
    /\ UNCHANGED <<day, gate, server, summary, snapshots, reader, reads>>

Summarize ==
    /\ ~summary
    /\ Ended(gate) /\ \A a \in Action : Ended(task[a])
    /\ summary' = TRUE
    /\ UNCHANGED <<day, gate, task, server, snapshots, reader, reads, faults>>

\* The transforms hold a slot while they read the snapshot that they found, and
\* while they commit a new one.
BeginRead(t) ==
    /\ reads < MaxReads /\ reads' = reads + 1
    /\ reader = None /\ Taken < Slots /\ snapshots[t] # {}
    /\ reader' = [table |-> t, n |-> Latest(t)]
    /\ UNCHANGED <<day, gate, task, server, summary, snapshots, faults>>

EndRead ==
    /\ reader # None
    /\ reader' = None
    /\ UNCHANGED <<day, gate, task, server, summary, snapshots, reads, faults>>

Commit(t) ==
    /\ Taken < Slots /\ snapshots[t] # {} /\ Latest(t) < MaxSnapshots
    /\ snapshots' = [snapshots EXCEPT ![t] = @ \cup {[n |-> Latest(t) + 1, day |-> day]}]
    /\ UNCHANGED <<day, gate, task, server, summary, reader, reads, faults>>

Tick ==
    /\ day < MaxDay /\ day' = day + 1
    /\ UNCHANGED <<gate, task, server, summary, snapshots, reader, reads, faults>>

Next ==
    \/ Gate \/ Summarize \/ EndRead \/ Tick
    \/ \E a \in Action : Submit(a) \/ UpstreamFails(a) \/ Execute(a) \/ TimeOut(a)
    \/ \E t \in Table : BeginRead(t) \/ Commit(t)

\* Airflow schedules what is ready; a statement and a transform's read end.
Fairness ==
    /\ WF_vars(Gate \/ Summarize \/ EndRead)
    /\ \A a \in Action : WF_vars(Submit(a)) /\ WF_vars(UpstreamFails(a)) /\ WF_vars(Execute(a))

Spec == Init /\ [][Next]_vars /\ Fairness

-----------------------------------------------------------------------------
\* The snapshot that a transform reads is not expired under it ("no transform or
\* serving swap can observe a changing Iceberg table"), unless a statement has
\* outlived its task.
Outlived == \E a \in server : task[a] # "running"
ReaderKeepsItsSnapshot ==
    [][reader # None /\ reader' = reader /\ ~Outlived =>
       {s \in snapshots[reader.table] : s.n = reader.n} \subseteq snapshots'[reader.table]]_vars
=============================================================================
