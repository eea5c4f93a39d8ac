---------------------------- MODULE ManualTrigger ----------------------------
(* scripts/safe_trigger_dag.py: an operator triggers a DAG by hand.  The      *)
(* guard runs in the scheduler's container: under a session lock of the       *)
(* metadata database it looks for active runs of the DAG's conflict set and   *)
(* then runs `airflow dags trigger`.  The scheduler itself starts runs too,   *)
(* and asks nobody.                                                           *)
EXTENDS Naturals, FiniteSets

CONSTANTS
    Weather, Traffic, Common,   \* WEATHER_DAGS, TRAFFIC_DAGS, COMMON_DAGS
    Maintenance,                \* the id that the script knows maintenance by
    Guard,                      \* invocations of the script
    MaxScheduled,               \* bound on runs that the scheduler starts
    MaxFaults,                  \* bound on failures and deaths
    None

TriggerAssumption ==
    /\ Weather \cap Traffic = {Maintenance}
    /\ None \notin Guard
    /\ {MaxScheduled, MaxFaults} \subseteq Nat

VARIABLES
    active,     \* the active DAG runs: their DAG and who triggered them
    lock,       \* the guard whose session holds the advisory lock, or None
    guard,      \* per invocation: where it is, its DAG, --check-only, its status
    orphans,    \* triggers whose guard has died: the command still runs
    scheduled, faults

vars == <<active, lock, guard, orphans, scheduled, faults>>

Dag == Weather \cup Traffic \cup Common

\* conflict_set_for
ConflictSet(d) ==
    IF d = Maintenance \/ d \in Common THEN Dag
    ELSE (IF d \in Weather THEN Weather ELSE Traffic) \cup Common

Init ==
    /\ active = {}
    /\ lock = None
    /\ guard = [g \in Guard |-> [pc |-> "start", dag |-> None, check |-> FALSE, status |-> None]]
    /\ orphans = {}
    /\ scheduled = 0
    /\ faults = 0

Fault == faults < MaxFaults /\ faults' = faults + 1
At(g, pc) == guard[g].pc = pc
Leaves(g, pc, status) == guard' = [guard EXCEPT ![g] = [@ EXCEPT !.pc = pc, !.status = status]]
NewRun(g) == [dag |-> guard[g].dag, by |-> g]

-----------------------------------------------------------------------------
\* pg_try_advisory_lock: one attempt.
TryLock(g) ==
    /\ At(g, "start")
    /\ \E d \in Dag, check \in BOOLEAN :
        IF lock = None
        THEN /\ lock' = g
             /\ guard' = [guard EXCEPT ![g] = [@ EXCEPT !.pc = "query", !.dag = d, !.check = check]]
        ELSE Leaves(g, "done", "lock_unavailable") /\ UNCHANGED lock
    /\ UNCHANGED <<active, orphans, scheduled, faults>>

Conflicts(d) == {r \in active : r.dag \in ConflictSet(d)}

\* The answer is "active", "clear" for --check-only, or the trigger follows.
Query(g) ==
    /\ At(g, "query")
    /\ \/ Conflicts(guard[g].dag) # {} /\ Leaves(g, "unlock", "active")
       \/ Conflicts(guard[g].dag) = {} /\ guard[g].check /\ Leaves(g, "unlock", "clear")
       \/ Conflicts(guard[g].dag) = {} /\ ~guard[g].check /\ Leaves(g, "trigger", None)
    /\ UNCHANGED <<active, lock, orphans, scheduled, faults>>

QueryFails(g) ==
    /\ At(g, "query")
    /\ Fault
    /\ Leaves(g, "unlock", "query_failed")
    /\ UNCHANGED <<active, lock, orphans, scheduled>>

Trigger(g) ==
    /\ At(g, "trigger")
    /\ active' = active \cup {NewRun(g)}
    /\ Leaves(g, "unlock", "triggered")
    /\ UNCHANGED <<lock, orphans, scheduled, faults>>

\* A return code other than 0, with or without a run.
TriggerFails(g) ==
    /\ At(g, "trigger")
    /\ Fault
    /\ \E made \in BOOLEAN : active' = IF made THEN active \cup {NewRun(g)} ELSE active
    /\ Leaves(g, "unlock", "trigger_failed")
    /\ UNCHANGED <<lock, orphans, scheduled>>

\* The answer of pg_advisory_unlock is ignored.
Released_Trusting(g) == TRUE

\* pg_advisory_unlock answers true only to the session that holds the lock.
Released(g) == lock = g

Unlock(g) ==
    /\ At(g, "unlock")
    /\ Leaves(g, "done", IF Released(g) THEN guard[g].status
                         ELSE IF guard[g].status = "triggered" THEN "triggered_unlock_failed" ELSE "unlock_failed")
    /\ lock' = IF lock = g THEN None ELSE lock
    /\ UNCHANGED <<active, orphans, scheduled, faults>>

\* The database drops the session, and with it the lock; the guard learns of it
\* at its next statement.
LoseSession(g) ==
    /\ lock = g
    /\ Fault
    /\ lock' = None
    /\ IF At(g, "query") THEN Leaves(g, "unlock", "query_failed") ELSE UNCHANGED guard
    /\ UNCHANGED <<active, orphans, scheduled>>

\* The guard's process is killed; a trigger command that it has started goes on.
GuardDies(g) ==
    /\ guard[g].pc \in {"query", "trigger", "unlock"}
    /\ Fault
    /\ Leaves(g, "done", "killed")
    /\ lock' = IF lock = g THEN None ELSE lock
    /\ orphans' = IF At(g, "trigger") THEN orphans \cup {g} ELSE orphans
    /\ UNCHANGED <<active, scheduled>>

OrphanTriggers(g) ==
    /\ g \in orphans
    /\ orphans' = orphans \ {g}
    /\ active' = active \cup {NewRun(g)}
    /\ UNCHANGED <<lock, guard, scheduled, faults>>

-----------------------------------------------------------------------------
\* The scheduler has one run of a DAG at a time.
ScheduledRun ==
    /\ scheduled < MaxScheduled
    /\ \E d \in Dag : (\A r \in active : r.dag # d) /\ active' = active \cup {[dag |-> d, by |-> None]}
    /\ scheduled' = scheduled + 1
    /\ UNCHANGED <<lock, guard, orphans, faults>>

RunEnds ==
    /\ \E r \in active : active' = active \ {r}
    /\ UNCHANGED <<lock, guard, orphans, scheduled, faults>>

Next ==
    \/ \E g \in Guard :
        \/ TryLock(g) \/ Query(g) \/ QueryFails(g) \/ Trigger(g) \/ TriggerFails(g) \/ Unlock(g)
        \/ LoseSession(g) \/ GuardDies(g) \/ OrphanTriggers(g)
    \/ ScheduledRun \/ RunEnds

Spec == Init /\ [][Next]_vars

-----------------------------------------------------------------------------
\* The exit status 0 of an invocation that was to trigger its DAG.
Succeeded(g) == At(g, "done") /\ guard[g].status = "triggered"

\* Two invocations that both report success never leave conflicting runs
\* active together: not when a session with the lock is lost between the query
\* and the trigger, nor when a guard dies and its command goes on.
SuccessesExclude ==
    \A g, h \in Guard : g # h /\ Succeeded(g) /\ Succeeded(h) /\ {NewRun(g), NewRun(h)} \subseteq active =>
        guard[h].dag \notin ConflictSet(guard[g].dag)
=============================================================================
