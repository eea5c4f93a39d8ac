----------------------- MODULE IncrementalPublication -----------------------
(* The two modes of publish() that write into the served table itself:        *)
(* append (the recent window is deleted and inserted again) and incremental   *)
(* upsert (the grains that changed since the watermark are replaced).  There  *)
(* is no staging table and nothing is undone.  Runs are serialized by the     *)
(* publication pool; each may end at any request, applied or not.  What a     *)
(* retried request applies twice is the same (delete, INSERT OR REPLACE), and *)
(* a plain INSERT is sent once.                                               *)
EXTENDS Integers, FiniteSets, FiniteSetsExt

CONSTANTS
    Key,
    Lookback,       \* APPEND_LOOKBACK_DAYS, or _HOURS
    BatchRows,      \* bound: rows of one API batch
    MaxTime,        \* bound: the clock
    MaxChanges,     \* bound: changes of the source
    MaxFaults,      \* bound: faults
    None

WindowAssumption == {Lookback, BatchRows} \subseteq Nat

VARIABLES
    mode,       \* the contract: "append" or "incremental"
    now,
    source,     \* the Gold relation: [key, at (its event_time), ver]
    changes,
    table,      \* the served table in D1
    catalog,    \* row_count of its catalog row
    pc, mark, lastGood, todo, read,     \* the run in progress
    split,      \* history: a run has ended between two of its batches
    faults

vars == <<mode, now, source, changes, table, catalog, pc, mark, lastGood, todo, read, split, faults>>
env == <<mode, now, source, changes>>
locals == <<mark, lastGood, todo, read>>

\* The primary key: an append contract's rows are the key's history.
Pk(r) == IF mode = "append" THEN <<r.key, r.at>> ELSE <<r.key>>
Merge(old, new) == {r \in old : \A s \in new : Pk(s) # Pk(r)} \cup new

Init ==
    /\ mode \in {"append", "incremental"}
    /\ now = 1 /\ source = {} /\ changes = 0
    /\ table = {} /\ catalog = None
    /\ pc = "idle" /\ mark = None /\ lastGood = None /\ todo = {} /\ read = {}
    /\ split = FALSE /\ faults = 0

Tick == now < MaxTime /\ now' = now + 1 /\ UNCHANGED <<mode, source, changes, table, catalog, pc, locals, split, faults>>

\* A transform changes a row of Gold: one of the last Lookback event times of
\* an append contract; the event_time of an incremental one is that of the change.
Change ==
    /\ changes < MaxChanges
    /\ changes' = changes + 1
    /\ \E k \in Key, t \in (IF mode = "append" THEN (now - Lookback)..now ELSE {now}) :
        t > 0 /\ source' = Merge(source, {[key |-> k, at |-> t, ver |-> changes']})
    /\ UNCHANGED <<mode, now, table, catalog, pc, locals, split, faults>>

MaxAt(rows) == IF rows = {} THEN None ELSE Max({r.at : r \in rows})

Goto(next) == pc' = next
Fault == faults < MaxFaults /\ faults' = faults + 1

\* catalog_row and table_max: a request that fails reads as no row.
Start ==
    /\ pc = "idle"
    /\ \/ lastGood' = catalog /\ mark' = MaxAt(table) /\ UNCHANGED faults
       \/ Fault /\ lastGood' = None /\ mark' = MaxAt(table)
       \/ Fault /\ lastGood' = catalog /\ mark' = None
    /\ Goto("source")
    /\ UNCHANGED <<env, table, catalog, todo, read, split>>

Cutoff == IF mode = "append" THEN mark - Lookback ELSE mark

\* Only what is newer than the watermark.
InWindow_After(r) == mark = None \/ r.at > Cutoff
\* TrinoSourceReader.read: everything on the first run.
InWindow(r) == mark = None \/ r.at >= Cutoff

\* The gate compares the rows of the window with those of the whole table: a
\* window without rows (zero_policy = retain_last_good) or of less than half
\* the table (partial_min_ratio) is not published.
ReadSource ==
    /\ pc = "source"
    /\ LET window == {r \in source : InWindow(r)}
           kept == window = {} \/ (lastGood # None /\ 2 * Cardinality(window) < lastGood)
       IN  IF kept THEN Goto("idle") /\ UNCHANGED <<todo, read>>
           ELSE /\ todo' = window
                /\ read' = source
                /\ Goto(IF mode = "append" /\ mark # None THEN "delete" ELSE "insert")
    /\ UNCHANGED <<env, table, catalog, mark, lastGood, split, faults>>

\* A request: answered, or given up on, applied or not.
Send(effect, next) ==
    \/ table' = effect /\ Goto(next) /\ UNCHANGED faults
    \/ Fault /\ table' \in {table, effect} /\ Goto("failed")

\* delete_where_gte.
DeleteWindow ==
    /\ pc = "delete"
    /\ Send({r \in table : r.at < Cutoff}, "insert")
    /\ UNCHANGED <<env, catalog, locals, split>>

\* The window takes more than one batch.
Several == Cardinality({r \in read : InWindow(r)}) > BatchRows

\* One API batch, which D1 applies as a whole or not at all: a plain INSERT of
\* a row that the table has fails.  The rows come in no order.
InsertBatch ==
    /\ pc = "insert"
    /\ \E batch \in kSubset(IF Cardinality(todo) < BatchRows THEN Cardinality(todo) ELSE BatchRows, todo) :
        /\ todo' = todo \ batch
        /\ IF mode = "append" /\ \E r \in batch, s \in table : Pk(r) = Pk(s)
           THEN Goto("failed") /\ UNCHANGED <<table, faults>>
           ELSE Send(Merge(table, batch), IF todo' = {} THEN "readback" ELSE "insert")
        /\ split' = (split \/ (pc' = "failed" /\ Several))
    /\ UNCHANGED <<env, catalog, mark, lastGood, read>>

\* Read-back, smoke check, catalog, metadata and evidence: a failure ends the
\* run and leaves the table as it is.
Register ==
    /\ pc = "readback"
    /\ \/ catalog' = Cardinality(table) /\ Goto("completed") /\ UNCHANGED faults
       \/ Fault /\ catalog' \in {catalog, Cardinality(table)} /\ Goto("failed")
    /\ UNCHANGED <<env, table, locals, split>>

\* The publisher's process dies between two requests.
Die ==
    /\ pc \in {"source", "delete", "insert", "readback"}
    /\ Fault
    /\ Goto("failed")
    /\ split' = (split \/ (pc = "insert" /\ Several))
    /\ UNCHANGED <<env, table, catalog, locals>>

End ==
    /\ pc \in {"failed", "completed"}
    /\ Goto("idle")
    /\ mark' = None /\ lastGood' = None /\ todo' = {} /\ read' = {}
    /\ UNCHANGED <<env, table, catalog, split, faults>>

Next ==
    \/ Tick \/ Change \/ Start \/ ReadSource \/ DeleteWindow \/ InsertBatch \/ Register \/ Die \/ End

Spec == Init /\ [][Next]_vars

-----------------------------------------------------------------------------
\* A publication that completes has made the table what the source was when it
\* was read, though it wrote only a window of it, and whatever became of the
\* runs before: "re-load only the recent window (idempotent) + any new rows"
\* (runtime.py).  The exception is a run that ended between two batches: the
\* rows have no order, so the newest may be there and older ones missing.
CompletedIsWhole == pc = "completed" /\ ~split => table = read
=============================================================================
