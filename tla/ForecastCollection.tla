------------------------- MODULE ForecastCollection -------------------------
(* The DAG weather_vilage_fcst_bronze and its recollection and replay         *)
(* variants: landing, Bronze load, verification, the run manifest table, the  *)
(* slot receipt and the asset event.                                          *)
(*                                                                            *)
(* A collecting run has tries of its landing task, which ForecastLanding      *)
(* models one by one: Airflow starts the next try when the last one failed or *)
(* lost its heartbeat, and in that case the first may still be at work.  The  *)
(* later tasks of a run have tries too, of one process each.                  *)
EXTENDS ForecastLanding, Bags, FiniteSetsExt

CONSTANTS
    MaxTries,       \* tries of a task: retries + 1
    Replays,        \* runs of weather_vilage_fcst_raw_replay_backfill
    BatchSize,      \* BRONZE_LOAD_PAGE_BATCH_SIZE
    MaxCommits,     \* max_retry_attempts of one transaction
    MaxFaults       \* bound on deaths, losses, conflicts and timeouts

ASSUME CollectionAssumption ==
    /\ {MaxTries, BatchSize, MaxCommits} \subseteq Nat \ {0}
    /\ MaxFaults \in Nat
    /\ Replays \subseteq Run
    /\ Collector = (Run \ Replays) \X (1..MaxTries)
    /\ ~Refetch /\ ~SkipUnchanged

VARIABLES
    status,     \* the task that each DAG run is at
    partial,    \* per run: allow_partial_pages of its configuration
    manifest,   \* per run: the pages that the raw manifest lists, or None
    xcom,       \* per run: what the landing task returned, or None
    job,        \* per run: the try of the load, verify or record task
    bronze,     \* per run: the pages in the Bronze table, with their copies
    rows,       \* per run: its rows in the run manifest table
    receipt,    \* per run: the outcome of its slots, or None
    asset,      \* the runs whose asset event has been emitted
    faults

vars == <<landingVars, status, partial, manifest, xcom, job, bronze, rows, receipt, asset, faults>>
loadVars == <<job, bronze, rows, receipt, asset>>

\* offset counts the batches that are in the table, conflicts the failed
\* commits of the next one.
FreshJob == [try |-> 1, checked |-> FALSE, offset |-> 0, conflicts |-> 0]

Init ==
    /\ LandingInit
    /\ status = [r \in Run |-> "queued"]
    /\ partial = [r \in Run |-> FALSE]
    /\ manifest = [r \in Run |-> None]
    /\ xcom = [r \in Run |-> None]
    /\ job = [r \in Run |-> FreshJob]
    /\ bronze = [r \in Run |-> EmptyBag]
    /\ rows = [r \in Run |-> {}]
    /\ receipt = [r \in Run |-> None]
    /\ asset = {}
    /\ faults = 0

Ended == {"published", "skipped", "failed"}
Active(r) == status[r] \notin Ended \cup {"queued"}

\* The pages of a grid hold two rows each and the last one a single row; a page
\* that is not full misses one.
RowCount(p) == (IF p.no < p.total THEN 2 ELSE 1) - (IF p.full THEN 0 ELSE 1)
TotalCount(pages) == 2 * Max({p.total : p \in pages}) - 1
Rows(pages) == MapThenSumSet(RowCount, pages)
Grids(pages) == {p.grid : p \in pages}
ExpectedRows(pages) == MapThenSumSet(LAMBDA g : TotalCount(OfGrid(pages, g)), Grids(pages))

\* The check of a replay and of the load: no page is missing and the rows are
\* there, whichever answers they come from.
CoversGrid(pages) ==
    /\ 1..Max({p.total : p \in pages}) \subseteq {p.no : p \in pages}
    /\ Rows(pages) >= TotalCount(pages)
CoversGrids(pages) == \A g \in Grids(pages) : CoversGrid(OfGrid(pages, g))
OnePageEach(pages) == \A p, q \in pages : p.grid = q.grid /\ p.no = q.no => p = q

Fault == faults < MaxFaults /\ faults' = faults + 1

-----------------------------------------------------------------------------
(* Runs, and the landing of a collecting run.                                *)

\* The STARTED row, and for a collecting run the expected slots. The run's
\* configuration may allow partial pages. Each DAG has one active run; a replay
\* only reads raw objects, so it loses nothing by coming after the collections.
StartRun(r) ==
    /\ status[r] = "queued"
    /\ \A q \in Run : ~Active(q)
    /\ r \in Replays => \A q \in Run \ Replays : status[q] # "queued"
    /\ status' = [status EXCEPT ![r] = "landing"]
    /\ rows' = [rows EXCEPT ![r] = {"STARTED"}]
    /\ \E allow \in BOOLEAN : partial' = [partial EXCEPT ![r] = allow]
    /\ UNCHANGED <<landingVars, manifest, xcom, job, bronze, receipt, asset, faults>>

StartTry(c) ==
    /\ status[c[1]] = "landing"
    /\ \A k \in 1..(c[2] - 1) : lander[<<c[1], k>>].pc # "idle"
    /\ \/ c[2] = 1 /\ UNCHANGED faults
       \/ c[2] > 1 /\ lander[<<c[1], c[2] - 1>>].pc = "failed" /\ UNCHANGED faults
       \/ c[2] > 1 /\ lander[<<c[1], c[2] - 1>>].pc \in Collecting /\ Fault
    /\ LoadCheckpoint(c, c[1])
    /\ UNCHANGED <<status, partial, manifest, xcom, loadVars>>

Collect(c) ==
    /\ CollectStep(c) \/ FetchFails(c, FALSE)
    /\ UNCHANGED <<status, partial, manifest, xcom, loadVars, faults>>

Crash(c) ==
    /\ LanderDies(c)
    /\ Fault
    /\ UNCHANGED <<status, partial, manifest, xcom, loadVars>>

Current(c) == \A k \in (c[2] + 1)..MaxTries : lander[<<c[1], k>>].pc = "idle"

\* write_bytes replaces a manifest that is there.
WriteManifest(c) ==
    /\ lander[c].pc = "manifest"
    /\ manifest' = [manifest EXCEPT ![c[1]] = lander[c].got]
    /\ lander' = [lander EXCEPT ![c].pc = "return"]
    /\ UNCHANGED <<snapshot, raw, checkpoint, status, partial, xcom, loadVars, faults>>

\* Airflow keeps the result of the current try only.
ReturnBatch(c) ==
    LET accepted == Current(c) /\ status[c[1]] = "landing"
    IN  /\ lander[c].pc = "return"
        /\ lander' = [lander EXCEPT ![c] = [Idle EXCEPT !.pc = "done"]]
        /\ xcom' = IF accepted THEN [xcom EXCEPT ![c[1]] = lander[c].got] ELSE xcom
        /\ status' = IF accepted THEN [status EXCEPT ![c[1]] = "load"] ELSE status
        /\ UNCHANGED <<snapshot, raw, checkpoint, partial, manifest, loadVars, faults>>

\* A failed run gets its FAILED row and a failure receipt, best effort.
Fail(r) ==
    /\ status' = [status EXCEPT ![r] = "failed"]
    /\ \/ UNCHANGED <<rows, receipt>>
       \/ /\ rows' = [rows EXCEPT ![r] = @ \cup {"FAILED"}]
          /\ receipt' = [receipt EXCEPT ![r] = IF @ = None /\ r \notin Replays THEN "failed" ELSE @]

LandingFails(r) ==
    /\ status[r] = "landing"
    /\ r \notin Replays /\ lander[<<r, MaxTries>>].pc = "failed"
    /\ Fail(r)
    /\ UNCHANGED <<landingVars, partial, manifest, xcom, job, bronze, asset, faults>>

\* KmaLanding.replay of the raw objects that somebody names, of one issue. The
\* task has no retries: an object that is missing, a missing page or two
\* answers for one page fail the run.
Replay(r) ==
    /\ r \in Replays /\ status[r] = "landing"
    /\ \/ \E keys \in SUBSET raw \ {{}} :
            /\ CoversGrids(keys) /\ OnePageEach(keys)
            /\ manifest' = [manifest EXCEPT ![r] = keys]
            /\ xcom' = [xcom EXCEPT ![r] = keys]
            /\ status' = [status EXCEPT ![r] = "load"]
            /\ UNCHANGED <<rows, receipt>>
       \/ Fail(r) /\ UNCHANGED <<manifest, xcom>>
    /\ UNCHANGED <<landingVars, partial, job, bronze, asset, faults>>

\* dagrun_timeout; the replay DAG has none.
RunTimeout(r) ==
    /\ Active(r) /\ r \notin Replays
    /\ Fault
    /\ Fail(r)
    /\ UNCHANGED <<landingVars, partial, manifest, xcom, job, bronze, asset>>

-----------------------------------------------------------------------------
(* load_kma_bronze.                                                          *)

\* The tries are not counted.
TryFails_Forever(r) ==
    /\ job' = [job EXCEPT ![r] = FreshJob]
    /\ UNCHANGED <<status, rows, receipt>>

\* The next try of the task, or the run fails.
TryFails(r) ==
    IF job[r].try < MaxTries
    THEN /\ job' = [job EXCEPT ![r] = [FreshJob EXCEPT !.try = job[r].try + 1]]
         /\ UNCHANGED <<status, rows, receipt>>
    ELSE Fail(r) /\ UNCHANGED job

\* A replay of some grids counts as one of all.
Publishable_AnyGrids(r) == ~partial[r] /\ Rows(xcom[r]) = ExpectedRows(xcom[r])

\* is_publishable of the landing and the load: inserted = expected_rows.
Publishable(r) ==
    /\ Grids(xcom[r]) = Grid
    /\ ~partial[r]
    /\ Rows(xcom[r]) = ExpectedRows(xcom[r])

\* Every object is read, from the spool or the bucket, and hashed, and the
\* manifest must list exactly the pages of the landing's result.  Nothing is
\* written before that.
Preflight(r) ==
    /\ status[r] = "load" /\ ~job[r].checked
    /\ IF manifest[r] = xcom[r] /\ OnePageEach(xcom[r]) /\ (CoversGrids(xcom[r]) \/ partial[r])
       THEN /\ job' = [job EXCEPT ![r].checked = TRUE]
            /\ UNCHANGED <<status, rows, receipt>>
       ELSE TryFails(r)
    /\ UNCHANGED <<landingVars, partial, manifest, xcom, bronze, asset, faults>>

Before(p, q) == p.grid < q.grid \/ (p.grid = q.grid /\ p.no < q.no)

\* The batch of pages at an offset, in the order of grids and pages.
Batch(r, offset) ==
    {p \in xcom[r] : Cardinality({q \in xcom[r] : Before(q, p)}) \div BatchSize = offset}

\* One transaction: the first one deletes the rows of the run.
Commit(r) ==
    bronze' = [bronze EXCEPT ![r] = (IF job[r].offset = 0 THEN EmptyBag ELSE @)
                                    (+) SetToBag(Batch(r, job[r].offset))]

LastBatch(r) == Batch(r, job[r].offset + 1) = {}

AppendBatch(r) ==
    /\ status[r] = "load" /\ job[r].checked
    /\ Commit(r)
    /\ job' = [job EXCEPT ![r] = IF LastBatch(r) THEN FreshJob
                                 ELSE [job[r] EXCEPT !.offset = job[r].offset + 1, !.conflicts = 0]]
    /\ status' = [status EXCEPT ![r] = IF LastBatch(r) THEN "verify" ELSE @]
    /\ UNCHANGED <<landingVars, partial, manifest, xcom, rows, receipt, asset, faults>>

\* CommitFailedException: nothing is applied, and the transaction is repeated
\* on the reloaded table.
CommitConflict(r) ==
    /\ status[r] = "load" /\ job[r].checked
    /\ Fault
    /\ IF job[r].conflicts + 1 < MaxCommits
       THEN /\ job' = [job EXCEPT ![r].conflicts = @ + 1]
            /\ UNCHANGED <<status, rows, receipt>>
       ELSE TryFails(r)
    /\ UNCHANGED <<landingVars, partial, manifest, xcom, bronze, asset>>

\* The commit is applied, but its answer or the process is lost.
CommitUnknown(r) ==
    /\ status[r] = "load" /\ job[r].checked
    /\ Fault
    /\ Commit(r)
    /\ TryFails(r)
    /\ UNCHANGED <<landingVars, partial, manifest, xcom, asset>>

-----------------------------------------------------------------------------
(* verify_kma_bronze_runtime, the receipt and the asset.                     *)

Counted(r) == LET held == {p \in DOMAIN bronze[r] : p \in xcom[r]}
              IN  [rows |-> MapThenSumSet(LAMBDA p : RowCount(p) * bronze[r][p], held),
                   objects |-> Cardinality({p \in held : RowCount(p) > 0})]

Exact(r) == Counted(r) = [rows |-> Rows(xcom[r]), objects |-> Cardinality(xcom[r])]

\* WeatherRunManifest.complete; MERGE makes a repetition harmless.
Completed(r) == [rows EXCEPT ![r] = @ \cup {IF Publishable(r) THEN "PUBLISHABLE" ELSE "SUCCESS"}]

Verify(r) ==
    /\ status[r] = "verify"
    /\ IF Exact(r)
       THEN /\ rows' = Completed(r)
            /\ status' = [status EXCEPT ![r] = IF r \in Replays THEN "publish" ELSE "record"]
            /\ job' = [job EXCEPT ![r] = FreshJob]
            /\ UNCHANGED receipt
       ELSE TryFails(r)
    /\ UNCHANGED <<landingVars, partial, manifest, xcom, bronze, asset, faults>>

\* The row is there, but the task dies.
VerifyUnknown(r) ==
    /\ status[r] = "verify" /\ Exact(r) /\ job[r].try < MaxTries
    /\ Fault
    /\ rows' = Completed(r)
    /\ job' = [job EXCEPT ![r].try = @ + 1]
    /\ UNCHANGED <<landingVars, status, partial, manifest, xcom, bronze, receipt, asset>>

\* Success is recorded whatever the manifest says.
Evidenced_Trusting(r) == TRUE

\* weather_raw_manifest_is_verified
Evidenced(r) == manifest[r] = xcom[r]

\* record_weather_collection_slot_success, without retries.
RecordSlots(r) ==
    /\ status[r] = "record"
    /\ IF Publishable(r) /\ ~Evidenced(r)
       THEN Fail(r)
       ELSE /\ receipt' = [receipt EXCEPT ![r] = IF Publishable(r) THEN "observed" ELSE "failed"]
            /\ status' = [status EXCEPT ![r] = "publish"]
            /\ UNCHANGED rows
    /\ UNCHANGED <<landingVars, partial, manifest, xcom, job, bronze, asset, faults>>

PublishAsset(r) ==
    /\ status[r] = "publish"
    /\ status' = [status EXCEPT ![r] = IF Publishable(r) THEN "published" ELSE "skipped"]
    /\ asset' = IF Publishable(r) THEN asset \cup {r} ELSE asset
    /\ UNCHANGED <<landingVars, partial, manifest, xcom, job, bronze, rows, receipt, faults>>

\* The process of any of these tasks dies.
TaskDies(r) ==
    /\ status[r] \in {"load", "verify", "record", "publish"}
    /\ Fault
    /\ IF status[r] \in {"load", "verify"} THEN TryFails(r) ELSE Fail(r) /\ UNCHANGED job
    /\ UNCHANGED <<landingVars, partial, manifest, xcom, bronze, asset>>

-----------------------------------------------------------------------------
Elsewhere == UNCHANGED <<status, partial, manifest, xcom, loadVars>>

Environment ==
    \/ \E r \in Run \ Replays : Republish(r) /\ UNCHANGED faults
    \/ \E p \in raw : LoseRaw(p) /\ Fault

LandingStep(r) ==
    \/ \E k \in 1..MaxTries : LET c == <<r, k>> IN StartTry(c) \/ Collect(c) \/ WriteManifest(c) \/ ReturnBatch(c)
    \/ LandingFails(r)

RunStep(r) ==
    \/ r \notin Replays /\ LandingStep(r)
    \/ Replay(r) \/ Preflight(r) \/ AppendBatch(r) \/ Verify(r) \/ RecordSlots(r) \/ PublishAsset(r)

RunFault(r) ==
    \/ \E k \in 1..MaxTries : r \notin Replays /\ Crash(<<r, k>>)
    \/ RunTimeout(r) \/ CommitConflict(r) \/ CommitUnknown(r) \/ VerifyUnknown(r) \/ TaskDies(r)

Next == (\E r \in Run : StartRun(r) \/ RunStep(r) \/ RunFault(r)) \/ (Environment /\ Elsewhere)

\* The scheduler starts runs and tries, and the processes go on.
Fairness == \A r \in Run : WF_vars(StartRun(r)) /\ WF_vars(RunStep(r))

Spec == Init /\ [][Next]_vars /\ Fairness

-----------------------------------------------------------------------------
TypeOK ==
    /\ LandingTypeOK
    /\ status \in [Run -> Ended \cup {"queued", "landing", "load", "verify", "record", "publish"}]
    /\ \A r \in Run : \A b \in {manifest[r], xcom[r]} : b = None \/ b \subseteq Page
    /\ \A r \in Run : BagToSet(bronze[r]) \subseteq Page
    /\ rows \in [Run -> SUBSET {"STARTED", "SUCCESS", "PUBLISHABLE", "FAILED"}]
    /\ asset \subseteq Run

\* A run that the manifest table offers as publishable has in Bronze one copy
\* of one page for every page number of every grid, with all its rows: through
\* conflicts, lost commits and retries of load and verify, and whatever raw
\* objects a replay names.
PublishableIsWhole ==
    \A r \in Run : "PUBLISHABLE" \in rows[r] =>
        LET pages == BagToSet(bronze[r])
        IN  /\ Grids(pages) = Grid
            /\ OnePageEach(pages) /\ CoversGrids(pages)
            /\ \A p \in pages : bronze[r][p] = 1

\* Slots are recorded as observed only while the stored manifest lists exactly
\* what Bronze holds of the run, though a try that Airflow has given up may
\* write it at any time; an asset event follows only that or, for a replay, a
\* publishable row.
ObservedIsEvidenced ==
    [][\A r \in Run :
        /\ receipt'[r] = "observed" /\ receipt[r] # "observed" => manifest[r] = BagToSet(bronze[r])
        /\ r \in asset' \ asset => "PUBLISHABLE" \in rows[r] /\ (r \notin Replays => receipt[r] = "observed")]_vars

\* Every started run ends.
EveryRunEnds == \A r \in Run : status[r] = "landing" ~> status[r] \in Ended
=============================================================================
