------------------------ MODULE ObservationCollection ------------------------
(* The KMA observation pipeline for one observed slot: KmaObservationLanding   *)
(* with its HTTP client, the shared attempt ledger and the cycle deadline, and *)
(* the Bronze load, verification and publication that follow it in the DAG     *)
(* weather_ultra_srt_ncst_bronze.                                              *)
(*                                                                             *)
(* Several DAG runs collect the slot, one after the other (max_active_runs).   *)
(* A run's landing task has a first try and a retry; Airflow starts the retry  *)
(* when the first try failed or when it lost its heartbeat, and in that case   *)
(* the first process may still be at work.                                     *)
EXTENDS Naturals, FiniteSets

CONSTANTS
    Run,            \* DAG runs that collect the slot
    GridCount,      \* expected_grid_count
    Revisions,      \* how often KMA may publish the slot's values
    MaxTries,       \* tries of the landing task
    MaxAttempts,    \* max_attempts of one fetch
    Threshold,      \* throttles that open the circuit
    DailyLimit,     \* the daily attempt limit
    Duration,       \* COLLECTION_DEADLINE
    RequestNeeds,   \* request timeout plus headroom
    Delay,          \* delays before a retry: backoff, or a Retry-After
    DayLength,      \* length of a KST day
    MaxTime,        \* bound on the clock
    MaxFaults,      \* bound on process deaths, lost heartbeats and run timeouts
    None

ASSUME ConstantsAssumption ==
    /\ {GridCount, Revisions, MaxTries, MaxAttempts, Threshold, DailyLimit, DayLength} \subseteq Nat \ {0}
    /\ {Duration, RequestNeeds, MaxTime, MaxFaults} \subseteq Nat
    /\ Delay \subseteq Nat
    /\ IsFiniteSet(Run)

Grid == 1..GridCount
Payload == 1..Revisions     \* a grid's answer, by the revision it belongs to
Task == Run \X (1..MaxTries)
Day == 0..(MaxTime \div DayLength)

\* What a checkpoint records of a grid: the request (a fresh uuid of the one
\* _collect_grid call that a try makes for a grid, so the try itself) and the
\* hash of its payload.
Evidence == [request : 1..MaxTries, payload : Payload]

ASSUME NoneAssumption == None \notin Nat \cup Evidence \cup [Grid -> Evidence]

VARIABLES
    now,        \* the clock
    revision,   \* the revision that KMA serves
    status,     \* where each DAG run is
    task,       \* the landing task's processes
    anchor,     \* per run: deadline_at of the deadline checkpoint, or None
    raw,        \* the stored raw objects
    checkpoint, \* per run and grid: the stored checkpoint, or None
    manifest,   \* per run: the stored complete manifest, or None
    xcom,       \* per run: the batch that the landing task returned, or None
    ledger,     \* per day: the attempt ledger's reservations
    requests,   \* per day: physical requests sent on reservations of that day
    loader,     \* the load task's process of each run
    bronze,     \* the Bronze table: copies of each grid's revision
    faults

vars == <<now, revision, status, task, anchor, raw, checkpoint, manifest, xcom, ledger,
          requests, loader, bronze, faults>>
storeVars == <<anchor, raw, checkpoint, manifest>>
ledgerVars == <<ledger, requests>>
bronzeVars == <<loader, bronze>>

Idle == [pc |-> "idle", grid |-> 1, ordinal |-> 1, throttles |-> 0, deadline |-> 0,
         day |-> 0, payload |-> None, batch |-> [g \in Grid |-> None]]
Running == {"grid", "admit", "send", "checkpoint", "manifest", "return"}
NoLoad == [pc |-> "idle", base |-> None, novel |-> {}]

Init ==
    /\ now = 0
    /\ revision = 1
    /\ status = [r \in Run |-> "queued"]
    /\ task = [t \in Task |-> Idle]
    /\ anchor = [r \in Run |-> None]
    /\ raw = {}
    /\ checkpoint = [r \in Run |-> [g \in Grid |-> None]]
    /\ manifest = [r \in Run |-> None]
    /\ xcom = [r \in Run |-> None]
    /\ ledger = [d \in Day |-> 0]
    /\ requests = [d \in Day |-> 0]
    /\ loader = [r \in Run |-> NoLoad]
    /\ bronze = [x \in Grid \X Payload |-> 0]
    /\ faults = 0

Today == now \div DayLength
Finished == {"queued", "failed", "published"}
Active(r) == status[r] \notin Finished

-----------------------------------------------------------------------------
(* The DAG run and its landing task, as Airflow drives them.                 *)

StartRun(r) ==
    /\ status[r] = "queued"
    /\ \A q \in Run : ~Active(q)
    /\ status' = [status EXCEPT ![r] = "landing"]
    /\ UNCHANGED <<now, revision, task, storeVars, xcom, ledgerVars, bronzeVars, faults>>

\* initialize_cycle_deadline creates the anchor or loads the one that is there,
\* and CycleDeadline is built on what it returns.
InitializeCycleDeadline(t) ==
    LET deadline == IF anchor[t[1]] = None THEN now + Duration ELSE anchor[t[1]]
    IN  /\ anchor' = [anchor EXCEPT ![t[1]] = deadline]
        /\ task' = [task EXCEPT ![t] = [Idle EXCEPT !.pc = "grid", !.deadline = deadline]]

\* Airflow starts the first try, and the next one when the last has failed or
\* has lost its heartbeat.
StartTry(t) ==
    /\ status[t[1]] = "landing"
    /\ task[t].pc = "idle"
    /\ \A k \in 1..(t[2] - 1) : task[<<t[1], k>>].pc # "idle"
    /\ \/ t[2] = 1 /\ faults' = faults
       \/ t[2] > 1 /\ task[<<t[1], t[2] - 1>>].pc = "failed" /\ faults' = faults
       \/ t[2] > 1 /\ task[<<t[1], t[2] - 1>>].pc \in Running
          /\ faults < MaxFaults /\ faults' = faults + 1
    /\ InitializeCycleDeadline(t)
    /\ UNCHANGED <<now, revision, status, raw, checkpoint, manifest, xcom, ledgerVars, bronzeVars>>

\* The try that Airflow listens to.
Current(t) == \A k \in (t[2] + 1)..MaxTries : task[<<t[1], k>>].pc = "idle"

\* A try raises: the run fails with the current try when it was the last.
Raise(t) ==
    /\ task' = [task EXCEPT ![t] = [Idle EXCEPT !.pc = "failed"]]
    /\ status' = [status EXCEPT ![t[1]] =
                    IF @ = "landing" /\ t[2] = MaxTries THEN "failed" ELSE @]
    /\ UNCHANGED <<now, revision, xcom, bronzeVars>>

\* The process of a try dies, or R2 refuses its last request after all retries.
Crash(t) ==
    /\ task[t].pc \in Running
    /\ faults < MaxFaults
    /\ faults' = faults + 1
    /\ Raise(t)
    /\ UNCHANGED <<storeVars, ledgerVars>>

\* dagrun_timeout: the run has failed, its processes may live a little longer.
RunTimeout(r) ==
    /\ Active(r)
    /\ faults < MaxFaults
    /\ faults' = faults + 1
    /\ status' = [status EXCEPT ![r] = "failed"]
    /\ UNCHANGED <<now, revision, task, storeVars, xcom, ledgerVars, bronzeVars>>

-----------------------------------------------------------------------------
(* KmaObservationLanding.collect, grid by grid.                              *)

Stay == UNCHANGED <<now, revision, status, xcom, bronzeVars, faults>>
Goto(t, pc) == task' = [task EXCEPT ![t].pc = pc]

\* The batch gets a grid's evidence and the loop goes on to the next grid.
NextGrid(t, e) ==
    LET g == task[t].grid
    IN  task' = [task EXCEPT ![t] =
            [task[t] EXCEPT !.pc = IF g = GridCount THEN "manifest" ELSE "grid",
                            !.grid = IF g = GridCount THEN g ELSE g + 1,
                            !.ordinal = 1, !.day = 0, !.payload = None,
                            !.batch = [task[t].batch EXCEPT ![g] = e]]]

RawObject(t, e) == [run |-> t[1], grid |-> task[t].grid, request |-> e.request, payload |-> e.payload]

\* The grid has a checkpoint: its raw object is read back and checked.
ReuseCheckpoint(t) ==
    LET e == checkpoint[t[1]][task[t].grid]
    IN  /\ task[t].pc = "grid"
        /\ e # None
        /\ IF RawObject(t, e) \in raw
           THEN NextGrid(t, e) /\ Stay
           ELSE Raise(t) /\ UNCHANGED faults
        /\ UNCHANGED <<storeVars, ledgerVars>>

\* The grid has none: _collect_grid.
CollectGrid(t) ==
    /\ task[t].pc = "grid"
    /\ checkpoint[t[1]][task[t].grid] = None
    /\ Goto(t, "admit")
    /\ Stay /\ UNCHANGED <<storeVars, ledgerVars>>

-----------------------------------------------------------------------------
(* KmaObservationHttpClient.fetch.                                           *)

\* CycleDeadline.remaining_seconds.
Remaining(t) == IF task[t].deadline > now THEN task[t].deadline - now ELSE 0

\* require_closed and require_request.
Admissible(t) ==
    /\ task[t].throttles < Threshold
    /\ Remaining(t) >= RequestNeeds

\* SqliteAttemptLedger.reserve, one immediate transaction, on the budget of the
\* day. Every reservation_id is new: its hash covers the uuid of the
\* _collect_grid call and the ordinal, so reserve never finds it in the table.
CanReserve == ledger[Today] < DailyLimit

\* Only the first attempt of a fetch is reserved.
Reserve_FirstAttempt(t) ==
    /\ task[t].pc = "admit"
    /\ Admissible(t) /\ (task[t].ordinal = 1 => CanReserve)
    /\ ledger' = [ledger EXCEPT ![Today] = IF task[t].ordinal = 1 THEN @ + 1 ELSE @]
    /\ task' = [task EXCEPT ![t].pc = "send", ![t].day = Today]
    /\ Stay /\ UNCHANGED <<storeVars, requests>>

\* The checks before an attempt and its reservation, in one step: nothing that
\* another process does lies between them.
Reserve(t) ==
    /\ task[t].pc = "admit"
    /\ Admissible(t) /\ CanReserve
    /\ ledger' = [ledger EXCEPT ![Today] = @ + 1]
    /\ task' = [task EXCEPT ![t].pc = "send", ![t].day = Today]
    /\ Stay /\ UNCHANGED <<storeVars, requests>>

\* An exhausted budget is waited for.
NotReserved_Wait(t) ==
    /\ task[t].pc = "admit"
    /\ ~Admissible(t) /\ CanReserve
    /\ Raise(t)
    /\ UNCHANGED <<storeVars, ledgerVars, faults>>

\* CycleDeadlineExceeded or KmaDailyAttemptLimitExceeded: no request is sent.
NotReserved(t) ==
    /\ task[t].pc = "admit"
    /\ ~(Admissible(t) /\ CanReserve)
    /\ Raise(t)
    /\ UNCHANGED <<storeVars, ledgerVars, faults>>

\* The physical request, whatever comes of it.
Send(t) ==
    /\ task[t].pc = "send"
    /\ requests' = [requests EXCEPT ![task[t].day] = @ + 1]
    /\ UNCHANGED ledger

\* What the checkpoint of the grid at hand will record.
Collected(t) == [request |-> t[2], payload |-> task[t].payload]

\* Code 00 and a body that the parser accepts: its raw object is written. The
\* object's key holds the request and the hash, so it is always new.
Answer(t) ==
    /\ Send(t)
    /\ task' = [task EXCEPT ![t].pc = "checkpoint", ![t].payload = revision]
    /\ raw' = raw \cup {RawObject(t, [request |-> t[2], payload |-> revision])}
    /\ Stay /\ UNCHANGED <<anchor, checkpoint, manifest>>

\* Any other status, another result code, or a body that the parser rejects.
Rejected(t) ==
    /\ Send(t)
    /\ Raise(t)
    /\ UNCHANGED <<storeVars, faults>>

\* _wait_before_retry: the sleep and the request after it must fit.
CanWait(t, delay) == Remaining(t) >= delay + RequestNeeds

\* 429 or code 23 raises the cycle's throttle count; a timeout, a broken
\* connection and a retryable 5xx do not. n is the count after the attempt.
Retried(t, n, delay) ==
    /\ n < Threshold
    /\ task[t].ordinal < MaxAttempts
    /\ CanWait(t, delay)

Retry(t, n) ==
    /\ \E delay \in Delay : Retried(t, n, delay)
    /\ task' = [task EXCEPT ![t].pc = "admit", ![t].ordinal = @ + 1, ![t].throttles = n,
                           ![t].day = 0]
    /\ Stay /\ UNCHANGED storeVars

GiveUp(t, n) ==
    /\ \E delay \in Delay : ~Retried(t, n, delay)
    /\ Raise(t)
    /\ UNCHANGED <<storeVars, faults>>

Throttled(t) ==
    /\ Send(t)
    /\ Retry(t, task[t].throttles + 1) \/ GiveUp(t, task[t].throttles + 1)

TransportFailed(t) ==
    /\ Send(t)
    /\ Retry(t, task[t].throttles) \/ GiveUp(t, task[t].throttles)

-----------------------------------------------------------------------------
(* The rest of _collect_grid, and the manifest.                              *)

\* _write_identical_or_absent of the checkpoint. The document names the request,
\* so one that is there already is another try's and differs.
WriteCheckpoint(t) ==
    /\ task[t].pc = "checkpoint"
    /\ checkpoint[t[1]][task[t].grid] = None
    /\ checkpoint' = [checkpoint EXCEPT ![t[1]][task[t].grid] = Collected(t)]
    /\ NextGrid(t, Collected(t))
    /\ Stay /\ UNCHANGED <<anchor, raw, manifest, ledgerVars>>

CheckpointConflict(t) ==
    /\ task[t].pc = "checkpoint"
    /\ checkpoint[t[1]][task[t].grid] # None
    /\ Raise(t)
    /\ UNCHANGED <<storeVars, ledgerVars, faults>>

\* The manifest is left to whoever looks for missing ones.
WriteManifest_Skipped(t) ==
    /\ task[t].pc = "manifest"
    /\ Goto(t, "return")
    /\ Stay /\ UNCHANGED <<storeVars, ledgerVars>>

\* _write_identical_or_absent of the complete manifest.
WriteManifest(t) ==
    /\ task[t].pc = "manifest"
    /\ IF manifest[t[1]] \in {None, task[t].batch}
       THEN /\ manifest' = [manifest EXCEPT ![t[1]] = task[t].batch]
            /\ Goto(t, "return")
            /\ Stay
       ELSE Raise(t) /\ UNCHANGED <<manifest, faults>>
    /\ UNCHANGED <<anchor, raw, checkpoint, ledgerVars>>

\* The task returns its batch; Airflow keeps it only from the current try.
ReturnBatch(t) ==
    LET accepted == Current(t) /\ status[t[1]] = "landing"
    IN  /\ task[t].pc = "return"
        /\ task' = [task EXCEPT ![t] = [Idle EXCEPT !.pc = "done"]]
        /\ xcom' = [xcom EXCEPT ![t[1]] = IF accepted THEN task[t].batch ELSE @]
        /\ status' = [status EXCEPT ![t[1]] = IF accepted THEN "load" ELSE @]
        /\ UNCHANGED <<now, revision, storeVars, ledgerVars, bronzeVars, faults>>

-----------------------------------------------------------------------------
(* Bronze: load_observation_bronze, verify_observation_bronze and the asset. *)

Rows(r) == {<<g, xcom[r][g].payload>> : g \in Grid}

AllRawStored(r) ==
    \A g \in Grid : [run |-> r, grid |-> g, request |-> xcom[r][g].request,
                     payload |-> xcom[r][g].payload] \in raw

FailRun(r) ==
    /\ status' = [status EXCEPT ![r] = "failed"]
    /\ UNCHANGED <<now, revision, task, storeVars, xcom, ledgerVars, faults>>

\* build_observation_bronze_rows rereads the raw objects; the table is loaded
\* and the slot's revisions are read from that snapshot.
ReadExisting(r) ==
    /\ status[r] = "load"
    /\ loader[r].pc = "idle"
    /\ IF AllRawStored(r) /\ \A x \in Grid \X Payload : bronze[x] <= 1
       THEN /\ loader' = [loader EXCEPT ![r] = [pc |-> "append", base |-> bronze,
                                               novel |-> {x \in Rows(r) : bronze[x] = 0}]]
            /\ UNCHANGED <<now, revision, status, task, storeVars, xcom, ledgerVars, faults>>
       ELSE FailRun(r) /\ UNCHANGED loader
    /\ UNCHANGED bronze

\* The append does not depend on the snapshot that was read.
AppendNovel_AnySnapshot(r) ==
    /\ loader[r].pc = "append"
    /\ bronze' = [x \in Grid \X Payload |-> IF x \in loader[r].novel THEN bronze[x] + 1 ELSE bronze[x]]
    /\ loader' = [loader EXCEPT ![r] = [NoLoad EXCEPT !.pc = "ended"]]
    /\ status' = [status EXCEPT ![r] = IF @ = "load" THEN "verify" ELSE @]
    /\ UNCHANGED <<now, revision, task, storeVars, xcom, ledgerVars, faults>>

\* One Iceberg transaction appends the novel revisions. The catalog commits it
\* only on the snapshot that the table object was loaded with.
AppendNovel(r) ==
    /\ loader[r].pc = "append"
    /\ loader[r].novel # {} => bronze = loader[r].base
    /\ bronze' = [x \in Grid \X Payload |-> IF x \in loader[r].novel THEN bronze[x] + 1 ELSE bronze[x]]
    /\ loader' = [loader EXCEPT ![r] = [NoLoad EXCEPT !.pc = "ended"]]
    /\ status' = [status EXCEPT ![r] = IF @ = "load" THEN "verify" ELSE @]
    /\ UNCHANGED <<now, revision, task, storeVars, xcom, ledgerVars, faults>>

CommitConflict(r) ==
    /\ loader[r].pc = "append"
    /\ loader[r].novel # {} /\ bronze # loader[r].base
    /\ loader' = [loader EXCEPT ![r] = [NoLoad EXCEPT !.pc = "ended"]]
    /\ FailRun(r)
    /\ UNCHANGED bronze

\* The load task's process dies before or after its commit.
LoaderCrash(r) ==
    /\ status[r] = "load" /\ loader[r].pc = "append"
    /\ faults < MaxFaults
    /\ faults' = faults + 1
    /\ status' = [status EXCEPT ![r] = "failed"]
    /\ loader' = [loader EXCEPT ![r] = [NoLoad EXCEPT !.pc = "ended"]]
    /\ UNCHANGED <<now, revision, task, storeVars, xcom, ledgerVars, bronze>>

\* verify_observation_bronze_run_slot counts the rows of the exact revisions.
Verified(r) == \A x \in Rows(r) : bronze[x] = 1

Verify(r) ==
    /\ status[r] = "verify"
    /\ status' = [status EXCEPT ![r] = IF Verified(r) THEN "publish" ELSE "failed"]
    /\ UNCHANGED <<now, revision, task, storeVars, xcom, ledgerVars, bronzeVars, faults>>

\* publish_observation_bronze_asset.
PublishAsset(r) ==
    /\ status[r] = "publish"
    /\ status' = [status EXCEPT ![r] = "published"]
    /\ UNCHANGED <<now, revision, task, storeVars, xcom, ledgerVars, bronzeVars, faults>>

-----------------------------------------------------------------------------
(* The environment.                                                          *)

\* The slot of the pool kma_api_requests is held by the try that Airflow
\* believes to be running.
PoolTaken ==
    \E t \in Task : task[t].pc \in Running /\ Current(t) /\ status[t[1]] = "landing"

\* A forecast request: KmaHttpAdapter reserves in the same ledger, then sends.
ForecastAttempt ==
    /\ ~PoolTaken
    /\ CanReserve
    /\ ledger' = [ledger EXCEPT ![Today] = @ + 1]
    /\ requests' = [requests EXCEPT ![Today] = @ + 1]
    /\ UNCHANGED <<now, revision, status, task, storeVars, xcom, bronzeVars, faults>>

\* KMA corrects the slot's values.
Revise ==
    /\ revision < Revisions
    /\ revision' = revision + 1
    /\ UNCHANGED <<now, status, task, storeVars, xcom, ledgerVars, bronzeVars, faults>>

Tick ==
    /\ now < MaxTime
    /\ now' = now + 1
    /\ UNCHANGED <<revision, status, task, storeVars, xcom, ledgerVars, bronzeVars, faults>>

Step(t) ==
    \/ ReuseCheckpoint(t) \/ CollectGrid(t)
    \/ Reserve(t) \/ NotReserved(t)
    \/ Answer(t) \/ Rejected(t) \/ Throttled(t) \/ TransportFailed(t)
    \/ WriteCheckpoint(t) \/ CheckpointConflict(t)
    \/ WriteManifest(t) \/ ReturnBatch(t)

BronzeStep(r) ==
    ReadExisting(r) \/ AppendNovel(r) \/ CommitConflict(r) \/ Verify(r) \/ PublishAsset(r)

Next ==
    \/ \E r \in Run : StartRun(r) \/ RunTimeout(r) \/ BronzeStep(r) \/ LoaderCrash(r)
    \/ \E t \in Task : StartTry(t) \/ Crash(t) \/ Step(t)
    \/ ForecastAttempt
    \/ Revise
    \/ Tick

Spec == Init /\ [][Next]_vars

\* Airflow starts the tries of a running DAG run, and its tasks take their steps.
FairSpec ==
    /\ Spec
    /\ \A t \in Task : WF_vars(StartTry(t)) /\ WF_vars(Step(t))
    /\ \A r \in Run : WF_vars(BronzeStep(r))

-----------------------------------------------------------------------------
(* Properties.                                                               *)

TaskState ==
    [pc : Running \cup {"idle", "failed", "done"}, grid : Grid, ordinal : 1..MaxAttempts,
     throttles : 0..Threshold, deadline : 0..(MaxTime + Duration), day : Day,
     payload : Payload \cup {None}, batch : [Grid -> Evidence \cup {None}]]

\* The state has the shape that the code's documents, tables and tasks give it.
TypeOK ==
    /\ now \in 0..MaxTime
    /\ revision \in Payload
    /\ status \in [Run -> Finished \cup {"landing", "load", "verify", "publish"}]
    /\ task \in [Task -> TaskState]
    /\ anchor \in [Run -> 0..(MaxTime + Duration) \cup {None}]
    /\ raw \subseteq [run : Run, grid : Grid, request : 1..MaxTries, payload : Payload]
    /\ checkpoint \in [Run -> [Grid -> Evidence \cup {None}]]
    /\ manifest \in [Run -> [Grid -> Evidence] \cup {None}]
    /\ xcom \in [Run -> [Grid -> Evidence] \cup {None}]
    /\ ledger \in [Day -> Nat]
    /\ requests \in [Day -> Nat]
    /\ loader \in [Run -> [pc : {"idle", "append", "ended"},
                           base : [Grid \X Payload -> Nat] \cup {None},
                           novel : SUBSET (Grid \X Payload)]]
    /\ bronze \in [Grid \X Payload -> Nat]
    /\ faults \in 0..MaxFaults

\* Every document names only evidence that is stored for good, whatever tries
\* overlapped or died between two writes: a manifest lists exactly the
\* checkpoints of its run, and a checkpoint's raw object exists.
EvidenceIsDurable ==
    \A r \in Run :
        /\ manifest[r] # None => manifest[r] = checkpoint[r]
        /\ \A g \in Grid : checkpoint[r][g] # None =>
               [run |-> r, grid |-> g, request |-> checkpoint[r][g].request,
                payload |-> checkpoint[r][g].payload] \in raw

\* Of every day's budget no more is spent than the limit: each physical request,
\* a retry too, spends a reservation of its own, and forecasts share the ledger.
BudgetKept == \A d \in Day : requests[d] <= DailyLimit

\* A retry, also one that overlaps the first try, works under the deadline that
\* the first try stored: retrying never buys a cycle more time.
OneDeadlinePerCycle ==
    \A t \in Task : task[t].pc \in Running => task[t].deadline = anchor[t[1]]

\* The same source revision of a grid is never in Bronze twice, although a load
\* whose run has timed out may still commit beside the next run's.
NoDuplicateRevision == \A x \in Grid \X Payload : bronze[x] <= 1

\* A published slot is in Bronze with the revision of every grid that the run's
\* manifest lists.
PublishedIsComplete ==
    \A r \in Run : status[r] = "published" =>
        /\ manifest[r] # None
        /\ \A g \in Grid : bronze[<<g, manifest[r][g].payload>>] = 1

\* A run that has started ends, published or failed, without its timeout: time
\* and again no run is active.
EveryRunEnds == []<>(\A r \in Run : ~Active(r))
=============================================================================
