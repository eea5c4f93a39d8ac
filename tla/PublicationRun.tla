--------------------------- MODULE PublicationRun ---------------------------
(***************************************************************************)
(* The part of publish() (dags/common/serving/publisher.py) that every     *)
(* publication path shares, for one product: the task starts, the catalog  *)
(* and the source are read, the publication gate and the pre-write         *)
(* validations decide, and the attempt is appended to the ledger.          *)
(*                                                                         *)
(* Publisher tasks are serialized by the one-slot serving_d1_publish pool, *)
(* so one run is in progress at a time.  A run may be cut short anywhere   *)
(* (execution_timeout, a worker's death, an exception publish() does not   *)
(* catch) and be followed by another.  A request to D1 may fail without    *)
(* having been applied, may be applied although its response is lost, and  *)
(* may be applied after the client gave it up; the last is assumed to be   *)
(* settled before the next run starts (the client waits 120 s, the task's  *)
(* retry delay is 5 minutes).                                              *)
(***************************************************************************)
EXTENDS ServingD1

CONSTANTS
  ZeroPolicy,   \* "fail", "allow", "warn" or "retain_last_good"
  PartialNum, PartialDen,   \* partial_min_ratio; PartialNum = 0: undeclared
  Suppress,     \* the contract's insufficient_sample_policy is suppress_row
  External,     \* the contract asks for the API smoke check
  MaxRows,      \* bound: rows a source read may return
  MaxRuns,      \* bound: publication runs in a behaviour
  MaxFaults     \* bound: D1 faults and cut-short runs in a behaviour

ASSUME PolicyAssumption ==
  /\ ZeroPolicy \in {"fail", "allow", "warn", "retain_last_good"}
  /\ PartialNum \in Nat /\ PartialDen \in Nat \ {0}
  /\ Suppress \in BOOLEAN /\ External \in BOOLEAN
ASSUME BoundAssumption == MaxRows \in Nat /\ MaxRuns \in Nat /\ MaxFaults \in Nat

VARIABLES
  d1,        \* the product in D1
  pending,   \* a request the client gave up on that may still be applied
  pc,        \* the next step of the run in progress, or "idle"
  run,       \* the locals of the run in progress
  ledger,    \* _publication_ledger: the record of each publication_id
  attempts,  \* publication_ids handed out so far
  faults,    \* faults so far
  good,      \* history: the last version a run verified and accepted
  before     \* history: D1 as the last run found it

vars == <<d1, pending, pc, run, ledger, attempts, faults, good, before>>

-----------------------------------------------------------------------------
PCs ==
  {"idle", "lastgood", "source", "write", "capture", "activate", "reconcile",
   "swap", "readback", "smoke", "catalog", "meta", "evidence", "compensate",
   "restore", "uncatalog", "finalize", "record"}

PreWriteStages == {"query_availability", "gate", "validation"}
Stages == PreWriteStages \cup
  {"write", "preflight", "read_back", "api_smoke", "catalog", "product_meta",
   "product_evidence", "finalize", "completed"}

Result ==
  [outcome: {"published", "skipped_retained", "failed"}, stage: Stages,
   rollback: {"none", "restored", "restore_failed", "not_attempted_active_valid"}]

NoResult == [outcome |-> "failed", stage |-> "write", rollback |-> "none"]

\* The locals of publish() that survive from one request to a later one: the
\* catalog row read first, the row count to publish, the captured LKG state,
\* whether upsert_catalog returned, and the record for the ledger.  faults0
\* is the fault count when the run started.
RunRecord ==
  [pub: Nat, rows: Nat, lastGood: Row, prev: PublicationState,
   committed: BOOLEAN, result: Result, faults0: Nat]

NewRun(pub) ==
  [pub |-> pub, rows |-> 0, lastGood |-> None, prev |-> CaptureState(EmptyD1),
   committed |-> FALSE, result |-> NoResult, faults0 |-> faults]

\* The version this run publishes.
Candidate == [pub |-> run.pub, rows |-> run.rows]

Fault == faults < MaxFaults /\ faults' = faults + 1

\* The run has a record to append to the ledger.
Conclude(outcome, stage, rollback) ==
  /\ pc' = "record"
  /\ run' = [run EXCEPT !.result =
               [outcome |-> outcome, stage |-> stage, rollback |-> rollback]]

Goto(next) == pc' = next /\ UNCHANGED run

\* A failure after the write: it is undone at `next`, and the stage that
\* failed is kept for the record.
FailAfterWrite(next, stage) ==
  /\ pc' = next
  /\ run' = [run EXCEPT !.result.stage = stage]

\* One request that is sent once (retry_safe is FALSE): ok or err is what the
\* publisher does on a success response or on an exception.
SendOnce(r, ok, err) ==
  \/ /\ Accepted(r, d1)
     /\ d1' = Applied(r, d1)
     /\ ok
     /\ UNCHANGED <<pending, faults>>
  \/ /\ ~Accepted(r, d1)
     /\ err
     /\ UNCHANGED <<d1, pending, faults>>
  \/ /\ Fault
     /\ err
     /\ \/ Accepted(r, d1) /\ d1' = Applied(r, d1) /\ UNCHANGED pending
        \/ UNCHANGED <<d1, pending>>
        \/ pending' = r /\ UNCHANGED d1

\* One idempotent request, retried by the client (retry_safe is TRUE): it is
\* applied, or all attempts failed and it may or may not have been applied.
SendRetried(after, ok, err) ==
  \/ d1' = after /\ ok /\ UNCHANGED <<pending, faults>>
  \/ Fault /\ err /\ d1' \in {d1, after} /\ UNCHANGED pending

-----------------------------------------------------------------------------
Init ==
  /\ d1 = EmptyD1
  /\ pending = None
  /\ pc = "idle"
  /\ attempts = 0
  /\ faults = 0
  /\ run = NewRun(0)
  /\ ledger = [p \in 1..MaxRuns |-> None]
  /\ good = None
  /\ before = EmptyD1

\* A publisher task takes the pool slot and gives its attempt a fresh
\* publication_id.
Begin ==
  /\ pc = "idle"
  /\ pending = None
  /\ attempts < MaxRuns
  /\ attempts' = attempts + 1
  /\ run' = NewRun(attempts + 1)
  /\ before' = d1
  /\ pc' = "lastgood"
  /\ UNCHANGED <<d1, pending, ledger, faults, good>>

\* catalog_row: a D1 error is reported as "no such row".
ReadCatalog ==
  /\ pc = "lastgood"
  /\ pc' = "source"
  /\ \/ run' = [run EXCEPT !.lastGood = d1.catalog] /\ UNCHANGED faults
     \/ run' = [run EXCEPT !.lastGood = None] /\ Fault
  /\ UNCHANGED <<d1, pending, ledger, attempts, good, before>>

\* evaluate_gate.  publish_degraded differs only in the published status.
EvaluateGate(thisCount, lastGood) ==
  IF thisCount = 0
    THEN CASE ZeroPolicy = "fail" -> "fail"
           [] ZeroPolicy \in {"allow", "warn"} -> "publish"
           [] OTHER -> "skip_retain"
    ELSE IF /\ PartialNum > 0 /\ lastGood # None /\ lastGood.rows > 0
            /\ thisCount * PartialDen < lastGood.rows * PartialNum
           THEN "skip_retain"
           ELSE "publish"

\* Rows that apply_reliability leaves of n.
ApplyReliability(n) == IF Suppress THEN 0..n ELSE {n}

\* The source is read and judged: query availability first, then the gate,
\* then freshness, content contract, primary key and coverage.
ReadSource ==
  /\ pc = "source"
  /\ \E thisCount \in 0..MaxRows :
       LET decision == EvaluateGate(thisCount, run.lastGood) IN
       \/ Conclude("failed", "query_availability", "none")
       \/ decision = "fail" /\ Conclude("failed", "gate", "none")
       \/ decision = "skip_retain" /\ Conclude("skipped_retained", "gate", "none")
       \/ decision = "publish" /\ Conclude("failed", "validation", "none")
       \/ /\ decision = "publish"
          /\ \E rows \in ApplyReliability(thisCount) : run' = [run EXCEPT !.rows = rows]
          /\ pc' = "write"
  /\ UNCHANGED <<d1, pending, ledger, attempts, faults, good, before>>

\* _append_ledger; its failure ends the run with an exception.
AppendLedger ==
  /\ pc = "record"
  /\ pc' = "idle"
  /\ \/ ledger' = [ledger EXCEPT ![run.pub] = run.result] /\ UNCHANGED faults
     \/ Fault /\ ledger' \in {ledger, [ledger EXCEPT ![run.pub] = run.result]}
  /\ UNCHANGED <<d1, pending, run, attempts, good, before>>

\* The run ends without a word: the process dies, the task times out, or an
\* exception leaves publish().
CutShort ==
  /\ pc # "idle"
  /\ pc' = "idle"
  /\ Fault
  /\ UNCHANGED <<d1, pending, run, ledger, attempts, good, before>>

\* D1 works off, or drops, a request its client has given up on.
Settle ==
  /\ pending # None
  /\ pending' = None
  /\ \/ Accepted(pending, d1) /\ d1' = Applied(pending, d1)
     \/ UNCHANGED d1
  /\ UNCHANGED <<pc, run, ledger, attempts, faults, good, before>>

CommonNext == Begin \/ ReadCatalog \/ ReadSource \/ AppendLedger \/ CutShort \/ Settle

-----------------------------------------------------------------------------
(* Properties of every path *)

\* Types of the whole state of a publication.
TypeOK ==
  /\ d1 \in D1State
  /\ pending \in Requests \cup {None}
  /\ pc \in PCs
  /\ run \in RunRecord
  /\ ledger \in [1..MaxRuns -> Result \cup {None}]
  /\ attempts \in 0..MaxRuns
  /\ faults \in 0..MaxFaults
  /\ good \in Row
  /\ before \in D1State

\* The last-known-good version is never lost: the last version that passed
\* its checks is the active table or is kept in __previous, through every
\* fault, interruption and late request (publisher.py: "protecting the
\* last-known-good snapshot on failure").
LastGoodNeverLost == good # None => good \in {d1.active, d1.previous}

\* A half-loaded staging table is never given to readers.
NeverServesTornTable == d1.active # Torn
=============================================================================
