------------------------- MODULE AtomicPublication -------------------------
(***************************************************************************)
(* The atomic path of publish(): the candidate is staged beside the active *)
(* table, and one D1 batch swaps the tables and replaces the catalog row,  *)
(* the metadata and the evidence.  Taken by contracts with a query         *)
(* availability relation and by snapshot contracts with zero_policy=allow. *)
(***************************************************************************)
EXTENDS PublicationRun

\* Schema preparation, stage_snapshot, its read-back, the query availability
\* sidecar and the pattern checks: all of it touches only rows that no reader
\* is given.
StageCandidate ==
  /\ pc = "write"
  /\ \/ /\ d1' = Staged(d1, Candidate)
        /\ Goto("capture")
        /\ UNCHANGED faults
     \/ /\ Fault
        /\ \E t \in {None, Torn, Candidate} : d1' = Staged(d1, t)
        /\ Conclude("failed", "write", "none")
  /\ UNCHANGED <<pending, ledger, attempts, good, before>>

\* capture_product_publication_state and preflight_staged_transition; the
\* latter refuses a transition that exceeds D1's batch budgets.
CaptureAndPreflight ==
  /\ pc = "capture"
  /\ \/ /\ run' = [run EXCEPT !.prev = CaptureState(d1)]
        /\ pc' = "activate"
        /\ UNCHANGED faults
     \/ Conclude("failed", "preflight", "none") /\ UNCHANGED faults
     \/ Conclude("failed", "write", "none") /\ Fault
  /\ UNCHANGED <<d1, pending, ledger, attempts, good, before>>

ActivateStagedSnapshot ==
  /\ pc = "activate"
  /\ SendOnce(ActivateRequest(CandidateState(Candidate, run.prev)),
              Goto("readback"), Goto("reconcile"))
  /\ UNCHANGED <<ledger, attempts, good, before>>

\* Mutant: an activation error is taken to mean that nothing was applied but
\* the run goes on to restore the snapshot.
Reconcile_AlwaysCompensate ==
  /\ pc = "reconcile"
  /\ Goto("compensate")
  /\ UNCHANGED <<d1, pending, ledger, attempts, faults, good, before>>

\* _activation_committed_after_error: the catalog row is the commit marker.
Reconcile ==
  /\ pc = "reconcile"
  /\ \/ /\ d1.active # None /\ d1.catalog = Candidate
        /\ Goto("readback")
        /\ UNCHANGED faults
     \/ /\ ~(d1.active # None /\ d1.catalog = Candidate)
        /\ Conclude("failed", "write", "none")
        /\ UNCHANGED faults
     \/ Conclude("failed", "write", "none") /\ Fault
  /\ UNCHANGED <<d1, pending, ledger, attempts, good, before>>

\* Every check that follows the activation has passed.
Accept(next) == good' = Candidate /\ Goto(next)

\* Primary key statistics and content parity of the activated table.
ReadBack ==
  /\ pc = "readback"
  /\ \/ /\ d1.active = Candidate
        /\ IF External THEN Goto("smoke") /\ UNCHANGED good ELSE Accept("finalize")
        /\ UNCHANGED faults
     \/ /\ d1.active # Candidate
        /\ FailAfterWrite("compensate", "read_back")
        /\ UNCHANGED <<faults, good>>
     \/ Fault /\ FailAfterWrite("compensate", "read_back") /\ UNCHANGED good
  /\ UNCHANGED <<d1, pending, ledger, attempts, before>>

\* The public API smoke check: its verdict is the API's, not the model's.
ApiSmoke ==
  /\ pc = "smoke"
  /\ \/ Accept("finalize")
     \/ FailAfterWrite("compensate", "api_smoke") /\ UNCHANGED good
  /\ UNCHANGED <<d1, pending, ledger, attempts, faults, before>>

\* _fail_after_write with the captured LKG state.
Compensate ==
  /\ pc = "compensate"
  /\ SendOnce(CompensateRequest(run.prev),
              Conclude("failed", run.result.stage, "restored"),
              Conclude("failed", run.result.stage, "restore_failed"))
  /\ UNCHANGED <<ledger, attempts, good, before>>

FinalizeReplacedTable ==
  /\ pc = "finalize"
  /\ SendRetried(Finalized(d1),
                 Conclude("published", "completed", "none"),
                 Conclude("failed", "finalize", "not_attempted_active_valid"))
  /\ UNCHANGED <<ledger, attempts, good, before>>

Next ==
  \/ CommonNext
  \/ StageCandidate \/ CaptureAndPreflight \/ ActivateStagedSnapshot
  \/ Reconcile \/ ReadBack \/ ApiSmoke \/ Compensate \/ FinalizeReplacedTable

Spec == Init /\ [][Next]_vars

-----------------------------------------------------------------------------
(* Properties *)

\* Readers never see a mix: the active table, the catalog row, the metadata
\* and the evidence always belong to the same publication, at every moment of
\* every run and whatever D1 does with a lost or late request ("Candidate
\* table, catalog, and quality evidence are activated together").
OnePublicationVisible ==
  /\ d1.active = d1.catalog
  /\ d1.catalog = d1.meta
  /\ d1.catalog = d1.quality

\* The same without the proviso: "retain LKG for recovery" (publisher.py, on a
\* failed finalize) reads as if a later run could go on from there.
EveryCleanRunPublishes ==
  pc = "record" /\ faults = run.faults0 =>
    \/ run.result.outcome # "failed"
    \/ run.result.stage \in PreWriteStages \cup {"preflight"}
    \/ run.result.rollback = "restored"

\* What readers are given, when it is the work of one publication.
Served == IF OnePublicationVisible THEN d1.active ELSE Torn

\* The publication path implements the promise made to readers.
Promise == INSTANCE ServedSnapshot
  WITH served <- Served, fallback <- d1.previous, accepted <- good
ImplementsServedSnapshot == Promise!Spec
=============================================================================
