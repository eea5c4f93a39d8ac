------------------------- MODULE LegacyPublication -------------------------
(***************************************************************************)
(* The replace path of publish() for the other snapshot contracts:         *)
(* replace_table swaps the staged table in, then the catalog row, the      *)
(* metadata and the evidence are written one request after the other, and  *)
(* a failure is undone step by step by _restore_snapshot.                  *)
(***************************************************************************)
EXTENDS PublicationRun

\* Mutant: a failed load is not noticed.
LoadStaging_IgnoreError ==
  /\ pc = "write"
  /\ \E t \in {Torn, Candidate} : d1' = Staged(d1, t)
  /\ Goto("swap")
  /\ UNCHANGED <<pending, ledger, attempts, faults, good, before>>

\* replace_table up to the swap: the staging table is loaded, then a leftover
\* __previous table is an error.
LoadStaging ==
  /\ pc = "write"
  /\ \/ /\ d1' = Staged(d1, Candidate)
        /\ IF d1.previous = None
             THEN Goto("swap")
             ELSE Conclude("failed", "write", "none")
        /\ UNCHANGED faults
     \/ /\ Fault
        /\ \E t \in {None, Torn, Candidate} : d1' = Staged(d1, t)
        /\ Conclude("failed", "write", "none")
  /\ UNCHANGED <<pending, ledger, attempts, good, before>>

\* The two renames; an error is recorded as a write failure and nothing is
\* undone.
SwapTables ==
  /\ pc = "swap"
  /\ SendOnce(SwapRequest, Goto("readback"), Conclude("failed", "write", "none"))
  /\ UNCHANGED <<ledger, attempts, good, before>>

\* Primary key statistics (and content parity) of the swapped-in table.
ReadBack ==
  /\ pc = "readback"
  /\ \/ /\ d1.active = Candidate
        /\ Goto(IF External THEN "smoke" ELSE "catalog")
        /\ UNCHANGED faults
     \/ d1.active # Candidate /\ FailAfterWrite("restore", "read_back") /\ UNCHANGED faults
     \/ Fault /\ FailAfterWrite("restore", "read_back")
  /\ UNCHANGED <<d1, pending, ledger, attempts, good, before>>

ApiSmoke ==
  /\ pc = "smoke"
  /\ Goto("catalog") \/ FailAfterWrite("restore", "api_smoke")
  /\ UNCHANGED <<d1, pending, ledger, attempts, faults, good, before>>

\* upsert_catalog and the registration check that follows it.  A failure of
\* the first leaves catalog_committed FALSE, of the second TRUE.
UpsertCatalog ==
  /\ pc = "catalog"
  /\ \/ SendRetried([d1 EXCEPT !.catalog = Candidate],
                    pc' = "meta" /\ run' = [run EXCEPT !.committed = TRUE],
                    FailAfterWrite("restore", "catalog"))
     \/ /\ Fault
        /\ d1' = [d1 EXCEPT !.catalog = Candidate]
        /\ pc' = "restore"
        /\ run' = [run EXCEPT !.committed = TRUE, !.result.stage = "catalog"]
        /\ UNCHANGED pending
  /\ UNCHANGED <<ledger, attempts, good, before>>

PublishProductMeta ==
  /\ pc = "meta"
  /\ SendRetried([d1 EXCEPT !.meta = Candidate], Goto("evidence"),
                 FailAfterWrite("restore", "product_meta"))
  /\ UNCHANGED <<ledger, attempts, good, before>>

PublishProductEvidence ==
  /\ pc = "evidence"
  /\ SendRetried([d1 EXCEPT !.quality = Candidate],
                 Goto("finalize") /\ good' = Candidate,
                 FailAfterWrite("restore", "product_evidence") /\ UNCHANGED good)
  /\ UNCHANGED <<ledger, attempts, before>>

\* _restore_snapshot, first request: the previous table comes back.  Then the
\* catalog row, but only when its own upsert was known to have succeeded.
RestoreReplacedTable ==
  /\ pc = "restore"
  /\ SendOnce(RestoreRequest,
              IF run.committed
                THEN Goto("uncatalog")
                ELSE Conclude("failed", run.result.stage, "restored"),
              Conclude("failed", run.result.stage, "restore_failed"))
  /\ UNCHANGED <<ledger, attempts, good, before>>

\* upsert_catalog of the row read at the start, or delete_catalog_row when
\* that read returned none.
RestoreCatalog ==
  /\ pc = "uncatalog"
  /\ SendRetried([d1 EXCEPT !.catalog = run.lastGood],
                 Conclude("failed", run.result.stage, "restored"),
                 Conclude("failed", run.result.stage, "restore_failed"))
  /\ UNCHANGED <<ledger, attempts, good, before>>

\* finalize_replaced_table is outside every try: its failure ends the run.
FinalizeReplacedTable ==
  /\ pc = "finalize"
  /\ SendRetried(Finalized(d1), Conclude("published", "completed", "none"), Goto("idle"))
  /\ UNCHANGED <<ledger, attempts, good, before>>

Next ==
  \/ CommonNext
  \/ LoadStaging \/ SwapTables \/ ReadBack \/ ApiSmoke
  \/ UpsertCatalog \/ PublishProductMeta \/ PublishProductEvidence
  \/ RestoreReplacedTable \/ RestoreCatalog \/ FinalizeReplacedTable

Spec == Init /\ [][Next]_vars

-----------------------------------------------------------------------------
(* Properties *)

\* "restored" in the ledger means that readers have the table of before the
\* attempt back and that nothing blocks the next replacement.
RestoredTableIsExact ==
  pc = "idle" /\ attempts > 0 /\ ledger[attempts] # None =>
    (ledger[attempts].rollback = "restored" =>
       d1.active = before.active /\ d1.previous = None)
=============================================================================
