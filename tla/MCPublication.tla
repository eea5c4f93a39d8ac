--------------------------- MODULE MCPublication ---------------------------
(* What the publisher does to D1, in the four ways it has: three runs of the   *)
(* atomic path, three of the replace path, the modes that write into the       *)
(* served table (two keys, three instants), and the metadata tables that two   *)
(* products share.  A product is published in one way only, and each model     *)
(* has tables of its own: one of them moves while the others stand at their    *)
(* start.                                                                      *)
EXTENDS AtomicPublication, TLC

CONSTANTS
  ReplacePolicy, ReplaceNum, ReplaceDen, ReplaceRows,
  Product, Key, Lookback, BatchRows, MaxTime, MaxChanges, MaxWindowFaults, MaxPubs, MaxHandoffFaults

VARIABLES
  d1_l, pending_l, pc_l, run_l, ledger_l, attempts_l, faults_l, good_l, before_l,
  mode, now, source, changes, table, catalog_i, pc_i, mark, lastGood, todo, read, split, faults_i,
  legacy, rows, display, sources, quality, catalog_h, job, good_h, pubs, faults_h

Replace == INSTANCE LegacyPublication WITH
  ZeroPolicy <- ReplacePolicy, PartialNum <- ReplaceNum, PartialDen <- ReplaceDen, MaxRows <- ReplaceRows,
  d1 <- d1_l, pending <- pending_l, pc <- pc_l, run <- run_l, ledger <- ledger_l,
  attempts <- attempts_l, faults <- faults_l, good <- good_l, before <- before_l

Window == INSTANCE IncrementalPublication WITH
  MaxFaults <- MaxWindowFaults, catalog <- catalog_i, pc <- pc_i, faults <- faults_i

Handoff == INSTANCE ServingHandoff WITH
  MaxFaults <- MaxHandoffFaults, catalog <- catalog_h, good <- good_h, faults <- faults_h

ASSUME ReplaceAssumption == ReplaceRows \in Nat
ASSUME WindowAssumption == Window!WindowAssumption
ASSUME HandoffAssumption == Handoff!HandoffAssumption

replaceVars == <<d1_l, pending_l, pc_l, run_l, ledger_l, attempts_l, faults_l, good_l, before_l>>
windowVars == <<mode, now, source, changes, table, catalog_i, pc_i, mark, lastGood, todo, read, split, faults_i>>
handoffVars == <<legacy, rows, display, sources, quality, catalog_h, job, good_h, pubs, faults_h>>

MCInit == Init /\ Replace!Init /\ Window!Init /\ Handoff!Init

AtomicAtStart == attempts = 0
ReplaceAtStart == attempts_l = 0
WindowAtStart == now = 1 /\ changes = 0 /\ faults_i = 0 /\ pc_i = "idle" /\ mode = "append"
HandoffAtStart == pubs = 0 /\ ~legacy

Atomic == ReplaceAtStart /\ WindowAtStart /\ HandoffAtStart
Replacing == AtomicAtStart /\ WindowAtStart /\ HandoffAtStart
Writing == AtomicAtStart /\ ReplaceAtStart /\ HandoffAtStart
Sharing == AtomicAtStart /\ ReplaceAtStart /\ WindowAtStart

AtomicMoved == UNCHANGED <<replaceVars, windowVars, handoffVars>>
ReplaceMoved == UNCHANGED <<vars, windowVars, handoffVars>>
WindowMoved == UNCHANGED <<vars, replaceVars, handoffVars>>
HandoffMoved == UNCHANGED <<vars, replaceVars, windowVars>>

MCNext ==
  \/ Atomic /\ Begin /\ AtomicMoved
  \/ Atomic /\ ReadCatalog /\ AtomicMoved
  \/ Atomic /\ ReadSource /\ AtomicMoved
  \/ Atomic /\ AppendLedger /\ AtomicMoved
  \/ Atomic /\ CutShort /\ AtomicMoved
  \/ Atomic /\ Settle /\ AtomicMoved
  \/ Atomic /\ StageCandidate /\ AtomicMoved
  \/ Atomic /\ CaptureAndPreflight /\ AtomicMoved
  \/ Atomic /\ ActivateStagedSnapshot /\ AtomicMoved
  \/ Atomic /\ Reconcile /\ AtomicMoved
  \/ Atomic /\ ReadBack /\ AtomicMoved
  \/ Atomic /\ ApiSmoke /\ AtomicMoved
  \/ Atomic /\ Compensate /\ AtomicMoved
  \/ Atomic /\ FinalizeReplacedTable /\ AtomicMoved
  \/ Replacing /\ Replace!Begin /\ ReplaceMoved
  \/ Replacing /\ Replace!ReadCatalog /\ ReplaceMoved
  \/ Replacing /\ Replace!ReadSource /\ ReplaceMoved
  \/ Replacing /\ Replace!AppendLedger /\ ReplaceMoved
  \/ Replacing /\ Replace!CutShort /\ ReplaceMoved
  \/ Replacing /\ Replace!Settle /\ ReplaceMoved
  \/ Replacing /\ Replace!LoadStaging /\ ReplaceMoved
  \/ Replacing /\ Replace!SwapTables /\ ReplaceMoved
  \/ Replacing /\ Replace!ReadBack /\ ReplaceMoved
  \/ Replacing /\ Replace!ApiSmoke /\ ReplaceMoved
  \/ Replacing /\ Replace!UpsertCatalog /\ ReplaceMoved
  \/ Replacing /\ Replace!PublishProductMeta /\ ReplaceMoved
  \/ Replacing /\ Replace!PublishProductEvidence /\ ReplaceMoved
  \/ Replacing /\ Replace!RestoreReplacedTable /\ ReplaceMoved
  \/ Replacing /\ Replace!RestoreCatalog /\ ReplaceMoved
  \/ Replacing /\ Replace!FinalizeReplacedTable /\ ReplaceMoved
  \/ Writing /\ Window!Tick /\ WindowMoved
  \/ Writing /\ Window!Change /\ WindowMoved
  \/ Writing /\ Window!Start /\ WindowMoved
  \/ Writing /\ Window!ReadSource /\ WindowMoved
  \/ Writing /\ Window!DeleteWindow /\ WindowMoved
  \/ Writing /\ Window!InsertBatch /\ WindowMoved
  \/ Writing /\ Window!Register /\ WindowMoved
  \/ Writing /\ Window!Die /\ WindowMoved
  \/ Writing /\ Window!End /\ WindowMoved
  \/ \E p \in Product :
       \/ Sharing /\ Handoff!Start(p) /\ HandoffMoved
       \/ Sharing /\ Handoff!Catalog(p) /\ HandoffMoved
       \/ Sharing /\ Handoff!ReadSchema(p) /\ HandoffMoved
       \/ Sharing /\ Handoff!Migrate(p) /\ HandoffMoved
       \/ Sharing /\ Handoff!Send(p) /\ HandoffMoved
       \/ Sharing /\ Handoff!Sent(p) /\ HandoffMoved
       \/ Sharing /\ Handoff!Restore(p) /\ HandoffMoved

MCSpec == MCInit /\ [][MCNext]_<<vars, replaceVars, windowVars, handoffVars>>

Symmetry == Permutations(Key) \cup Permutations(Product)

\* No half-loaded table is served on the replace path.
ReplaceNeverServesTornTable == Replace!NeverServesTornTable

\* A replace run that reports "restored" has put the old table back.
RestoredTableIsExact == Replace!RestoredTableIsExact

\* A completed append or upsert has made the table what the source was.
CompletedIsWhole == Window!CompletedIsWhole

\* Readers have exactly the declaration of a completed publication.
CompletedIsDeclared == Handoff!CompletedIsDeclared
=============================================================================
