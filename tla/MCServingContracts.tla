------------------------- MODULE MCServingContracts -------------------------
(* What readers of the published data rely on, in parts that share no state:   *)
(* the contracts of a domain, one usage pattern of a product, and the          *)
(* watchdog.  One of them moves while the others stand at their start.         *)
(* Two models, two product ids, and every pair of edits from every reviewed    *)
(* start: enough for two declarations to meet in one contract, for two models  *)
(* to take one id or one vocabulary, and for a second change to meet a catalog *)
(* the first has published. Two edits of the pattern let its example and its   *)
(* default change under a stamp, and two exports follow one another.  The      *)
(* watchdog sees four hours, with one collection among them.                   *)
EXTENDS ServingContracts

CONSTANTS MaxExports, Moments, Hours, MaxWatchFaults

VARIABLES
  branch, merged, current, publication, row,
  now, kind, collected, gold, pub, served, quality, sidecar, previous, watch, verdict, normal, faults_w

Pattern == INSTANCE UsagePatterns WITH main <- merged

Dog == INSTANCE ServingWatchdog WITH MaxFaults <- MaxWatchFaults, catalog <- served, faults <- faults_w

ASSUME PatternAssumption == None # "malformed"
ASSUME DogAssumption == Dog!WatchAssumption

patternVars == <<branch, merged, current, publication, row>>
dogVars == <<now, kind, collected, gold, pub, served, quality, sidecar, previous, watch, verdict, normal, faults_w>>

ReadersInit == ContractInit /\ Pattern!Init /\ Dog!Init

\* Where each stands while another moves, the contracts at a plain one.
PlainIds == CHOOSE ids \in [Model -> ProductId] : IsInjective(ids)
PlainTree == [m \in Model |-> Plain(PlainIds[m])]
DogAtStart == now = 60 /\ kind = "atomic"
PatternRests == Pattern!Init /\ UNCHANGED patternVars
ContractsRest ==
  /\ edits = 0 /\ exported = {}
  /\ tree = PlainTree
  /\ UNCHANGED contractVars
DogRests == Dog!Init /\ UNCHANGED dogVars
OthersRest == ContractsRest /\ PatternRests

ReadersNext ==
  \/ \E m \in Model, f \in Fields : DogAtStart /\ Edit(m, f) /\ PatternRests /\ DogRests
  \/ \E id \in ProductId : DogAtStart /\ EditList(id) /\ PatternRests /\ DogRests
  \/ DogAtStart /\ Merge /\ PatternRests /\ DogRests
  \/ DogAtStart /\ Export /\ PatternRests /\ DogRests
  \/ \E f \in DOMAIN Pattern!Choice : DogAtStart /\ ContractsRest /\ Pattern!Author(f) /\ DogRests
  \/ DogAtStart /\ ContractsRest /\ Pattern!Merge /\ DogRests
  \/ DogAtStart /\ ContractsRest /\ Pattern!Stamp /\ DogRests
  \/ DogAtStart /\ ContractsRest /\ Pattern!Age /\ DogRests
  \/ DogAtStart /\ ContractsRest /\ Pattern!ExportLegacy /\ DogRests
  \/ \E withSibling \in BOOLEAN : DogAtStart /\ ContractsRest /\ Pattern!ExportAtomic(withSibling) /\ DogRests
  \/ OthersRest /\ Dog!Collect
  \/ OthersRest /\ Dog!StartPublication
  \/ OthersRest /\ Dog!Refuse
  \/ OthersRest /\ Dog!Activate
  \/ OthersRest /\ Dog!Complete
  \/ OthersRest /\ Dog!Abandon
  \/ OthersRest /\ Dog!ReadEvidence
  \/ OthersRest /\ Dog!Judge
  \/ OthersRest /\ Dog!ReadFails
  \/ OthersRest /\ Dog!Tick

ReadersSpec == ReadersInit /\ [][ReadersNext]_<<contractVars, patternVars, dogVars>>

\* The gate and the two publication paths read a pattern alike.
ConventionsAreLocked == Pattern!ConventionsAreLocked

\* The watchdog stays quiet while every cycle is in time.
NormalIsQuiet == Dog!NormalIsQuiet

\* A cycle that was missed is reported.
MissedCycleIsReported == Dog!MissedCycleIsReported
=============================================================================
