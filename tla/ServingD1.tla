----------------------------- MODULE ServingD1 -----------------------------
(***************************************************************************)
(* What the publisher's D1 requests do to one product, from                *)
(* dags/common/serving/d1_client.py.                                       *)
(*                                                                         *)
(* A D1 state d is a record of the product's three tables (the active one, *)
(* <model>__previous and <model>__staging), its _catalog row, its handoff  *)
(* metadata rows and its evidence rows.  Each holds the version that wrote *)
(* it, or None.  The rows themselves are abstracted to their version: the  *)
(* publication_id that staged them and their number.                       *)
(*                                                                         *)
(* D1 itself is external: one request (a batch, or one SQL text) is applied *)
(* as a whole or not at all, and is refused when one of its statements is  *)
(* (renaming a missing table, or onto an existing name).                   *)
(***************************************************************************)
EXTENDS Naturals

CONSTANTS
  None,    \* an absent table or row
  Torn     \* a staging table that was not completely loaded

\* A published row set: its publication_id and its row count.
Version == [pub: Nat \ {0}, rows: Nat]

ASSUME NoneAssumption == None \notin Version /\ Torn \notin Version /\ None # Torn

Table == Version \cup {None, Torn}
Row == Version \cup {None}

D1State ==
  [active: Table, previous: Table, staging: Table,
   catalog: Row, meta: Row, quality: Row]

EmptyD1 ==
  [active |-> None, previous |-> None, staging |-> None,
   catalog |-> None, meta |-> None, quality |-> None]

-----------------------------------------------------------------------------
(* ProductPublicationState: the product-scoped rows of a publication and    *)
(* whether an active table existed when they were captured.                 *)

PublicationState == [had: BOOLEAN, catalog: Row, meta: Row, quality: Row]

CaptureState(d) ==
  [had |-> d.active # None, catalog |-> d.catalog, meta |-> d.meta,
   quality |-> d.quality]

CandidateState(v, previous) ==
  [had |-> previous.had, catalog |-> v, meta |-> v, quality |-> v]

-----------------------------------------------------------------------------
(* The four requests that move tables and must not be repeated blindly.     *)

Requests ==
  [op: {"activate", "compensate"}, state: PublicationState]
    \cup [op: {"swap", "restore"}, state: {None}]

ActivateRequest(candidate) == [op |-> "activate", state |-> candidate]
CompensateRequest(previous) == [op |-> "compensate", state |-> previous]
SwapRequest == [op |-> "swap", state |-> None]
RestoreRequest == [op |-> "restore", state |-> None]

\* Mutant: a leftover previous table is overwritten.
CanPromote_Overwrite(d, had) ==
  d.staging # None /\ IF had THEN d.active # None ELSE d.active = None

\* ALTER active TO previous, ALTER staging TO active: needs the staging table,
\* and a free name for each rename.
CanPromote(d, had) ==
  /\ d.staging # None
  /\ IF had THEN d.active # None /\ d.previous = None ELSE d.active = None

Promote(d, had) ==
  [d EXCEPT !.previous = IF had THEN d.active ELSE d.previous,
            !.active = d.staging,
            !.staging = None]

\* Mutant: the activation batch leaves the evidence rows to a later call.
ReplaceEvidence_CatalogOnly(d, state) == [d EXCEPT !.catalog = state.catalog]

ReplaceEvidence(d, state) ==
  [d EXCEPT !.catalog = state.catalog, !.meta = state.meta,
            !.quality = state.quality]

\* Mutant: the previous table is not renamed back.
Demote_DropOnly(d, had) == [d EXCEPT !.active = None]

\* DROP active, ALTER previous TO active when there was one.
Demote(d, had) ==
  [d EXCEPT !.active = IF had THEN d.previous ELSE None,
            !.previous = IF had THEN None ELSE d.previous]

\* The statements of a request are all accepted.
Accepted(r, d) ==
  CASE r.op = "activate" -> CanPromote(d, r.state.had)
    [] r.op = "compensate" -> r.state.had => d.previous # None
    [] r.op = "swap" -> CanPromote(d, d.active # None)
    [] r.op = "restore" -> TRUE

\* What an accepted request leaves behind.
Applied(r, d) ==
  CASE r.op = "activate" -> ReplaceEvidence(Promote(d, r.state.had), r.state)
    [] r.op = "compensate" -> ReplaceEvidence(Demote(d, r.state.had), r.state)
    [] r.op = "swap" -> Promote(d, d.active # None)
    [] r.op = "restore" -> Demote(d, d.previous # None)

\* finalize_replaced_table
Finalized(d) == [d EXCEPT !.previous = None]

\* stage_snapshot: DROP, CREATE, INSERT batches; t is what has been loaded.
Staged(d, t) == [d EXCEPT !.staging = t]
=============================================================================
