--------------------------- MODULE CollectionSlots ---------------------------
(* The receipts of collection slots: every grid of an issue of the forecast   *)
(* is a slot that is declared once and then gets outcome events from whoever  *)
(* learns something about it, the collecting runs and the DAG                 *)
(* weather_vilage_fcst_collection_slot_reconciliation.  All of them are       *)
(* objects that are written if absent, one by one, without any lock.          *)
(*                                                                            *)
(* Time: issue i is published at tick 2i; at tick 2i + 1 its grace of an hour *)
(* is over and the reconciliation of its interval is scheduled.               *)
EXTENDS Naturals, FiniteSets

CONSTANTS
    LastIssue,      \* issues 1..LastIssue
    GridCount,      \* grids 1..GridCount, in the order of the plan
    Run,            \* collecting and replaying DAG runs
    Replays,        \* those of the raw replay DAG, which write no receipts
    IssueOf,        \* [Run -> Issue]
    Boundaries,     \* values of the earliest issue that API Hub still answers
    Horizon,        \* bound on the clock
    MaxFaults,      \* bound on deaths, failing writes and policy changes
    None

Issue == 1..LastIssue
Grid == 1..GridCount
Slot == Issue \X Grid
SlotsOf(i) == {i} \X Grid

ASSUME SlotAssumption ==
    /\ Replays \subseteq Run
    /\ IssueOf \in [Run -> Issue]
    /\ Boundaries \subseteq Nat /\ Boundaries # {} /\ None \notin Boundaries \cup Run
    /\ {LastIssue, GridCount} \subseteq Nat \ {0} /\ Horizon \in Nat /\ MaxFaults \in Nat

VARIABLES
    now,
    boundary,   \* ASK_SEOUL_WEATHER_API_HUB_HISTORICAL_EARLIEST_ISSUED_AT
    expected,   \* per slot: the boundary in its expected receipt, or None
    events,     \* the outcome receipts
    manifest,   \* the runs whose raw manifest, of every grid, is in the bucket
    work,       \* per run: its task, the boundary it planned with, what is left to write
    rec,        \* the reconciliation run
    faults

receiptVars == <<now, boundary, expected, events, manifest, work, rec, faults>>

PublishedAt(i) == 2 * i
Deadline(i) == 2 * i + 1

FreshWork == [pc |-> "queued", boundary |-> None, observed |-> FALSE, todo |-> {}]
NoReconciliation == [pc |-> "idle", now |-> 0, todo |-> {}, plan |-> [s \in Slot |-> None],
                     proof |-> [i \in Issue |-> None], slot |-> None]

ReceiptInit ==
    /\ now = 0
    /\ boundary \in Boundaries
    /\ expected = [s \in Slot |-> None]
    /\ events = {}
    /\ manifest = {}
    /\ work = [r \in Run |-> FreshWork]
    /\ rec = NoReconciliation
    /\ faults = 0

Fault == faults < MaxFaults /\ faults' = faults + 1
Declared == {s \in Slot : expected[s] # None}
EventsOf(s) == {e \in events : e.slot = s}

\* write_json_if_absent: a receipt is written once, and a second writer must
\* agree with it.
CanDeclare(s, b) == expected[s] \in {None, b}

\* The recovery class of a slot that was not collected.
RecoveryClass(s, b, proof) ==
    IF proof # None THEN "raw_replay" ELSE IF s[1] >= b THEN "historical_query" ELSE "none"

Outcome(s, by, state, class, proof) ==
    [slot |-> s, by |-> by, state |-> state, class |-> class, at |-> now, manifest |-> proof]

-----------------------------------------------------------------------------
(* A collecting run.                                                         *)

NextSlot(r) == {s \in work[r].todo : \A t \in work[r].todo : s[2] <= t[2]}
GoTo(r, pc) == work' = [work EXCEPT ![r].pc = pc]

\* The receipt of a slot is written; after the last one the run goes on.
WroteSlot(r, s, next) ==
    LET pc == IF work[r].todo = {s} THEN next ELSE work[r].pc
    IN  work' = [work EXCEPT ![r].todo = @ \ {s}, ![r].pc = pc]

\* plan_weather_collection_slots computes the slots with today's policy.
PlanSlots(r) ==
    /\ r \notin Replays /\ work[r].pc = "queued" /\ now >= PublishedAt(IssueOf[r])
    /\ work' = [work EXCEPT ![r].pc = "plan", ![r].boundary = boundary, ![r].todo = SlotsOf(IssueOf[r])]
    /\ UNCHANGED <<now, boundary, expected, events, manifest, rec, faults>>

\* record_expected for one slot: a receipt with another boundary fails the run,
\* which then has no plan to record an outcome for.
DeclareSlot(r) ==
    /\ work[r].pc = "plan"
    /\ \E s \in NextSlot(r) :
        IF CanDeclare(s, work[r].boundary)
        THEN /\ expected' = [expected EXCEPT ![s] = work[r].boundary]
             /\ WroteSlot(r, s, "land")
        ELSE GoTo(r, "ended") /\ UNCHANGED expected
    /\ UNCHANGED <<now, boundary, events, manifest, rec, faults>>

Ends(r, ok) ==
    work' = [work EXCEPT ![r].pc = "record", ![r].observed = ok, ![r].todo = SlotsOf(IssueOf[r])]

\* Landing writes the manifest of every grid, or fails without one; what load
\* and verification say is what gets recorded.
Collect(r) ==
    /\ work[r].pc = "land"
    /\ \/ manifest' = manifest \cup {r} /\ \E ok \in BOOLEAN : Ends(r, ok)
       \/ UNCHANGED manifest /\ Ends(r, FALSE)
    /\ UNCHANGED <<now, boundary, expected, events, rec, faults>>

ProofOf(r) == IF r \in manifest THEN r ELSE None

RunOutcome(r, s) ==
    IF work[r].observed THEN Outcome(s, r, "observed", "none", r)
    ELSE Outcome(s, r, "collection_failed", RecoveryClass(s, work[r].boundary, ProofOf(r)), ProofOf(r))

\* record_weather_collection_slot_success or _failure, one receipt.
RecordOutcome(r) ==
    /\ work[r].pc = "record"
    /\ \E s \in NextSlot(r) :
        /\ events' = events \cup {RunOutcome(r, s)}
        /\ WroteSlot(r, s, "ended")
    /\ UNCHANGED <<now, boundary, expected, manifest, rec, faults>>

\* A write of the success fails: the callback records every slot as failed.
RecordFails(r) ==
    /\ work[r].pc = "record" /\ work[r].observed
    /\ Fault
    /\ Ends(r, FALSE)
    /\ UNCHANGED <<now, boundary, expected, events, manifest, rec>>

RunDies(r) ==
    /\ work[r].pc \notin {"queued", "ended"}
    /\ Fault
    /\ GoTo(r, "ended")
    /\ UNCHANGED <<now, boundary, expected, events, manifest, rec>>

\* A replay reads the raw objects of an earlier run and writes a manifest of
\* its own over them.
ReplayRaw(r) ==
    /\ r \in Replays /\ work[r].pc = "queued"
    /\ \E q \in manifest : IssueOf[q] = IssueOf[r]
    /\ manifest' = manifest \cup {r}
    /\ GoTo(r, "ended")
    /\ UNCHANGED <<now, boundary, expected, events, rec, faults>>

-----------------------------------------------------------------------------
(* The reconciliation.                                                       *)

\* The issue whose grace the interval of this tick has just ended.
IntervalIssues == {i \in Issue : Deadline(i) = now}

\* Only the issue of the interval is looked at.
Candidates_IntervalOnly == [s \in Slot |-> IF s[1] \in IntervalIssues THEN boundary ELSE None]

\* _unique_slots: the slot that is planned anew replaces the stored one.
Candidates == [s \in Slot |-> IF s[1] \in IntervalIssues THEN boundary ELSE expected[s]]
Known(plan) == {s \in Slot : plan[s] # None}
DueSlots(plan) == {s \in Known(plan) : Deadline(s[1]) <= now}

\* The manifests that cover exactly the due slots of an issue.
Proves(i, plan) ==
    {r \in manifest : IssueOf[r] = i /\ SlotsOf(i) \subseteq DueSlots(plan)}

Ambiguous(plan) == \E i \in Issue : Cardinality(Proves(i, plan)) > 1

\* The slots, the manifests in the bucket and the clock are read first.  Two
\* manifests of one issue end the run.
StartReconciliation ==
    /\ rec.pc = "idle"
    /\ Known(Candidates) # {}
    /\ ~Ambiguous(Candidates)
    /\ rec' = [pc |-> "next", now |-> now, todo |-> Known(Candidates), plan |-> Candidates, slot |-> None,
               proof |-> [i \in Issue |-> IF Proves(i, Candidates) = {} THEN None
                                          ELSE CHOOSE r \in Proves(i, Candidates) : TRUE]]
    /\ UNCHANGED <<now, boundary, expected, events, manifest, work, faults>>

Oldest == {s \in rec.todo : \A t \in rec.todo : s[1] <= t[1]}

Settled(s) == EventsOf(s) # {}

\* A slot is declared, then it is not due, or has an event, or will get one.
\* A receipt with another boundary ends the run.
CheckSlot ==
    /\ rec.pc = "next"
    /\ \E s \in Oldest :
        IF CanDeclare(s, rec.plan[s])
        THEN /\ expected' = [expected EXCEPT ![s] = rec.plan[s]]
             /\ rec' = IF Deadline(s[1]) > rec.now \/ Settled(s)
                       THEN IF rec.todo = {s} THEN NoReconciliation ELSE [rec EXCEPT !.todo = @ \ {s}]
                       ELSE [rec EXCEPT !.pc = "write", !.slot = s]
        ELSE rec' = NoReconciliation /\ UNCHANGED expected
    /\ UNCHANGED <<now, boundary, events, manifest, work, faults>>

\* weather_missing_outcome; the slot may have got an outcome since the check.
MissingOutcome ==
    LET s == rec.slot
        proof == rec.proof[s[1]]
    IN  [Outcome(s, "reconciler", "missing_unknown", RecoveryClass(s, rec.plan[s], proof), proof) EXCEPT !.at = rec.now]

WriteMissing ==
    /\ rec.pc = "write"
    /\ events' = events \cup {MissingOutcome}
    /\ rec' = IF rec.todo = {rec.slot} THEN NoReconciliation
              ELSE [rec EXCEPT !.pc = "next", !.todo = @ \ {rec.slot}, !.slot = None]
    /\ UNCHANGED <<now, boundary, expected, manifest, work, faults>>

ReconcilerDies ==
    /\ rec.pc # "idle"
    /\ Fault
    /\ rec' = NoReconciliation
    /\ UNCHANGED <<now, boundary, expected, events, manifest, work>>

-----------------------------------------------------------------------------
Advance ==
    /\ now < Horizon
    /\ now' = now + 1
    /\ UNCHANGED <<boundary, expected, events, manifest, work, rec, faults>>

\* A deployment with another policy.
ChangePolicy ==
    /\ Fault
    /\ boundary' \in Boundaries \ {boundary}
    /\ UNCHANGED <<now, expected, events, manifest, work, rec>>

CollectorStep(r) ==
    \/ PlanSlots(r) \/ DeclareSlot(r) \/ Collect(r) \/ RecordOutcome(r)
    \/ RecordFails(r) \/ RunDies(r) \/ ReplayRaw(r)

Reconcile == StartReconciliation \/ CheckSlot \/ WriteMissing

ReceiptStep == (\E r \in Run : CollectorStep(r)) \/ Reconcile \/ ReconcilerDies \/ Advance \/ ChangePolicy
=============================================================================
