-------------------------- MODULE RecoveryPlanning --------------------------
(* weather_recovery_coordinator: candidates from the receipts, and the plan   *)
(* that a run prints.  The coordinator writes nothing, so it has no state of  *)
(* its own: Plans is what it may answer in a state of the receipts.           *)
EXTENDS CollectionSlots

CONSTANTS
    MaxJobs,        \* max_jobs
    MaxApiJobs,     \* max_api_jobs
    MaxAge          \* max_recovery_age, in ticks

ASSUME PlanningAssumption == {MaxJobs, MaxApiJobs, MaxAge} \subseteq Nat

\* Only the latest event decides.
Collected_Latest(s) ==
    \E e \in EventsOf(s) : e.state = "observed" /\ \A f \in EventsOf(s) : f.at <= e.at

\* _has_terminal_event
Collected(s) == \E e \in EventsOf(s) : e.state = "observed"

\* The slots of an issue among those that are listed.
Pending(i, listed) == {s \in SlotsOf(i) \cap listed : ~Collected(s)}

\* Of two events of one instant, either may be taken.
Latest(s) == {e \in EventsOf(s) : \A f \in EventsOf(s) : f.at <= e.at}
LatestPicks(listed) ==
    LET open == {s \in listed : ~Collected(s) /\ EventsOf(s) # {}}
    IN  {pick \in [open -> events] : \A s \in open : pick[s] \in Latest(s)}

\* All pending slots have an event of the class.
AllOf(slots, class, pick) == \A s \in slots : s \in DOMAIN pick /\ pick[s].class = class

\* raw_manifest_verified: and they name one manifest.
Replayable(slots, pick) ==
    AllOf(slots, "raw_replay", pick) /\ \E r \in Run : \A s \in slots : pick[s].manifest = r

Recollectable(slots, pick) == AllOf(slots, "historical_query", pick)

\* _classify: due, and not too old.
Eligible(i, listed) == Pending(i, listed) # {} /\ Deadline(i) <= now /\ now - PublishedAt(i) <= MaxAge

\* The jobs are sorted by action, then by the time of the issue; the first ones
\* within the budgets are admitted.
FirstOf(issues, n) == {i \in issues : Cardinality({j \in issues : j < i}) < n}

PlanOf(listed, pick) ==
    LET eligible == {i \in Issue : Eligible(i, listed)}
        replayable == {i \in eligible : Replayable(Pending(i, listed), pick)}
        recollectable == {i \in eligible \ replayable : Recollectable(Pending(i, listed), pick)}
        replay == FirstOf(replayable, MaxJobs)
        room == MaxJobs - Cardinality(replay)
        recollect == FirstOf(recollectable, IF room < MaxApiJobs THEN room ELSE MaxApiJobs)
    IN  [replay |-> [i \in replay |-> Pending(i, listed)], recollect |-> [i \in recollect |-> Pending(i, listed)]]

\* An event of a slot that was not listed, or pending slots of one issue with
\* several boundaries, end the run without a plan.
Refused(listed) ==
    \/ \E e \in events : e.slot \notin listed
    \/ \E i \in Issue : \E s, t \in Pending(i, listed) : expected[s] # expected[t]

\* The expected receipts are listed before the events, so slots that are
\* declared in between are missing: any of them may be.
Plans == UNION {{PlanOf(listed, pick) : pick \in LatestPicks(listed)} : listed \in {l \in SUBSET Declared : ~Refused(l)}}

ReceiptSpec == ReceiptInit /\ [][ReceiptStep]_receiptVars /\ WF_receiptVars(Advance) /\ WF_receiptVars(Reconcile)

-----------------------------------------------------------------------------
Observed(s) == \E e \in events : e.slot = s /\ e.state = "observed"
Cites(s, r) == \E e \in events : e.slot = s /\ e.manifest = r

\* A job recovers only slots that nobody has observed, though later receipts of
\* the same run or of another may say that they failed; and a replay is planned
\* only over one manifest of the bucket that each of its slots names, whoever
\* wrote the receipts and in which order.
PlansAreSound ==
    \A plan \in Plans :
        /\ \A i \in DOMAIN plan.replay : \A s \in plan.replay[i] : ~Observed(s)
        /\ \A i \in DOMAIN plan.recollect : \A s \in plan.recollect[i] : ~Observed(s)
        /\ \A i \in DOMAIN plan.replay :
            \E r \in manifest : IssueOf[r] = i /\ \A s \in plan.replay[i] : Cites(s, r)

TwoManifests == \E q, r \in manifest : q # r /\ IssueOf[q] = IssueOf[r]
Due(s) == expected[s] # None /\ Deadline(s[1]) <= now
HasOutcome(s) == \E e \in events : e.slot = s

\* Every declared slot gets an outcome once it is due, whatever dies, unless
\* two runs have left complete manifests of one issue.  A slot that is due stays
\* due, and there are finitely many: so each leads to its outcome exactly when,
\* again and again, no due slot is without one.
DueSlotsSettle == []<>((\A s \in Slot : Due(s) => HasOutcome(s)) \/ TwoManifests)
=============================================================================
