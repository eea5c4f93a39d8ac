-------------------------- MODULE HostedCollection --------------------------
(* tools/weather_collect_hosted.py as .github/workflows/weather-collection.yml *)
(* runs it: every hour one job for the latest issue (--only-latest) and, after *)
(* it, one job that repairs the oldest unfinished issue of the window          *)
(* (--repair-oldest).  The concurrency group of the workflow keeps runs apart. *)
(*                                                                             *)
(* A landing run is an issue: its run id, checkpoint and manifest keys are     *)
(* those of the issue in every job.                                            *)
EXTENDS ForecastLanding, FiniteSetsExt

CONSTANTS
    Period,     \* hours between two issues
    Window,     \* hours for which an issue is eligible
    Cooldown,   \* REPAIR_RETRY_DELAY
    Issues,     \* bound: issues until the clock stops
    MaxBad,     \* bound: issues that KMA never serves whole
    MaxFaults   \* bound: failed requests, deaths and lost raw objects

Issue == 1..Issues
Job == CHOOSE c \in Collector : TRUE

ASSUME HostedAssumption ==
    /\ {Period, Window, Cooldown, Issues} \subseteq Nat \ {0}
    /\ {MaxBad, MaxFaults} \subseteq Nat
    /\ Run = Issue
    /\ Cardinality(Collector) = 1
    /\ Refetch /\ SkipUnchanged /\ ~ShortPages

VARIABLES
    now,        \* the clock, in hours
    phase,      \* of this hour's workflow run
    manifest,   \* per issue: the pages of the stored manifest, or None
    failedAt,   \* per issue: failed_at of the repair retry record, or None
    reason,     \* why the job at work failed: "source", "other" or None
    bad,        \* the issues that KMA does not serve whole
    faults

vars == <<landingVars, now, phase, manifest, failedAt, reason, bad, faults>>
jobVars == <<now, phase, manifest, failedAt, bad>>

Init ==
    /\ LandingInit
    /\ now = 0
    /\ phase = "collect"
    /\ manifest = [i \in Issue |-> None]
    /\ failedAt = [i \in Issue |-> None]
    /\ reason = None
    /\ bad \in {b \in SUBSET Issue : Cardinality(b) <= MaxBad}
    /\ faults = 0

IssuedAt(i) == (i - 1) * Period
Eligible == {i \in Issue : IssuedAt(i) <= now /\ now < IssuedAt(i) + Window}
Latest == Max(Eligible)
Fault == faults < MaxFaults /\ faults' = faults + 1

\* validate_manifest reads every raw object that the manifest lists.
Valid(pages) == pages \subseteq raw /\ WholeIssue(pages)
Unfinished(i) == manifest[i] = None

\* RepairRetry.deferred
Deferred(i) == failedAt[i] # None /\ now < failedAt[i] + Cooldown

-----------------------------------------------------------------------------
(* The jobs.                                                                 *)

\* The latest issue, unless it has a manifest: valid or not, that ends it.
CollectLatest ==
    /\ phase = "collect"
    /\ IF Unfinished(Latest)
       THEN LoadCheckpoint(Job, Latest) /\ phase' = "collecting"
       ELSE phase' = "repair" /\ UNCHANGED landingVars
    /\ UNCHANGED <<now, manifest, failedAt, reason, bad, faults>>

Repairable == {i \in Eligible \ {Latest} : Unfinished(i) /\ ~Deferred(i)}

\* Oldest first.
RepairOldest ==
    /\ phase = "repair"
    /\ IF Repairable # {}
       THEN LoadCheckpoint(Job, Min(Repairable)) /\ phase' = "repairing"
       ELSE phase' = "done" /\ UNCHANGED landingVars
    /\ UNCHANGED <<now, manifest, failedAt, reason, bad, faults>>

\* KMA serves the last grid of a bad issue never.
Served == lander[Job].run \notin bad \/ lander[Job].grid < GridCount

\* A step of collect() that fails finds a changed pagination or a grid that is
\* not complete: source_pagination_changed.
Collect ==
    /\ CollectStep(Job) /\ (lander[Job].pc = "page" /\ Wanted(Job) = {} => Served)
    /\ reason' = IF lander'[Job].pc = "failed" THEN "source" ELSE reason
    /\ UNCHANGED <<jobVars, faults>>

\* source_page_contract or source_http_failure after the attempts of a page.
\* NO_DATA, also the answer to a page that no longer exists, is put off: the
\* other grids are still collected.
SourceFails ==
    /\ \E noData \in BOOLEAN : FetchFails(Job, noData)
    /\ IF Served /\ Answer(Job) # {} THEN Fault ELSE UNCHANGED faults
    /\ reason' = IF lander'[Job].pc = "failed" THEN "source" ELSE reason
    /\ UNCHANGED jobVars

\* The 20 minutes are over, the budget is spent, or storage fails.
JobFails ==
    /\ LanderDies(Job)
    /\ Fault
    /\ reason' = "other"
    /\ UNCHANGED jobVars

\* ScopedStore.write_bytes of the manifest: validated, and created only if
\* absent.
WriteManifest ==
    LET i == lander[Job].run
    IN  /\ lander[Job].pc = "manifest"
        /\ IF Valid(lander[Job].got) /\ manifest[i] = None
           THEN /\ manifest' = [manifest EXCEPT ![i] = lander[Job].got]
                /\ lander' = [lander EXCEPT ![Job] = [Idle EXCEPT !.pc = "done", !.run = i]]
                /\ UNCHANGED reason
           ELSE /\ lander' = [lander EXCEPT ![Job] = Failed(lander[Job])]
                /\ reason' = "other"
                /\ UNCHANGED manifest
        /\ UNCHANGED <<snapshot, raw, checkpoint, now, phase, failedAt, bad, faults>>

\* A repair whose source failed leaves the retry record, if its put succeeds.
EndJob ==
    LET l == lander[Job]
        defers == phase = "repairing" /\ reason = "source"
    IN  /\ l.pc \in {"done", "failed"}
        /\ lander' = [lander EXCEPT ![Job] = Idle]
        /\ \/ /\ failedAt' = [failedAt EXCEPT ![l.run] = IF defers THEN now ELSE @]
              /\ UNCHANGED faults
           \/ defers /\ Fault /\ UNCHANGED failedAt
        /\ phase' = IF phase = "collecting" THEN "repair" ELSE "done"
        /\ reason' = None
        /\ UNCHANGED <<snapshot, raw, checkpoint, now, manifest, bad>>

\* The next hour. GitHub may skip a scheduled run.
Tick ==
    /\ now + 1 < IssuedAt(Issues) + Period
    /\ \/ phase = "done" /\ UNCHANGED faults
       \/ phase = "collect" /\ Fault
    /\ now' = now + 1
    /\ phase' = "collect"
    /\ UNCHANGED <<landingVars, manifest, failedAt, reason, bad>>

Environment ==
    /\ \E i \in Eligible : Republish(i) \/ \E p \in raw : LoseRaw(p)
    /\ Fault
    /\ UNCHANGED <<jobVars, reason>>

Next == \/ CollectLatest \/ RepairOldest \/ Collect \/ SourceFails \/ JobFails
        \/ WriteManifest \/ EndJob \/ Tick \/ Environment

Spec == Init /\ [][Next]_vars

-----------------------------------------------------------------------------
TypeOK ==
    /\ LandingTypeOK
    /\ phase \in {"collect", "collecting", "repair", "repairing", "done"}
    /\ \A i \in Issue : manifest[i] = None \/ manifest[i] \subseteq Page
    /\ \A i \in Issue : failedAt[i] = None \/ failedAt[i] \in 0..now
    /\ reason \in {None, "source", "other"}
    /\ bad \subseteq Issue

\* An issue that KMA serves is collected before it leaves the window, whatever
\* (boundedly many) requests fail, processes die or hours are missed on the
\* way, and although issues that never succeed are repaired before it.
ServedIssueIsCollected ==
    \A i \in Issue \ bad : now >= IssuedAt(i) + Window => manifest[i] # None
=============================================================================
