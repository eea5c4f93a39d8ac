---------------------------- MODULE PublicReport ----------------------------
(* The daily public quality report: a GitHub workflow clones the gh-pages      *)
(* archive, lists the raw objects of two load dates in R2 while the collector  *)
(* goes on landing, judges the day from the manifests among them, and pushes   *)
(* the first report of the day or, on refresh, a recheck beside it. A job may  *)
(* be killed while its push is under way; the next job then races that push.   *)
EXTENDS Naturals, FiniteSets

CONSTANTS
  Grid,          \* the grids of the contract
  TicksPerDay,   \* bound: clock resolution
  IssueTicks,    \* the ticks of a day at which an issue is due (issue_cycle_count)
  Fresh,         \* freshness_error_minutes, in ticks
  MaxTick,       \* bound
  MaxRaw,        \* bound: raw objects landed
  MaxManifests,  \* bound: manifests landed
  MaxJobs        \* bound: workflow runs

DayAssumption ==
  /\ TicksPerDay \in Nat \ {0} /\ {Fresh, MaxTick} \subseteq Nat
  /\ IsFiniteSet(Grid)
  /\ IssueTicks \subseteq 0..TicksPerDay - 1

VARIABLES
  now, raw, manifests,  \* the clock and the R2 bucket
  archive,              \* [0..LastDay -> [daily: set of at most one, rechecks]]
  head,                 \* commits on gh-pages
  job,                  \* the workflow run at work
  inflight,             \* pushes of killed jobs that may still arrive
  jobs

bucket == <<raw, manifests>>
branch == <<archive, head>>
vars == <<now, bucket, branch, job, inflight, jobs>>

DayOf(t) == t \div TicksPerDay
Days == 0..DayOf(MaxTick)
Issues(d) == {t \in 0..MaxTick : DayOf(t) = d /\ t % TicksPerDay \in IssueTicks}

Idle == [pc |-> "idle"]

Init ==
  /\ now = 0
  /\ raw = {} /\ manifests = {}
  /\ archive = [d \in Days |-> [daily |-> {}, rechecks |-> {}]]
  /\ head = 0
  /\ job = Idle
  /\ inflight = {}
  /\ jobs = 0

Tick ==
  /\ now < MaxTick
  /\ now' = now + 1
  /\ UNCHANGED <<bucket, branch, job, inflight, jobs>>

\* The collector lands a raw object under the load date of the moment, of an
\* issue that is out; the key carries the grid, the issue and the instant (bound:
\* one object of a grid and issue per load date).
LandRaw(g, issue) ==
  LET object == [grid |-> g, issue |-> issue, load |-> DayOf(now), at |-> now]
  IN /\ issue <= now /\ issue \in Issues(DayOf(issue))
     /\ DayOf(now) - DayOf(issue) <= 1
     /\ Cardinality(raw) < MaxRaw
     /\ \A r \in raw : r # [object EXCEPT !.at = r.at]
     /\ raw' = raw \cup {object}
     /\ UNCHANGED <<now, manifests, branch, job, inflight, jobs>>

\* A run lands its manifest last. It may refer to raw objects of earlier runs,
\* all of one issue; one that is not complete is refused by the report.
LandManifest(refs, complete) ==
  /\ refs # {} /\ refs \subseteq raw
  /\ \A r, s \in refs : r.issue = s.issue
  /\ Cardinality(manifests) < MaxManifests
  /\ manifests' = manifests \cup
       {[load |-> DayOf(now), at |-> now, refs |-> refs, complete |-> complete]}
  /\ UNCHANGED <<now, raw, branch, job, inflight, jobs>>

\* --prepare: clone the branch; a day that has its report ends the job, unless
\* a refresh was asked for. The first day of the clock has no report.
Prepare(refresh) ==
  LET day == DayOf(now) - 1 IN
  /\ job = Idle /\ jobs < MaxJobs
  /\ DayOf(now) >= 1
  /\ jobs' = jobs + 1
  /\ job' = IF archive[day].daily # {} /\ ~refresh THEN Idle
            ELSE [pc |-> "cloned", refresh |-> refresh, clone |-> archive,
                  base |-> head]
  /\ UNCHANGED <<now, bucket, branch, inflight>>

At(pc) == job.pc = pc
Listed(load) == [raw |-> {r \in raw : r.load = load},
                 manifests |-> {m \in manifests : m.load = load}]

\* The report step fixes its day and as_of, then lists that load date.
ListDay ==
  /\ At("cloned")
  /\ job' = [pc |-> "listing", refresh |-> job.refresh, clone |-> job.clone,
             base |-> job.base, asOf |-> now, day |-> DayOf(now) - 1,
             seen |-> Listed(DayOf(now) - 1)]
  /\ UNCHANGED <<now, bucket, branch, inflight, jobs>>

\* _validate_manifest: a complete document, of the past, whose references are
\* all listed, of the past and older than its completion.
Accepted(m, listed, asOf) ==
  /\ m.complete /\ m.at <= asOf
  /\ \A r \in m.refs : r \in listed /\ r.at <= asOf /\ r.at <= m.at

Rows(seen, asOf) ==
  UNION {m.refs : m \in {x \in seen.manifests : Accepted(x, seen.raw, asOf)}}

\* One manifest that is not accepted leaves the whole day without evidence.
Reason(seen, asOf) ==
  IF \E m \in seen.manifests : ~Accepted(m, seen.raw, asOf) THEN "manifest_invalid"
  ELSE IF seen.manifests = {} THEN "no_complete_manifests" ELSE "none"

Slots(d) == Grid \X Issues(d)
\* MUTANT Slots are counted whatever the day of their issue.
Observed_AnyDay(rows, day) == {<<r.grid, r.issue>> : r \in rows}

\* The slots of the report day with evidence.
Observed(rows, day) ==
  {<<r.grid, r.issue>> : r \in {x \in rows : DayOf(x.issue) = day}}

MissingCheck(rows, day, reason) ==
  LET observed == Observed(rows, day) IN
  IF reason # "none" \/ observed = {} THEN "unmeasured"
  ELSE IF Cardinality(Slots(day)) > Cardinality(observed) THEN "fail" ELSE "pass"

CollectionCheck(seen) == IF seen.raw = {} THEN "fail" ELSE "pass"

StaleGrids(rows, asOf) ==
  {g \in Grid : /\ \E r \in rows : r.grid = g
                /\ \A r \in rows : r.grid = g => asOf > r.issue + Fresh}

FreshnessCheck(rows, asOf, reason) ==
  IF StaleGrids(rows, asOf) # {} THEN "fail"
  ELSE IF reason = "none" /\ \A g \in Grid : \E r \in rows : r.grid = g
       THEN "pass" ELSE "unmeasured"

Worst(checks) ==
  IF "fail" \in checks THEN "fail"
  ELSE IF "unmeasured" \in checks THEN "unmeasured" ELSE "pass"

\* build_report over the listing; without one (`seen` empty and `reason` set)
\* every check is unmeasured.
Report(seen, asOf, day, unavailable) ==
  LET reason  == IF unavailable THEN "unavailable" ELSE Reason(seen, asOf)
      rows    == IF unavailable THEN {} ELSE Rows(seen, asOf)
      missing == MissingCheck(rows, day, reason)
      first   == IF unavailable THEN "unmeasured" ELSE CollectionCheck(seen)
      \* a manifest that repeats a reference is not accepted
      unique  == IF reason = "none" THEN "pass" ELSE "unmeasured"
  IN [day |-> day, asOf |-> asOf, missing |-> missing,
      status |-> Worst({missing, first, unique,
                        FreshnessCheck(rows, asOf, reason)})]

\* The listing of the following load date ends the collection of evidence; the
\* store or its budgets may fail it at any point.
ListNextDay(unavailable) ==
  /\ At("listing")
  /\ LET next == Listed(job.day + 1)
         seen == [raw |-> job.seen.raw \cup next.raw,
                  manifests |-> job.seen.manifests \cup next.manifests]
     IN job' = [pc |-> "built", refresh |-> job.refresh, clone |-> job.clone,
                base |-> job.base,
                report |-> Report(seen, job.asOf, job.day, unavailable)]
  /\ UNCHANGED <<now, bucket, branch, inflight, jobs>>

\* _validate_public_report, for the day of the publishing step: the report was
\* evaluated on the day after its own.
Publishable(report, day) ==
  report.day = day /\ DayOf(report.asOf) = day + 1

\* publish_report: the first report of the day, or a recheck beside it.
WithReport(clone, report) ==
  IF clone[report.day].daily = {}
  THEN [clone EXCEPT ![report.day].daily = {report}]
  ELSE [clone EXCEPT ![report.day].rechecks = @ \cup {report}]

\* The publishing step commits and starts its push, has nothing to add, or
\* refuses a report that is not of its own day.
Commit ==
  LET day == DayOf(now) - 1 IN
  /\ At("built")
  /\ job' = IF /\ Publishable(job.report, day)
               /\ job.clone[day].daily = {} \/ job.refresh
               /\ WithReport(job.clone, job.report) # job.clone
            THEN [pc |-> "pushing", base |-> job.base,
                  tree |-> WithReport(job.clone, job.report)]
            ELSE Idle
  /\ UNCHANGED <<now, bucket, branch, inflight, jobs>>

\* The remote takes a push that extends its head, and refuses any other.
FastForward(base) == base = head

Lands(push) ==
  IF FastForward(push.base)
  THEN archive' = push.tree /\ head' = head + 1
  ELSE UNCHANGED branch

Push ==
  /\ At("pushing")
  /\ Lands(job)
  /\ job' = Idle
  /\ UNCHANGED <<now, bucket, inflight, jobs>>

\* The job times out or its runner is lost; a push under way may still arrive.
Kill ==
  /\ job # Idle
  /\ inflight' = IF At("pushing") THEN inflight \cup {job} ELSE inflight
  /\ job' = Idle
  /\ UNCHANGED <<now, bucket, branch, jobs>>

LatePush(push) ==
  /\ inflight' = inflight \ {push}
  /\ Lands(push)
  /\ UNCHANGED <<now, bucket, job, jobs>>

Next ==
  \/ Tick
  \/ \E g \in Grid, issue \in 0..now : LandRaw(g, issue)
  \/ \E refs \in SUBSET raw, complete \in BOOLEAN : LandManifest(refs, complete)
  \/ \E refresh \in BOOLEAN : Prepare(refresh)
  \/ ListDay
  \/ \E unavailable \in BOOLEAN : ListNextDay(unavailable)
  \/ Commit
  \/ Push
  \/ Kill
  \/ \E push \in inflight : LatePush(push)

Spec == Init /\ [][Next]_vars
-----------------------------------------------------------------------------
Reports(d) == archive[d].daily \cup archive[d].rechecks

Evidence(asOf) ==
  UNION {m.refs : m \in {x \in manifests : x.complete /\ x.at <= asOf}}

\* A day published as covered was: every grid of every issue of that day has a
\* raw object, landed by then, under a manifest completed by then, however the
\* collector moved between the two listings; and it was judged the day after.
\* A day published as passing was fresh in every grid.
PassIsEarned ==
  \A d \in Days : \A report \in Reports(d) :
    /\ DayOf(report.asOf) = d + 1
    /\ report.missing = "pass" =>
         \A slot \in Slots(d) : \E r \in Evidence(report.asOf) :
           <<r.grid, r.issue>> = slot /\ r \in raw /\ r.at <= report.asOf
    /\ report.status = "pass" =>
         \A g \in Grid : \E r \in Evidence(report.asOf) :
           r.grid = g /\ report.asOf <= r.issue + Fresh
=============================================================================
