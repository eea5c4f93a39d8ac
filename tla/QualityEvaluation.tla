-------------------------- MODULE QualityEvaluation --------------------------
(***************************************************************************)
(* The internal forecast-quality evaluation.  Two DAGs (the daily one over *)
(* the last RepairDays complete dates, the backfill of one past date)      *)
(* freeze a window and an evaluation_as_of, build a candidate (truth,      *)
(* vintages, match, grid scores, reconciliation, summaries) in one dbt     *)
(* task that takes the whole heavy pool, record SUCCESS in a manifest and  *)
(* (re)create the views, which show, for each date, the history rows of    *)
(* the best recorded run.                                                  *)
(*                                                                         *)
(* Time is counted in half days: tick t lies on the KST date t \div 2.     *)
(* One grid, one variable, one hour of the day (23:00, where the windows   *)
(* are tightest) and the D-1 horizon stand for the whole population.       *)
(***************************************************************************)
EXTENDS Integers, FiniteSets, Sequences

CONSTANTS
    LastDate,       \* dates are 1..LastDate
    RepairDays,     \* QUALITY_REPAIR_DAYS: dates of a daily window
    Lookback,       \* FORECAST_LOAD_LOOKBACK_DAYS
    Runs,           \* identities of the DAG runs, naturals
    Revisions,      \* payload revisions of an observation
    InvalidRevisions,
    MaxTries,       \* a dbt task's tries
    FirstTick, LastTick, MaxLandings,   \* bounds
    None

ASSUME QualityAssumption ==
    /\ RepairDays \in Nat \ {0} /\ Lookback \in Nat \ {0}
    /\ Runs \subseteq Nat /\ None \notin Runs /\ InvalidRevisions \subseteq Revisions
    /\ FirstTick \in Nat /\ LastTick >= FirstTick

VARIABLES
    now,
    observations,  \* Bronze kma_ultra_srt_ncst, one record per collecting run
    forecasts,     \* Bronze kma_vilage_fcst of publishable runs
    truth, vintage, match, score, daily,   \* the quality tables
    manifest,      \* the publication manifest's SUCCESS rows, in insertion order
    views,         \* the published views exist
    pool,          \* the run whose task holds the heavy pool
    run            \* run[r]: phase, frozen window, as-of, try

vars == <<now, observations, forecasts, truth, vintage, match, score, daily,
          manifest, views, pool, run>>

tables == <<truth, vintage, match, score, daily>>

Dates == 1..LastDate
Day(t) == t \div 2
Building == {"truth", "vintage", "match", "score", "verify", "summary"}
Ended == {"unused", "ready", "failed", "refused"}

\* The two DAGs' only difference after the window is frozen is their own
\* max_active_runs = 1.
Idle(kind) == \A r \in Runs : run[r].kind = kind => run[r].phase \in Ended

\* MERGE INTO old USING rows ON the key of both.
Merge(old, rows, Key(_)) == {x \in old : \A y \in rows : Key(x) # Key(y)} \cup rows

EvaluationKey(x) == <<x.run, x.date>>
TruthKey(x) == <<x.date, x.rev>>

Window(r) == run[r].start .. run[r].end

-----------------------------------------------------------------------------
(* Freezing the window.  The as-of is the day after the window's end at    *)
(* the current time of day: now for a daily run, the past for a backfill.  *)

EvaluationAsOf(end) == 2 * (end + 1) + (now % 2)

Freeze(r, kind, start, end) ==
    /\ run[r].phase = "unused"
    /\ Idle(kind)
    /\ start \in Dates /\ end \in Dates
    /\ run' = [run EXCEPT ![r] = [phase |-> "waiting", kind |-> kind, try |-> 1,
                                  start |-> start, end |-> end,
                                  asof |-> EvaluationAsOf(end)]]
    /\ UNCHANGED <<now, observations, forecasts, tables, manifest, views, pool>>

ResolveDaily(r) ==
    /\ Day(now) > RepairDays
    /\ Freeze(r, "daily", Day(now) - RepairDays, Day(now) - 1)

\* A confirmed backfill of one complete past date.
ResolveBackfill(r, d) ==
    /\ d < Day(now)
    /\ Freeze(r, "backfill", d, d)

-----------------------------------------------------------------------------
(* The candidate task.                                                     *)

Moves(r, from, to) ==
    /\ run[r].phase = from
    /\ run' = [run EXCEPT ![r].phase = to]

\* A plausible fault: the candidate task takes one slot of the pool, not all.
TakesPool_OneSlot(r) == pool' = r

TakesPool(r) == pool = None /\ pool' = r

BeginCandidate(r) ==
    /\ Moves(r, "waiting", "truth")
    /\ TakesPool(r)
    /\ UNCHANGED <<now, observations, forecasts, tables, manifest, views>>

\* complete_runs: a run with every grid and category, all of it collected by
\* the as-of.
CompleteRuns(r, d) ==
    {o \in observations : o.date = d /\ o.whole /\ o.at <= run[r].asof}

Latest(S) == {x \in S : \A y \in S : y.at <= x.at}

\* selected_runs: the latest complete run of each date of the window.
BuildTruth(r) ==
    /\ Moves(r, "truth", "vintage")
    /\ LET selected == UNION {Latest(CompleteRuns(r, d)) : d \in Window(r)}
       IN  truth' = Merge(truth, {[date |-> o.date, rev |-> o.rev, at |-> o.at] :
                                     o \in selected}, TruthKey)
    /\ UNCHANGED <<now, observations, forecasts, vintage, match, score, daily,
                   manifest, views, pool>>

\* A plausible fault: the load range stops one date early.
ForecastLoads_StopsEarly(r) == (run[r].start - Lookback) .. (run[r].end - 2)

\* The Bronze load dates a run reads, and the vintage it keeps of them: the
\* merge key holds the issue, so every issue ever loaded stays.
ForecastLoads(r) == (run[r].start - Lookback) .. (run[r].end - 1)

BuildVintage(r) ==
    /\ Moves(r, "vintage", "match")
    /\ vintage' = vintage \cup
          {[date |-> f.date, issue |-> f.issue] :
              f \in {g \in forecasts : g.load \in ForecastLoads(r)}}
    /\ UNCHANGED <<now, observations, forecasts, truth, match, score, daily,
                   manifest, views, pool>>

\* truth_rank and candidate_rank: the latest truth the as-of can see, the
\* newest issue inside the horizon's tolerance.
SelectedTruth(r, d) == Latest({t \in truth : t.date = d /\ t.at <= run[r].asof})
SelectedForecast(d) ==
    {v \in vintage : v.date = d /\ \A w \in vintage : w.date = d => w.issue <= v.issue}

\* match_state: the first reason that applies.
MatchState(t, f) ==
    CASE t = {} -> "missing_truth"
      [] t # {} /\ f = {} -> "missing_vintage"
      [] t # {} /\ f # {} /\ (\E x \in t : x.rev \in InvalidRevisions) -> "invalid_truth"
      [] OTHER -> "matched"

\* The row of the expected population: present whatever is missing.
Row(r, d) ==
    LET t == SelectedTruth(r, d)
        f == SelectedForecast(d)
    IN  [run |-> r, date |-> d, asof |-> run[r].asof,
         revs |-> {x.rev : x \in t}, issues |-> {x.issue : x \in f},
         state |-> MatchState(t, f)]

BuildMatch(r) ==
    /\ Moves(r, "match", "score")
    /\ match' = Merge(match, {Row(r, d) : d \in Window(r)}, EvaluationKey)
    /\ UNCHANGED <<now, observations, forecasts, truth, vintage, score, daily,
                   manifest, views, pool>>

BuildScores(r) ==
    /\ Moves(r, "score", "verify")
    /\ score' = Merge(score, {m \in match : m.run = r}, EvaluationKey)
    /\ UNCHANGED <<now, observations, forecasts, truth, vintage, match, daily,
                   manifest, views, pool>>

\* assert_quality_grid_score_reconciles compares the two whole tables, the
\* rows of every other run included.
Counts(table) == {<<x.run, x.date, x.state>> : x \in table}
Reconciles(r) == Counts(match) = Counts(score)

Verify(r) ==
    /\ Moves(r, "verify", "summary")
    /\ Reconciles(r)
    /\ UNCHANGED <<now, observations, forecasts, tables, manifest, views, pool>>

\* A failed data test is a contract violation: no retry.
Refuse(r) ==
    /\ run[r].phase = "verify"
    /\ run' = [run EXCEPT ![r].phase = "refused", ![r].try = 0]
    /\ ~Reconciles(r)
    /\ pool' = None
    /\ UNCHANGED <<now, observations, forecasts, tables, manifest, views>>

\* The hourly and daily histories, the end of the candidate task.
BuildSummaries(r) ==
    /\ run[r].phase = "summary"
    /\ run' = [run EXCEPT ![r].phase = "candidate", ![r].try = 0]
    /\ daily' = Merge(daily, {s \in score : s.run = r}, EvaluationKey)
    /\ pool' = None
    /\ UNCHANGED <<now, observations, forecasts, truth, vintage, match, score,
                   manifest, views>>

\* The candidate task fails between two models: what the finished ones merged
\* stays.  A failure classified as transient is retried while tries last ...
RetryCandidate(r) ==
    /\ run[r].phase \in Building
    /\ run[r].try < MaxTries
    /\ run' = [run EXCEPT ![r].phase = "waiting", ![r].try = @ + 1]
    /\ pool' = None
    /\ UNCHANGED <<now, observations, forecasts, tables, manifest, views>>

\* ... any other, and the timeout of the DAG run, end it.
FailCandidate(r) ==
    /\ run[r].phase \in Building
    /\ run' = [run EXCEPT ![r].phase = "failed", ![r].try = 0]
    /\ pool' = None
    /\ UNCHANGED <<now, observations, forecasts, tables, manifest, views>>

-----------------------------------------------------------------------------
(* Publication: a manifest row, then the views, then the asset event.      *)

Recorded(r) == \E i \in DOMAIN manifest : manifest[i].run = r

Record(r) ==
    manifest' = IF Recorded(r) THEN manifest
                ELSE Append(manifest, [run |-> r, asof |-> run[r].asof,
                                       start |-> run[r].start, end |-> run[r].end])

PublishManifest(r) ==
    /\ Moves(r, "candidate", "recorded")
    /\ pool = None
    /\ Record(r)
    /\ UNCHANGED <<now, observations, forecasts, tables, views, pool>>

\* The task has no retry: an insert whose answer is lost ends the run with
\* its row in place.
PublishManifestUnanswered(r) ==
    /\ Moves(r, "candidate", "failed")
    /\ pool = None
    /\ Record(r)
    /\ UNCHANGED <<now, observations, forecasts, tables, views, pool>>

BuildPublished(r) ==
    /\ Moves(r, "recorded", "ready")
    /\ pool = None
    /\ views' = TRUE
    /\ UNCHANGED <<now, observations, forecasts, tables, manifest, pool>>

\* The run is timed out, or a task after the candidate fails for good.
Abandon(r) ==
    /\ run[r].phase \in {"waiting", "candidate", "recorded"}
    /\ run' = [run EXCEPT ![r].phase = "failed", ![r].try = 0]
    /\ UNCHANGED <<now, observations, forecasts, tables, manifest, views, pool>>

-----------------------------------------------------------------------------
(* The environment: time, and Bronze rows arriving.  Bronze observations   *)
(* carry the time of collection, forecasts the KST date of theirs.         *)

Tick ==
    /\ now < LastTick
    /\ now' = now + 1
    /\ UNCHANGED <<observations, forecasts, tables, manifest, views, pool, run>>

Landings == Cardinality(observations) + Cardinality(forecasts)

LandObservation(d, rev, whole) ==
    /\ Landings < MaxLandings
    /\ now > 2 * d
    /\ \A o \in observations : o.date = d => o.at # now
    /\ observations' = observations \cup
          {[date |-> d, at |-> now, rev |-> rev, whole |-> whole]}
    /\ UNCHANGED <<now, forecasts, tables, manifest, views, pool, run>>

\* Issue 20 of the day before is collected that evening, issue 23 after
\* midnight; a repair brings either in later.
LandForecast(d, issue) ==
    /\ Landings < MaxLandings
    /\ now >= IF issue = 20 THEN 2 * d - 1 ELSE 2 * d
    /\ forecasts' = forecasts \cup {[date |-> d, issue |-> issue, load |-> Day(now)]}
    /\ forecasts' # forecasts
    /\ UNCHANGED <<now, observations, tables, manifest, views, pool, run>>

-----------------------------------------------------------------------------
InitWith(loaded) ==
    /\ now = FirstTick
    /\ observations = {} /\ forecasts = loaded
    /\ truth = {} /\ vintage = {} /\ match = {} /\ score = {} /\ daily = {}
    /\ manifest = <<>>
    /\ views = FALSE
    /\ pool = None
    /\ run = [r \in Runs |-> [phase |-> "unused", kind |-> "none", try |-> 0,
                              start |-> 0, end |-> 0, asof |-> 0]]

Init == InitWith({})

Step(r) ==
    \/ ResolveDaily(r) \/ \E d \in Dates : ResolveBackfill(r, d)
    \/ BeginCandidate(r) \/ BuildTruth(r) \/ BuildVintage(r) \/ BuildMatch(r)
    \/ BuildScores(r) \/ Verify(r) \/ Refuse(r) \/ BuildSummaries(r)
    \/ RetryCandidate(r) \/ FailCandidate(r)
    \/ PublishManifest(r) \/ PublishManifestUnanswered(r) \/ BuildPublished(r)
    \/ Abandon(r)

Next ==
    \/ Tick
    \/ \E d \in Dates, rev \in Revisions, whole \in BOOLEAN : LandObservation(d, rev, whole)
    \/ \E d \in Dates, issue \in {20, 23} : LandForecast(d, issue)
    \/ \E r \in Runs : Step(r)

Spec == Init /\ [][Next]_vars

-----------------------------------------------------------------------------
(* What the views show for a date: the history rows of the run ranked      *)
(* first among the recorded runs whose window holds it.                    *)

Covers(i, d) == manifest[i].start <= d /\ d <= manifest[i].end

\* evaluation_as_of desc, published_at desc (the run id never decides).
Outranks(i, j) ==
    \/ manifest[i].asof > manifest[j].asof
    \/ manifest[i].asof = manifest[j].asof /\ i >= j

ShownRun(d) ==
    {manifest[i].run : i \in {k \in DOMAIN manifest :
        Covers(k, d) /\ \A j \in DOMAIN manifest : Covers(j, d) => Outranks(k, j)}}

Shown(d) == {h \in daily : h.date = d /\ h.run \in ShownRun(d)}

\* No hindsight, and nothing overlooked: a row's truth is the last complete
\* observation its as-of could see, whatever other runs merged meanwhile.
TruthOfItsTime(h) ==
    LET seen == {o \in observations : o.date = h.date /\ o.whole /\ o.at < h.asof}
        edge == {o \in observations : o.date = h.date /\ o.whole /\ o.at = h.asof}
    IN  \/ h.revs = {o.rev : o \in Latest(seen)}
        \/ h.revs = {o.rev : o \in edge} /\ edge # {}

\* Once a run has announced itself, the views show every date of its window by
\* one row, which reconciles with the grid scores, is at least as recent and was
\* computed from the truth of its time.
AnnouncedIsShown ==
    \A r \in Runs : run[r].phase = "ready" =>
        /\ views
        /\ \A d \in Window(r) : \E h \in Shown(d) :
              Shown(d) = {h} /\ h \in score /\ h.asof >= run[r].asof /\ TruthOfItsTime(h)

\* A date before the window's last is scored on the newest issue collected
\* by then (the last date of the window misses the issue of 23:00, which is
\* collected on the date itself).
ScoredOnNewestIssue ==
    \A h \in daily : h.date < run[h.run].end =>
        \A f \in forecasts : f.date = h.date /\ f.load <= h.date =>
            \E i \in h.issues : i >= f.issue
=============================================================================
