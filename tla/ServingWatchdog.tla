--------------------------- MODULE ServingWatchdog ---------------------------
(* weather_serving_freshness_watchdog beside the hourly publication of one    *)
(* product: at :35 it reads the catalog and quality rows with one SELECT and  *)
(* the query-availability rows with a second one, judges their identities and *)
(* ages, and tries once more after five minutes.  Time is in minutes and      *)
(* stops at a few of them.                                                    *)
EXTENDS Integers, FiniteSets, FiniteSetsExt

CONSTANTS
    Moments,        \* bound: the minutes of an hour at which something happens
    Hours,          \* bound: the hours
    MaxFaults,      \* bound: D1 reads that fail, publications that fail
    None

Hour == 60
Period == 3         \* hours between two forecasts
At == 35            \* schedule "35 * * * *"
RetryDelay == 5
Slo == 240          \* freshness_slo_minutes
Latest == 28        \* "the maximum was 28.24"

Grace == 5
Retries_None == 0
Retries == 1

WatchAssumption ==
    /\ Moments \subseteq 0..Hour - 1 /\ Moments # {} /\ IsFiniteSet(Moments)
    /\ {Hours, MaxFaults} \subseteq Nat
    /\ \E m, n \in Moments : At <= m /\ m + RetryDelay <= n   \* both tries fall in the hour

VARIABLES
    now,
    kind,       \* "atomic", with query availability, or "replace"
    collected,  \* when the newest forecast was collected
    gold,       \* the forecast that the refresh of this hour started from
    pub,        \* the publication under way: [at, id, stamp, fresh, hour]
    catalog,    \* [id, stamp, fresh]
    quality,    \* [id, fresh]
    sidecar,    \* [id, fresh]
    previous,   \* the rows of before an activation
    watch,      \* the watchdog's run: [at, hour, try, checked, seen]
    verdict,    \* what the last run came to
    normal,     \* every collection and publication so far was in time
    faults

vars == <<now, kind, collected, gold, pub, catalog, quality, sidecar, previous, watch, verdict, normal, faults>>
d1 == <<catalog, quality, sidecar, previous>>
upstream == <<collected, gold>>

Minute == now % Hour
HourOf(t) == t \div Hour
Fault == faults < MaxFaults /\ faults' = faults + 1

NoPub == [at |-> "idle", id |-> None, stamp |-> None, fresh |-> None, hour |-> -1]
NoWatch(h, try) == [at |-> "wait", hour |-> h, try |-> try, checked |-> -1, seen |-> None]

\* A publication of the hour before the first one is served.
Init ==
    /\ now = Hour
    /\ kind \in {"atomic", "replace"}
    /\ collected = 20 /\ gold = 20
    /\ pub = NoPub
    /\ catalog = [id |-> 0, stamp |-> 28, fresh |-> 20]
    /\ quality = [id |-> 0, fresh |-> 20]
    /\ sidecar = [id |-> 0, fresh |-> 20]
    /\ previous = None
    /\ watch = NoWatch(1, 1)
    /\ verdict = "none"
    /\ normal = TRUE
    /\ faults = 0

\* One collection every third hour.
Collect ==
    /\ HourOf(now) % Period = 0 /\ HourOf(collected) # HourOf(now)
    /\ collected' = now
    /\ UNCHANGED <<now, kind, gold, pub, d1, watch, verdict, normal, faults>>

\* One publication an hour, of the forecast found at its beginning or later.
\* published_at is taken before the source is read.
StartPublication ==
    /\ pub.at = "idle" /\ pub.hour < HourOf(now)
    /\ \E fresh \in {gold, collected} :
         pub' = [at |-> "staged", id |-> HourOf(now), stamp |-> now, fresh |-> fresh, hour |-> HourOf(now)]
    /\ UNCHANGED <<now, kind, upstream, d1, watch, verdict, normal, faults>>

Active == [catalog |-> catalog, quality |-> quality, sidecar |-> sidecar]

\* An atomic publication brings query availability, and its publisher checks the
\* age of the oldest forecast in it; of a replacement it checks no age.
CompanionStale == kind = "atomic" /\ pub.stamp - pub.fresh > Slo

Refuse ==
    /\ pub.at = "staged" /\ CompanionStale
    /\ pub' = [NoPub EXCEPT !.hour = pub.hour]
    /\ normal' = FALSE
    /\ UNCHANGED <<now, kind, upstream, d1, watch, verdict, faults>>

\* The atomic activation, or the catalog row of the replace path.
Activate ==
    /\ pub.at = "staged" /\ ~CompanionStale
    /\ previous' = Active
    /\ catalog' = [id |-> pub.id, stamp |-> pub.stamp, fresh |-> pub.fresh]
    /\ IF kind = "atomic"
       THEN /\ quality' = [id |-> pub.id, fresh |-> pub.fresh]
            /\ sidecar' = [id |-> pub.id, fresh |-> pub.fresh]
       ELSE UNCHANGED <<quality, sidecar>>
    /\ pub' = [pub EXCEPT !.at = "active"]
    /\ UNCHANGED <<now, kind, upstream, watch, verdict, normal, faults>>

\* The evidence of the replace path, then the end of the publication.
Complete ==
    /\ pub.at = "active"
    /\ quality' = [id |-> pub.id, fresh |-> pub.fresh]
    /\ pub' = [NoPub EXCEPT !.hour = pub.hour]
    /\ previous' = None
    /\ UNCHANGED <<now, kind, upstream, catalog, sidecar, watch, verdict, normal, faults>>

\* The publication fails, before or after the activation, which is then undone.
Abandon ==
    /\ pub.at # "idle"
    /\ Fault
    /\ IF pub.at = "active"
       THEN catalog' = previous.catalog /\ quality' = previous.quality /\ sidecar' = previous.sidecar
       ELSE UNCHANGED <<catalog, quality, sidecar>>
    /\ pub' = [NoPub EXCEPT !.hour = pub.hour]
    /\ previous' = None
    /\ normal' = FALSE
    /\ UNCHANGED <<now, kind, upstream, watch, verdict>>

-----------------------------------------------------------------------------
\* checked_at, and then the first SELECT.
ReadEvidence ==
    /\ watch.at = "wait" /\ watch.hour <= Hours
    /\ now >= watch.hour * Hour + At
    /\ watch.try > 1 => now >= watch.checked + RetryDelay
    /\ watch' = [watch EXCEPT !.at = "evidence", !.checked = now, !.seen = [catalog |-> catalog, quality |-> quality]]
    /\ verdict' = "none"
    /\ UNCHANGED <<now, kind, upstream, pub, d1, normal, faults>>

\* Any active publication's query availability will do.
HasSidecar_OfProduct(seen) == TRUE
\* availability_by_identity: that of the publication in the catalog row.
HasSidecar(seen) == sidecar.id = seen.catalog.id

Age(t) == watch.checked - t

Issues(seen) ==
    {i \in {"publication_id_mismatch", "freshness_slo_breached", "catalog_quality_freshness_mismatch",
            "publication_interval_breached", "query_availability_publication_mismatch",
            "query_availability_freshness_slo_breached", "timestamp_in_future"} :
        CASE i = "publication_id_mismatch" -> seen.quality.id # seen.catalog.id
          [] i = "freshness_slo_breached" -> Age(seen.quality.fresh) > Slo
          [] i = "catalog_quality_freshness_mismatch" -> seen.catalog.fresh # seen.quality.fresh
          [] i = "publication_interval_breached" -> Age(seen.catalog.stamp) > Hour + Grace
          [] i = "query_availability_publication_mismatch" -> kind = "atomic" /\ ~HasSidecar(seen)
          [] i = "query_availability_freshness_slo_breached" ->
                kind = "atomic" /\ HasSidecar(seen) /\ Age(sidecar.fresh) > Slo
          [] i = "timestamp_in_future" -> Age(seen.catalog.stamp) < 0 \/ Age(seen.quality.fresh) < 0}

Again == watch.try <= Retries

\* A try without an issue ends the run, as does the last try.
Concluded(ok) ==
    IF ok THEN /\ verdict' = "green"
               /\ watch' = NoWatch(watch.hour + 1, 1)
    ELSE IF Again THEN watch' = [watch EXCEPT !.at = "wait", !.try = @ + 1, !.seen = None] /\ UNCHANGED verdict
    ELSE /\ verdict' = "red"
         /\ watch' = NoWatch(watch.hour + 1, 1)

\* The second SELECT, and the verdict.
Judge ==
    /\ watch.at = "evidence"
    /\ Concluded(Issues(watch.seen) = {})
    /\ UNCHANGED <<now, kind, upstream, pub, d1, normal, faults>>

\* A read of D1 fails.
ReadFails ==
    /\ watch.at = "evidence"
    /\ Fault
    /\ Concluded(FALSE)
    /\ normal' = (normal /\ watch.try = 1)
    /\ UNCHANGED <<now, kind, upstream, pub, d1>>

-----------------------------------------------------------------------------
NextMoment ==
    LET later == {m \in Moments : m > Minute}
    IN  IF later # {} THEN HourOf(now) * Hour + Min(later) ELSE (HourOf(now) + 1) * Hour + Min(Moments)

\* What should be done by now is done.
InTime ==
    /\ Minute >= Latest => pub.hour = HourOf(now) /\ pub.at = "idle"
    /\ HourOf(now) % Period = 0 /\ Minute = Max(Moments) => HourOf(collected) = HourOf(now)

\* Minutes do not pass while a try that is due is not begun, or while it reads.
Tick ==
    /\ NextMoment <= (Hours + 1) * Hour
    /\ watch.at = "wait"
    /\ watch.hour <= Hours => now < watch.hour * Hour + At \/ (watch.try > 1 /\ now < watch.checked + RetryDelay)
    /\ now' = NextMoment
    /\ gold' = IF HourOf(now') > HourOf(now) THEN collected ELSE gold
    /\ normal' = (normal /\ InTime)
    /\ UNCHANGED <<kind, collected, pub, d1, watch, verdict, faults>>

Next ==
    \/ Collect \/ StartPublication \/ Refuse \/ Activate \/ Complete \/ Abandon
    \/ ReadEvidence \/ Judge \/ ReadFails \/ Tick

Spec == Init /\ [][Next]_vars

-----------------------------------------------------------------------------
\* "avoids a normal publication race": while every collection and publication
\* is in time, no run is reported, a failed read included.
NormalIsQuiet == normal => verdict # "red"

\* "while still detecting one missed hourly cycle": when a run ends well, the
\* publication that it found in the catalog was begun in this hour, or so late
\* in the hour before that it was no normal one; and its own quality and
\* query-availability rows were served with it.
MissedCycleIsReported ==
    [][verdict' = "green" /\ verdict # "green" =>
          /\ watch.seen.catalog.stamp >= watch.hour * Hour \/ watch.seen.catalog.stamp % Hour > Latest
          /\ watch.seen.quality.id = watch.seen.catalog.id
          /\ kind = "atomic" => sidecar.id = watch.seen.catalog.id]_vars
=============================================================================
