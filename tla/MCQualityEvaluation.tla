------------------------ MODULE MCQualityEvaluation ------------------------
(* The quality evaluation over three dates.                                    *)
EXTENDS QualityEvaluation

CONSTANTS x, y

\* Taking the pool and the steps from the match to the summaries read neither
\* Bronze nor the clock, so both may as well move before or after them.
BronzeMayMove ==
    \A r \in Runs : run[r].phase \notin {"truth", "match", "score", "verify", "summary"}

\* The runs are used in the order of their identities.
InOrder(r) == \A p \in Runs : p < r => run[p].phase # "unused"

\* The run starts after the dates on which the forecasts were due: either issue
\* came on time, or comes in later, or never does.
OnTime == {[date |-> 2, issue |-> 20, load |-> 1], [date |-> 2, issue |-> 23, load |-> 2]}

MCInit == \E due \in SUBSET OnTime : InitWith(due)

\* Observations and the late issue of the middle date, backfills of it.
MCNext ==
    \/ BronzeMayMove /\ Tick
    \/ \E rev \in Revisions : BronzeMayMove /\ LandObservation(2, rev, TRUE)
    \/ BronzeMayMove /\ LandObservation(2, x, FALSE)
    \/ BronzeMayMove /\ LandForecast(2, 23)
    \/ \E r \in Runs :
          \/ InOrder(r) /\ ResolveDaily(r)
          \/ InOrder(r) /\ ResolveBackfill(r, 2)
          \/ InOrder(r) /\ BeginCandidate(r)
          \/ InOrder(r) /\ BuildTruth(r)
          \/ InOrder(r) /\ BuildVintage(r)
          \/ InOrder(r) /\ BuildMatch(r)
          \/ InOrder(r) /\ BuildScores(r)
          \/ InOrder(r) /\ Verify(r)
          \/ InOrder(r) /\ Refuse(r)
          \/ InOrder(r) /\ BuildSummaries(r)
          \/ InOrder(r) /\ RetryCandidate(r)
          \/ InOrder(r) /\ FailCandidate(r)
          \/ InOrder(r) /\ PublishManifest(r)
          \/ InOrder(r) /\ PublishManifestUnanswered(r)
          \/ InOrder(r) /\ BuildPublished(r)
          \/ InOrder(r) /\ Abandon(r)

MCSpec == MCInit /\ [][MCNext]_vars
=============================================================================
