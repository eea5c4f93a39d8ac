----------------------- MODULE QualityEvaluationProofs -----------------------
(* Proofs about the forecast-quality evaluation: for any number of runs of the  *)
(* two DAGs, any dates and windows, any landings beside them.                   *)
(*                                                                              *)
(* What a view shows of a date was written by one candidate task, retried or    *)
(* not, of one run, beside others that were failing, retrying or announcing     *)
(* themselves.  The invariant follows one run through its task: what it has     *)
(* read holds for its as-of however Bronze moves on, and what it has written no *)
(* other run touches.                                                           *)
EXTENDS QualityEvaluation, FiniteSetTheorems, WellFoundedInduction, TLAPS

Phases == Building \cup Ended \cup {"waiting", "candidate", "recorded"}

Shape ==
  /\ now \in Nat
  /\ observations \subseteq [date : Int, at : Int, rev : Revisions, whole : BOOLEAN]
  /\ IsFiniteSet(observations)
  /\ forecasts \subseteq [date : Int, issue : {20, 23}, load : Int]
  /\ vintage \subseteq [date : Int, issue : {20, 23}]
  /\ manifest \in Seq([run : Runs, asof : Int, start : Int, end : Int])
  /\ views \in BOOLEAN
  /\ pool \in Runs \cup {None}
  /\ run \in [Runs -> [phase : Phases, kind : {"none", "daily", "backfill"}, try : Nat,
                       start : Int, end : Int, asof : Int]]

\* Bronze: one observation of a date at a time, and no forecast loaded more than
\* a day before its date; a truth is an observation.
Archived(t) == \E o \in observations : o.whole /\ o.date = t.date /\ o.rev = t.rev /\ o.at = t.at

Archive ==
  /\ \A o, p \in observations : o.date = p.date /\ o.at = p.at => o = p
  /\ \A f \in forecasts : f.date - 1 <= f.load
  /\ \A t \in truth : Archived(t)

PoolHeld == \A r \in Runs : pool = r <=> run[r].phase \in Building

Frozen(r) == run[r].phase # "unused" => run[r].end < Day(now) /\ run[r].asof <= now

\* The revisions that an evaluation of a date as of a time has to hold.
TruthFor(d, asof, revs) ==
  LET seen == {o \in observations : o.date = d /\ o.whole /\ o.at < asof}
      edge == {o \in observations : o.date = d /\ o.whole /\ o.at = asof}
  IN  \/ revs = {o.rev : o \in Latest(seen)}
      \/ revs = {o.rev : o \in edge} /\ edge # {}

NewestIssue(x) ==
  x.date < run[x.run].end =>
    \A f \in forecasts : f.date = x.date /\ f.load <= x.date => \E i \in x.issues : i >= f.issue

\* A row of the evaluation, in whichever table and from whichever try.
Sound(x) ==
  /\ x.run \in Runs /\ run[x.run].phase # "unused" /\ x.date \in Window(x.run)
  /\ x.asof = run[x.run].asof
  /\ TruthFor(x.date, x.asof, x.revs)
  /\ NewestIssue(x)

Results == \A x \in match \cup score \cup daily : Sound(x)

OfRun(table, r, d) == {x \in table : x.run = r /\ x.date = d}
Single(rows) == \E h : rows = {h}

Finished == {"candidate", "recorded", "ready"}

\* What a run has read and written at each phase.
Stages(r) ==
  /\ run[r].phase \in {"vintage", "match"} =>
       \A d \in Window(r) : TruthFor(d, run[r].asof, {t.rev : t \in SelectedTruth(r, d)})
  /\ run[r].phase = "match" =>
       \A f \in forecasts : f.load \in ForecastLoads(r) =>
         \E v \in vintage : v.date = f.date /\ v.issue = f.issue
  /\ run[r].phase \in {"score", "verify", "summary"} =>
       \A d \in Window(r) : Single(OfRun(match, r, d))
  /\ run[r].phase \in {"verify", "summary"} =>
       \A d \in Window(r) : OfRun(score, r, d) = OfRun(match, r, d)
  /\ run[r].phase \in Finished \/ Recorded(r) =>
       \A d \in Window(r) : Single(OfRun(score, r, d)) /\ OfRun(daily, r, d) = OfRun(score, r, d)
  /\ run[r].phase \in {"recorded", "ready"} => Recorded(r)
  /\ Recorded(r) => run[r].phase \in {"recorded", "ready", "failed"}
  /\ run[r].phase = "ready" => views = TRUE

\* The manifest: each row as its run was frozen, and for every date that one
\* covers, one that ranks first.
Ranked(d) ==
  (\E i \in DOMAIN manifest : Covers(i, d)) =>
    \E k \in DOMAIN manifest : Covers(k, d) /\ \A j \in DOMAIN manifest : Covers(j, d) => Outranks(k, j)

Entries ==
  /\ \A i \in DOMAIN manifest :
       LET e == manifest[i]
       IN  e.asof = run[e.run].asof /\ e.start = run[e.run].start /\ e.end = run[e.run].end
           /\ run[e.run].phase # "unused"
  /\ \A d \in Int : Ranked(d)

IInv ==
  /\ Shape /\ Archive /\ PoolHeld /\ Results /\ Entries
  /\ \A r \in Runs : Frozen(r) /\ Stages(r)

-----------------------------------------------------------------------------
(* Lemmas on the operators.                                                  *)

LEMMA Days ==
  ASSUME NEW n \in Nat
  PROVE  /\ Day(n) \in Nat /\ Day(n) <= Day(n + 1) /\ n = 2 * Day(n) + (n % 2)
         /\ n % 2 \in {0, 1} /\ \A k \in Int : n >= 2 * k - 1 => k - 1 <= Day(n)
BY DEF Day

\* Of finitely many observations some is the latest.
LEMMA HasLatest ==
  ASSUME NEW S, IsFiniteSet(S), S # {}, \A x \in S : x.at \in Int
  PROVE  Latest(S) # {}
<1> DEFINE After(x) == {y \in S : y.at > x.at}
           Sets == {After(x) : x \in S}
<1>1. IsWellFoundedOn(StrictSubsetOrdering(S), SUBSET S)
  BY FS_StrictSubsetOrderingWellFounded, FS_FiniteSubsetsOfFinite
<1>2. Sets \subseteq SUBSET S /\ Sets # {}
  OBVIOUS
<1>3. PICK least \in Sets : \A other \in Sets : ~ (<<other, least>> \in StrictSubsetOrdering(S))
  <2> HIDE DEF Sets
  <2>1. QED
    BY <1>1, <1>2, WFMin
<1>4. PICK x \in S : least = After(x)
  BY <1>3
<1>5. ASSUME NEW y \in S, ~(y.at <= x.at) PROVE FALSE
  <2>1. After(y) \subseteq After(x) /\ y \in After(x) /\ y \notin After(y)
    BY <1>5
  <2>2. <<After(y), least>> \in StrictSubsetOrdering(S)
    BY <1>4, <2>1 DEF StrictSubsetOrdering
  <2>3. QED
    BY <1>3, <2>2
<1>6. QED
  BY <1>5 DEF Latest

\* Merging the rows of one run replaces its rows of their dates, and leaves the
\* rows of the other runs alone.
MergesRun(new, old, rows, r) ==
  /\ \A q, d : q # r => OfRun(new, q, d) = OfRun(old, q, d)
  /\ \A d : OfRun(rows, r, d) # {} => OfRun(new, r, d) = OfRun(rows, r, d)
  /\ new \subseteq old \cup rows

LEMMA MergeOfRun ==
  ASSUME NEW old, NEW rows, NEW r, \A x \in rows : x.run = r
  PROVE  MergesRun(Merge(old, rows, EvaluationKey), old, rows, r)
<1> DEFINE new == Merge(old, rows, EvaluationKey)
<1>1. new = {x \in old : \A y \in rows : <<x.run, x.date>> # <<y.run, y.date>>} \cup rows
  BY DEF Merge, EvaluationKey
<1>2. \A q, d : q # r => OfRun(new, q, d) = OfRun(old, q, d)
  BY <1>1 DEF OfRun
<1>3. \A d : OfRun(rows, r, d) # {} => OfRun(new, r, d) = OfRun(rows, r, d)
  BY <1>1 DEF OfRun
<1>4. QED
  BY <1>1, <1>2, <1>3 DEF MergesRun

-----------------------------------------------------------------------------
(* A step of one run.                                                        *)

\* The step of a run that is under way leaves the others and its window alone.
StepOf(r) ==
  /\ run' \in [Runs -> [phase : Phases, kind : {"none", "daily", "backfill"}, try : Nat,
                        start : Int, end : Int, asof : Int]]
  /\ \A q \in Runs \ {r} : run'[q] = run[q]
  /\ run'[r].start = run[r].start /\ run'[r].end = run[r].end /\ run'[r].asof = run[r].asof
  /\ run[r].phase # "unused" /\ run'[r].phase # "unused"

LEMMA StepKeepsWindows ==
  ASSUME NEW r \in Runs, StepOf(r)
  PROVE  \A q \in Runs : /\ Window(q)' = Window(q) /\ ForecastLoads(q)' = ForecastLoads(q)
                         /\ run'[q].start = run[q].start /\ run'[q].end = run[q].end
                         /\ run'[q].asof = run[q].asof
                         /\ run'[q].phase = "unused" <=> run[q].phase = "unused"
<1>1. \A q \in Runs : /\ run'[q].start = run[q].start /\ run'[q].end = run[q].end
                      /\ run'[q].asof = run[q].asof
                      /\ run'[q].phase = "unused" <=> run[q].phase = "unused"
  BY DEF StepOf
<1>2. QED
  BY <1>1 DEF Window, ForecastLoads

\* A phase and a try change.
LEMMA PhaseStep ==
  ASSUME Shape, NEW r \in Runs, NEW to \in Phases, NEW try \in Nat, run[r].phase # "unused", to # "unused",
         run' = [run EXCEPT ![r].phase = to] \/ run' = [run EXCEPT ![r].phase = to, ![r].try = try]
  PROVE  StepOf(r) /\ run'[r].phase = to
<1> DEFINE Record_ == [phase : Phases, kind : {"none", "daily", "backfill"}, try : Nat,
                       start : Int, end : Int, asof : Int]
           moved == [run[r] EXCEPT !.phase = to]
           tried == [run[r] EXCEPT !.phase = to, !.try = try]
<1>1. run[r] \in Record_
  BY DEF Shape
<1>2. /\ moved \in Record_ /\ moved.phase = to /\ moved.start = run[r].start /\ moved.end = run[r].end
      /\ moved.asof = run[r].asof
  BY <1>1
<1>3. /\ tried \in Record_ /\ tried.phase = to /\ tried.start = run[r].start /\ tried.end = run[r].end
      /\ tried.asof = run[r].asof
  BY <1>1
<1>4. run' = [run EXCEPT ![r] = moved] \/ run' = [run EXCEPT ![r] = tried]
  OBVIOUS
<1>5. run \in [Runs -> Record_]
  BY DEF Shape
<1> HIDE DEF moved, tried
<1>6. run' \in [Runs -> Record_] /\ run'[r] \in {moved, tried} /\ \A q \in Runs \ {r} : run'[q] = run[q]
  BY <1>2, <1>3, <1>4, <1>5
<1>7. QED
  BY <1>2, <1>3, <1>6 DEF StepOf

\* The pool is taken, kept or given back.
LEMMA PoolMoves ==
  ASSUME Shape, PoolHeld, NEW r \in Runs, StepOf(r),
         \/ pool = None /\ pool' = r /\ run'[r].phase \in Building
         \/ run[r].phase \in Building /\ UNCHANGED pool /\ run'[r].phase \in Building
         \/ run[r].phase \in Building /\ pool' = None /\ run'[r].phase \notin Building
         \/ run[r].phase \notin Building /\ UNCHANGED pool /\ run'[r].phase \notin Building
  PROVE  PoolHeld' /\ pool' \in Runs \cup {None}
<1>1. \A q \in Runs : q # None
  BY QualityAssumption
<1>2. \A q \in Runs \ {r} : run'[q].phase = run[q].phase
  BY DEF StepOf
<1>3. QED
  BY <1>1, <1>2 DEF PoolHeld, Shape

\* A row stays sound while Bronze stands and its run's window is what it was.
LEMMA SoundStays ==
  ASSUME NEW r \in Runs, StepOf(r), UNCHANGED <<observations, forecasts>>, NEW x, Sound(x)
  PROVE  Sound(x)'
<1>1. x.run \in Runs
  BY DEF Sound
<1>2. /\ Window(x.run)' = Window(x.run) /\ run'[x.run].end = run[x.run].end
      /\ run'[x.run].asof = run[x.run].asof /\ run'[x.run].phase # "unused"
  BY <1>1, StepKeepsWindows DEF Sound
<1>3. TruthFor(x.date, x.asof, x.revs)' /\ NewestIssue(x)'
  BY <1>2 DEF Sound, TruthFor, NewestIssue
<1>4. QED
  BY <1>1, <1>2, <1>3 DEF Sound

\* The other runs keep what they have read and written.
LEMMA OthersStay ==
  ASSUME IInv, NEW r \in Runs, StepOf(r), UNCHANGED <<now, observations, forecasts>>,
         UNCHANGED truth \/ pool = r, vintage \subseteq vintage',
         \A q \in Runs \ {r} : \A d : /\ OfRun(match', q, d) = OfRun(match, q, d)
                                      /\ OfRun(score', q, d) = OfRun(score, q, d)
                                      /\ OfRun(daily', q, d) = OfRun(daily, q, d),
         \A q \in Runs \ {r} : Recorded(q)' <=> Recorded(q),
         views' \in {views, TRUE},
         NEW q \in Runs \ {r}
  PROVE  Frozen(q)' /\ Stages(q)'
<1>1. /\ run'[q] = run[q] /\ Window(q)' = Window(q) /\ ForecastLoads(q)' = ForecastLoads(q)
      /\ Recorded(q)' <=> Recorded(q)
  BY StepKeepsWindows DEF StepOf
<1>2. Frozen(q) /\ Stages(q)
  BY DEF IInv
<1>3. Frozen(q)'
  BY <1>1, <1>2 DEF Frozen
<1>4. run[q].phase \in {"vintage", "match"} => UNCHANGED truth
  BY DEF IInv, PoolHeld, Building
<1>5. run'[q].phase \in {"vintage", "match"} =>
        \A d \in Window(q)' : TruthFor(d, run[q].asof, {t.rev : t \in SelectedTruth(q, d)})'
  <2>1. SUFFICES ASSUME run[q].phase \in {"vintage", "match"}, NEW d \in Window(q)
                 PROVE  TruthFor(d, run[q].asof, {t.rev : t \in SelectedTruth(q, d)})'
    BY <1>1
  <2>2. SelectedTruth(q, d)' = SelectedTruth(q, d)
    BY <1>1, <1>4, <2>1 DEF SelectedTruth
  <2>3. TruthFor(d, run[q].asof, {t.rev : t \in SelectedTruth(q, d)})
    BY <1>2, <2>1 DEF Stages
  <2>4. QED
    BY <1>1, <2>2, <2>3 DEF TruthFor
<1>6. run'[q].phase = "match" =>
        \A f \in forecasts' : f.load \in ForecastLoads(q)' =>
          \E v \in vintage' : v.date = f.date /\ v.issue = f.issue
  BY <1>1, <1>2 DEF Stages
<1>7. /\ run'[q].phase \in {"score", "verify", "summary"} =>
           \A d \in Window(q)' : Single(OfRun(match', q, d))
      /\ run'[q].phase \in {"verify", "summary"} =>
           \A d \in Window(q)' : OfRun(score', q, d) = OfRun(match', q, d)
      /\ run'[q].phase \in Finished \/ Recorded(q)' =>
           \A d \in Window(q)' : Single(OfRun(score', q, d)) /\ OfRun(daily', q, d) = OfRun(score', q, d)
  <2>1. \A d : /\ OfRun(match', q, d) = OfRun(match, q, d)
               /\ OfRun(score', q, d) = OfRun(score, q, d)
               /\ OfRun(daily', q, d) = OfRun(daily, q, d)
    OBVIOUS
  <2>2. run[q].phase \in Finished \/ Recorded(q)' => run[q].phase \in Finished \/ Recorded(q)
    BY <1>1
  <2>3. SUFFICES ASSUME NEW d \in Window(q)
                 PROVE  /\ run[q].phase \in {"score", "verify", "summary"} => Single(OfRun(match', q, d))
                        /\ run[q].phase \in {"verify", "summary"} => OfRun(score', q, d) = OfRun(match', q, d)
                        /\ run[q].phase \in Finished \/ Recorded(q)' =>
                             Single(OfRun(score', q, d)) /\ OfRun(daily', q, d) = OfRun(score', q, d)
    BY <1>1
  <2>4. /\ run[q].phase \in {"score", "verify", "summary"} => Single(OfRun(match, q, d))
        /\ run[q].phase \in {"verify", "summary"} => OfRun(score, q, d) = OfRun(match, q, d)
        /\ run[q].phase \in Finished \/ Recorded(q) =>
             Single(OfRun(score, q, d)) /\ OfRun(daily, q, d) = OfRun(score, q, d)
    BY <1>2 DEF Stages
  <2>5. QED
    BY <2>1, <2>2, <2>4
<1>8. /\ run'[q].phase \in {"recorded", "ready"} => Recorded(q)'
      /\ Recorded(q)' => run'[q].phase \in {"recorded", "ready", "failed"}
      /\ run'[q].phase = "ready" => views' = TRUE
  BY <1>1, <1>2 DEF Stages
<1>9. Stages(q)'
  BY <1>1, <1>5, <1>6, <1>7, <1>8 DEF Stages, OfRun
<1>10. QED
  BY <1>3, <1>9

LEMMA EntryTypes ==
  ASSUME Shape, NEW i \in DOMAIN manifest
  PROVE  /\ manifest[i].run \in Runs /\ manifest[i].asof \in Int
         /\ manifest[i].start \in Int /\ manifest[i].end \in Int
         /\ i \in Int
<1> DEFINE E == [run : Runs, asof : Int, start : Int, end : Int]
<1>1. manifest \in Seq(E)
  BY DEF Shape
<1> HIDE DEF E
<1>2. manifest[i] \in E /\ i \in Int
  BY <1>1
<1>3. QED
  BY <1>2 DEF E

\* The manifest as it was.
LEMMA EntriesStay ==
  ASSUME Shape, Entries, NEW r \in Runs, StepOf(r), UNCHANGED manifest
  PROVE  Entries' /\ \A q : Recorded(q)' <=> Recorded(q)
<1>1. \A i \in DOMAIN manifest : manifest[i].run \in Runs
  BY EntryTypes
<1>2. \A d : Ranked(d) => Ranked(d)'
  <2>1. \A i, d : Covers(i, d)' <=> Covers(i, d)
    BY DEF Covers
  <2>2. \A i, j : Outranks(i, j)' <=> Outranks(i, j)
    BY DEF Outranks
  <2>3. QED
    BY <2>1, <2>2 DEF Ranked
<1>3. \A i \in DOMAIN manifest :
        LET e == manifest[i]
        IN  e.asof = run'[e.run].asof /\ e.start = run'[e.run].start /\ e.end = run'[e.run].end
            /\ run'[e.run].phase # "unused"
  BY <1>1, StepKeepsWindows DEF Entries
<1>4. Entries'
  BY <1>2, <1>3 DEF Entries
<1>5. QED
  BY <1>4 DEF Recorded

\* A run's row at the end of the manifest: for the dates it covers it ranks
\* first, or the one that did still does.
LEMMA EntriesGrow ==
  ASSUME Shape, Entries, NEW r \in Runs, StepOf(r),
         manifest' = Append(manifest, [run |-> r, asof |-> run[r].asof,
                                       start |-> run[r].start, end |-> run[r].end])
  PROVE  /\ Entries' /\ manifest' \in Seq([run : Runs, asof : Int, start : Int, end : Int])
         /\ Recorded(r)' /\ \A q \in Runs \ {r} : Recorded(q)' <=> Recorded(q)
<1>. PICK last : last = Len(manifest) + 1
  OBVIOUS
<1> DEFINE entry == [run |-> r, asof |-> run[r].asof, start |-> run[r].start, end |-> run[r].end]
           E == [run : Runs, asof : Int, start : Int, end : Int]
<1>1. entry \in E /\ manifest \in Seq(E) /\ manifest' = Append(manifest, entry)
  BY DEF Shape
<1>2. /\ entry.run = r /\ entry.asof = run[r].asof /\ entry.start = run[r].start /\ entry.end = run[r].end
  OBVIOUS
<1> HIDE DEF entry, E
<1>3. /\ manifest' \in Seq(E)
      /\ Len(manifest) \in Nat /\ DOMAIN manifest = 1..Len(manifest)
      /\ DOMAIN manifest' = 1..last /\ manifest'[last] = entry
      /\ \A i \in DOMAIN manifest : manifest'[i] = manifest[i]
  BY <1>1
<1>4. \A i \in DOMAIN manifest :
        manifest[i].run \in Runs /\ manifest[i].asof \in Int /\ manifest[i].start \in Int /\ manifest[i].end \in Int
  BY EntryTypes
<1>5. DOMAIN manifest' = DOMAIN manifest \cup {last} /\ last \notin DOMAIN manifest
  BY <1>3
<1>6. ASSUME NEW i \in DOMAIN manifest'
      PROVE  LET e == manifest'[i]
             IN  e.asof = run'[e.run].asof /\ e.start = run'[e.run].start /\ e.end = run'[e.run].end
                 /\ run'[e.run].phase # "unused"
  <2>1. CASE i = last
    BY <1>2, <1>3, <2>1 DEF StepOf
  <2>2. CASE i \in DOMAIN manifest
    <3>1. manifest'[i] = manifest[i] /\ manifest[i].run \in Runs
      BY <1>3, <1>4, <2>2
    <3>2. QED
      BY <2>2, <3>1, StepKeepsWindows DEF Entries
  <2>3. QED
    BY <1>5, <2>1, <2>2
<1>7. ASSUME NEW d \in Int PROVE Ranked(d)'
  <2>1. SUFFICES ASSUME NEW i \in DOMAIN manifest', Covers(i, d)'
                 PROVE  \E k \in DOMAIN manifest' :
                          Covers(k, d)' /\ \A j \in DOMAIN manifest' : Covers(j, d)' => Outranks(k, j)'
    BY DEF Ranked
  <2>2. \A j \in DOMAIN manifest : Covers(j, d)' <=> Covers(j, d)
    BY <1>3 DEF Covers
  <2>3. \A j, k \in DOMAIN manifest : Outranks(k, j)' <=> Outranks(k, j)
    BY <1>3 DEF Outranks
  <2>4. \A j \in DOMAIN manifest : manifest[j].asof \in Int /\ j \in Int
    BY <1>3, <1>4
  <2>5. entry.asof \in Int
    BY <1>1 DEF E
  <2>6. Outranks(last, last)'
    BY <1>3, <2>5 DEF Outranks
  <2>7. CASE \A j \in DOMAIN manifest : ~Covers(j, d)
    BY <1>5, <2>1, <2>2, <2>6, <2>7
  <2>8. CASE \E j \in DOMAIN manifest : Covers(j, d)
    <3>1. PICK k \in DOMAIN manifest : Covers(k, d) /\ \A j \in DOMAIN manifest : Covers(j, d) => Outranks(k, j)
      BY <2>8 DEF Entries, Ranked
    <3>2. CASE ~Covers(last, d)'
      BY <1>5, <2>2, <2>3, <3>1, <3>2
    <3>3. CASE Covers(last, d)' /\ manifest[k].asof > entry.asof
      <4>1. Outranks(k, last)'
        BY <1>3, <3>3 DEF Outranks
      <4>2. QED
        BY <1>5, <2>2, <2>3, <3>1, <4>1
    <3>4. CASE Covers(last, d)' /\ ~(manifest[k].asof > entry.asof)
      <4>1. ASSUME NEW j \in DOMAIN manifest, Covers(j, d) PROVE Outranks(last, j)'
        <5>1. manifest[k].asof >= manifest[j].asof
          BY <2>4, <3>1, <4>1 DEF Outranks
        <5>2. entry.asof >= manifest[j].asof /\ last >= j
          BY <1>3, <2>4, <2>5, <3>4, <5>1
        <5>3. QED
          BY <1>3, <2>4, <2>5, <5>2 DEF Outranks
      <4>2. QED
        BY <1>5, <2>2, <2>6, <3>4, <4>1
    <3>5. QED
      BY <3>2, <3>3, <3>4
  <2>9. QED
    BY <2>7, <2>8
<1>8. Entries'
  BY <1>6, <1>7 DEF Entries
<1>9. Recorded(r)'
  BY <1>2, <1>3, <1>5 DEF Recorded
<1>10. ASSUME NEW q \in Runs \ {r} PROVE Recorded(q)' <=> Recorded(q)
  BY <1>2, <1>3, <1>5 DEF Recorded
<1>11. QED
  BY <1>3, <1>8, <1>9, <1>10 DEF E

\* What a step of one run has to show for the invariant to stand.
LEMMA StepKeeps ==
  ASSUME IInv, NEW r \in Runs, StepOf(r), UNCHANGED <<now, observations, forecasts>>,
         PoolHeld', pool' \in Runs \cup {None},
         UNCHANGED truth \/ (pool = r /\ \A t \in truth' : Archived(t)),
         vintage \subseteq vintage', vintage' \subseteq [date : Int, issue : {20, 23}],
         \A x \in match' \cup score' \cup daily' : x \in match \cup score \cup daily \/ Sound(x),
         \A q \in Runs \ {r} : \A d : /\ OfRun(match', q, d) = OfRun(match, q, d)
                                      /\ OfRun(score', q, d) = OfRun(score, q, d)
                                      /\ OfRun(daily', q, d) = OfRun(daily, q, d),
         Entries', manifest' \in Seq([run : Runs, asof : Int, start : Int, end : Int]),
         \A q \in Runs \ {r} : Recorded(q)' <=> Recorded(q),
         views' \in {views, TRUE}, Stages(r)'
  PROVE  IInv'
<1>1. Shape'
  BY DEF IInv, Shape, StepOf
<1>2. Archive'
  <2>1. \A t : Archived(t)' <=> Archived(t)
    BY DEF Archived
  <2>2. QED
    BY <2>1 DEF IInv, Archive
<1>3. Results'
  <2>1. ASSUME NEW x \in match' \cup score' \cup daily' PROVE Sound(x)'
    <3>1. Sound(x)
      BY DEF IInv, Results
    <3>2. QED
      BY <3>1, SoundStays
  <2>2. QED
    BY <2>1 DEF Results
<1>4. Frozen(r)'
  BY StepKeepsWindows DEF IInv, Frozen
<1>5. \A q \in Runs \ {r} : Frozen(q)' /\ Stages(q)'
  BY OthersStay
<1>6. QED
  BY <1>1, <1>2, <1>3, <1>4, <1>5 DEF IInv

\* A step that writes in no table.
LEMMA QuietStep ==
  ASSUME IInv, NEW r \in Runs, StepOf(r), UNCHANGED <<now, observations, forecasts, tables>>,
         PoolHeld', pool' \in Runs \cup {None},
         Entries', manifest' \in Seq([run : Runs, asof : Int, start : Int, end : Int]),
         \A q \in Runs \ {r} : Recorded(q)' <=> Recorded(q),
         views' \in {views, TRUE}, Stages(r)'
  PROVE  IInv'
BY StepKeeps DEF tables, IInv, Shape

-----------------------------------------------------------------------------
(* The steps that move a run without writing a row.                          *)

\* A run that is still at work has no row in the manifest.
LEMMA NotRecorded ==
  ASSUME IInv, NEW r \in Runs, run[r].phase \notin {"recorded", "ready", "failed"}
  PROVE  ~Recorded(r)
BY DEF IInv, Stages

\* A run waits, begins, fails or is refused; a candidate has been verified.
LEMMA QuietMoves ==
  ASSUME IInv, NEW r \in Runs, StepOf(r), UNCHANGED <<now, observations, forecasts, tables, manifest, views>>,
         PoolHeld', pool' \in Runs \cup {None},
         \/ run'[r].phase = "failed"
         \/ /\ run[r].phase \notin {"recorded", "ready", "failed"}
            /\ run'[r].phase \in {"waiting", "truth", "refused"}
         \/ run[r].phase = "verify" /\ run'[r].phase = "summary"
  PROVE  IInv'
<1>1. Entries' /\ \A q : Recorded(q)' <=> Recorded(q)
  BY EntriesStay DEF IInv
<1>2. Stages(r)'
  <2>1. CASE run'[r].phase = "failed"
    <3>1. Recorded(r)' => \A d \in Window(r)' : Single(OfRun(score, r, d)) /\ OfRun(daily, r, d) = OfRun(score, r, d)
      BY <1>1, StepKeepsWindows DEF IInv, Stages
    <3>2. QED
      BY <2>1, <3>1 DEF Stages, Finished, tables
  <2>2. CASE run'[r].phase \in {"waiting", "truth", "refused"} /\ run[r].phase \notin {"recorded", "ready", "failed"}
    <3>1. ~Recorded(r)'
      BY <1>1, <2>2, NotRecorded
    <3>2. QED
      BY <2>2, <3>1 DEF Stages, Finished
  <2>3. CASE run[r].phase = "verify" /\ run'[r].phase = "summary"
    <3>1. ~Recorded(r)'
      BY <1>1, <2>3, NotRecorded
    <3>2. \A d \in Window(r)' : Single(OfRun(match, r, d)) /\ OfRun(score, r, d) = OfRun(match, r, d)
      BY <2>3, StepKeepsWindows DEF IInv, Stages
    <3>3. QED
      BY <2>3, <3>1, <3>2 DEF Stages, Finished, tables
  <2>4. QED
    BY <2>1, <2>2, <2>3
<1>3. QED
  BY <1>1, <1>2, QuietStep DEF IInv, Shape

LEMMA QuietActions ==
  ASSUME IInv, NEW r \in Runs,
         \/ BeginCandidate(r) \/ Verify(r) \/ Refuse(r) \/ RetryCandidate(r) \/ FailCandidate(r) \/ Abandon(r)
  PROVE  IInv'
<1>1. run[r].try \in Nat /\ run[r].try + 1 \in Nat /\ 0 \in Nat
  BY DEF IInv, Shape
<1>2. {"waiting", "truth", "refused", "failed", "summary"} \subseteq Phases
  BY DEF Phases, Building, Ended
<1>3. UNCHANGED <<now, observations, forecasts, tables, manifest, views>>
  BY DEF BeginCandidate, Verify, Refuse, RetryCandidate, FailCandidate, Abandon
<1>4. CASE BeginCandidate(r)
  <2>1. run[r].phase = "waiting" /\ run' = [run EXCEPT ![r].phase = "truth"] /\ pool = None /\ pool' = r
    BY <1>4 DEF BeginCandidate, Moves, TakesPool
  <2>2. StepOf(r) /\ run'[r].phase = "truth"
    BY <1>1, <1>2, <2>1, PhaseStep DEF IInv
  <2>3. PoolHeld' /\ pool' \in Runs \cup {None}
    BY <2>1, <2>2, PoolMoves DEF IInv, Building
  <2>4. QED
    BY <1>3, <2>1, <2>2, <2>3, QuietMoves
<1>5. CASE Verify(r)
  <2>1. run[r].phase = "verify" /\ run' = [run EXCEPT ![r].phase = "summary"] /\ UNCHANGED pool
    BY <1>5 DEF Verify, Moves
  <2>2. StepOf(r) /\ run'[r].phase = "summary"
    BY <1>1, <1>2, <2>1, PhaseStep DEF IInv
  <2>3. PoolHeld' /\ pool' \in Runs \cup {None}
    BY <2>1, <2>2, PoolMoves DEF IInv, Building
  <2>4. QED
    BY <1>3, <2>1, <2>2, <2>3, QuietMoves
<1>6. CASE Refuse(r) \/ FailCandidate(r)
  <2>1. PICK to \in {"refused", "failed"} :
          run[r].phase \in Building /\ run' = [run EXCEPT ![r].phase = to, ![r].try = 0] /\ pool' = None
    BY <1>6 DEF Refuse, FailCandidate, Building
  <2>2. StepOf(r) /\ run'[r].phase = to
    BY <1>1, <1>2, <2>1, PhaseStep DEF IInv, Building
  <2>3. PoolHeld' /\ pool' \in Runs \cup {None}
    BY <2>1, <2>2, PoolMoves DEF IInv, Building
  <2>4. QED
    BY <1>3, <2>1, <2>2, <2>3, QuietMoves DEF Building
<1>7. CASE RetryCandidate(r)
  <2>1. run[r].phase \in Building /\ run' = [run EXCEPT ![r].phase = "waiting", ![r].try = run[r].try + 1]
        /\ pool' = None
    BY <1>7 DEF RetryCandidate
  <2>2. StepOf(r) /\ run'[r].phase = "waiting"
    BY <1>1, <1>2, <2>1, PhaseStep DEF IInv, Building
  <2>3. PoolHeld' /\ pool' \in Runs \cup {None}
    BY <2>1, <2>2, PoolMoves DEF IInv, Building
  <2>4. QED
    BY <1>3, <2>1, <2>2, <2>3, QuietMoves DEF Building
<1>8. CASE Abandon(r)
  <2>1. run[r].phase \in {"waiting", "candidate", "recorded"} /\ UNCHANGED pool
        /\ run' = [run EXCEPT ![r].phase = "failed", ![r].try = 0]
    BY <1>8 DEF Abandon
  <2>2. StepOf(r) /\ run'[r].phase = "failed"
    BY <1>1, <1>2, <2>1, PhaseStep DEF IInv
  <2>3. PoolHeld' /\ pool' \in Runs \cup {None}
    BY <2>1, <2>2, PoolMoves DEF IInv, Building
  <2>4. QED
    BY <1>3, <2>1, <2>2, <2>3, QuietMoves
<1>9. QED
  BY <1>4, <1>5, <1>6, <1>7, <1>8

LEMMA PublishManifestKeeps ==
  ASSUME IInv, NEW r \in Runs, PublishManifest(r) \/ PublishManifestUnanswered(r)
  PROVE  IInv'
<1>1. PICK to \in {"recorded", "failed"} :
        /\ run[r].phase = "candidate" /\ run' = [run EXCEPT ![r].phase = to]
        /\ Record(r) /\ UNCHANGED <<now, observations, forecasts, tables, views, pool>>
  BY DEF PublishManifest, PublishManifestUnanswered, Moves
<1>2. StepOf(r) /\ run'[r].phase = to
  BY <1>1, PhaseStep, 0 \in Nat DEF IInv, Phases, Ended
<1>3. PoolHeld' /\ pool' \in Runs \cup {None}
  BY <1>1, <1>2, PoolMoves DEF IInv, Building
<1>4. manifest' = Append(manifest, [run |-> r, asof |-> run[r].asof, start |-> run[r].start, end |-> run[r].end])
  BY <1>1, NotRecorded DEF Record
<1>5. /\ Entries' /\ manifest' \in Seq([run : Runs, asof : Int, start : Int, end : Int])
      /\ Recorded(r)' /\ \A q \in Runs \ {r} : Recorded(q)' <=> Recorded(q)
  BY <1>2, <1>4, EntriesGrow DEF IInv
<1>6. \A d \in Window(r)' : Single(OfRun(score, r, d)) /\ OfRun(daily, r, d) = OfRun(score, r, d)
  BY <1>1, <1>2, StepKeepsWindows DEF IInv, Stages, Finished
<1>7. Stages(r)'
  BY <1>1, <1>2, <1>5, <1>6 DEF Stages, tables
<1>8. QED
  BY <1>1, <1>2, <1>3, <1>5, <1>7, QuietStep

LEMMA BuildPublishedKeeps ==
  ASSUME IInv, NEW r \in Runs, BuildPublished(r)
  PROVE  IInv'
<1>1. /\ run[r].phase = "recorded" /\ run' = [run EXCEPT ![r].phase = "ready"] /\ views' = TRUE
      /\ UNCHANGED <<now, observations, forecasts, tables, manifest, pool>>
  BY DEF BuildPublished, Moves
<1>2. StepOf(r) /\ run'[r].phase = "ready"
  BY <1>1, PhaseStep, 0 \in Nat DEF IInv, Phases, Ended
<1>3. PoolHeld' /\ pool' \in Runs \cup {None}
  BY <1>1, <1>2, PoolMoves DEF IInv, Building
<1>4. Entries' /\ \A q : Recorded(q)' <=> Recorded(q)
  BY <1>1, <1>2, EntriesStay DEF IInv
<1>5. Recorded(r)' /\ \A d \in Window(r)' : Single(OfRun(score, r, d)) /\ OfRun(daily, r, d) = OfRun(score, r, d)
  BY <1>1, <1>2, <1>4, StepKeepsWindows DEF IInv, Stages, Finished
<1>6. Stages(r)'
  BY <1>1, <1>2, <1>5 DEF Stages, tables
<1>7. QED
  BY <1>1, <1>2, <1>3, <1>4, <1>6, QuietStep DEF IInv, Shape

-----------------------------------------------------------------------------
(* The candidate task.                                                       *)

\* What the truth table holds once a run has merged its selection: of a date of
\* the window, the observation its as-of has to see is the latest row.
LEMMA TruthMerged ==
  ASSUME IInv, NEW r \in Runs,
         truth' = Merge(truth, {[date |-> o.date, rev |-> o.rev, at |-> o.at] :
                                  o \in UNION {Latest(CompleteRuns(r, d)) : d \in Window(r)}}, TruthKey)
  PROVE  /\ \A t \in truth' : Archived(t)
         /\ \A d \in Window(r) :
              TruthFor(d, run[r].asof,
                       {t.rev : t \in Latest({u \in truth' : u.date = d /\ u.at <= run[r].asof})})
<1> DEFINE selected == UNION {Latest(CompleteRuns(r, d)) : d \in Window(r)}
           rows == {[date |-> o.date, rev |-> o.rev, at |-> o.at] : o \in selected}
<1>1. /\ rows \subseteq truth' /\ truth' \subseteq truth \cup rows
  BY DEF Merge
<1>2. \A o \in selected : o \in observations /\ o.whole
  BY DEF Latest, CompleteRuns
<1>3. \A t \in rows : Archived(t)
  BY <1>2 DEF Archived
<1>4. \A t \in truth' : Archived(t)
  BY <1>1, <1>3 DEF IInv, Archive
<1>5. ASSUME NEW d \in Window(r)
      PROVE  TruthFor(d, run[r].asof,
                      {t.rev : t \in Latest({u \in truth' : u.date = d /\ u.at <= run[r].asof})})
  <2> DEFINE asof == run[r].asof
             C == CompleteRuns(r, d)
             T == {u \in truth' : u.date = d /\ u.at <= asof}
             seen == {o \in observations : o.date = d /\ o.whole /\ o.at < asof}
             edge == {o \in observations : o.date = d /\ o.whole /\ o.at = asof}
  <2>1. asof \in Int /\ \A o \in observations : o.at \in Int
    BY DEF IInv, Shape
  <2>2. C = {o \in observations : o.date = d /\ o.whole /\ o.at <= asof} /\ IsFiniteSet(C)
    BY FS_Subset DEF CompleteRuns, IInv, Shape
  <2>3. \A t \in T : \E o \in C : o.rev = t.rev /\ o.at = t.at
    BY <1>4, <2>2 DEF Archived
  <2>4. \A o, p \in C : o.at = p.at => o = p
    BY <2>2 DEF IInv, Archive
  <2>5. CASE C = {}
    <3>1. T = {} /\ seen = {}
      BY <2>1, <2>2, <2>3, <2>5
    <3>2. {t.rev : t \in Latest(T)} = {o.rev : o \in Latest(seen)}
      BY <3>1 DEF Latest
    <3>3. QED
      BY <3>2 DEF TruthFor
  <2>6. CASE C # {}
    <3>1. PICK m \in C : \A o \in C : o.at <= m.at
      BY <2>1, <2>2, <2>6, HasLatest DEF Latest
    <3> DEFINE found == [date |-> d, rev |-> m.rev, at |-> m.at]
    <3>2. found \in T
      <4>1. m \in selected
        BY <3>1 DEF Latest
      <4>2. m.date = d /\ m.at <= asof
        BY <2>2
      <4>3. found \in rows
        BY <4>1, <4>2
      <4>4. QED
        BY <1>1, <4>2, <4>3
    <3>3. \A t \in T : t.at <= m.at /\ (t.at = m.at => t.rev = m.rev)
      BY <2>3, <2>4, <3>1
    <3>4. \A t \in Latest(T) : t.rev = m.rev
      <4>1. SUFFICES ASSUME NEW t \in Latest(T) PROVE t.rev = m.rev
        OBVIOUS
      <4>2. t \in T /\ m.at <= t.at
        BY <3>2 DEF Latest
      <4>3. t.at \in Int
        BY <2>1, <2>2, <2>3, <4>2
      <4>4. m.at \in Int
        BY <2>1, <2>2
      <4>5. QED
        BY <3>3, <4>2, <4>3, <4>4
    <3>5. found \in Latest(T)
      BY <3>2, <3>3 DEF Latest
    <3>6. {t.rev : t \in Latest(T)} = {m.rev}
      BY <3>4, <3>5
    <3>7. CASE m.at = asof
      <4>1. edge = {m}
        BY <2>2, <2>4, <3>7
      <4>2. {o.rev : o \in edge} = {m.rev} /\ edge # {}
        BY <4>1
      <4>3. QED
        BY <3>6, <4>2 DEF TruthFor
    <3>8. CASE m.at # asof
      <4>1. m \in seen /\ seen \subseteq C
        BY <2>1, <2>2, <3>8
      <4>2. Latest(seen) = {m}
        BY <2>1, <2>2, <2>4, <3>1, <4>1 DEF Latest
      <4>3. {o.rev : o \in Latest(seen)} = {m.rev}
        BY <4>2
      <4>4. QED
        BY <3>6, <4>3 DEF TruthFor
    <3>9. QED
      BY <3>7, <3>8
  <2>7. QED
    BY <2>5, <2>6
<1>6. QED
  BY <1>4, <1>5

LEMMA BuildTruthKeeps ==
  ASSUME IInv, NEW r \in Runs, BuildTruth(r)
  PROVE  IInv'
<1>1. /\ run[r].phase = "truth" /\ run' = [run EXCEPT ![r].phase = "vintage"]
      /\ UNCHANGED <<now, observations, forecasts, vintage, match, score, daily, manifest, views, pool>>
  BY DEF BuildTruth, Moves
<1>2. StepOf(r) /\ run'[r].phase = "vintage"
  BY <1>1, PhaseStep, 0 \in Nat DEF IInv, Phases, Building
<1>3. PoolHeld' /\ pool' \in Runs \cup {None} /\ pool = r
  BY <1>1, <1>2, PoolMoves DEF IInv, Building, PoolHeld
<1>4. truth' = Merge(truth, {[date |-> o.date, rev |-> o.rev, at |-> o.at] :
                               o \in UNION {Latest(CompleteRuns(r, d)) : d \in Window(r)}}, TruthKey)
  BY DEF BuildTruth
<1>5. /\ \A t \in truth' : Archived(t)
      /\ \A d \in Window(r) :
           TruthFor(d, run[r].asof,
                    {t.rev : t \in Latest({u \in truth' : u.date = d /\ u.at <= run[r].asof})})
  BY <1>4, TruthMerged
<1>6. Entries' /\ \A q : Recorded(q)' <=> Recorded(q)
  BY <1>1, <1>2, EntriesStay DEF IInv
<1>7. ~Recorded(r)'
  BY <1>1, <1>6, NotRecorded
<1>8. \A d \in Window(r)' : TruthFor(d, run[r].asof, {t.rev : t \in SelectedTruth(r, d)})'
  <2>1. Window(r)' = Window(r) /\ run'[r].asof = run[r].asof
    BY <1>2, StepKeepsWindows
  <2>2. \A d \in Window(r) :
          SelectedTruth(r, d)' = Latest({u \in truth' : u.date = d /\ u.at <= run[r].asof})
    BY <2>1 DEF SelectedTruth, Latest
  <2>3. ASSUME NEW d \in Window(r) PROVE TruthFor(d, run[r].asof, {t.rev : t \in SelectedTruth(r, d)})'
    <3>1. TruthFor(d, run[r].asof, {t.rev : t \in SelectedTruth(r, d)'})
      BY <1>5, <2>2
    <3>2. QED
      BY <1>1, <2>1, <3>1 DEF TruthFor
  <2>4. QED
    BY <2>1, <2>3
<1>9. Stages(r)'
  BY <1>2, <1>7, <1>8, StepKeepsWindows DEF Stages, Finished
<1>10. QED
  BY <1>1, <1>2, <1>3, <1>5, <1>6, <1>9, StepKeeps DEF IInv, Shape

LEMMA BuildVintageKeeps ==
  ASSUME IInv, NEW r \in Runs, BuildVintage(r)
  PROVE  IInv'
<1> DEFINE read == {[date |-> f.date, issue |-> f.issue] : f \in {g \in forecasts : g.load \in ForecastLoads(r)}}
<1>1. /\ run[r].phase = "vintage" /\ run' = [run EXCEPT ![r].phase = "match"]
      /\ vintage' = vintage \cup read
      /\ UNCHANGED <<now, observations, forecasts, truth, match, score, daily, manifest, views, pool>>
  BY DEF BuildVintage, Moves
<1>2. StepOf(r) /\ run'[r].phase = "match"
  BY <1>1, PhaseStep, 0 \in Nat DEF IInv, Phases, Building
<1>3. PoolHeld' /\ pool' \in Runs \cup {None}
  BY <1>1, <1>2, PoolMoves DEF IInv, Building
<1>4. vintage' \subseteq [date : Int, issue : {20, 23}]
  BY <1>1 DEF IInv, Shape
<1>5. Entries' /\ \A q : Recorded(q)' <=> Recorded(q)
  BY <1>1, <1>2, EntriesStay DEF IInv
<1>6. ~Recorded(r)'
  BY <1>1, <1>5, NotRecorded
<1>7. /\ Window(r)' = Window(r) /\ ForecastLoads(r)' = ForecastLoads(r) /\ run'[r].asof = run[r].asof
  BY <1>2, StepKeepsWindows
<1>8. ASSUME NEW d \in Window(r) PROVE TruthFor(d, run[r].asof, {t.rev : t \in SelectedTruth(r, d)})'
  <2>1. SelectedTruth(r, d)' = SelectedTruth(r, d)
    BY <1>1, <1>7 DEF SelectedTruth
  <2>2. TruthFor(d, run[r].asof, {t.rev : t \in SelectedTruth(r, d)})
    BY <1>1 DEF IInv, Stages
  <2>3. QED
    BY <1>1, <1>7, <2>1, <2>2 DEF TruthFor
<1>9. ASSUME NEW f \in forecasts, f.load \in ForecastLoads(r)
      PROVE  \E v \in vintage' : v.date = f.date /\ v.issue = f.issue
  <2> DEFINE kept == [date |-> f.date, issue |-> f.issue]
  <2>1. kept \in read
    BY <1>9
  <2>2. kept \in vintage' /\ kept.date = f.date /\ kept.issue = f.issue
    BY <1>1, <2>1
  <2>3. QED
    BY <2>2
<1>10. Stages(r)'
  BY <1>1, <1>2, <1>6, <1>7, <1>8, <1>9 DEF Stages, Finished
<1>11. QED
  BY <1>1, <1>2, <1>3, <1>4, <1>5, <1>10, StepKeeps DEF IInv, Shape

\* The row that a run is about to write is sound: it takes the truth that the run
\* has merged and the newest of the issues that it has read.
LEMMA RowIsSound ==
  ASSUME IInv, NEW r \in Runs, run[r].phase = "match", NEW d \in Window(r)
  PROVE  Sound(Row(r, d)) /\ Row(r, d).run = r /\ Row(r, d).date = d
<1>1. /\ Row(r, d).run = r /\ Row(r, d).date = d /\ Row(r, d).asof = run[r].asof
      /\ Row(r, d).revs = {t.rev : t \in SelectedTruth(r, d)}
      /\ Row(r, d).issues = {v.issue : v \in SelectedForecast(d)}
  BY DEF Row
<1>2. TruthFor(d, run[r].asof, {t.rev : t \in SelectedTruth(r, d)})
  BY DEF IInv, Stages
<1>3. ASSUME d < run[r].end, NEW f \in forecasts, f.date = d, f.load <= d
      PROVE  \E i \in {v.issue : v \in SelectedForecast(d)} : i >= f.issue
  <2>1. /\ run[r].start \in Int /\ run[r].end \in Int /\ f.load \in Int /\ f.issue \in {20, 23}
        /\ d \in Int /\ run[r].start <= d
    BY DEF IInv, Shape, Window
  <2>2. d - 1 <= f.load
    BY <1>3 DEF IInv, Archive
  <2>3. f.load \in ForecastLoads(r)
    BY <1>3, <2>1, <2>2, QualityAssumption DEF ForecastLoads
  <2>4. PICK v \in vintage : v.date = d /\ v.issue = f.issue
    BY <1>3, <2>3 DEF IInv, Stages
  <2>5. \A w \in vintage : w.issue \in {20, 23}
    BY DEF IInv, Shape
  <2>6. CASE \E w \in vintage : w.date = d /\ w.issue = 23
    <3>1. PICK w \in vintage : w.date = d /\ w.issue = 23
      BY <2>6
    <3>2. w \in SelectedForecast(d)
      BY <2>5, <3>1 DEF SelectedForecast
    <3>3. QED
      BY <2>1, <3>1, <3>2
  <2>7. CASE ~ \E w \in vintage : w.date = d /\ w.issue = 23
    <3>1. v \in SelectedForecast(d) /\ v.issue = 20
      BY <2>4, <2>5, <2>7 DEF SelectedForecast
    <3>2. QED
      BY <2>4, <3>1
  <2>8. QED
    BY <2>6, <2>7
<1>4. NewestIssue(Row(r, d))
  BY <1>1, <1>3 DEF NewestIssue
<1>5. QED
  BY <1>1, <1>2, <1>4 DEF Sound

LEMMA BuildMatchKeeps ==
  ASSUME IInv, NEW r \in Runs, BuildMatch(r)
  PROVE  IInv'
<1> DEFINE rows == {Row(r, d) : d \in Window(r)}
<1>1. /\ run[r].phase = "match" /\ run' = [run EXCEPT ![r].phase = "score"]
      /\ match' = Merge(match, rows, EvaluationKey)
      /\ UNCHANGED <<now, observations, forecasts, truth, vintage, score, daily, manifest, views, pool>>
  BY DEF BuildMatch, Moves
<1>2. StepOf(r) /\ run'[r].phase = "score"
  BY <1>1, PhaseStep, 0 \in Nat DEF IInv, Phases, Building
<1>3. PoolHeld' /\ pool' \in Runs \cup {None}
  BY <1>1, <1>2, PoolMoves DEF IInv, Building
<1>4. Entries' /\ \A q : Recorded(q)' <=> Recorded(q)
  BY <1>1, <1>2, EntriesStay DEF IInv
<1>5. ~Recorded(r)'
  BY <1>1, <1>4, NotRecorded
<1>6. \A x \in rows : Sound(x) /\ x.run = r
  BY <1>1, RowIsSound
<1>7. \A d \in Window(r) : OfRun(rows, r, d) = {Row(r, d)}
  BY <1>1, RowIsSound DEF OfRun
<1> HIDE DEF rows
<1>8. /\ \A q, d : q # r => OfRun(match', q, d) = OfRun(match, q, d)
      /\ \A d : OfRun(rows, r, d) # {} => OfRun(match', r, d) = OfRun(rows, r, d)
      /\ match' \subseteq match \cup rows
  <2>1. MergesRun(match', match, rows, r)
    BY <1>1, <1>6, MergeOfRun
  <2>2. QED
    BY <2>1 DEF MergesRun
<1>9. \A d \in Window(r) : Single(OfRun(match', r, d))
  BY <1>7, <1>8 DEF Single
<1>10. Stages(r)'
  BY <1>2, <1>5, <1>9, StepKeepsWindows DEF Stages, Finished
<1>11. \A x \in match' \cup score' \cup daily' : x \in match \cup score \cup daily \/ Sound(x)
  BY <1>1, <1>6, <1>8
<1>12. \A q \in Runs \ {r} : \A d : /\ OfRun(match', q, d) = OfRun(match, q, d)
                                    /\ OfRun(score', q, d) = OfRun(score, q, d)
                                    /\ OfRun(daily', q, d) = OfRun(daily, q, d)
  BY <1>1, <1>8
<1>13. /\ vintage' \subseteq [date : Int, issue : {20, 23}] /\ views' \in {views, TRUE}
       /\ manifest' \in Seq([run : Runs, asof : Int, start : Int, end : Int])
  BY <1>1 DEF IInv, Shape
<1>14. UNCHANGED <<now, observations, forecasts, truth, vintage>>
  BY <1>1
<1>15. QED
  BY <1>2, <1>3, <1>4, <1>10, <1>11, <1>12, <1>13, <1>14, StepKeeps

LEMMA BuildScoresKeeps ==
  ASSUME IInv, NEW r \in Runs, BuildScores(r)
  PROVE  IInv'
<1> DEFINE rows == {m \in match : m.run = r}
<1>1. /\ run[r].phase = "score" /\ run' = [run EXCEPT ![r].phase = "verify"]
      /\ score' = Merge(score, rows, EvaluationKey)
      /\ UNCHANGED <<now, observations, forecasts, truth, vintage, match, daily, manifest, views, pool>>
  BY DEF BuildScores, Moves
<1>2. StepOf(r) /\ run'[r].phase = "verify"
  BY <1>1, PhaseStep, 0 \in Nat DEF IInv, Phases, Building
<1>3. PoolHeld' /\ pool' \in Runs \cup {None}
  BY <1>1, <1>2, PoolMoves DEF IInv, Building
<1>4. Entries' /\ \A q : Recorded(q)' <=> Recorded(q)
  BY <1>1, <1>2, EntriesStay DEF IInv
<1>5. ~Recorded(r)'
  BY <1>1, <1>4, NotRecorded
<1>6. /\ \A x \in rows : x \in match /\ x.run = r
      /\ \A d : OfRun(rows, r, d) = OfRun(match, r, d)
  BY DEF OfRun
<1> HIDE DEF rows
<1>7. /\ \A q, d : q # r => OfRun(score', q, d) = OfRun(score, q, d)
      /\ \A d : OfRun(rows, r, d) # {} => OfRun(score', r, d) = OfRun(rows, r, d)
      /\ score' \subseteq score \cup rows
  <2>1. MergesRun(score', score, rows, r)
    BY <1>1, <1>6, MergeOfRun
  <2>2. QED
    BY <2>1 DEF MergesRun
<1>8. ASSUME NEW d \in Window(r) PROVE Single(OfRun(match', r, d)) /\ OfRun(score', r, d) = OfRun(match', r, d)
  <2>1. Single(OfRun(match, r, d))
    BY <1>1 DEF IInv, Stages
  <2>2. OfRun(match, r, d) # {}
    BY <2>1 DEF Single
  <2>3. OfRun(score', r, d) = OfRun(match, r, d)
    BY <1>6, <1>7, <2>2
  <2>4. QED
    BY <1>1, <2>1, <2>3
<1>9. Stages(r)'
  BY <1>2, <1>5, <1>8, StepKeepsWindows DEF Stages, Finished
<1>10. \A x \in match' \cup score' \cup daily' : x \in match \cup score \cup daily
  BY <1>1, <1>6, <1>7
<1>11. \A q \in Runs \ {r} : \A d : /\ OfRun(match', q, d) = OfRun(match, q, d)
                                    /\ OfRun(score', q, d) = OfRun(score, q, d)
                                    /\ OfRun(daily', q, d) = OfRun(daily, q, d)
  BY <1>1, <1>7
<1>12. /\ vintage' \subseteq [date : Int, issue : {20, 23}] /\ views' \in {views, TRUE}
       /\ manifest' \in Seq([run : Runs, asof : Int, start : Int, end : Int])
  BY <1>1 DEF IInv, Shape
<1>13. UNCHANGED <<now, observations, forecasts, truth, vintage>>
  BY <1>1
<1>14. QED
  BY <1>2, <1>3, <1>4, <1>9, <1>10, <1>11, <1>12, <1>13, StepKeeps

LEMMA BuildSummariesKeeps ==
  ASSUME IInv, NEW r \in Runs, BuildSummaries(r)
  PROVE  IInv'
<1> DEFINE rows == {s \in score : s.run = r}
<1>1. /\ run[r].phase = "summary" /\ run' = [run EXCEPT ![r].phase = "candidate", ![r].try = 0]
      /\ daily' = Merge(daily, rows, EvaluationKey) /\ pool' = None
      /\ UNCHANGED <<now, observations, forecasts, truth, vintage, match, score, manifest, views>>
  BY DEF BuildSummaries
<1>2. StepOf(r) /\ run'[r].phase = "candidate"
  BY <1>1, PhaseStep, 0 \in Nat DEF IInv, Phases, Building
<1>3. PoolHeld' /\ pool' \in Runs \cup {None}
  BY <1>1, <1>2, PoolMoves DEF IInv, Building
<1>4. Entries' /\ \A q : Recorded(q)' <=> Recorded(q)
  BY <1>1, <1>2, EntriesStay DEF IInv
<1>5. ~Recorded(r)'
  BY <1>1, <1>4, NotRecorded
<1>6. /\ \A x \in rows : x \in score /\ x.run = r
      /\ \A d : OfRun(rows, r, d) = OfRun(score, r, d)
  BY DEF OfRun
<1> HIDE DEF rows
<1>7. /\ \A q, d : q # r => OfRun(daily', q, d) = OfRun(daily, q, d)
      /\ \A d : OfRun(rows, r, d) # {} => OfRun(daily', r, d) = OfRun(rows, r, d)
      /\ daily' \subseteq daily \cup rows
  <2>1. MergesRun(daily', daily, rows, r)
    BY <1>1, <1>6, MergeOfRun
  <2>2. QED
    BY <2>1 DEF MergesRun
<1>8. ASSUME NEW d \in Window(r) PROVE Single(OfRun(score', r, d)) /\ OfRun(daily', r, d) = OfRun(score', r, d)
  <2>1. Single(OfRun(match, r, d)) /\ OfRun(score, r, d) = OfRun(match, r, d)
    BY <1>1 DEF IInv, Stages
  <2>2. Single(OfRun(score, r, d))
    BY <2>1
  <2>3. OfRun(score, r, d) # {}
    BY <2>2 DEF Single
  <2>4. OfRun(daily', r, d) = OfRun(score, r, d)
    BY <1>6, <1>7, <2>3
  <2>5. QED
    BY <1>1, <2>2, <2>4
<1>9. Stages(r)'
  BY <1>2, <1>5, <1>8, StepKeepsWindows DEF Stages, Finished
<1>10. \A x \in match' \cup score' \cup daily' : x \in match \cup score \cup daily
  BY <1>1, <1>6, <1>7
<1>11. \A q \in Runs \ {r} : \A d : /\ OfRun(match', q, d) = OfRun(match, q, d)
                                    /\ OfRun(score', q, d) = OfRun(score, q, d)
                                    /\ OfRun(daily', q, d) = OfRun(daily, q, d)
  BY <1>1, <1>7
<1>12. /\ vintage' \subseteq [date : Int, issue : {20, 23}] /\ views' \in {views, TRUE}
       /\ manifest' \in Seq([run : Runs, asof : Int, start : Int, end : Int])
  BY <1>1 DEF IInv, Shape
<1>13. UNCHANGED <<now, observations, forecasts, truth, vintage>>
  BY <1>1
<1>14. QED
  BY <1>2, <1>3, <1>4, <1>9, <1>10, <1>11, <1>12, <1>13, StepKeeps

-----------------------------------------------------------------------------
(* Runs are frozen and Bronze moves on.                                      *)

\* No as-of that has passed hears of a new observation, and what is loaded now is
\* of today's load date.
BronzeGrows ==
  /\ \A d, revs : \A asof \in Int : asof <= now /\ TruthFor(d, asof, revs) => TruthFor(d, asof, revs)'
  /\ \A f \in forecasts' \ forecasts : f.load = Day(now)

\* A run that stands still keeps its stage, whatever Bronze rows arrive for its
\* date after its as-of or are loaded after its window.
LEMMA StagesStand ==
  ASSUME IInv, NEW q \in Runs, run'[q] = run[q], UNCHANGED <<tables, manifest, views>>, BronzeGrows
  PROVE  Stages(q)'
<1>1. /\ run'[q] = run[q] /\ Window(q)' = Window(q) /\ ForecastLoads(q)' = ForecastLoads(q) /\ (Recorded(q)' <=> Recorded(q))
  BY DEF Window, ForecastLoads, Recorded
<1>0. UNCHANGED <<truth, vintage, match, score, daily>>
  BY DEF tables
<1>2. Frozen(q) /\ Stages(q)
  BY DEF IInv
<1>3. run'[q].phase \in {"vintage", "match"} =>
        \A d \in Window(q)' : TruthFor(d, run[q].asof, {t.rev : t \in SelectedTruth(q, d)})'
  <2>1. SUFFICES ASSUME run[q].phase \in {"vintage", "match"}, NEW d \in Window(q)
                 PROVE  TruthFor(d, run[q].asof, {t.rev : t \in SelectedTruth(q, d)})'
    BY <1>1
  <2>2. PICK asof \in Int : asof = run[q].asof
    BY DEF IInv, Shape
  <2>3. PICK revs : revs = {t.rev : t \in SelectedTruth(q, d)}
    OBVIOUS
  <2>4. SelectedTruth(q, d)' = SelectedTruth(q, d)
    BY <1>0, <1>1 DEF SelectedTruth
  <2>5. asof <= now
    BY <1>2, <2>1, <2>2 DEF Frozen
  <2>6. TruthFor(d, asof, revs)
    BY <1>2, <2>1, <2>2, <2>3 DEF Stages
  <2>7. TruthFor(d, asof, revs)'
    BY <2>5, <2>6 DEF BronzeGrows
  <2>8. run'[q].asof = asof /\ {t.rev : t \in SelectedTruth(q, d)'} = revs
    BY <2>2, <2>3, <2>4
  <2>9. QED
    BY <2>7, <2>8 DEF TruthFor
<1>4. run'[q].phase = "match" =>
        \A f \in forecasts' : f.load \in ForecastLoads(q)' =>
          \E v \in vintage' : v.date = f.date /\ v.issue = f.issue
  <2>1. SUFFICES ASSUME run[q].phase = "match", NEW f \in forecasts', f.load \in ForecastLoads(q)
                 PROVE  \E v \in vintage : v.date = f.date /\ v.issue = f.issue
    BY <1>0, <1>1
  <2>2. run[q].end < Day(now) /\ run[q].end \in Int /\ run[q].start \in Int
    BY <1>2, <2>1 DEF Frozen, IInv, Shape
  <2>3. Day(now) \in Int
    BY Days DEF IInv, Shape
  <2>4. f.load \in Int /\ f.load <= run[q].end - 1
    BY <2>1, <2>2, QualityAssumption DEF ForecastLoads
  <2>5. f.load # Day(now)
    BY <2>2, <2>3, <2>4
  <2>6. f \in forecasts
    BY <2>5 DEF BronzeGrows
  <2>7. QED
    BY <1>2, <2>1, <2>6 DEF Stages
<1>5. /\ run'[q].phase \in {"score", "verify", "summary"} =>
           \A d \in Window(q)' : Single(OfRun(match', q, d))
      /\ run'[q].phase \in {"verify", "summary"} =>
           \A d \in Window(q)' : OfRun(score', q, d) = OfRun(match', q, d)
      /\ run'[q].phase \in Finished \/ Recorded(q)' =>
           \A d \in Window(q)' : Single(OfRun(score', q, d)) /\ OfRun(daily', q, d) = OfRun(score', q, d)
  <2>1. /\ run'[q].phase \in {"score", "verify", "summary"} =>
             \A d \in Window(q)' : Single(OfRun(match, q, d))
        /\ run'[q].phase \in {"verify", "summary"} =>
             \A d \in Window(q)' : OfRun(score, q, d) = OfRun(match, q, d)
        /\ run'[q].phase \in Finished \/ Recorded(q)' =>
             \A d \in Window(q)' : Single(OfRun(score, q, d)) /\ OfRun(daily, q, d) = OfRun(score, q, d)
    BY <1>1, <1>2 DEF Stages
  <2>2. QED
    BY <1>0, <2>1
<1>6. /\ run'[q].phase \in {"recorded", "ready"} => Recorded(q)'
      /\ Recorded(q)' => run'[q].phase \in {"recorded", "ready", "failed"}
      /\ run'[q].phase = "ready" => views' = TRUE
  BY <1>1, <1>2 DEF Stages
<1>7. QED
  BY <1>1, <1>3, <1>4, <1>5, <1>6 DEF Stages

LEMMA FreezeKeeps ==
  ASSUME IInv, NEW r \in Runs, NEW kind \in {"daily", "backfill"}, NEW start \in Int, NEW end \in Int,
         end < Day(now), Freeze(r, kind, start, end)
  PROVE  IInv'
<1> DEFINE frozen == [phase |-> "waiting", kind |-> kind, try |-> 1, start |-> start, end |-> end,
                      asof |-> EvaluationAsOf(end)]
<1>1. /\ run[r].phase = "unused" /\ run' = [run EXCEPT ![r] = frozen]
      /\ UNCHANGED <<now, observations, forecasts, tables, manifest, views, pool>>
  BY DEF Freeze
<1>2. EvaluationAsOf(end) \in Int /\ EvaluationAsOf(end) <= now
  <2>1. now \in Nat
    BY DEF IInv, Shape
  <2>2. now = 2 * Day(now) + (now % 2) /\ Day(now) \in Nat /\ now % 2 \in Nat
    BY <2>1, Days
  <2>3. QED
    BY <2>1, <2>2 DEF EvaluationAsOf
<1>3. /\ frozen \in [phase : Phases, kind : {"none", "daily", "backfill"}, try : Nat,
                     start : Int, end : Int, asof : Int]
      /\ frozen.phase = "waiting" /\ frozen.end = end /\ frozen.asof = EvaluationAsOf(end)
  BY <1>2 DEF Phases
<1> HIDE DEF frozen
<1>4. /\ run' \in [Runs -> [phase : Phases, kind : {"none", "daily", "backfill"}, try : Nat,
                            start : Int, end : Int, asof : Int]]
      /\ run'[r] = frozen /\ \A q \in Runs \ {r} : run'[q] = run[q]
  BY <1>1, <1>3 DEF IInv, Shape
<1>5. Shape'
  BY <1>1, <1>4 DEF IInv, Shape, tables
<1>6. Archive'
  BY <1>1 DEF IInv, Archive, Archived, tables
<1>7. PoolHeld'
  BY <1>1, <1>3, <1>4 DEF IInv, PoolHeld, Building
<1>8. Results'
  <2>1. ASSUME NEW x \in match \cup score \cup daily PROVE Sound(x)'
    <3>1. Sound(x) /\ x.run \in Runs \ {r}
      BY <1>1 DEF IInv, Results, Sound
    <3>2. run'[x.run] = run[x.run]
      BY <1>4, <3>1
    <3>3. Window(x.run)' = Window(x.run) /\ TruthFor(x.date, x.asof, x.revs)' /\ NewestIssue(x)'
      BY <1>1, <3>1, <3>2 DEF Window, Sound, TruthFor, NewestIssue
    <3>4. QED
      BY <3>1, <3>2, <3>3 DEF Sound
  <2>2. QED
    BY <1>1, <2>1 DEF Results, tables
<1>9. Entries'
  <2>1. \A i \in DOMAIN manifest : manifest[i].run \in Runs \ {r}
    BY <1>1, EntryTypes DEF IInv, Entries
  <2>2. \A i \in DOMAIN manifest :
          LET e == manifest[i]
          IN  e.asof = run'[e.run].asof /\ e.start = run'[e.run].start /\ e.end = run'[e.run].end
              /\ run'[e.run].phase # "unused"
    BY <1>4, <2>1 DEF IInv, Entries
  <2>3. \A i, d : Covers(i, d)' <=> Covers(i, d)
    BY <1>1 DEF Covers
  <2>4. \A i, j : Outranks(i, j)' <=> Outranks(i, j)
    BY <1>1 DEF Outranks
  <2>5. \A d \in Int : Ranked(d)'
    BY <1>1, <2>3, <2>4 DEF Ranked, IInv, Entries
  <2>6. QED
    BY <1>1, <2>2, <2>5 DEF Entries
<1>10. ASSUME NEW q \in Runs PROVE Frozen(q)' /\ Stages(q)'
  <2>1. CASE q = r
    <3>1. Frozen(q)'
      BY <1>1, <1>2, <1>3, <1>4, <2>1 DEF Frozen
    <3>2. ~Recorded(q)
      BY <1>1, <2>1, NotRecorded
    <3>3. ~Recorded(q)'
      BY <1>1, <3>2 DEF Recorded
    <3>4. QED
      BY <1>3, <1>4, <2>1, <3>1, <3>3 DEF Stages, Finished
  <2>2. CASE q # r
    <3>1. run'[q] = run[q]
      BY <1>4, <2>2
    <3>2. Frozen(q)'
      BY <1>1, <3>1 DEF IInv, Frozen
    <3>3. BronzeGrows
      BY <1>1 DEF TruthFor, BronzeGrows
    <3>4. Stages(q)'
      BY <1>1, <3>1, <3>3, StagesStand
    <3>5. QED
      BY <3>2, <3>4
  <2>3. QED
    BY <2>1, <2>2
<1>11. QED
  BY <1>5, <1>6, <1>7, <1>8, <1>9, <1>10 DEF IInv

\* Time passes, or rows arrive in Bronze.
LEMMA BronzeMoves ==
  ASSUME IInv, UNCHANGED <<tables, manifest, views, pool, run>>,
         now' \in Nat, now <= now', Day(now) <= Day(now'),
         observations' \subseteq [date : Int, at : Int, rev : Revisions, whole : BOOLEAN],
         IsFiniteSet(observations'), observations \subseteq observations',
         \A o, p \in observations' : o.date = p.date /\ o.at = p.at => o = p,
         forecasts' \subseteq [date : Int, issue : {20, 23}, load : Int],
         \A f \in forecasts' : f.date - 1 <= f.load, BronzeGrows
  PROVE  IInv'
<1>1. Shape'
  BY DEF IInv, Shape, tables
<1>2. Archive'
  <2>1. \A t : Archived(t) => Archived(t)'
    BY DEF Archived
  <2>2. QED
    BY <2>1 DEF IInv, Archive, tables
<1>3. PoolHeld'
  BY DEF IInv, PoolHeld
<1>4. \A q \in Runs : Frozen(q) /\ run'[q] = run[q] /\ Window(q)' = Window(q)
  BY DEF IInv, Window
<1>5. \A q \in Runs : Frozen(q)'
  <2>1. now \in Int /\ now' \in Int /\ Day(now) \in Int /\ Day(now') \in Int
    BY Days DEF IInv, Shape
  <2>2. \A q \in Runs : run[q].end \in Int /\ run[q].asof \in Int
    BY DEF IInv, Shape
  <2>3. QED
    BY <1>4, <2>1, <2>2 DEF Frozen
<1>6. ASSUME NEW x \in match \cup score \cup daily PROVE Sound(x)'
  <2>1. Sound(x) /\ x.run \in Runs /\ run[x.run].asof \in Int /\ run[x.run].end \in Int
    BY DEF IInv, Results, Sound, Shape
  <2>2. x.asof <= now /\ run[x.run].end < Day(now) /\ x.asof \in Int
    BY <1>4, <2>1 DEF Sound, Frozen
  <2>3. TruthFor(x.date, x.asof, x.revs)'
    BY <2>1, <2>2 DEF Sound, BronzeGrows
  <2>4. NewestIssue(x)'
    <3>1. SUFFICES ASSUME x.date < run[x.run].end, NEW f \in forecasts', f.date = x.date, f.load <= x.date
                   PROVE  \E i \in x.issues : i >= f.issue
      BY DEF NewestIssue
    <3>2. Day(now) \in Int /\ x.date \in Int
      BY <2>1, Days DEF IInv, Shape, Sound, Window
    <3>3. f.load # Day(now)
      BY <2>1, <2>2, <3>1, <3>2
    <3>4. f \in forecasts
      BY <3>3 DEF BronzeGrows
    <3>5. QED
      BY <2>1, <3>1, <3>4 DEF Sound, NewestIssue
  <2>5. QED
    BY <1>4, <2>1, <2>3, <2>4 DEF Sound
<1>7. Results'
  BY <1>6 DEF Results, tables
<1>8. Entries'
  <2>1. \A i, d : Covers(i, d)' <=> Covers(i, d)
    BY DEF Covers
  <2>2. \A i, j : Outranks(i, j)' <=> Outranks(i, j)
    BY DEF Outranks
  <2>3. \A d \in Int : Ranked(d)'
    BY <2>1, <2>2 DEF Ranked, IInv, Entries
  <2>4. QED
    BY <2>3 DEF IInv, Entries
<1>9. \A q \in Runs : Stages(q)'
  BY <1>4, StagesStand
<1>10. QED
  BY <1>1, <1>2, <1>3, <1>5, <1>7, <1>8, <1>9 DEF IInv

LEMMA TickKeeps ==
  ASSUME IInv, Tick
  PROVE  IInv'
<1>1. now \in Nat /\ now' = now + 1 /\ UNCHANGED <<observations, forecasts, tables, manifest, views, pool, run>>
  BY DEF Tick, IInv, Shape
<1>2. now' \in Nat /\ now <= now' /\ Day(now) <= Day(now')
  BY <1>1, Days
<1>3. BronzeGrows
  BY <1>1 DEF TruthFor, BronzeGrows
<1>4. QED
  BY <1>1, <1>2, <1>3, BronzeMoves DEF IInv, Shape, Archive

\* An observation arrives at a time that no as-of has yet passed, and alone.
LEMMA LandObservationKeeps ==
  ASSUME IInv, NEW d \in Dates, NEW rev \in Revisions, NEW whole \in BOOLEAN, LandObservation(d, rev, whole)
  PROVE  IInv'
<1> DEFINE new == [date |-> d, at |-> now, rev |-> rev, whole |-> whole]
<1>1. /\ \A o \in observations : o.date = d => o.at # now
      /\ observations' = observations \cup {new}
      /\ UNCHANGED <<now, forecasts, tables, manifest, views, pool, run>>
  BY DEF LandObservation
<1>2. /\ new \in [date : Int, at : Int, rev : Revisions, whole : BOOLEAN]
      /\ new.date = d /\ new.at = now
  BY DEF Dates, IInv, Shape
<1> HIDE DEF new
<1>3. /\ observations' \subseteq [date : Int, at : Int, rev : Revisions, whole : BOOLEAN]
      /\ IsFiniteSet(observations') /\ observations \subseteq observations'
  BY <1>1, <1>2, FS_AddElement DEF IInv, Shape
<1>4. \A o, p \in observations' : o.date = p.date /\ o.at = p.at => o = p
  BY <1>1, <1>2 DEF IInv, Archive
<1>5. ASSUME NEW e, NEW revs, NEW asof \in Int, asof <= now, TruthFor(e, asof, revs)
      PROVE  TruthFor(e, asof, revs)'
  <2> DEFINE seen == {o \in observations : o.date = e /\ o.whole /\ o.at < asof}
             edge == {o \in observations : o.date = e /\ o.whole /\ o.at = asof}
             seen2 == {o \in observations' : o.date = e /\ o.whole /\ o.at < asof}
             edge2 == {o \in observations' : o.date = e /\ o.whole /\ o.at = asof}
  <2>1. now \in Int
    BY DEF IInv, Shape
  <2>2. seen2 = seen
    BY <1>1, <1>2, <1>5, <2>1
  <2>3. CASE revs = {o.rev : o \in Latest(seen)}
    <3>1. revs = {o.rev : o \in Latest(seen2)}
      BY <2>2, <2>3
    <3>2. QED
      BY <3>1 DEF TruthFor
  <2>4. CASE revs = {o.rev : o \in edge} /\ edge # {}
    <3>1. edge2 = edge
      BY <1>1, <1>2, <2>4
    <3>2. revs = {o.rev : o \in edge2} /\ edge2 # {}
      BY <2>4, <3>1
    <3>3. QED
      BY <3>2 DEF TruthFor
  <2>5. QED
    BY <1>5, <2>3, <2>4 DEF TruthFor
<1>6. BronzeGrows
  BY <1>1, <1>5 DEF BronzeGrows
<1>7. now \in Nat /\ now' = now /\ now <= now' /\ Day(now) <= Day(now')
  BY <1>1, Days DEF IInv, Shape
<1>8. QED
  BY <1>1, <1>3, <1>4, <1>6, <1>7, BronzeMoves DEF IInv, Shape, Archive

LEMMA LandForecastKeeps ==
  ASSUME IInv, NEW d \in Dates, NEW issue \in {20, 23}, LandForecast(d, issue)
  PROVE  IInv'
<1> DEFINE new == [date |-> d, issue |-> issue, load |-> Day(now)]
<1>1. /\ now >= (IF issue = 20 THEN 2 * d - 1 ELSE 2 * d)
      /\ forecasts' = forecasts \cup {new}
      /\ UNCHANGED <<now, observations, tables, manifest, views, pool, run>>
  BY DEF LandForecast
<1>2. now \in Nat /\ d \in Int /\ Day(now) \in Nat
  <2>1. now \in Nat /\ d \in Int
    BY DEF IInv, Shape, Dates
  <2>2. QED
    BY <2>1, Days
<1>3. d - 1 <= Day(now)
  BY <1>1, <1>2, Days
<1>4. new \in [date : Int, issue : {20, 23}, load : Int] /\ new.date = d /\ new.load = Day(now)
  BY <1>2
<1> HIDE DEF new
<1>5. /\ forecasts' \subseteq [date : Int, issue : {20, 23}, load : Int]
      /\ \A f \in forecasts' : f.date - 1 <= f.load
      /\ \A f \in forecasts' \ forecasts : f.load = Day(now)
  BY <1>1, <1>3, <1>4 DEF IInv, Shape, Archive
<1>6. BronzeGrows
  BY <1>1, <1>5 DEF TruthFor, BronzeGrows
<1>7. now' \in Nat /\ now <= now' /\ Day(now) <= Day(now')
  BY <1>1, <1>2
<1>8. QED
  BY <1>1, <1>5, <1>6, <1>7, BronzeMoves DEF IInv, Shape, Archive

-----------------------------------------------------------------------------
(* The invariant.                                                            *)

LEMMA InitIInv == Init => IInv
<1> SUFFICES ASSUME Init PROVE IInv
  OBVIOUS
<1>1. /\ now = FirstTick /\ observations = {} /\ forecasts = {}
      /\ truth = {} /\ vintage = {} /\ match = {} /\ score = {} /\ daily = {}
      /\ manifest = <<>> /\ views = FALSE /\ pool = None
      /\ run = [r \in Runs |-> [phase |-> "unused", kind |-> "none", try |-> 0,
                                start |-> 0, end |-> 0, asof |-> 0]]
  BY DEF Init, InitWith
<1>2. Shape
  <2>1. run \in [Runs -> [phase : Phases, kind : {"none", "daily", "backfill"}, try : Nat,
                          start : Int, end : Int, asof : Int]]
    BY <1>1 DEF Phases, Ended
  <2>2. IsFiniteSet(observations)
    BY <1>1, FS_EmptySet
  <2>3. manifest \in Seq([run : Runs, asof : Int, start : Int, end : Int])
    <3>1. \A S : <<>> \in Seq(S)
      OBVIOUS
    <3>2. QED
      BY <1>1, <3>1
  <2>4. now \in Nat /\ views \in BOOLEAN /\ pool \in Runs \cup {None}
    BY <1>1, QualityAssumption
  <2>5. /\ observations \subseteq [date : Int, at : Int, rev : Revisions, whole : BOOLEAN]
        /\ forecasts \subseteq [date : Int, issue : {20, 23}, load : Int]
        /\ vintage \subseteq [date : Int, issue : {20, 23}]
    BY <1>1
  <2>6. QED
    BY <2>1, <2>2, <2>3, <2>4, <2>5, Zenon DEF Shape
<1>3. DOMAIN manifest = {} /\ \A r \in Runs : run[r].phase = "unused"
  BY <1>1
<1>4. Archive /\ PoolHeld /\ Results /\ Entries
  <2>1. PoolHeld
    BY <1>1, <1>3, QualityAssumption DEF PoolHeld, Building
  <2>2. Archive
    BY <1>1 DEF Archive
  <2>3. Results
    BY <1>1 DEF Results
  <2>4. Entries
    BY <1>3 DEF Entries, Ranked
  <2>5. QED
    BY <2>1, <2>2, <2>3, <2>4
<1>5. \A r \in Runs : Frozen(r) /\ Stages(r)
  BY <1>3 DEF Frozen, Stages, Finished, Recorded
<1>6. QED
  BY <1>2, <1>4, <1>5 DEF IInv

LEMMA NextIInv == IInv /\ [Next]_vars => IInv'
<1> SUFFICES ASSUME IInv, [Next]_vars PROVE IInv'
  OBVIOUS
<1>1. CASE UNCHANGED vars
  <2>1. /\ UNCHANGED <<now, observations, forecasts, tables, manifest, views, pool, run>>
        /\ UNCHANGED <<truth, vintage, match, score, daily>>
    BY <1>1 DEF vars, tables
  <2>2. BronzeGrows
    BY <2>1 DEF BronzeGrows, TruthFor
  <2>3. now \in Nat /\ now' = now /\ now <= now' /\ Day(now) <= Day(now')
    BY <2>1, Days DEF IInv, Shape
  <2>4. QED
    BY <2>1, <2>2, <2>3, BronzeMoves DEF IInv, Shape, Archive
<1>2. CASE Tick
  BY <1>2, TickKeeps
<1>3. ASSUME NEW d \in Dates, NEW rev \in Revisions, NEW whole \in BOOLEAN, LandObservation(d, rev, whole)
      PROVE  IInv'
  BY <1>3, LandObservationKeeps
<1>4. ASSUME NEW d \in Dates, NEW issue \in {20, 23}, LandForecast(d, issue) PROVE IInv'
  BY <1>4, LandForecastKeeps
<1>5. ASSUME NEW r \in Runs, Step(r) PROVE IInv'
  <2>1. Day(now) \in Int
    BY Days DEF IInv, Shape
  <2>2. CASE ResolveDaily(r)
    <3>1. /\ Freeze(r, "daily", Day(now) - RepairDays, Day(now) - 1)
          /\ Day(now) - RepairDays \in Int /\ Day(now) - 1 \in Int /\ Day(now) - 1 < Day(now)
      BY <2>1, <2>2, QualityAssumption DEF ResolveDaily
    <3>2. QED
      BY <3>1, FreezeKeeps
  <2>3. ASSUME NEW d \in Dates, ResolveBackfill(r, d) PROVE IInv'
    <3>1. Freeze(r, "backfill", d, d) /\ d \in Int /\ d < Day(now)
      BY <2>3 DEF ResolveBackfill, Dates
    <3>2. QED
      BY <3>1, FreezeKeeps
  <2>4. CASE \/ BeginCandidate(r) \/ Verify(r) \/ Refuse(r) \/ RetryCandidate(r)
             \/ FailCandidate(r) \/ Abandon(r)
    BY <2>4, QuietActions
  <2>5. CASE BuildTruth(r) \/ BuildVintage(r) \/ BuildMatch(r) \/ BuildScores(r) \/ BuildSummaries(r)
    BY <2>5, BuildTruthKeeps, BuildVintageKeeps, BuildMatchKeeps, BuildScoresKeeps, BuildSummariesKeeps
  <2>6. CASE PublishManifest(r) \/ PublishManifestUnanswered(r) \/ BuildPublished(r)
    BY <2>6, PublishManifestKeeps, BuildPublishedKeeps
  <2>7. QED
    BY <1>5, <2>2, <2>3, <2>4, <2>5, <2>6 DEF Step
<1>6. QED
  BY <1>1, <1>2, <1>3, <1>4, <1>5 DEF Next

LEMMA SpecIInv == Spec => []IInv
BY InitIInv, NextIInv, PTL DEF Spec

-----------------------------------------------------------------------------
(* The results.                                                              *)

\* A run that has announced itself has a row in the manifest, and the run that
\* is shown for a date of its window is one, with its row, as recent as it.
LEMMA ShownIsOne ==
  ASSUME IInv, NEW r \in Runs, run[r].phase = "ready", NEW d \in Window(r)
  PROVE  \E q \in Runs : /\ ShownRun(d) = {q} /\ Recorded(q) /\ d \in Window(q)
                         /\ run[q].asof >= run[r].asof
<1>1. PICK i \in DOMAIN manifest : manifest[i].run = r
  BY DEF IInv, Stages, Recorded
<1>2. \A j \in DOMAIN manifest :
        /\ manifest[j].run \in Runs /\ manifest[j].asof \in Int /\ j \in Int
        /\ manifest[j].start \in Int /\ manifest[j].end \in Int
        /\ manifest[j].asof = run[manifest[j].run].asof
        /\ manifest[j].start = run[manifest[j].run].start /\ manifest[j].end = run[manifest[j].run].end
  BY EntryTypes DEF IInv, Entries
<1>3. d \in Int /\ Covers(i, d)
  BY <1>1, <1>2 DEF Covers, Window
<1>4. PICK k \in DOMAIN manifest : Covers(k, d) /\ \A j \in DOMAIN manifest : Covers(j, d) => Outranks(k, j)
  BY <1>3 DEF IInv, Entries, Ranked
<1>5. \A j \in DOMAIN manifest : Covers(j, d) /\ Outranks(j, k) => j = k
  BY <1>2, <1>4 DEF Outranks
<1>6. ShownRun(d) = {manifest[k].run}
  BY <1>4, <1>5 DEF ShownRun
<1>7. manifest[k].asof >= manifest[i].asof
  BY <1>2, <1>3, <1>4 DEF Outranks
<1>8. d \in Window(manifest[k].run)
  BY <1>2, <1>3, <1>4 DEF Covers, Window
<1>9. Recorded(manifest[k].run)
  BY DEF Recorded
<1>10. QED
  BY <1>1, <1>2, <1>6, <1>7, <1>8, <1>9

(* Once a run has announced itself the views show every date of its window by   *)
(* one row, reconciled with the grid scores, at least as recent, and computed   *)
(* from the truth its as-of had to see: whatever the other runs of the daily    *)
(* evaluation and the backfills were doing to the same tables                   *)
(* (weather_quality_dag_factory.py:197).                                        *)
THEOREM AnnouncedShown == Spec => []AnnouncedIsShown
<1>1. IInv => AnnouncedIsShown
  <2> SUFFICES ASSUME IInv, NEW r \in Runs, run[r].phase = "ready"
               PROVE  /\ views
                      /\ \A d \in Window(r) : \E h \in Shown(d) :
                           Shown(d) = {h} /\ h \in score /\ h.asof >= run[r].asof /\ TruthOfItsTime(h)
    BY DEF AnnouncedIsShown
  <2>1. views
    BY DEF IInv, Stages
  <2>2. ASSUME NEW d \in Window(r)
        PROVE  \E h \in Shown(d) :
                 Shown(d) = {h} /\ h \in score /\ h.asof >= run[r].asof /\ TruthOfItsTime(h)
    <3>1. PICK q \in Runs : /\ ShownRun(d) = {q} /\ Recorded(q) /\ d \in Window(q)
                            /\ run[q].asof >= run[r].asof
      BY ShownIsOne
    <3>2. Shown(d) = OfRun(daily, q, d)
      BY <3>1 DEF Shown, OfRun
    <3>3. Single(OfRun(score, q, d)) /\ OfRun(daily, q, d) = OfRun(score, q, d)
      BY <3>1 DEF IInv, Stages
    <3>4. PICK h : OfRun(score, q, d) = {h}
      BY <3>3 DEF Single
    <3>5. h \in score /\ h.run = q /\ Shown(d) = {h}
      BY <3>2, <3>3, <3>4 DEF OfRun
    <3>6. Sound(h)
      BY <3>5 DEF IInv, Results
    <3>7. h.asof >= run[r].asof /\ TruthOfItsTime(h)
      BY <3>1, <3>5, <3>6 DEF Sound, TruthFor, TruthOfItsTime
    <3>8. QED
      BY <3>5, <3>7
  <2>3. QED
    BY <2>1, <2>2
<1>2. QED
  BY <1>1, SpecIInv, PTL

(* A date before the last of a run's window is scored on the newest issue that  *)
(* had been collected for it in time, from whichever run's vintage: the range   *)
(* of load dates that is searched is wide enough for all but that last date     *)
(* (weather_quality_runtime.py:190).                                            *)
THEOREM NewestIssueScored == Spec => []ScoredOnNewestIssue
<1>1. IInv => ScoredOnNewestIssue
  BY DEF IInv, Results, Sound, NewestIssue, ScoredOnNewestIssue
<1>2. QED
  BY <1>1, SpecIInv, PTL
=============================================================================
