---------------------- MODULE ForecastCollectionProofs ----------------------
(* Proofs about the forecast pipeline: for any runs, replays, grids, paginations *)
(* and tries, the type invariant, what a publishable run has in Bronze, and on  *)
(* what evidence its slots and its asset event are recorded.                    *)
(*                                                                              *)
(* The actions are taken in two groups.  Those of the collectors change the     *)
(* landing's state, of which the later tasks see only what ReturnBatch and      *)
(* WriteManifest hand over; those of the later tasks leave it alone.            *)
EXTENDS ForecastCollection, FiniteSetTheorems, TLAPS

-----------------------------------------------------------------------------
(* The invariants.                                                           *)

Loaded == {"load", "verify", "record", "publish"}
Pages == {None} \cup SUBSET Page
Job == [try : Nat, checked : BOOLEAN, offset : Nat, conflicts : Nat]

LanderState ==
  [pc : Collecting \cup {"idle", "return", "failed", "done"}, run : Run \cup {None},
   loaded : SUBSET Page, kept : SUBSET Page, state : SUBSET Page, got : SUBSET Page,
   grid : Grid, no : PageNo, page : Page \cup {None}, deferred : BOOLEAN]

\* A collector knows its run, the page it is about to save is the one it asked
\* for, and when it is past page one of a grid it has page one.
LanderOK(l) ==
  /\ l \in LanderState
  /\ IsFiniteSet(l.got)
  /\ l.pc \in Collecting => l.run \in Run
  /\ l.pc = "save" => l.page \in Page /\ l.page.grid = l.grid /\ l.page.no = l.no
  /\ l.pc \in {"resume", "page", "save"} /\ l.no # 1 => At(l.got, l.grid, 1) # {}

\* The inductive form of LandingTypeOK.
LandingInv ==
  /\ snapshot \in [Run -> Snapshot]
  /\ raw \subseteq Page /\ IsFiniteSet(raw)
  /\ checkpoint \in [Run -> SUBSET Page]
  /\ lander \in [Collector -> LanderState]
  /\ \A c \in Collector : LanderOK(lander[c])

\* The inductive form of the rest of TypeOK.
Shape ==
  /\ status \in [Run -> Ended \cup {"queued", "landing"} \cup Loaded]
  /\ partial \in [Run -> BOOLEAN]
  /\ manifest \in [Run -> Pages]
  /\ xcom \in [Run -> Pages]
  /\ job \in [Run -> Job]
  /\ bronze = [r \in Run |-> bronze[r]]
  /\ rows \in [Run -> SUBSET {"STARTED", "SUCCESS", "PUBLISHABLE", "FAILED"}]
  /\ receipt \in [Run -> {None, "observed", "failed"}]
  /\ asset \subseteq Run

\* A run past its landing has a finite batch.
BatchOK(r) == status[r] \in Loaded => xcom[r] \subseteq Page /\ IsFiniteSet(xcom[r])

\* What the load has checked stays true of a run that goes on.
CheckedOK(r) ==
  (status[r] = "load" /\ job[r].checked) \/ status[r] \in {"verify", "record", "publish"} =>
    OnePageEach(xcom[r]) /\ (CoversGrids(xcom[r]) \/ partial[r])

\* Bronze has no page twice: after the first transaction of a try it holds only
\* batches before the next one.
BronzeOK(r) ==
  /\ bronze[r] = SetToBag(DOMAIN bronze[r])
  /\ DOMAIN bronze[r] \subseteq Page
  /\ status[r] = "load" => \A p \in DOMAIN bronze[r] :
        job[r].offset = 0 \/ \E k \in 0..(job[r].offset - 1) : p \in Batch(r, k)
  /\ status[r] = "verify" => DOMAIN bronze[r] \subseteq xcom[r]

\* A publishable run is past its load, and Bronze has its batch, which is whole.
PublishableOK(r) ==
  "PUBLISHABLE" \in rows[r] =>
    /\ status[r] \in {"verify", "record", "publish"} \cup Ended
    /\ xcom[r] \subseteq Page
    /\ Publishable(r)
    /\ OnePageEach(xcom[r]) /\ CoversGrids(xcom[r])
    /\ bronze[r] = SetToBag(xcom[r])

\* What the tasks before the load, RecordSlots and PublishAsset leave to them.
HandedOver(r) ==
  /\ status[r] \in {"queued", "landing"} => job[r] = FreshJob
  /\ status[r] \in {"record", "publish"} /\ Publishable(r) => "PUBLISHABLE" \in rows[r]
  /\ status[r] = "publish" /\ Publishable(r) /\ r \notin Replays => receipt[r] = "observed"

RunOK(r) == BatchOK(r) /\ CheckedOK(r) /\ BronzeOK(r) /\ PublishableOK(r) /\ HandedOver(r)

IInv == LandingInv /\ Shape /\ \A r \in Run : RunOK(r)

-----------------------------------------------------------------------------
(* The collectors.                                                           *)

LEMMA IdleOK ==
  /\ Idle \in LanderState /\ Idle.got = {} /\ Idle.no = 1 /\ Idle.pc = "idle"
  /\ LanderOK(Idle)
<1>1. 1 \in Grid /\ 1 \in PageNo
  BY LandingAssumption DEF Grid, PageNo
<1>2. Idle \in LanderState /\ Idle.got = {} /\ Idle.no = 1 /\ Idle.pc = "idle"
  BY <1>1 DEF LanderState, Idle, Collecting
<1>3. QED
  BY <1>2, FS_EmptySet DEF LanderOK, Collecting

\* A collector that gives up keeps its run alone.
LEMMA FailedOK ==
  ASSUME NEW l \in LanderState
  PROVE  LanderOK(Failed(l))
<1>1. Failed(l) \in LanderState /\ Failed(l).got = {} /\ Failed(l).pc = "failed"
  BY IdleOK DEF LanderState, Failed, Collecting
<1>2. QED
  BY <1>1, FS_EmptySet DEF LanderOK, Collecting

\* After the last page of a grid a collector is at page one of the next one.
LEMMA PastGridOK ==
  ASSUME NEW l \in LanderState, l.run \in Run, IsFiniteSet(l.got)
  PROVE  LanderOK(PastGrid(l))
<1>1. CASE l.grid < GridCount
  <2>1. l.grid + 1 \in Grid /\ 1 \in PageNo
    BY <1>1, LandingAssumption DEF LanderState, Grid, PageNo
  <2> DEFINE m == [l EXCEPT !.pc = "page", !.grid = @ + 1, !.no = 1, !.page = None]
  <2>2. m \in LanderState /\ m.pc = "page" /\ m.no = 1 /\ m.run = l.run /\ m.got = l.got
    BY <2>1 DEF LanderState, Collecting
  <2>3. PastGrid(l) = m
    BY <1>1 DEF PastGrid
  <2>4. QED
    BY <2>2, <2>3 DEF LanderOK
<1>2. CASE ~(l.grid < GridCount) /\ l.deferred
  BY <1>2, FailedOK DEF PastGrid
<1>3. CASE ~(l.grid < GridCount) /\ ~l.deferred
  <2> DEFINE m == [l EXCEPT !.pc = "manifest", !.page = None]
  <2>1. m \in LanderState /\ m.pc = "manifest" /\ m.run = l.run /\ m.got = l.got
    BY DEF LanderState, Collecting
  <2>2. PastGrid(l) = m
    BY <1>3 DEF PastGrid
  <2>3. QED
    BY <2>1, <2>2 DEF LanderOK
<1>4. QED
  BY <1>1, <1>2, <1>3

\* With page one of its grid, a collector goes on to a page that exists.
LEMMA AfterPageOK ==
  ASSUME NEW l \in LanderState, l.run \in Run, IsFiniteSet(l.got), At(l.got, l.grid, 1) # {}
  PROVE  LanderOK(AfterPage(l))
<1>1. FirstTotal(l) \in PageNo
  BY DEF FirstTotal, At, LanderState, Page
<1>2. CASE l.no < FirstTotal(l)
  <2>1. l.no + 1 \in PageNo
    BY <1>1, <1>2 DEF LanderState, PageNo
  <2>2. QED
    BY <1>2, <2>1 DEF AfterPage, LanderOK, LanderState, Collecting
<1>3. CASE ~(l.no < FirstTotal(l))
  BY <1>3, PastGridOK, FailedOK DEF AfterPage
<1>4. QED
  BY <1>2, <1>3

\* A page that is at the collector's place joins what it has got.
LEMMA GotOK ==
  ASSUME NEW l \in LanderState, LanderOK(l), l.pc \in {"page", "save"},
         NEW p \in Page, p.grid = l.grid, p.no = l.no
  PROVE  LanderOK(AfterPage([l EXCEPT !.got = @ \cup {p}, !.state = Put(@, p)]))
<1> DEFINE m == [l EXCEPT !.got = @ \cup {p}, !.state = Put(@, p)]
<1>1. m \in LanderState /\ m.got = l.got \cup {p} /\ m.run = l.run /\ m.grid = l.grid
  BY DEF LanderState, Put, At
<1>2. IsFiniteSet(m.got)
  BY <1>1, FS_AddElement DEF LanderOK
<1>3. At(m.got, m.grid, 1) # {}
  BY <1>1 DEF At, LanderOK
<1>4. l.run \in Run
  BY DEF LanderOK, Collecting
<1>5. QED
  BY <1>1, <1>2, <1>3, <1>4, AfterPageOK

\* One collector moves and the rest of the landing's state keeps its shape.
LEMMA LanderMoves ==
  ASSUME LandingInv, NEW c \in Collector, NEW m, LanderOK(m), lander' = [lander EXCEPT ![c] = m],
         UNCHANGED snapshot, raw' \subseteq Page, IsFiniteSet(raw'), checkpoint' \in [Run -> SUBSET Page]
  PROVE  LandingInv'
BY DEF LandingInv, LanderOK

LEMMA LoadCheckpointKeeps ==
  ASSUME LandingInv, NEW c \in Collector, NEW r \in Run, LoadCheckpoint(c, r)
  PROVE  LandingInv'
<1> DEFINE m == [Idle EXCEPT !.pc = "resume", !.run = r, !.loaded = checkpoint[r]]
<1>1. checkpoint[r] \subseteq Page
  BY DEF LandingInv
<1>2. m \in LanderState /\ m.got = {} /\ m.no = 1 /\ m.run = r /\ m.pc = "resume"
  BY <1>1, IdleOK DEF LanderState, Collecting
<1>3. LanderOK(m)
  BY <1>2, FS_EmptySet DEF LanderOK
<1>4. QED
  BY <1>3, LanderMoves DEF LoadCheckpoint, LandingInv

\* What a collector trusts comes from the checkpoint it has read.
LEMMA TrustedSets ==
  ASSUME NEW pages \in SUBSET Page
  PROVE  Trusted(pages) \subseteq Page
<1>1. ASSUME NEW some \in SUBSET Page PROVE CompleteOnly(some) \subseteq Page
  BY DEF CompleteOnly, OfGrid
<1>2. QED
  BY <1>1 DEF Trusted

LEMMA ResumeKeeps ==
  ASSUME LandingInv, NEW c \in Collector, Resume(c)
  PROVE  LandingInv'
<1> DEFINE l == lander[c]
           kept == Trusted(l.loaded)
           m == [l EXCEPT !.pc = "page", !.loaded = {}, !.kept = kept, !.state = kept]
<1>1. LanderOK(l) /\ l \in LanderState
  BY DEF LandingInv
<1>2. kept \subseteq Page
  BY <1>1, TrustedSets DEF LanderState
<1>3. LanderOK(m)
  BY <1>1, <1>2 DEF Resume, LanderOK, LanderState, Collecting
<1>4. lander' = [lander EXCEPT ![c] = m] /\ UNCHANGED <<snapshot, raw>>
  BY DEF Resume
<1>5. checkpoint' \in [Run -> SUBSET Page]
  BY <1>2 DEF Resume, LandingInv
<1>6. QED
  BY <1>3, <1>4, <1>5, LanderMoves DEF LandingInv

LEMMA ReusePageKeeps ==
  ASSUME LandingInv, NEW c \in Collector, ReusePage(c)
  PROVE  LandingInv'
<1> DEFINE l == lander[c]
<1>1. LanderOK(l) /\ l \in LanderState /\ l.pc = "page"
  BY DEF LandingInv, ReusePage
<1>2. PICK p \in Wanted(c) :
        IF SameTotal(l, p)
        THEN LET m == [l EXCEPT !.got = @ \cup {p}, !.state = Put(@, p)]
             IN  /\ lander' = [lander EXCEPT ![c] = AfterPage(m)]
                 /\ checkpoint' = IF SkipUnchanged THEN checkpoint
                                  ELSE [checkpoint EXCEPT ![l.run] = m.state]
        ELSE /\ lander' = [lander EXCEPT ![c] = Failed(l)]
             /\ UNCHANGED checkpoint
  BY DEF ReusePage
<1>3. p \in Page /\ p.grid = l.grid /\ p.no = l.no
  BY <1>1 DEF Wanted, At, LanderState
<1>4. UNCHANGED <<snapshot, raw>>
  BY DEF ReusePage
<1>5. CASE SameTotal(l, p)
  <2> DEFINE m == [l EXCEPT !.got = @ \cup {p}, !.state = Put(@, p)]
  <2>1. LanderOK(AfterPage(m))
    BY <1>1, <1>3, GotOK
  <2>2. m.state \subseteq Page
    BY <1>1, <1>3 DEF LanderState, Put
  <2>3. checkpoint' \in [Run -> SUBSET Page]
    BY <1>2, <1>5, <2>2 DEF LandingInv
  <2>4. lander' = [lander EXCEPT ![c] = AfterPage(m)]
    BY <1>2, <1>5
  <2>5. QED
    BY <1>4, <2>1, <2>3, <2>4, LanderMoves DEF LandingInv
<1>6. CASE ~SameTotal(l, p)
  BY <1>1, <1>2, <1>4, <1>6, FailedOK, LanderMoves DEF LandingInv
<1>7. QED
  BY <1>5, <1>6

\* The answer to a collector is a page of its run, at its place.
LEMMA AnswerSets ==
  ASSUME LandingInv, NEW c \in Collector, lander[c].run \in Run, NEW p \in Answer(c)
  PROVE  p \in Page /\ p.grid = lander[c].grid /\ p.no = lander[c].no
<1>1. lander[c] \in LanderState /\ snapshot[lander[c].run] \in Snapshot
  BY DEF LandingInv
<1>2. Pagination[snapshot[lander[c].run]][lander[c].grid] \in PageNo
  BY <1>1, LandingAssumption DEF LanderState
<1>3. QED
  BY <1>1, <1>2 DEF Answer, Page, LanderState

LEMMA FetchPageKeeps ==
  ASSUME LandingInv, NEW c \in Collector, FetchPage(c)
  PROVE  LandingInv'
<1> DEFINE l == lander[c]
<1>1. LanderOK(l) /\ l \in LanderState /\ l.pc = "page" /\ l.run \in Run
  BY DEF LandingInv, FetchPage, LanderOK, Collecting
<1>2. PICK p \in Answer(c) :
        /\ raw' = raw \cup {p}
        /\ lander' = [lander EXCEPT ![c] =
                        IF SameTotal(l, p) THEN [l EXCEPT !.pc = "save", !.page = p] ELSE Failed(l)]
  BY DEF FetchPage
<1>3. p \in Page /\ p.grid = l.grid /\ p.no = l.no
  BY <1>1, AnswerSets
<1>4. LanderOK([l EXCEPT !.pc = "save", !.page = p])
  BY <1>1, <1>3 DEF LanderOK, LanderState, Collecting
<1>5. raw' \subseteq Page /\ IsFiniteSet(raw')
  BY <1>2, <1>3, FS_AddElement DEF LandingInv
<1>6. QED
  BY <1>1, <1>2, <1>4, <1>5, FailedOK, LanderMoves DEF LandingInv, FetchPage

LEMMA SavePageKeeps ==
  ASSUME LandingInv, NEW c \in Collector, SavePage(c)
  PROVE  LandingInv'
<1> DEFINE l == lander[c]
           m == [l EXCEPT !.got = @ \cup {l.page}, !.state = Put(@, l.page)]
<1>1. LanderOK(l) /\ l \in LanderState /\ l.pc = "save"
  BY DEF LandingInv, SavePage
<1>2. l.page \in Page /\ l.page.grid = l.grid /\ l.page.no = l.no
  BY <1>1 DEF LanderOK
<1>3. LanderOK(AfterPage(m))
  BY <1>1, <1>2, GotOK
<1>4. m.state \subseteq Page
  BY <1>1, <1>2 DEF LanderState, Put
<1>5. checkpoint' \in [Run -> SUBSET Page]
  BY <1>4 DEF LandingInv, SavePage
<1>6. lander' = [lander EXCEPT ![c] = AfterPage(m)] /\ UNCHANGED <<snapshot, raw>>
  BY DEF SavePage
<1>7. QED
  BY <1>3, <1>5, <1>6, LanderMoves DEF LandingInv

\* A collector that gives up, dies, or returns.
LEMMA LanderEndsKeeps ==
  ASSUME LandingInv, NEW c \in Collector, UNCHANGED <<snapshot, raw, checkpoint>>,
         \/ lander' = [lander EXCEPT ![c] = Failed(lander[c])]
         \/ lander' = [lander EXCEPT ![c] = [Idle EXCEPT !.pc = "done"]]
         \/ lander[c].pc = "manifest" /\ lander' = [lander EXCEPT ![c].pc = "return"]
  PROVE  LandingInv'
<1>1. LanderOK(lander[c]) /\ lander[c] \in LanderState
  BY DEF LandingInv
<1>2. LanderOK([Idle EXCEPT !.pc = "done"])
  BY IdleOK, FS_EmptySet DEF LanderOK, LanderState, Collecting
<1>3. LanderOK([lander[c] EXCEPT !.pc = "return"])
  BY <1>1 DEF LanderOK, LanderState, Collecting
<1>4. LanderOK(Failed(lander[c]))
  BY <1>1, FailedOK
<1>5. \/ lander' = [lander EXCEPT ![c] = Failed(lander[c])]
      \/ lander' = [lander EXCEPT ![c] = [Idle EXCEPT !.pc = "done"]]
      \/ lander' = [lander EXCEPT ![c] = [lander[c] EXCEPT !.pc = "return"]]
  OBVIOUS
<1>6. QED
  BY <1>2, <1>3, <1>4, <1>5, LanderMoves DEF LandingInv

\* Every step of collect() keeps the landing's shape.
LEMMA CollectKeeps ==
  ASSUME LandingInv, NEW c \in Collector, CollectStep(c) \/ FetchFails(c, FALSE) \/ LanderDies(c)
  PROVE  LandingInv'
<1>1. CASE CollectStep(c)
  BY <1>1, ResumeKeeps, ReusePageKeeps, FetchPageKeeps, SavePageKeeps DEF CollectStep
<1>2. CASE FetchFails(c, FALSE) \/ LanderDies(c)
  BY <1>2, LanderEndsKeeps DEF FetchFails, LanderDies
<1>3. QED
  BY <1>1, <1>2

\* The stored objects and what KMA serves change, and the collectors do not.
LEMMA EnvironmentKeeps ==
  ASSUME LandingInv, (\E r \in Run : Republish(r)) \/ (\E p \in raw : LoseRaw(p))
  PROVE  LandingInv'
<1>1. CASE \E r \in Run : Republish(r)
  BY <1>1 DEF LandingInv, Republish, LanderOK
<1>2. CASE \E p \in raw : LoseRaw(p)
  <2>1. PICK p \in raw : LoseRaw(p)
    BY <1>2
  <2>2. raw' \subseteq raw
    BY <2>1 DEF LoseRaw
  <2>3. raw' \subseteq Page /\ IsFiniteSet(raw')
    BY <2>2, FS_Subset DEF LandingInv
  <2>4. QED
    BY <2>1, <2>3 DEF LandingInv, LoseRaw, LanderOK
<1>3. QED
  BY <1>1, <1>2

-----------------------------------------------------------------------------
(* Steps of one run.                                                         *)

LEMMA LandingStays ==
  ASSUME LandingInv, UNCHANGED landingVars
  PROVE  LandingInv'
BY DEF LandingInv, landingVars, LanderOK

\* A run that a step does not touch.
Untouched(q) ==
  /\ status'[q] = status[q] /\ partial'[q] = partial[q] /\ xcom'[q] = xcom[q] /\ job'[q] = job[q]
  /\ bronze'[q] = bronze[q] /\ rows'[q] = rows[q] /\ receipt'[q] = receipt[q]

LEMMA UntouchedKeeps ==
  ASSUME NEW q \in Run, RunOK(q), Untouched(q)
  PROVE  RunOK(q)'
<1>1. Publishable(q)' <=> Publishable(q)
  BY DEF Untouched, Publishable, Grids
<1>2. \A k : Batch(q, k)' = Batch(q, k)
  BY DEF Untouched, Batch
<1>3. QED
  BY <1>1, <1>2 DEF Untouched, RunOK, BatchOK, CheckedOK, BronzeOK, PublishableOK, HandedOver

\* A step of one run.
LEMMA RunMoves ==
  ASSUME IInv, NEW r \in Run, LandingInv', Shape', RunOK(r)', \A q \in Run \ {r} : Untouched(q)
  PROVE  IInv'
BY UntouchedKeeps DEF IInv

LEMMA FailSets ==
  ASSUME Shape, NEW r \in Run, Fail(r)
  PROVE  /\ status' = [status EXCEPT ![r] = "failed"]
         /\ rows' \in [Run -> SUBSET {"STARTED", "SUCCESS", "PUBLISHABLE", "FAILED"}]
         /\ receipt' \in [Run -> {None, "observed", "failed"}]
         /\ rows'[r] \subseteq rows[r] \cup {"FAILED"}
         /\ receipt'[r] = receipt[r] \/ receipt'[r] = "failed"
         /\ \A q \in Run \ {r} : rows'[q] = rows[q] /\ receipt'[q] = receipt[q]
BY DEF Shape, Fail

\* A run that fails offers nothing that it did not offer before.
LEMMA FailKeeps ==
  ASSUME IInv, NEW r \in Run, Fail(r), UNCHANGED <<partial, xcom, job>>, bronze' = [q \in Run |-> bronze'[q]],
         bronze'[r] = bronze[r] \/ ("PUBLISHABLE" \notin rows[r] /\ bronze'[r] = SetToBag(DOMAIN bronze'[r])
                                   /\ DOMAIN bronze'[r] \subseteq Page)
  PROVE  RunOK(r)'
<1>1. /\ status'[r] = "failed" /\ RunOK(r)
      /\ "PUBLISHABLE" \in rows'[r] => "PUBLISHABLE" \in rows[r]
  BY FailSets DEF IInv, Shape
<1>2. Publishable(r)' <=> Publishable(r)
  BY DEF Publishable, Grids
<1>3. BatchOK(r)' /\ CheckedOK(r)' /\ HandedOver(r)'
  BY <1>1 DEF BatchOK, CheckedOK, HandedOver, Loaded
<1>4. BronzeOK(r)'
  BY <1>1 DEF RunOK, BronzeOK
<1>5. PublishableOK(r)'
  BY <1>1, <1>2 DEF RunOK, PublishableOK, Ended
<1>6. QED
  BY <1>3, <1>4, <1>5 DEF RunOK

\* A failed try of load or verify starts the next one afresh, or fails the run.
\* The rows that a lost commit has left in Bronze do not matter to either.
LEMMA TryFailsKeeps ==
  ASSUME IInv, NEW r \in Run, TryFails(r), status[r] \in {"load", "verify"}, UNCHANGED <<partial, xcom>>,
         UNCHANGED bronze \/ (status[r] = "load" /\ bronze'[r] = SetToBag(DOMAIN bronze'[r])
                              /\ DOMAIN bronze'[r] \subseteq Page /\ bronze' = [q \in Run |-> bronze'[q]]),
         LandingInv', manifest' \in [Run -> Pages], asset' \subseteq Run,
         \A q \in Run \ {r} : bronze'[q] = bronze[q]
  PROVE  IInv'
<1>1. RunOK(r) /\ Shape
  BY DEF IInv
<1>2. status[r] = "load" => "PUBLISHABLE" \notin rows[r]
  BY <1>1 DEF RunOK, PublishableOK, Ended
<1>3. CASE Fail(r) /\ UNCHANGED job
  <2>1. bronze' = [q \in Run |-> bronze'[q]]
    BY <1>1 DEF Shape
  <2>2. RunOK(r)'
    BY <1>2, <1>3, <2>1, FailKeeps
  <2>3. Shape'
    BY <1>1, <1>3, <2>1, FailSets DEF Shape, Ended
  <2>4. \A q \in Run \ {r} : Untouched(q)
    BY <1>1, <1>3, FailSets DEF Shape, Untouched
  <2>5. QED
    BY <2>2, <2>3, <2>4, RunMoves
<1>4. CASE /\ job' = [job EXCEPT ![r] = [FreshJob EXCEPT !.try = job[r].try + 1]]
           /\ UNCHANGED <<status, rows, receipt>>
  <2> DEFINE next == job[r].try + 1
             fresh == [FreshJob EXCEPT !.try = next]
  <2>1. job[r] \in Job
    BY <1>1 DEF Shape
  <2>2. next \in Nat
    BY <2>1 DEF Job
  <2>3. fresh \in Job /\ fresh.offset = 0 /\ ~fresh.checked
    <3> HIDE DEF next
    <3>1. QED
      BY <2>2 DEF Job, FreshJob
  <2>4. job' \in [Run -> Job] /\ job'[r].offset = 0 /\ ~job'[r].checked
    <3> HIDE DEF next
    <3>1. job' = [job EXCEPT ![r] = fresh]
      BY <1>4 DEF next
    <3>2. QED
      BY <1>1, <2>3, <3>1 DEF Shape
  <2>5. Shape'
    BY <1>1, <1>4, <2>4 DEF Shape
  <2>6. Publishable(r)' <=> Publishable(r)
    BY DEF Publishable, Grids
  <2>7. BatchOK(r)' /\ CheckedOK(r)' /\ HandedOver(r)'
    BY <1>1, <1>4, <2>4, <2>6 DEF RunOK, BatchOK, CheckedOK, HandedOver
  <2>8. BronzeOK(r)'
    BY <1>1, <1>4, <2>4 DEF RunOK, BronzeOK
  <2>9. PublishableOK(r)'
    BY <1>1, <1>2, <1>4, <2>6 DEF RunOK, PublishableOK
  <2>10. \A q \in Run \ {r} : Untouched(q)
    BY <1>1, <1>4 DEF Shape, Untouched
  <2>11. QED
    BY <2>5, <2>7, <2>8, <2>9, <2>10, RunMoves DEF RunOK
<1>5. QED
  BY <1>3, <1>4 DEF TryFails

-----------------------------------------------------------------------------
(* The load.                                                                 *)

\* A transaction leaves one copy of every page of the batches up to its own.
LEMMA CommitSets ==
  ASSUME IInv, NEW r \in Run, status[r] = "load", Commit(r)
  PROVE  /\ bronze' = [q \in Run |-> bronze'[q]]
         /\ \A q \in Run \ {r} : bronze'[q] = bronze[q]
         /\ bronze'[r] = SetToBag(DOMAIN bronze'[r])
         /\ DOMAIN bronze'[r] \subseteq Page
         /\ \A p \in DOMAIN bronze'[r] : \E k \in 0..job[r].offset : p \in Batch(r, k)
<1> DEFINE n == job[r].offset
           kept == IF n = 0 THEN EmptyBag ELSE bronze[r]
           batch == Batch(r, n)
<1>1. RunOK(r) /\ Shape /\ n \in Nat
  BY DEF IInv, Shape, Job
<1>2. kept = SetToBag(DOMAIN kept) /\ DOMAIN kept \subseteq Page
  BY <1>1 DEF RunOK, BronzeOK, EmptyBag, SetToBag
<1>3. \A p \in DOMAIN kept : \E k \in 0..(n - 1) : p \in Batch(r, k)
  BY <1>1 DEF RunOK, BronzeOK, EmptyBag, SetToBag
<1>4. \A p \in DOMAIN kept : p \notin batch
  BY <1>1, <1>3 DEF Batch
<1>5. batch \subseteq Page
  BY <1>1 DEF Batch, RunOK, BatchOK, Loaded
<1>6. bronze' = [bronze EXCEPT ![r] = kept (+) SetToBag(batch)]
  BY DEF Commit
<1>7. kept (+) SetToBag(batch) = SetToBag((DOMAIN kept) \cup batch)
  <2>1. \A p \in DOMAIN kept : kept[p] = 1
    BY <1>2 DEF SetToBag
  <2>2. \A p \in batch : SetToBag(batch)[p] = 1
    BY DEF SetToBag
  <2>3. DOMAIN SetToBag(batch) = batch
    BY DEF SetToBag
  <2> HIDE DEF kept, batch
  <2>4. QED
    BY <1>4, <2>1, <2>2, <2>3 DEF (+), SetToBag
<1>8. bronze'[r] = SetToBag((DOMAIN kept) \cup batch) /\ DOMAIN bronze'[r] = (DOMAIN kept) \cup batch
  BY <1>1, <1>6, <1>7 DEF Shape, SetToBag
<1>9. \A p \in batch : \E k \in 0..n : p \in Batch(r, k)
  BY <1>1
<1>10. \A p \in DOMAIN kept : \E k \in 0..n : p \in Batch(r, k)
  BY <1>1, <1>3
<1>11. bronze' = [q \in Run |-> bronze'[q]] /\ \A q \in Run \ {r} : bronze'[q] = bronze[q]
  BY <1>1, <1>6 DEF Shape
<1>12. QED
  BY <1>2, <1>5, <1>8, <1>9, <1>10, <1>11

LEMMA PreflightKeeps ==
  ASSUME IInv, NEW r \in Run, Preflight(r)
  PROVE  IInv'
<1>1. LandingInv' /\ RunOK(r) /\ Shape /\ status[r] = "load"
  BY LandingStays DEF IInv, Preflight
<1>2. CASE manifest[r] = xcom[r] /\ OnePageEach(xcom[r]) /\ (CoversGrids(xcom[r]) \/ partial[r])
  <2>1. /\ job' = [job EXCEPT ![r].checked = TRUE]
        /\ UNCHANGED <<status, partial, manifest, xcom, bronze, rows, receipt, asset>>
    BY <1>2 DEF Preflight
  <2>2. job[r] \in Job
    BY <1>1 DEF Shape
  <2>3. job' \in [Run -> Job] /\ job'[r].offset = job[r].offset
    BY <1>1, <2>1, <2>2 DEF Shape, Job
  <2>4. Shape' /\ \A q \in Run \ {r} : Untouched(q)
    BY <1>1, <2>1, <2>3 DEF Shape, Untouched
  <2>5. Publishable(r)' <=> Publishable(r)
    BY <2>1 DEF Publishable, Grids
  <2>6. BatchOK(r)' /\ CheckedOK(r)' /\ HandedOver(r)' /\ PublishableOK(r)'
    BY <1>1, <1>2, <2>1, <2>5 DEF RunOK, BatchOK, CheckedOK, HandedOver, PublishableOK, Ended
  <2>7. BronzeOK(r)'
    BY <1>1, <2>1, <2>3 DEF RunOK, BronzeOK, Batch
  <2>8. QED
    BY <1>1, <2>4, <2>6, <2>7, RunMoves DEF RunOK
<1>3. CASE ~(manifest[r] = xcom[r] /\ OnePageEach(xcom[r]) /\ (CoversGrids(xcom[r]) \/ partial[r]))
  <2>1. TryFails(r) /\ UNCHANGED <<partial, manifest, xcom, bronze, asset>>
    BY <1>3 DEF Preflight
  <2>2. QED
    BY <1>1, <2>1, TryFailsKeeps DEF Shape
<1>4. QED
  BY <1>2, <1>3

\* The last batch leaves every page that Bronze has of the run in its batch.
LEMMA AppendBatchKeeps ==
  ASSUME IInv, NEW r \in Run, AppendBatch(r)
  PROVE  IInv'
<1> DEFINE n == job[r].offset
           next == [job[r] EXCEPT !.offset = job[r].offset + 1, !.conflicts = 0]
<1>1. /\ RunOK(r) /\ Shape /\ status[r] = "load" /\ job[r].checked /\ Commit(r)
      /\ UNCHANGED <<partial, manifest, xcom, rows, receipt, asset>>
  BY DEF IInv, AppendBatch
<1>2. LandingInv'
  BY LandingStays DEF IInv, AppendBatch
<1>3. job[r] \in Job /\ n \in Nat
  BY <1>1 DEF Shape, Job
<1>4. next \in Job /\ next.offset = n + 1 /\ FreshJob \in Job
  <2>1. n + 1 \in Nat
    BY <1>3
  <2>2. [job[r] EXCEPT !.offset = n + 1, !.conflicts = 0] \in Job
    <3> HIDE DEF n
    <3>1. QED
      BY <1>3, <2>1 DEF Job
  <2>3. next.offset = n + 1
    BY <1>3 DEF Job
  <2>4. QED
    BY <2>2, <2>3 DEF Job, FreshJob
<1>5. /\ job' = [job EXCEPT ![r] = IF LastBatch(r) THEN FreshJob ELSE next]
      /\ status' = [status EXCEPT ![r] = IF LastBatch(r) THEN "verify" ELSE status[r]]
  BY DEF AppendBatch
<1>6. job' \in [Run -> Job] /\ status' \in [Run -> Ended \cup {"queued", "landing"} \cup Loaded]
  BY <1>1, <1>4, <1>5 DEF Shape, Loaded
<1>7. /\ bronze' = [q \in Run |-> bronze'[q]]
      /\ \A q \in Run \ {r} : bronze'[q] = bronze[q]
      /\ bronze'[r] = SetToBag(DOMAIN bronze'[r])
      /\ DOMAIN bronze'[r] \subseteq Page
      /\ \A p \in DOMAIN bronze'[r] : \E k \in 0..n : p \in Batch(r, k)
  BY <1>1, CommitSets
<1>8. Shape'
  BY <1>1, <1>6, <1>7 DEF Shape
<1>9. \A q \in Run \ {r} : Untouched(q)
  BY <1>1, <1>5, <1>7 DEF Shape, Untouched
<1>10. "PUBLISHABLE" \notin rows'[r]
  BY <1>1 DEF RunOK, PublishableOK, Ended
<1>11. status'[r] \in {"load", "verify"} /\ (status'[r] = "verify" <=> LastBatch(r))
  BY <1>1, <1>5 DEF Shape
<1>12. BatchOK(r)' /\ CheckedOK(r)' /\ HandedOver(r)' /\ PublishableOK(r)'
  BY <1>1, <1>10, <1>11 DEF RunOK, BatchOK, CheckedOK, HandedOver, PublishableOK, Loaded
<1>13. \A k : Batch(r, k)' = Batch(r, k) /\ Batch(r, k) \subseteq xcom'[r]
  BY <1>1 DEF Batch
<1>14. BronzeOK(r)'
  <2>1. status'[r] = "load" => job'[r].offset = n + 1
    BY <1>1, <1>4, <1>5, <1>11 DEF Shape
  <2>2. status'[r] = "load" => job'[r].offset - 1 = n
    BY <1>3, <2>1
  <2>3. status'[r] = "load" => \A p \in DOMAIN bronze'[r] : \E k \in 0..(job'[r].offset - 1) : p \in Batch(r, k)'
    BY <1>7, <1>13, <2>2
  <2>4. status'[r] = "verify" => DOMAIN bronze'[r] \subseteq xcom'[r]
    BY <1>7, <1>13
  <2>5. QED
    BY <1>7, <2>3, <2>4 DEF BronzeOK
<1>15. QED
  BY <1>2, <1>8, <1>9, <1>12, <1>14, RunMoves DEF RunOK

\* A refused transaction changes nothing in Bronze; a lost one is applied.
LEMMA CommitConflictKeeps ==
  ASSUME IInv, NEW r \in Run, CommitConflict(r)
  PROVE  IInv'
<1>1. /\ LandingInv' /\ RunOK(r) /\ Shape /\ status[r] = "load"
      /\ UNCHANGED <<partial, manifest, xcom, bronze, asset>>
  BY LandingStays DEF IInv, CommitConflict
<1>2. CASE job[r].conflicts + 1 < MaxCommits
  <2>1. /\ job' = [job EXCEPT ![r].conflicts = @ + 1]
        /\ UNCHANGED <<status, rows, receipt>>
    BY <1>2 DEF CommitConflict
  <2>2. job[r] \in Job
    BY <1>1 DEF Shape
  <2>3. /\ job' \in [Run -> Job] /\ job'[r].offset = job[r].offset
        /\ job'[r].checked = job[r].checked
    BY <1>1, <2>1, <2>2 DEF Shape, Job
  <2>4. Shape' /\ \A q \in Run \ {r} : Untouched(q)
    BY <1>1, <2>1, <2>3 DEF Shape, Untouched
  <2>5. Publishable(r)' <=> Publishable(r)
    BY <1>1 DEF Publishable, Grids
  <2>6. BatchOK(r)' /\ CheckedOK(r)' /\ HandedOver(r)' /\ PublishableOK(r)'
    BY <1>1, <2>1, <2>3, <2>5 DEF RunOK, BatchOK, CheckedOK, HandedOver, PublishableOK, Ended
  <2>7. BronzeOK(r)'
    BY <1>1, <2>1, <2>3 DEF RunOK, BronzeOK, Batch
  <2>8. QED
    BY <1>1, <2>4, <2>6, <2>7, RunMoves DEF RunOK
<1>3. CASE ~(job[r].conflicts + 1 < MaxCommits)
  <2>1. TryFails(r)
    BY <1>3 DEF CommitConflict
  <2>2. QED
    BY <1>1, <2>1, TryFailsKeeps DEF Shape
<1>4. QED
  BY <1>2, <1>3

LEMMA CommitUnknownKeeps ==
  ASSUME IInv, NEW r \in Run, CommitUnknown(r)
  PROVE  IInv'
<1>1. /\ LandingInv' /\ Shape /\ status[r] = "load" /\ Commit(r) /\ TryFails(r)
      /\ UNCHANGED <<partial, manifest, xcom, asset>>
  BY LandingStays DEF IInv, CommitUnknown
<1>2. QED
  BY <1>1, CommitSets, TryFailsKeeps DEF Shape

-----------------------------------------------------------------------------
(* Verification, the receipt and the asset.                                  *)

\* If the Bronze rows of a run count to what its batch promises, Bronze has
\* exactly the batch.
LEMMA ExactIsEqual ==
  ASSUME IInv, NEW r \in Run, status[r] = "verify", Exact(r)
  PROVE  bronze[r] = SetToBag(xcom[r])
<1> DEFINE held == {p \in DOMAIN bronze[r] : p \in xcom[r]}
           some == {p \in held : RowCount(p) > 0}
<1>1. /\ IsFiniteSet(xcom[r]) /\ bronze[r] = SetToBag(DOMAIN bronze[r])
      /\ DOMAIN bronze[r] \subseteq xcom[r]
  BY DEF IInv, RunOK, BatchOK, BronzeOK, Loaded
<1>2. Cardinality(some) = Cardinality(xcom[r])
  <2>1. Counted(r).objects = Cardinality(some)
    BY DEF Counted
  <2>2. QED
    BY <2>1 DEF Exact
<1>3. some \in SUBSET xcom[r]
  OBVIOUS
<1>4. some = xcom[r]
  BY <1>1, <1>2, <1>3, FS_Subset
<1>5. DOMAIN bronze[r] = xcom[r]
  BY <1>1, <1>4
<1>6. QED
  BY <1>1, <1>5

\* A run whose Bronze has been verified may become publishable.
LEMMA VerifiedIsWhole ==
  ASSUME IInv, NEW r \in Run, status[r] = "verify", Exact(r), Publishable(r)
  PROVE  xcom[r] \subseteq Page /\ OnePageEach(xcom[r]) /\ CoversGrids(xcom[r]) /\ bronze[r] = SetToBag(xcom[r])
BY ExactIsEqual DEF IInv, RunOK, BatchOK, CheckedOK, Publishable, Loaded

LEMMA CompletedSets ==
  ASSUME Shape, NEW r \in Run
  PROVE  /\ Completed(r) \in [Run -> SUBSET {"STARTED", "SUCCESS", "PUBLISHABLE", "FAILED"}]
         /\ \A q \in Run \ {r} : Completed(r)[q] = rows[q]
         /\ "PUBLISHABLE" \in Completed(r)[r] => "PUBLISHABLE" \in rows[r] \/ Publishable(r)
         /\ Publishable(r) => "PUBLISHABLE" \in Completed(r)[r]
BY DEF Shape, Completed

LEMMA VerifyKeeps ==
  ASSUME IInv, NEW r \in Run, Verify(r)
  PROVE  IInv'
<1>1. /\ LandingInv' /\ RunOK(r) /\ Shape /\ status[r] = "verify"
      /\ UNCHANGED <<partial, manifest, xcom, bronze, asset>>
  BY LandingStays DEF IInv, Verify
<1>2. CASE Exact(r)
  <2>1. /\ rows' = Completed(r) /\ job' = [job EXCEPT ![r] = FreshJob] /\ UNCHANGED receipt
        /\ status' = [status EXCEPT ![r] = IF r \in Replays THEN "publish" ELSE "record"]
    BY <1>2 DEF Verify
  <2>2. FreshJob \in Job
    BY DEF Job, FreshJob
  <2>3. Shape' /\ \A q \in Run \ {r} : Untouched(q)
    BY <1>1, <2>1, <2>2, CompletedSets DEF Shape, Untouched, Loaded
  <2>4. status'[r] = (IF r \in Replays THEN "publish" ELSE "record")
    BY <1>1, <2>1 DEF Shape
  <2>5. Publishable(r)' <=> Publishable(r)
    BY <1>1 DEF Publishable, Grids
  <2>6. BatchOK(r)' /\ CheckedOK(r)' /\ BronzeOK(r)'
    BY <1>1, <2>4 DEF RunOK, BatchOK, CheckedOK, BronzeOK, Loaded
  <2>7. PublishableOK(r)'
    BY <1>1, <1>2, <2>1, <2>4, <2>5, VerifiedIsWhole, CompletedSets DEF RunOK, PublishableOK
  <2>8. HandedOver(r)'
    BY <1>1, <2>1, <2>4, <2>5, CompletedSets DEF HandedOver
  <2>9. QED
    BY <1>1, <2>3, <2>6, <2>7, <2>8, RunMoves DEF RunOK
<1>3. CASE ~Exact(r)
  <2>1. TryFails(r)
    BY <1>3 DEF Verify
  <2>2. QED
    BY <1>1, <2>1, TryFailsKeeps DEF Shape
<1>4. QED
  BY <1>2, <1>3

LEMMA VerifyUnknownKeeps ==
  ASSUME IInv, NEW r \in Run, VerifyUnknown(r)
  PROVE  IInv'
<1>1. /\ LandingInv' /\ RunOK(r) /\ Shape /\ status[r] = "verify" /\ Exact(r)
      /\ rows' = Completed(r) /\ job' = [job EXCEPT ![r].try = @ + 1]
      /\ UNCHANGED <<status, partial, manifest, xcom, bronze, receipt, asset>>
  BY LandingStays DEF IInv, VerifyUnknown
<1>2. job[r] \in Job
  BY <1>1 DEF Shape
<1>3. job' \in [Run -> Job]
  BY <1>1, <1>2 DEF Shape, Job
<1>4. Shape' /\ \A q \in Run \ {r} : Untouched(q)
  BY <1>1, <1>3, CompletedSets DEF Shape, Untouched
<1>5. Publishable(r)' <=> Publishable(r)
  BY <1>1 DEF Publishable, Grids
<1>6. BatchOK(r)' /\ CheckedOK(r)' /\ BronzeOK(r)' /\ HandedOver(r)'
  BY <1>1 DEF RunOK, BatchOK, CheckedOK, BronzeOK, HandedOver
<1>7. PublishableOK(r)'
  BY <1>1, <1>5, VerifiedIsWhole, CompletedSets DEF RunOK, PublishableOK
<1>8. QED
  BY <1>1, <1>4, <1>6, <1>7, RunMoves DEF RunOK

\* A run fails after its landing, or at any time, and nothing else moves.
LEMMA RunFails ==
  ASSUME IInv, NEW r \in Run, Fail(r), UNCHANGED <<landingVars, partial, manifest, xcom, job, bronze, asset>>
  PROVE  IInv'
<1>1. LandingInv' /\ Shape
  BY LandingStays DEF IInv
<1>2. bronze' = [q \in Run |-> bronze'[q]]
  BY <1>1 DEF Shape
<1>3. RunOK(r)'
  BY <1>2, FailKeeps
<1>4. Shape' /\ \A q \in Run \ {r} : Untouched(q)
  BY <1>1, FailSets DEF Shape, Untouched, Ended
<1>5. QED
  BY <1>1, <1>3, <1>4, RunMoves

LEMMA RecordSlotsKeeps ==
  ASSUME IInv, NEW r \in Run, RecordSlots(r)
  PROVE  IInv'
<1>1. /\ LandingInv' /\ RunOK(r) /\ Shape /\ status[r] = "record"
      /\ UNCHANGED <<landingVars, partial, manifest, xcom, job, bronze, asset>>
  BY LandingStays DEF IInv, RecordSlots
<1>2. CASE Publishable(r) /\ ~Evidenced(r)
  BY <1>1, <1>2, RunFails DEF RecordSlots
<1>3. CASE ~(Publishable(r) /\ ~Evidenced(r))
  <2>1. /\ receipt' = [receipt EXCEPT ![r] = IF Publishable(r) THEN "observed" ELSE "failed"]
        /\ status' = [status EXCEPT ![r] = "publish"] /\ UNCHANGED rows
    BY <1>3 DEF RecordSlots
  <2>2. Shape' /\ \A q \in Run \ {r} : Untouched(q)
    BY <1>1, <2>1 DEF Shape, Untouched, Loaded
  <2>3. Publishable(r)' <=> Publishable(r)
    BY <1>1 DEF Publishable, Grids
  <2>4. status'[r] = "publish" /\ receipt'[r] = (IF Publishable(r) THEN "observed" ELSE "failed")
    BY <1>1, <2>1 DEF Shape
  <2>5. RunOK(r)'
    BY <1>1, <2>1, <2>3, <2>4 DEF RunOK, BatchOK, CheckedOK, BronzeOK, PublishableOK, HandedOver, Loaded
  <2>6. QED
    BY <1>1, <2>2, <2>5, RunMoves
<1>4. QED
  BY <1>2, <1>3

LEMMA PublishAssetKeeps ==
  ASSUME IInv, NEW r \in Run, PublishAsset(r)
  PROVE  IInv'
<1>1. /\ LandingInv' /\ RunOK(r) /\ Shape /\ status[r] = "publish"
      /\ UNCHANGED <<partial, manifest, xcom, job, bronze, rows, receipt>>
  BY LandingStays DEF IInv, PublishAsset
<1>2. /\ status' = [status EXCEPT ![r] = IF Publishable(r) THEN "published" ELSE "skipped"]
      /\ asset' = IF Publishable(r) THEN asset \cup {r} ELSE asset
  BY DEF PublishAsset
<1>3. Shape' /\ \A q \in Run \ {r} : Untouched(q)
  BY <1>1, <1>2 DEF Shape, Untouched, Ended
<1>4. Publishable(r)' <=> Publishable(r)
  BY <1>1 DEF Publishable, Grids
<1>5. status'[r] \in {"published", "skipped"}
  BY <1>1, <1>2 DEF Shape
<1>6. RunOK(r)'
  BY <1>1, <1>4, <1>5 DEF RunOK, BatchOK, CheckedOK, BronzeOK, PublishableOK, HandedOver, Loaded, Ended
<1>7. QED
  BY <1>1, <1>3, <1>6, RunMoves

LEMMA TaskDiesKeeps ==
  ASSUME IInv, NEW r \in Run, TaskDies(r)
  PROVE  IInv'
<1>1. UNCHANGED <<landingVars, partial, manifest, xcom, bronze, asset>> /\ LandingInv' /\ Shape
  BY LandingStays DEF TaskDies, IInv
<1>2. CASE status[r] \in {"load", "verify"}
  <2>1. TryFails(r)
    BY <1>2 DEF TaskDies
  <2>2. QED
    BY <1>1, <1>2, <2>1, TryFailsKeeps DEF Shape
<1>3. CASE status[r] \notin {"load", "verify"}
  BY <1>1, <1>3, RunFails DEF TaskDies
<1>4. QED
  BY <1>2, <1>3

-----------------------------------------------------------------------------
(* The start of a run and its landing.                                       *)

\* A queued run has no row yet.
LEMMA StartRunKeeps ==
  ASSUME IInv, NEW r \in Run, StartRun(r)
  PROVE  IInv'
<1>1. /\ LandingInv' /\ RunOK(r) /\ Shape /\ status[r] = "queued"
      /\ UNCHANGED <<manifest, xcom, job, bronze, receipt, asset>>
  BY LandingStays DEF IInv, StartRun
<1>2. /\ status' = [status EXCEPT ![r] = "landing"]
      /\ rows' = [rows EXCEPT ![r] = {"STARTED"}]
      /\ \E allow \in BOOLEAN : partial' = [partial EXCEPT ![r] = allow]
  BY DEF StartRun
<1>3. Shape' /\ \A q \in Run \ {r} : Untouched(q)
  BY <1>1, <1>2 DEF Shape, Untouched
<1>4. status'[r] = "landing" /\ "PUBLISHABLE" \notin rows'[r]
  BY <1>1, <1>2 DEF Shape
<1>5. RunOK(r)'
  BY <1>1, <1>4 DEF RunOK, BatchOK, CheckedOK, BronzeOK, PublishableOK, HandedOver, Loaded
<1>6. QED
  BY <1>1, <1>3, <1>5, RunMoves

\* A landing that succeeds hands a finite set of pages to the load.
LEMMA LandedKeeps ==
  ASSUME IInv, NEW r \in Run, NEW pages \in SUBSET Page, IsFiniteSet(pages), LandingInv',
         status[r] = "landing", manifest' \in [Run -> Pages],
         xcom' = [xcom EXCEPT ![r] = pages], status' = [status EXCEPT ![r] = "load"],
         UNCHANGED <<partial, job, bronze, rows, receipt, asset>>
  PROVE  IInv'
<1>1. RunOK(r) /\ Shape /\ ~job[r].checked /\ job[r].offset = 0
  BY DEF IInv, RunOK, HandedOver, FreshJob
<1>2. Shape' /\ \A q \in Run \ {r} : Untouched(q)
  BY <1>1 DEF Shape, Untouched, Loaded, Pages
<1>3. status'[r] = "load" /\ xcom'[r] = pages /\ "PUBLISHABLE" \notin rows'[r]
  BY <1>1 DEF Shape, RunOK, PublishableOK, Ended
<1>4. RunOK(r)'
  BY <1>1, <1>3 DEF RunOK, BatchOK, CheckedOK, BronzeOK, PublishableOK, HandedOver
<1>5. QED
  BY <1>2, <1>4, RunMoves

LEMMA ReturnBatchKeeps ==
  ASSUME IInv, NEW c \in Collector, ReturnBatch(c)
  PROVE  IInv'
<1> DEFINE r == c[1]
           accepted == Current(c) /\ status[r] = "landing"
<1>1. r \in Run
  BY CollectionAssumption
<1>2. LandingInv /\ Shape /\ lander[c].got \in SUBSET Page /\ IsFiniteSet(lander[c].got)
  BY DEF IInv, LandingInv, LanderOK, LanderState
<1>3. LandingInv'
  BY <1>2, LanderEndsKeeps DEF ReturnBatch
<1>4. UNCHANGED <<partial, manifest, job, bronze, rows, receipt, asset>>
  BY DEF ReturnBatch, loadVars
<1>5. CASE accepted
  <2>1. xcom' = [xcom EXCEPT ![r] = lander[c].got] /\ status' = [status EXCEPT ![r] = "load"]
    BY <1>5 DEF ReturnBatch
  <2>2. manifest' \in [Run -> Pages]
    BY <1>2, <1>4 DEF Shape
  <2>3. QED
    BY <1>1, <1>2, <1>3, <1>4, <1>5, <2>1, <2>2, LandedKeeps
<1>6. CASE ~accepted
  <2>1. UNCHANGED <<xcom, status>>
    BY <1>6 DEF ReturnBatch
  <2>2. Shape' /\ \A q \in Run : Untouched(q)
    BY <1>2, <1>4, <2>1 DEF Shape, Untouched
  <2>3. QED
    BY <1>3, <2>2, UntouchedKeeps DEF IInv
<1>7. QED
  BY <1>5, <1>6

\* The other steps of a collector, and of what is outside, leave the runs alone.
LEMMA ElsewhereKeeps ==
  ASSUME IInv, LandingInv', UNCHANGED <<status, partial, xcom, loadVars>>, manifest' \in [Run -> Pages]
  PROVE  IInv'
<1>1. Shape' /\ \A q \in Run : Untouched(q)
  BY DEF IInv, Shape, Untouched, loadVars
<1>2. QED
  BY <1>1, UntouchedKeeps DEF IInv

LEMMA WriteManifestKeeps ==
  ASSUME IInv, NEW c \in Collector, WriteManifest(c)
  PROVE  IInv'
<1>1. c[1] \in Run
  BY CollectionAssumption
<1>2. LandingInv /\ Shape /\ lander[c].got \in SUBSET Page
  BY DEF IInv, LandingInv, LanderOK, LanderState
<1>3. LandingInv'
  BY <1>2, LanderEndsKeeps DEF WriteManifest
<1>4. manifest' \in [Run -> Pages]
  BY <1>1, <1>2 DEF WriteManifest, Shape, Pages
<1>5. QED
  BY <1>3, <1>4, ElsewhereKeeps DEF WriteManifest

LEMMA CollectorKeeps ==
  ASSUME IInv, NEW c \in Collector, StartTry(c) \/ Collect(c) \/ Crash(c)
  PROVE  IInv'
<1>1. LandingInv /\ manifest \in [Run -> Pages] /\ c[1] \in Run
  BY CollectionAssumption DEF IInv, Shape
<1>2. CASE StartTry(c)
  BY <1>1, <1>2, LoadCheckpointKeeps, ElsewhereKeeps DEF StartTry
<1>3. CASE Collect(c)
  BY <1>1, <1>3, CollectKeeps, ElsewhereKeeps DEF Collect
<1>4. CASE Crash(c)
  BY <1>1, <1>4, CollectKeeps, ElsewhereKeeps DEF Crash
<1>5. QED
  BY <1>2, <1>3, <1>4

\* A replay takes a set of the stored objects, and they are finitely many.
LEMMA ReplayKeeps ==
  ASSUME IInv, NEW r \in Run, Replay(r)
  PROVE  IInv'
<1>1. /\ LandingInv /\ LandingInv' /\ Shape /\ status[r] = "landing"
      /\ UNCHANGED <<landingVars, partial, job, bronze, asset>>
  BY LandingStays DEF IInv, Replay
<1>2. CASE Fail(r) /\ UNCHANGED <<manifest, xcom>>
  BY <1>1, <1>2, RunFails
<1>3. CASE \E keys \in SUBSET raw \ {{}} :
            /\ CoversGrids(keys) /\ OnePageEach(keys)
            /\ manifest' = [manifest EXCEPT ![r] = keys]
            /\ xcom' = [xcom EXCEPT ![r] = keys]
            /\ status' = [status EXCEPT ![r] = "load"]
            /\ UNCHANGED <<rows, receipt>>
  <2>1. PICK keys \in SUBSET raw :
            /\ manifest' = [manifest EXCEPT ![r] = keys]
            /\ xcom' = [xcom EXCEPT ![r] = keys]
            /\ status' = [status EXCEPT ![r] = "load"]
            /\ UNCHANGED <<rows, receipt>>
    BY <1>3
  <2>2. keys \in SUBSET Page /\ IsFiniteSet(keys)
    BY <1>1, FS_Subset DEF LandingInv
  <2>3. manifest' \in [Run -> Pages]
    BY <1>1, <2>1, <2>2 DEF Shape, Pages
  <2>4. QED
    BY <1>1, <2>1, <2>2, <2>3, LandedKeeps
<1>4. QED
  BY <1>2, <1>3 DEF Replay

-----------------------------------------------------------------------------
(* The specification.                                                        *)

LEMMA InitIInv == Init => IInv
<1> SUFFICES ASSUME Init PROVE IInv
  OBVIOUS
<1>1. LandingInv
  BY IdleOK, FS_EmptySet, LandingAssumption DEF Init, LandingInit, LandingInv
<1>2. FreshJob \in Job
  BY DEF FreshJob, Job
<1>3. Shape
  BY <1>2 DEF Init, Shape, Pages
<1>4. \A r \in Run : RunOK(r)
  BY DEF Init, RunOK, BatchOK, CheckedOK, BronzeOK, PublishableOK, HandedOver, FreshJob, EmptyBag, SetToBag, Loaded
<1>5. QED
  BY <1>1, <1>3, <1>4 DEF IInv

LEMMA RunStepKeeps ==
  ASSUME IInv, NEW r \in Run, RunStep(r)
  PROVE  IInv'
<1>1. CASE r \notin Replays /\ LandingStep(r)
  <2>1. ASSUME NEW k \in 1..MaxTries PROVE <<r, k>> \in Collector
    BY <1>1, CollectionAssumption
  <2>2. CASE LandingFails(r)
    BY <2>2, RunFails DEF LandingFails
  <2>3. CASE \E k \in 1..MaxTries : LET c == <<r, k>> IN StartTry(c) \/ Collect(c) \/ WriteManifest(c) \/ ReturnBatch(c)
    BY <2>1, <2>3, CollectorKeeps, WriteManifestKeeps, ReturnBatchKeeps
  <2>4. QED
    BY <1>1, <2>2, <2>3 DEF LandingStep
<1>2. CASE Replay(r) \/ Preflight(r) \/ AppendBatch(r) \/ Verify(r) \/ RecordSlots(r) \/ PublishAsset(r)
  BY <1>2, ReplayKeeps, PreflightKeeps, AppendBatchKeeps, VerifyKeeps, RecordSlotsKeeps, PublishAssetKeeps
<1>3. QED
  BY <1>1, <1>2 DEF RunStep

LEMMA RunFaultKeeps ==
  ASSUME IInv, NEW r \in Run, RunFault(r)
  PROVE  IInv'
<1>1. ASSUME NEW k \in 1..MaxTries, r \notin Replays PROVE <<r, k>> \in Collector
  BY <1>1, CollectionAssumption
<1>2. CASE \E k \in 1..MaxTries : r \notin Replays /\ Crash(<<r, k>>)
  BY <1>1, <1>2, CollectorKeeps
<1>3. CASE RunTimeout(r)
  BY <1>3, RunFails DEF RunTimeout
<1>4. CASE CommitConflict(r) \/ CommitUnknown(r) \/ VerifyUnknown(r) \/ TaskDies(r)
  BY <1>4, CommitConflictKeeps, CommitUnknownKeeps, VerifyUnknownKeeps, TaskDiesKeeps
<1>5. QED
  BY <1>2, <1>3, <1>4 DEF RunFault

LEMMA NextIInv == IInv /\ [Next]_vars => IInv'
<1>1. ASSUME IInv, NEW r \in Run, StartRun(r) \/ RunStep(r) \/ RunFault(r) PROVE IInv'
  BY <1>1, StartRunKeeps, RunStepKeeps, RunFaultKeeps
<1>2. ASSUME IInv, Environment /\ Elsewhere PROVE IInv'
  <2>1. LandingInv /\ manifest \in [Run -> Pages]
    BY <1>2 DEF IInv, Shape
  <2>2. LandingInv'
    BY <1>2, <2>1, EnvironmentKeeps DEF Environment
  <2>3. QED
    BY <1>2, <2>1, <2>2, ElsewhereKeeps DEF Elsewhere
<1>3. ASSUME IInv, UNCHANGED vars PROVE IInv'
  <2>1. LandingInv /\ manifest \in [Run -> Pages]
    BY <1>3 DEF IInv, Shape
  <2>2. LandingInv'
    BY <1>3, <2>1, LandingStays DEF vars
  <2>3. QED
    BY <1>3, <2>1, <2>2, ElsewhereKeeps DEF vars, loadVars
<1>4. QED
  BY <1>1, <1>2, <1>3 DEF Next

LEMMA SpecIInv == Spec => []IInv
BY InitIInv, NextIInv, PTL DEF Spec

-----------------------------------------------------------------------------
(* The theorems.                                                             *)

\* The state of the collectors, the runs and what they store keeps its shape.
THEOREM TypeCorrect == Spec => []TypeOK
<1>1. IInv => TypeOK
  <2>1. ASSUME IInv PROVE LandingTypeOK
    BY <2>1 DEF IInv, LandingInv, LanderState, LandingTypeOK
  <2>2. ASSUME IInv PROVE \A r \in Run : \A b \in {manifest[r], xcom[r]} : b = None \/ b \subseteq Page
    BY <2>2 DEF IInv, Shape, Pages
  <2>3. ASSUME IInv PROVE \A r \in Run : BagToSet(bronze[r]) \subseteq Page
    BY <2>3 DEF IInv, RunOK, BronzeOK, BagToSet
  <2>4. QED
    BY <2>1, <2>2, <2>3 DEF IInv, Shape, TypeOK, Loaded
<1>2. QED
  BY <1>1, SpecIInv, PTL

\* A run that the run manifest table offers as publishable has exactly one copy
\* of one page for every page number of every grid in Bronze: for any number of
\* runs, replays, grids, tries, commit conflicts and lost answers, any batch
\* size, and although collectors that Airflow has given up go on.
THEOREM PublishableInBronze == Spec => []PublishableIsWhole
<1>1. IInv => PublishableIsWhole
  <2> SUFFICES ASSUME IInv, NEW r \in Run, "PUBLISHABLE" \in rows[r]
               PROVE  LET pages == BagToSet(bronze[r])
                      IN  /\ Grids(pages) = Grid
                          /\ OnePageEach(pages) /\ CoversGrids(pages)
                          /\ \A p \in pages : bronze[r][p] = 1
    BY DEF PublishableIsWhole
  <2>1. /\ Publishable(r) /\ OnePageEach(xcom[r]) /\ CoversGrids(xcom[r])
        /\ bronze[r] = SetToBag(xcom[r])
    BY DEF IInv, RunOK, PublishableOK
  <2>2. BagToSet(bronze[r]) = xcom[r] /\ \A p \in xcom[r] : bronze[r][p] = 1
    BY <2>1 DEF BagToSet, SetToBag
  <2>3. Grids(xcom[r]) = Grid
    BY <2>1 DEF Publishable
  <2>4. QED
    BY <2>1, <2>2, <2>3
<1>2. QED
  BY <1>1, SpecIInv, PTL

\* A run's slots become observed only when RecordSlots has found its manifest.
LEMMA ReceiptStep ==
  ASSUME IInv, Next, NEW r \in Run, receipt'[r] = "observed", receipt[r] # "observed"
  PROVE  status[r] = "record" /\ Publishable(r) /\ Evidenced(r)
<1>1. Shape
  BY DEF IInv
<1>2. ASSUME NEW q \in Run, Fail(q) PROVE FALSE
  BY <1>1, <1>2, FailSets
<1>3. ASSUME NEW q \in Run, TryFails(q) PROVE FALSE
  BY <1>2, <1>3 DEF TryFails
<1>4. ~UNCHANGED receipt
  OBVIOUS
<1>5. ~(Environment /\ Elsewhere)
  BY <1>4 DEF Elsewhere, loadVars
<1>6. PICK q \in Run : StartRun(q) \/ RunStep(q) \/ RunFault(q)
  BY <1>5 DEF Next
<1>7. ~StartRun(q) /\ ~RunFault(q)
  BY <1>2, <1>3, <1>4 DEF StartRun, RunFault, Crash, RunTimeout, CommitConflict, CommitUnknown,
    VerifyUnknown, TaskDies, loadVars
<1>8. ~LandingStep(q) /\ ~Replay(q)
  BY <1>2, <1>4 DEF LandingStep, StartTry, Collect, WriteManifest, ReturnBatch, LandingFails, Replay, loadVars
<1>9. ~(Preflight(q) \/ AppendBatch(q) \/ Verify(q) \/ PublishAsset(q))
  BY <1>3, <1>4 DEF Preflight, AppendBatch, Verify, PublishAsset
<1>10. RecordSlots(q)
  BY <1>6, <1>7, <1>8, <1>9 DEF RunStep
<1>11. /\ ~(Publishable(q) /\ ~Evidenced(q))
       /\ receipt' = [receipt EXCEPT ![q] = IF Publishable(q) THEN "observed" ELSE "failed"]
  BY <1>2, <1>10 DEF RecordSlots
<1>12. q = r /\ Publishable(r)
  BY <1>1, <1>11 DEF Shape
<1>13. QED
  BY <1>10, <1>11, <1>12 DEF RecordSlots

\* An asset event comes from PublishAsset of a publishable run.
LEMMA AssetStep ==
  ASSUME Next, NEW r \in Run, r \in asset' \ asset
  PROVE  status[r] = "publish" /\ Publishable(r)
<1>1. ~UNCHANGED asset
  OBVIOUS
<1>2. ~(Environment /\ Elsewhere)
  BY <1>1 DEF Elsewhere, loadVars
<1>3. PICK q \in Run : StartRun(q) \/ RunStep(q) \/ RunFault(q)
  BY <1>2 DEF Next
<1>4. ~StartRun(q) /\ ~RunFault(q)
  BY <1>1 DEF StartRun, RunFault, Crash, RunTimeout, CommitConflict, CommitUnknown,
    VerifyUnknown, TaskDies, loadVars
<1>5. ~LandingStep(q) /\ ~Replay(q)
  BY <1>1 DEF LandingStep, StartTry, Collect, WriteManifest, ReturnBatch, LandingFails, Replay, loadVars
<1>6. ~(Preflight(q) \/ AppendBatch(q) \/ Verify(q) \/ RecordSlots(q))
  BY <1>1 DEF Preflight, AppendBatch, Verify, RecordSlots
<1>7. PublishAsset(q)
  BY <1>3, <1>4, <1>5, <1>6 DEF RunStep
<1>8. QED
  BY <1>7 DEF PublishAsset

\* Slots become observed only while the stored manifest lists exactly what
\* Bronze holds of the run, whichever try wrote it; an asset event follows
\* observed slots or, for a replay, a publishable row.
THEOREM ReceiptsAreEvidenced == Spec => ObservedIsEvidenced
<1>1. ASSUME IInv, Next, NEW r \in Run
      PROVE  /\ receipt'[r] = "observed" /\ receipt[r] # "observed" => manifest[r] = BagToSet(bronze[r])
             /\ r \in asset' \ asset => "PUBLISHABLE" \in rows[r] /\ (r \notin Replays => receipt[r] = "observed")
  <2>1. RunOK(r)
    BY <1>1 DEF IInv
  <2>2. CASE receipt'[r] = "observed" /\ receipt[r] # "observed"
    <3>1. status[r] = "record" /\ Publishable(r) /\ manifest[r] = xcom[r]
      BY <1>1, <2>2, ReceiptStep DEF Evidenced
    <3>2. bronze[r] = SetToBag(xcom[r])
      BY <2>1, <3>1 DEF RunOK, HandedOver, PublishableOK
    <3>3. manifest[r] = BagToSet(bronze[r])
      BY <3>1, <3>2 DEF BagToSet, SetToBag
    <3>4. r \in asset' \ asset => FALSE
      BY <1>1, <3>1, AssetStep
    <3>5. QED
      BY <3>3, <3>4
  <2>3. CASE ~(receipt'[r] = "observed" /\ receipt[r] # "observed")
    <3>1. r \in asset' \ asset => status[r] = "publish" /\ Publishable(r)
      BY <1>1, AssetStep
    <3>2. QED
      BY <2>1, <2>3, <3>1 DEF RunOK, HandedOver
  <2>4. QED
    BY <2>2, <2>3
<1>2. IInv /\ [Next]_vars =>
        [\A r \in Run :
          /\ receipt'[r] = "observed" /\ receipt[r] # "observed" => manifest[r] = BagToSet(bronze[r])
          /\ r \in asset' \ asset => "PUBLISHABLE" \in rows[r] /\ (r \notin Replays => receipt[r] = "observed")]_vars
  BY <1>1
<1>3. QED
  BY <1>2, SpecIInv, PTL DEF Spec, ObservedIsEvidenced
=============================================================================
